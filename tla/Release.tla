------------------------------ MODULE Release ------------------------------
(***************************************************************************)
(* The release engine: release-preflight takes or builds an artefact,      *)
(* lists what is in it, runs five checks under a manifest and against an   *)
(* earlier release, lets the premium hook add to their results and exits   *)
(* with the verdict; with --github-release it does so for every published  *)
(* asset, and compares each with the local build (release/, cli.py).       *)
(*                                                                         *)
(* A file is a name together with what its text holds; a pattern is the    *)
(* set of files it matches.  What a package holds, how the layers of an    *)
(* image are made up and what can be read is open.                         *)
(***************************************************************************)
EXTENDS Integers, FiniteSets

CONSTANTS
  Files,       \* files an artefact may hold
  Dirs, Under, \* directories, and the files below each
  Undotted,    \* what lstrip("./") makes of a layer's member: .env is env
  Stray,       \* and of a marker in the top directory
  Forbidden,   \* by rule, the files whose name offends
  Mapped,      \* web files whose text names a source map
  Tokened,     \* files, metadata apart, whose text holds a secret
  Suspicious,  \* files REL-005 suspects by name or size
  Manifests,   \* the manifests and
  Baselines,   \* the earlier artefacts an operator may name
  MaxMembers,  \* bound: members of the layers of an image
  MaxRaised,   \* bound: checks of one preflight that raise
  Assets,      \* the assets a published release may have
  AssetKind,   \* what the extension of each tells
  Expected,    \* the assets the manifest requires
  Local,       \* the assets the local build directory holds
  None         \* no manifest, no baseline, no asset, not yet

Commands  == {"python", "npm", "oci", "github"}
Kinds     == {"wheel", "sdist", "npm", "oci"}
NameRules == {"REL-001", "REL-002", "REL-003"}
Checks    == NameRules \cup {"REL-004", "REL-005"}

\* FAIL at severity error; one at severity warning counts as WARN.
Statuses == {"PASS", "WARN", "FAIL", "SKIPPED"}
Manifest == [allowed : [NameRules -> SUBSET Files], required : SUBSET Files,
             denied : SUBSET Files, list : BOOLEAN, version : BOOLEAN]
Baseline == [name : {".whl", ".tgz", ".tar.gz", ".tar"}, files : SUBSET Files]

ASSUME ReleaseConstants ==
  /\ Under \in [Dirs -> SUBSET Files]
  /\ Undotted \in [Files -> Files] /\ Stray \in Files
  /\ \A d \in Dirs, f \in Files : f \in Under[d] => Undotted[f] = f
  /\ Forbidden \in [NameRules -> SUBSET Files]
  /\ Mapped \subseteq Files /\ Tokened \subseteq Files /\ Suspicious \subseteq Files
  /\ Manifests \subseteq Manifest /\ Baselines \subseteq Baseline
  /\ None \notin Manifest \cup Baseline \cup Assets \cup Statuses \cup Kinds \cup Int
  /\ MaxMembers \in Nat /\ MaxRaised \in Nat
  /\ AssetKind \in [Assets -> {"wheel", "sdist", "npm", "other"}]
  /\ Expected \subseteq Assets /\ Local \subseteq Assets

VARIABLES
  command,   \* what is asked
  stage,
  kind,      \* of the artefact that is examined
  base, hidden, own, \* the image below the layer at hand, what that layer
                     \* hides of it, and its own files; a package is own
  members, skipped,  \* members read, and whether this layer cannot be
  listed,    \* the inventory
  readable,  \* the files that lie where the checks look for them
  unseen,    \* history: the files that reading the artefact lost
  manifest,  \* as loaded
  baseline,  \* the artefact compared with
  results,   \* of the checks so far
  raised,    \* the checks that raised
  extra,     \* what the hook added; "bare" is a finding that is no result
  present, todo, asset, \* a release's assets, those to look at, this one
  missed,    \* history: the assets that could not be downloaded
  swapped,   \* the local assets whose published bytes are others
  failed,    \* whether a finding says FAIL
  verdict, code

image    == <<base, hidden, own, members, skipped>>
artefact == <<kind, image, listed, readable, unseen>>
judged   == <<manifest, baseline, results, raised, extra, verdict>>
release  == <<present, todo, asset, missed, swapped, failed>>
vars == <<command, stage, artefact, judged, release, code>>

\* What the artefact really holds.
Shipped == own \cup (base \ hidden)
---------------------------------------------------------------------------
NoResults == [r \in Checks |-> None]

Init ==
  /\ command \in Commands
  /\ stage = IF command = "github" THEN "fetch" ELSE "prepare"
  /\ kind = None /\ base = {} /\ hidden = {} /\ own = {} /\ members = 0
  /\ skipped = FALSE /\ listed = {} /\ readable = {} /\ unseen = {}
  /\ manifest = None /\ baseline = None /\ results = NoResults
  /\ raised = {} /\ extra = {} /\ verdict = None
  /\ present = {} /\ todo = {} /\ asset = None /\ missed = {} /\ swapped = {}
  /\ failed = FALSE /\ code = None
---------------------------------------------------------------------------
(* The artefact *)

Asked == IF command = "github" THEN AssetKind[asset] ELSE command

\* What a published asset's preflight concludes is kept and printed; the
\* command's own preflight decides its exit.
Conclude(v, c) ==
  /\ verdict' = v
  /\ IF command = "github" THEN stage' = "compare" /\ UNCHANGED code
                           ELSE stage' = "exit" /\ code' = c

\* Nothing was given and nothing built, or the archive is corrupt.
PreparationFails ==
  /\ stage = "prepare"
  /\ Conclude("FAIL", 2)
  /\ UNCHANGED <<command, artefact, manifest, baseline, results, raised, extra,
                 release>>

\* A wheel is listed whole, and its texts are where the checks look; so are an
\* sdist's, whose links and members with paths of their own are left out.  Of an
\* npm tarball links are left out and what lies beside package/, below which its
\* paths are then listed though its texts are looked for beside it; one that
\* cannot be read is listed empty.  So is an image archive.
Take(k) ==
  /\ kind' = k
  /\ own' \in SUBSET Files
  /\ listed' \in IF k \in {"npm", "sdist"} THEN SUBSET own' ELSE IF k = "oci" THEN {{}} ELSE {own'}
  /\ readable' \in IF k = "npm" THEN {{}, listed'} ELSE {listed'}
  /\ unseen' = own' \ listed'
  /\ stage' = "manifest"
  /\ UNCHANGED <<command, base, hidden, members, skipped, judged, release, code>>

\* The wheel goes first, whether given or built; the other is not looked at.
PreparePython ==
  /\ stage = "prepare" /\ Asked \in {"python", "wheel", "sdist"}
  /\ \E have \in SUBSET {"wheel", "sdist"} :
       /\ IF Asked = "python" THEN have # {} ELSE have = {Asked}
       /\ Take(IF "wheel" \in have THEN "wheel" ELSE "sdist")

PrepareNpm == stage = "prepare" /\ Asked = "npm" /\ Take("npm")

PrepareOci ==
  /\ stage = "prepare" /\ Asked = "oci"
  /\ \/ /\ kind' = "oci" /\ stage' = "image" /\ skipped' \in BOOLEAN
        /\ UNCHANGED <<command, base, hidden, own, members, listed, readable,
                       unseen, judged, release, code>>
     \/ Take("oci")
---------------------------------------------------------------------------
(* The layers of an image, member by member *)

ReadMember ==
  /\ stage = "image" /\ members < MaxMembers /\ members' = members + 1
  /\ UNCHANGED <<command, stage, kind, base, skipped, readable, judged, release,
                 code>>

\* A file of the layer, unless it, or the layer, cannot be read.
ReadFile ==
  /\ ReadMember
  /\ \E f \in Files \ own :
       /\ own' = own \cup {f}
       /\ \/ /\ ~skipped
             /\ listed' = listed \cup {Undotted[f]}
             /\ unseen' = IF Undotted[f] = f THEN unseen \ {f} ELSE unseen \cup {f}
          \/ UNCHANGED listed /\ unseen' = unseen \cup {f}
  /\ UNCHANGED hidden

\* .wh.<name> takes a file from the layers below; the inventory loses one of
\* this layer as well, and takes a marker in the top directory for a file.
ReadWhiteout ==
  /\ ReadMember
  /\ \E f \in Files \ hidden :
       /\ hidden' = hidden \cup {f}
       /\ \/ skipped /\ UNCHANGED <<listed, unseen>>
          \/ /\ ~skipped /\ \E d \in Dirs : f \in Under[d]
             /\ listed' = listed \ {f}
             /\ unseen' = unseen \cup (own \cap {f})
          \/ /\ ~skipped /\ \A d \in Dirs : f \notin Under[d]
             /\ listed' = listed \cup {Stray} /\ UNCHANGED unseen
  /\ UNCHANGED own

\* .wh.<directory> takes all below it from the image; the inventory has no
\* key of that name.
ReadDirectoryWhiteout ==
  /\ ReadMember
  /\ \E d \in Dirs : ~(Under[d] \subseteq hidden) /\ hidden' = hidden \cup Under[d]
  /\ listed' \in IF skipped THEN {listed} ELSE {listed, listed \cup {Stray}}
  /\ UNCHANGED <<own, unseen>>

\* .wh..wh..opq hides what lower layers have in its directory; the inventory
\* also loses what this layer put there before the marker.
ReadOpaque ==
  /\ ReadMember
  /\ \/ \E d \in Dirs :
          /\ ~(Under[d] \subseteq hidden) /\ hidden' = hidden \cup Under[d]
          /\ listed' = (IF skipped THEN listed ELSE listed \ Under[d])
          /\ unseen' = (IF skipped THEN unseen ELSE unseen \cup (own \cap Under[d]))
     \/ /\ hidden # Files /\ hidden' = Files
        /\ listed' = (IF skipped THEN listed ELSE listed \cup {Stray})
        /\ UNCHANGED unseen
  /\ UNCHANGED own

NextLayer ==
  /\ stage = "image" /\ own \cup hidden # {}
  /\ base' = Shipped /\ hidden' = {} /\ own' = {} /\ skipped' \in BOOLEAN
  /\ UNCHANGED <<command, stage, kind, members, listed, readable, unseen, judged,
                 release, code>>

\* From here on the image is a package; its texts lie nowhere.
ImageRead ==
  /\ stage = "image" /\ stage' = "manifest"
  /\ own' = Shipped /\ base' = {} /\ hidden' = {} /\ members' = 0 /\ skipped' = FALSE
  /\ unseen' = unseen \cap Shipped
  /\ UNCHANGED <<command, kind, listed, readable, judged, release, code>>
---------------------------------------------------------------------------
(* The checks *)

\* A manifest that cannot be read counts as none; assets are examined without.
LoadManifest ==
  /\ stage = "manifest" /\ stage' = "checks"
  /\ manifest' \in IF command = "github" THEN {None} ELSE Manifests \cup {None}
  /\ baseline' \in IF command = "github" THEN {None} ELSE Baselines \cup {None}
  /\ UNCHANGED <<command, artefact, results, raised, extra, verdict, release, code>>

Allowed(r) == IF manifest = None THEN {} ELSE manifest.allowed[r]

\* REL-001: names, and the texts of web files that can be read.
SourceMaps == listed \cap (Forbidden["REL-001"] \cup (Mapped \cap readable))

\* REL-002: names first, then the texts of files that are there.
Secrets == listed \cap (Forbidden["REL-002"] \cup (Tokened \cap readable))

\* REL-003: names.
InternalFiles == listed \cap Forbidden["REL-003"]

Blocker(found, r) == IF found \subseteq Allowed(r) THEN "PASS" ELSE "FAIL"

\* REL-004.
AllowlistManifest ==
  IF manifest = None THEN "SKIPPED"
  ELSE IF /\ manifest.version
          /\ manifest.required \subseteq listed
          /\ manifest.denied \cap listed = {}
       THEN "PASS" ELSE "FAIL"

\* How the baseline is unpacked: by its name, and by what it is held against.
BaselineKind ==
  IF baseline.name = ".whl" THEN "wheel"
  ELSE IF baseline.name = ".tar.gz" THEN IF kind = "npm" THEN "npm" ELSE "sdist"
  ELSE IF baseline.name = ".tgz" THEN "npm" ELSE None

Added == listed \ baseline.files

\* REL-005 reads deny_always only when it is a list.
DeniedAdditions ==
  IF manifest = None THEN {} ELSE IF manifest.list THEN manifest.denied \cap Added
  ELSE {}

ReleaseDiff ==
  IF baseline = None THEN "SKIPPED"
  ELSE IF BaselineKind = None THEN "SKIPPED"
  ELSE IF BaselineKind # kind THEN "WARN"
  ELSE IF DeniedAdditions # {} THEN "FAIL"
  ELSE IF Suspicious \cap Added # {} THEN "WARN" ELSE "PASS"

CheckResult(r) ==
  IF r = "REL-001" THEN Blocker(SourceMaps, r)
  ELSE IF r = "REL-002" THEN Blocker(Secrets, r)
  ELSE IF r = "REL-003" THEN Blocker(InternalFiles, r)
  ELSE IF r = "REL-004" THEN AllowlistManifest ELSE ReleaseDiff

\* They run in the order of their numbers.
Before(r) == IF r = "REL-001" THEN {}
             ELSE IF r = "REL-002" THEN {"REL-001"}
             ELSE IF r = "REL-003" THEN {"REL-001", "REL-002"}
             ELSE IF r = "REL-004" THEN NameRules ELSE NameRules \cup {"REL-004"}

\* One that raises, over a baseline it cannot unpack, say, is a warning.
RunCheck(r) ==
  /\ stage = "checks" /\ {q \in Checks : results[q] # None} = Before(r)
  /\ \/ results' = [results EXCEPT ![r] = CheckResult(r)] /\ UNCHANGED raised
     \/ /\ Cardinality(raised) < MaxRaised
        /\ results' = [results EXCEPT ![r] = "WARN"] /\ raised' = raised \cup {r}
  /\ stage' = IF r = "REL-005" THEN "hook" ELSE "checks"
  /\ UNCHANGED <<command, artefact, manifest, baseline, extra, verdict, release,
                 code>>

\* Without the hook, or when it raises, the results stay as they are.  The
\* registry of a package's metadata adds a result, a demand of the
\* organisation's policy a bare finding.
Hook ==
  /\ stage = "hook" /\ stage' = "decide"
  /\ extra' \in SUBSET (IF kind = "oci" THEN {"bare"} ELSE {"WARN", "FAIL", "bare"})
  /\ {"WARN", "FAIL"} \cap extra' \in {{}, {"WARN"}, {"FAIL"}}
  /\ UNCHANGED <<command, artefact, manifest, baseline, results, raised, verdict,
                 release, code>>

\* Mutant: the last result to say something decides.
Bug_Disposition ==
  IF extra # {} THEN "WARN" ELSE IF results["REL-005"] \in {"WARN", "FAIL"}
  THEN results["REL-005"]
  ELSE IF \E r \in Checks : results[r] = "FAIL" THEN "FAIL" ELSE "PASS"
Disposition ==
  LET all == {results[r] : r \in Checks} \cup extra
  IN  IF "FAIL" \in all THEN "FAIL" ELSE IF "WARN" \in all THEN "WARN" ELSE "PASS"

\* A bare finding has no status to read: the preflight raises, no evidence is
\* written, and an asset's is given up.  Evidence that cannot be written
\* changes nothing.
Decide ==
  /\ stage = "decide"
  /\ IF "bare" \in extra THEN Conclude(None, 2)
     ELSE Conclude(Disposition, IF Disposition = "FAIL" THEN 1 ELSE 0)
  /\ UNCHANGED <<command, artefact, manifest, baseline, results, raised, extra,
                 release>>
---------------------------------------------------------------------------
(* A published release *)

\* The arguments make no sense, the manifest is not there or does not parse, or
\* the service does not answer as it should.
FetchFails ==
  /\ stage = "fetch" /\ stage' = "exit" /\ failed' = TRUE /\ code' \in {1, 2}
  /\ UNCHANGED <<command, artefact, judged, present, todo, asset, missed, swapped>>

Fetch ==
  /\ stage = "fetch" /\ stage' = "asset"
  /\ present' \in SUBSET Assets /\ todo' = present'
  /\ swapped' \in SUBSET (Local \cap present')
  /\ UNCHANGED <<command, artefact, judged, asset, missed, failed, code>>

\* Mutant: an asset is never done with.
Bug_Remaining(a) == todo
Remaining(a) == todo \ {a}

\* An asset without address, or whose download fails, is warned of; one of
\* another type is warned of and compared.
NextAsset ==
  /\ stage = "asset"
  /\ \E a \in todo :
       /\ asset' = a /\ todo' = Remaining(a)
       /\ \/ stage' = "asset" /\ missed' = missed \cup {a}
          \/ /\ stage' = IF AssetKind[a] = "other" THEN "compare" ELSE "prepare"
             /\ UNCHANGED missed
  /\ UNCHANGED <<command, artefact, judged, present, swapped, failed, code>>

\* Its digest is held against the local build's, if there is one; the next
\* asset starts over.
Compare ==
  /\ stage = "compare" /\ stage' = "asset"
  /\ failed' = (failed \/ asset \in swapped)
  /\ kind' = None /\ own' = {} /\ listed' = {} /\ readable' = {} /\ unseen' = {}
  /\ results' = NoResults /\ raised' = {} /\ extra' = {} /\ verdict' = None
  /\ UNCHANGED <<command, base, hidden, members, skipped, manifest, baseline,
                 present, todo, asset, missed, swapped, code>>

Finish ==
  /\ stage = "asset" /\ todo = {}
  /\ failed' = (failed \/ ~(Expected \subseteq present))
  /\ stage' = "exit" /\ code' = IF failed' THEN 1 ELSE 0
  /\ UNCHANGED <<command, artefact, judged, present, todo, asset, missed, swapped>>
---------------------------------------------------------------------------
Read == ReadFile \/ ReadWhiteout \/ ReadDirectoryWhiteout \/ ReadOpaque \/ NextLayer
        \/ ImageRead
Prepare == PreparationFails \/ PreparePython \/ PrepareNpm \/ PrepareOci
Judge == LoadManifest \/ (\E r \in Checks : RunCheck(r)) \/ Hook \/ Decide
Inspect == FetchFails \/ Fetch \/ NextAsset \/ Compare \/ Finish

Next == Prepare \/ Read \/ Judge \/ Inspect

Spec == Init /\ [][Next]_vars
---------------------------------------------------------------------------
Stages == {"fetch", "asset", "prepare", "image", "manifest", "checks", "hook",
           "decide", "compare", "exit"}

TypeOK ==
  /\ command \in Commands /\ stage \in Stages /\ kind \in Kinds \cup {None}
  /\ base \subseteq Files /\ hidden \subseteq Files /\ own \subseteq Files
  /\ members \in 0..MaxMembers /\ skipped \in BOOLEAN
  /\ listed \subseteq Files /\ readable \subseteq listed /\ unseen \subseteq Files
  /\ manifest \in Manifests \cup {None} /\ baseline \in Baselines \cup {None}
  /\ results \in [Checks -> Statuses \cup {None}]
  /\ raised \subseteq Checks /\ extra \subseteq {"WARN", "FAIL", "bare"}
  /\ present \subseteq Assets /\ todo \subseteq present
  /\ asset \in Assets \cup {None} /\ missed \subseteq present \ todo
  /\ swapped \subseteq Local \cap present /\ failed \in BOOLEAN
  /\ verdict \in Statuses \cup {None} /\ code \in {0, 1, 2, None}

Exits(c) == stage = "exit" /\ code = 0 /\ (command = "github" <=> c = "github")

\* Seen is what the artefact holds and reading it did not lose.
Seen == Shipped \ unseen

\* A file that a check which ran blocks for its name, or a wheel's or an
\* sdist's for its text.
Offends(r, f) ==
  \/ f \in Forbidden[r]
  \/ /\ kind \in {"wheel", "sdist"}
     /\ (r = "REL-001" /\ f \in Mapped) \/ (r = "REL-002" /\ f \in Tokened)

PreflightIsClean ==
  Exits("own") =>
    /\ \A r \in NameRules \ raised, f \in Seen : Offends(r, f) => f \in Allowed(r)
    /\ manifest # None /\ "REL-004" \notin raised =>
         /\ manifest.version /\ manifest.denied \cap Seen = {}
         /\ (kind # "oci" => manifest.required \subseteq Shipped)
    /\ verdict = "PASS" => raised = {} /\ extra = {}
    /\ verdict = "PASS" /\ baseline # None =>
         (BaselineKind = kind => Suspicious \cap Seen \subseteq baseline.files)
    /\ "FAIL" \notin extra

InspectionIsClean ==
  Exits("github") => Expected \subseteq present /\ swapped \subseteq missed

\* A release command that exits 0 has nothing blocking behind it.  Whatever
\* the layers of an image did to each other, whichever check raised and
\* whatever the hook added: each file the artefact holds that reading it did
\* not lose, and that a check which ran would block, is one the manifest
\* allows; what the manifest denies is not there and what it requires of a
\* package is; PASS, with an earlier release of its kind beside it, means
\* nothing suspicious was added.  After a look at a published release: what
\* was expected is there, and what was downloaded is what was built here
\* (compute_release_disposition, _cmd_release_preflight,
\* inspect_github_release).
ExitZeroIsClean == PreflightIsClean /\ InspectionIsClean
=============================================================================
