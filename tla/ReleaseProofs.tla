--------------------------- MODULE ReleaseProofs ---------------------------
(***************************************************************************)
(* Proofs about Release, for any files, rules, images, manifests,          *)
(* baselines, assets and bounds: the types, and that a command that exits  *)
(* 0 has nothing blocking behind it.                                       *)
(***************************************************************************)
EXTENDS Release, TLAPS

USE ReleaseConstants DEF artefact, image, judged, release
---------------------------------------------------------------------------
(* Types, and what is known at each stage *)

Place ==
  /\ stage \in {"fetch", "asset", "compare"} => command = "github"
  /\ stage = "fetch" => missed = {}
  /\ stage # "image" => base = {}
  /\ stage = "image" => kind = "oci"
  /\ stage \in {"fetch", "asset", "prepare", "image"} => readable = {}
  /\ stage \in {"fetch", "asset", "prepare", "image", "manifest"} =>
       results = NoResults /\ raised = {}
  /\ stage \in {"manifest", "checks", "hook", "decide"} => kind \in Kinds

Types == TypeOK /\ Place

LEMMA NoMembers == 0 \in 0..MaxMembers
OBVIOUS

LEMMA InitTypes == Init => Types
BY NoMembers DEF Init, Types, TypeOK, Place, Stages, Commands, Kinds, NoResults

\* A check says one of the four statuses.
LEMMA CheckResultType == \A r \in Checks : CheckResult(r) \in Statuses
<1>1. /\ AllowlistManifest \in Statuses /\ ReleaseDiff \in Statuses
      /\ \A found, r : Blocker(found, r) \in Statuses
  BY DEF Blocker, AllowlistManifest, ReleaseDiff, Statuses
<1>2. QED
  BY <1>1 DEF CheckResult

LEMMA DispositionType == Disposition \in Statuses
BY DEF Disposition, Statuses

\* Concluding leaves the stages in which anything is claimed of results.
LEMMA ConcludeStage ==
  ASSUME NEW v, NEW c, Conclude(v, c)
  PROVE  /\ verdict' = v
         /\ \/ stage' = "compare" /\ command = "github" /\ code' = code
            \/ stage' = "exit" /\ command # "github" /\ code' = c
BY DEF Conclude

LEMMA PrepareTypes == Types /\ Prepare => Types'
<1> SUFFICES ASSUME Types, Prepare PROVE Types'
  OBVIOUS
<1> USE DEF Types, TypeOK, Place, Stages, Commands, Kinds
<1>1. CASE PreparationFails
  BY <1>1, ConcludeStage DEF PreparationFails, Statuses
<1>2. CASE \E k \in {"wheel", "sdist", "npm", "oci"} : stage = "prepare" /\ Take(k)
  BY <1>2 DEF Take
<1>3. CASE PreparePython
  BY <1>2, <1>3 DEF PreparePython
<1>4. CASE PrepareNpm
  BY <1>2, <1>4 DEF PrepareNpm
<1>5. CASE PrepareOci
  BY <1>2, <1>5 DEF PrepareOci
<1>6. QED
  BY <1>1, <1>3, <1>4, <1>5 DEF Prepare

LEMMA ReadTypes == Types /\ Read => Types'
<1> SUFFICES ASSUME Types, Read PROVE Types'
  OBVIOUS
<1> USE DEF Types, TypeOK, Place, Stages, Commands, Kinds
<1>1. CASE ReadFile
  BY <1>1 DEF ReadFile, ReadMember
<1>2. CASE ReadWhiteout
  BY <1>2 DEF ReadWhiteout, ReadMember
<1>3. CASE ReadDirectoryWhiteout
  BY <1>3 DEF ReadDirectoryWhiteout, ReadMember
<1>4. CASE ReadOpaque
  BY <1>4 DEF ReadOpaque, ReadMember
<1>5. CASE NextLayer
  BY <1>5 DEF NextLayer, Shipped
<1>6. CASE ImageRead
  BY <1>6, NoMembers DEF ImageRead, Shipped
<1>7. QED
  BY <1>1, <1>2, <1>3, <1>4, <1>5, <1>6 DEF Read

LEMMA JudgeTypes == Types /\ Judge => Types'
<1> SUFFICES ASSUME Types, Judge PROVE Types'
  OBVIOUS
<1> USE DEF Types, TypeOK, Place, Stages, Commands
<1>1. CASE LoadManifest
  BY <1>1 DEF LoadManifest
<1>2. ASSUME NEW r \in Checks, RunCheck(r) PROVE Types'
  <2>1. results' \in [Checks -> Statuses \cup {None}]
    BY <1>2, CheckResultType DEF RunCheck, Statuses
  <2>2. QED
    BY <1>2, <2>1 DEF RunCheck
<1>3. CASE Hook
  BY <1>3 DEF Hook
<1>4. CASE Decide
  <2>1. /\ verdict' \in Statuses \cup {None} /\ code' \in {0, 1, 2, None}
        /\ (stage' = "compare" /\ command = "github") \/ stage' = "exit"
    BY <1>4, ConcludeStage, DispositionType DEF Decide
  <2>2. QED
    BY <1>4, <2>1 DEF Decide
<1>5. QED
  BY <1>1, <1>2, <1>3, <1>4 DEF Judge

LEMMA InspectTypes == Types /\ Inspect => Types'
<1> SUFFICES ASSUME Types, Inspect PROVE Types'
  OBVIOUS
<1> USE DEF Types, TypeOK, Place, Stages, Commands
<1>1. CASE FetchFails
  BY <1>1 DEF FetchFails
<1>2. CASE Fetch
  BY <1>2 DEF Fetch
<1>3. CASE NextAsset
  BY <1>3 DEF NextAsset, Remaining
<1>4. CASE Compare
  BY <1>4 DEF Compare, NoResults
<1>5. CASE Finish
  BY <1>5 DEF Finish
<1>6. QED
  BY <1>1, <1>2, <1>3, <1>4, <1>5 DEF Inspect

LEMMA StepTypes == Types /\ [Next]_vars => Types'
<1>1. CASE UNCHANGED vars
  BY <1>1 DEF vars, Types, TypeOK, Place
<1>2. QED
  BY <1>1, PrepareTypes, ReadTypes, JudgeTypes, InspectTypes DEF Next

\* Commands, artefacts, results and releases keep their types, for every
\* image, package and published release.
THEOREM TypesKept == Spec => []TypeOK
<1>1. Types => TypeOK
  BY DEF Types
<1>2. QED
  BY InitTypes, StepTypes, <1>1, PTL DEF Spec

---------------------------------------------------------------------------
(* The inventory against the artefact *)

\* What was not lost is listed; of a wheel or an sdist the texts are read, and
\* of a package nothing is listed that it does not hold.
Listing ==
  /\ Seen \subseteq listed
  /\ kind \in {"wheel", "sdist"} => readable = listed
  /\ kind # "oci" => listed \subseteq own

\* Each check that ran said what it says of the inventory; one that raised is
\* a warning; what a preflight of its own exits with is the worst of them.
Judging ==
  /\ \A r \in Checks \ raised : results[r] \in {None, CheckResult(r)}
  /\ \A r \in raised : results[r] = "WARN"
  /\ stage \in {"hook", "decide"} => \A r \in Checks : results[r] # None
  /\ Exits("own") =>
       /\ \A r \in Checks : results[r] # None
       /\ verdict = Disposition /\ verdict # "FAIL" /\ "bare" \notin extra
       /\ kind \in Kinds

\* An asset other than the local build's is still to be looked at, was not
\* downloaded, is at hand or has made the inspection fail.
Looking ==
  /\ command = "github" => \A a \in swapped \ missed :
       \/ a \in todo \/ failed
       \/ asset = a /\ stage \notin {"fetch", "asset", "exit"}
  /\ Exits("github") => ~failed /\ todo = {} /\ Expected \subseteq present

Inv == Types /\ Listing /\ Judging /\ Looking

\* The results of the checks depend on the inventory, the manifest and the
\* baseline.
LEMMA SameResults ==
  ASSUME UNCHANGED <<kind, listed, readable, manifest, baseline>>
  PROVE  \A r : CheckResult(r)' = CheckResult(r)
<1>1. AllowlistManifest' = AllowlistManifest
  BY DEF AllowlistManifest
<1>2. ReleaseDiff' = ReleaseDiff
  BY DEF ReleaseDiff, BaselineKind, DeniedAdditions, Added
<1>3. \A r : /\ Blocker(SourceMaps, r)' = Blocker(SourceMaps, r)
             /\ Blocker(Secrets, r)' = Blocker(Secrets, r)
             /\ Blocker(InternalFiles, r)' = Blocker(InternalFiles, r)
  BY DEF Blocker, SourceMaps, Secrets, InternalFiles, Allowed
<1>4. QED
  BY <1>1, <1>2, <1>3 DEF CheckResult

LEMMA NoneIsNoStatus == None \notin Statuses /\ None \notin Kinds
OBVIOUS

LEMMA InitInv == Init => Inv
<1> SUFFICES ASSUME Init PROVE Inv
  OBVIOUS
<1>1. Listing
  BY NoneIsNoStatus DEF Init, Listing, Seen, Shipped, Kinds
<1>2. Judging
  BY DEF Init, Judging, Exits, NoResults
<1>3. Looking
  BY DEF Init, Looking, Exits
<1>4. QED
  BY <1>1, <1>2, <1>3, InitTypes DEF Inv

\* Only reading changes what is listed and held.
LEMMA ListingStays ==
  ASSUME Listing, UNCHANGED <<kind, base, hidden, own, listed, readable, unseen>>
  PROVE  Listing'
BY DEF Listing, Seen, Shipped

LEMMA ListingStep == Types /\ Listing /\ [Next]_vars => Listing'
<1> SUFFICES ASSUME Types, Listing, [Next]_vars PROVE Listing'
  OBVIOUS
<1> USE DEF Types, Place, TypeOK
<1>1. CASE \E k \in Kinds : stage = "prepare" /\ Take(k)
  BY <1>1 DEF Take, Listing, Seen, Shipped, Kinds
<1>2. CASE Prepare
  <2>1. CASE PreparationFails
    BY <2>1, ListingStays DEF PreparationFails
  <2>2. CASE PreparePython
    BY <2>2, <1>1 DEF PreparePython, Kinds
  <2>3. CASE PrepareNpm
    BY <2>3, <1>1 DEF PrepareNpm, Kinds
  <2>4. CASE PrepareOci
    BY <2>4, <1>1 DEF PrepareOci, Kinds, Listing, Seen, Shipped
  <2>5. QED
    BY <1>2, <2>1, <2>2, <2>3, <2>4 DEF Prepare
<1>3. CASE Read
  <2>1. kind = "oci" /\ kind' = "oci"
    BY <1>3 DEF Read, ReadFile, ReadWhiteout, ReadDirectoryWhiteout, ReadOpaque,
                ReadMember, NextLayer, ImageRead
  <2>2. Seen' \subseteq listed'
    <3> USE DEF Listing, Seen, Shipped, ReadMember
    <3>1. CASE ReadFile
      BY <3>1 DEF ReadFile
    <3>2. CASE ReadWhiteout
      BY <3>2 DEF ReadWhiteout
    <3>3. CASE ReadDirectoryWhiteout
      BY <3>3 DEF ReadDirectoryWhiteout
    <3>4. CASE ReadOpaque
      BY <3>4 DEF ReadOpaque
    <3>5. CASE NextLayer
      BY <3>5 DEF NextLayer
    <3>6. CASE ImageRead
      BY <3>6 DEF ImageRead
    <3>7. QED
      BY <1>3, <3>1, <3>2, <3>3, <3>4, <3>5, <3>6 DEF Read
  <2>3. QED
    BY <2>1, <2>2 DEF Listing
<1>4. CASE Judge
  BY <1>4, ListingStays DEF Judge, LoadManifest, RunCheck, Hook, Decide
<1>5. CASE Inspect
  <2>1. CASE Compare
    BY <2>1, NoneIsNoStatus DEF Compare, Listing, Seen, Shipped, Kinds
  <2>2. QED
    BY <1>5, <2>1, ListingStays DEF Inspect, FetchFails, Fetch, NextAsset, Finish
<1>6. CASE UNCHANGED vars
  BY <1>6, ListingStays DEF vars
<1>7. QED
  BY <1>2, <1>3, <1>4, <1>5, <1>6 DEF Next

---------------------------------------------------------------------------
(* The verdict *)

\* As long as there are no results, nothing was judged.
LEMMA NothingJudged ==
  ASSUME results' = NoResults, raised' = {},
         stage' \in {"fetch", "asset", "prepare", "image", "manifest", "checks"}
  PROVE  Judging'
BY DEF Judging, NoResults, Exits

LEMMA JudgingStays ==
  ASSUME Judging, stage' \notin {"hook", "decide", "exit"},
         UNCHANGED <<kind, listed, readable, manifest, baseline, results, raised>>
  PROVE  Judging'
BY SameResults DEF Judging, Exits

LEMMA JudgingStep == Types /\ Judging /\ [Next]_vars => Judging'
<1> SUFFICES ASSUME Types, Judging, [Next]_vars PROVE Judging'
  OBVIOUS
<1> USE DEF Types, Place, TypeOK
<1>1. CASE Prepare
  <2>1. CASE PreparationFails
    <3>1. ~Exits("own")'
      BY <2>1, ConcludeStage DEF PreparationFails, Exits
    <3>2. stage' \notin {"hook", "decide"}
      BY <2>1, ConcludeStage DEF PreparationFails
    <3>3. QED
      BY <2>1, <3>1, <3>2, SameResults DEF PreparationFails, Judging
  <2>2. QED
    BY <1>1, <2>1, NothingJudged
       DEF Prepare, PreparePython, PrepareNpm, PrepareOci, Take
<1>2. CASE Read
  BY <1>2, NothingJudged DEF Read, ReadFile, ReadWhiteout, ReadDirectoryWhiteout,
     ReadOpaque, ReadMember, NextLayer, ImageRead
<1>3. CASE LoadManifest
  BY <1>3, NothingJudged DEF LoadManifest
<1>4. ASSUME NEW r \in Checks, RunCheck(r) PROVE Judging'
  <2>1. \A q : CheckResult(q)' = CheckResult(q)
    BY <1>4, SameResults DEF RunCheck
  <2>2. \A q \in Checks : q # r => results'[q] = results[q]
    BY <1>4 DEF RunCheck
  <2>3. \/ results'[r] = CheckResult(r) /\ raised' = raised
        \/ results'[r] = "WARN" /\ raised' = raised \cup {r}
    BY <1>4 DEF RunCheck
  <2>4. r \in raised => results'[r] = "WARN"
    <3>1. results[r] = None
      BY <1>4 DEF RunCheck, Before, Checks, NameRules
    <3>2. r \notin raised
      BY <3>1, NoneIsNoStatus DEF Judging, Statuses
    <3>3. QED
      BY <3>2
  <2>5. results'[r] # None
    BY <2>3, CheckResultType, NoneIsNoStatus DEF Statuses
  <2>6. stage' = "hook" => \A q \in Checks : results'[q] # None
    <3>1. stage' = "hook" => r = "REL-005"
      BY <1>4 DEF RunCheck
    <3>2. r = "REL-005" => \A q \in Checks : q # r => results[q] # None
      BY <1>4 DEF RunCheck, Before, Checks, NameRules
    <3>3. QED
      BY <3>1, <3>2, <2>2, <2>5
  <2>7. stage' \in {"checks", "hook"}
    BY <1>4 DEF RunCheck
  <2>8. \A q \in Checks \ raised' : results'[q] \in {None, CheckResult(q)'}
    BY <2>1, <2>2, <2>3 DEF Judging
  <2>9. \A q \in raised' : results'[q] = "WARN"
    BY <2>2, <2>3, <2>4 DEF Judging
  <2>10. QED
    BY <2>6, <2>7, <2>8, <2>9 DEF Judging, Exits
<1>5. CASE Hook
  BY <1>5, SameResults DEF Hook, Judging, Exits
<1>6. CASE Decide
  <2>1. Disposition' = Disposition
    BY <1>6 DEF Decide, Disposition
  <2>2. Exits("own")' => /\ verdict' = Disposition /\ Disposition # "FAIL"
                         /\ "bare" \notin extra
    BY <1>6, ConcludeStage DEF Decide, Exits
  <2>3. stage' \notin {"hook", "decide"}
    BY <1>6, ConcludeStage DEF Decide
  <2>4. QED
    BY <1>6, <2>1, <2>2, <2>3, SameResults DEF Decide, Judging
<1>7. CASE Inspect
  <2>1. CASE FetchFails \/ Finish
    <3>1. ~Exits("own")'
      BY <2>1 DEF FetchFails, Finish, Exits
    <3>2. QED
      BY <2>1, <3>1, SameResults DEF FetchFails, Finish, Judging
  <2>2. CASE Fetch \/ NextAsset
    BY <2>2, JudgingStays DEF Fetch, NextAsset
  <2>3. CASE Compare
    BY <2>3, NothingJudged DEF Compare
  <2>4. QED
    BY <1>7, <2>1, <2>2, <2>3 DEF Inspect
<1>8. CASE UNCHANGED vars
  <2>1. Disposition' = Disposition
    BY <1>8 DEF vars, Disposition
  <2>2. QED
    BY <1>8, <2>1, SameResults DEF vars, Judging, Exits
<1>9. QED
  BY <1>1, <1>2, <1>3, <1>4, <1>5, <1>6, <1>7, <1>8 DEF Next, Judge

---------------------------------------------------------------------------
(* A published release *)

LEMMA LookingStep == Types /\ Looking /\ [Next]_vars => Looking'
<1> SUFFICES ASSUME Types, Looking, [Next]_vars PROVE Looking'
  OBVIOUS
<1> USE DEF Types, Place, TypeOK, Looking, Exits
<1>1. ASSUME UNCHANGED <<command, release, code>>, stage # "exit",
             stage' \notin {"fetch", "asset", "exit"}
      PROVE  Looking'
  BY <1>1
<1>2. CASE PreparationFails \/ Decide
  BY <1>2, ConcludeStage DEF PreparationFails, Decide
<1>3. CASE Prepare
  BY <1>1, <1>2, <1>3 DEF Prepare, PreparePython, PrepareNpm, PrepareOci, Take
<1>4. CASE Read
  BY <1>1, <1>4 DEF Read, ReadFile, ReadWhiteout, ReadDirectoryWhiteout,
     ReadOpaque, ReadMember, NextLayer, ImageRead
<1>5. CASE Judge
  BY <1>1, <1>2, <1>5 DEF Judge, LoadManifest, RunCheck, Hook
<1>6. CASE FetchFails
  BY <1>6 DEF FetchFails
<1>7. CASE Fetch
  BY <1>7 DEF Fetch
<1>8. CASE NextAsset
  BY <1>8 DEF NextAsset, Remaining
<1>9. CASE Compare
  BY <1>9 DEF Compare
<1>10. CASE Finish
  <2>1. failed' <=> (failed \/ ~(Expected \subseteq present))
    BY <1>10 DEF Finish
  <2>2. code' = 0 => ~failed'
    BY <1>10 DEF Finish
  <2>3. /\ stage = "asset" /\ todo = {} /\ command = "github"
        /\ UNCHANGED <<command, present, todo, missed, swapped>>
    BY <1>10 DEF Finish
  <2>4. QED
    BY <2>1, <2>2, <2>3
<1>11. CASE UNCHANGED vars
  BY <1>11 DEF vars
<1>12. QED
  BY <1>3, <1>4, <1>5, <1>6, <1>7, <1>8, <1>9, <1>10, <1>11 DEF Next, Inspect
---------------------------------------------------------------------------
(* The theorem *)

LEMMA StepInv == Inv /\ [Next]_vars => Inv'
BY StepTypes, ListingStep, JudgingStep, LookingStep DEF Inv

\* A check that ran, did not raise and let the command exit 0 did not fail.
LEMMA ChecksPassed ==
  ASSUME Inv, Exits("own")
  PROVE  /\ \A r \in Checks \ raised : CheckResult(r) # "FAIL"
         /\ verdict = "PASS" => /\ raised = {} /\ extra = {}
                                /\ CheckResult("REL-005") # "WARN"
         /\ "FAIL" \notin extra
<1>1. \A r \in Checks : results[r] # "FAIL"
  BY DEF Inv, Judging, Disposition
<1>2. \A r \in Checks \ raised : CheckResult(r) = results[r]
  BY DEF Inv, Judging
<1>3. "FAIL" \notin extra
  BY DEF Inv, Judging, Disposition
<1>4. ASSUME verdict = "PASS" PROVE "WARN" \notin {results[r] : r \in Checks} \cup extra
  BY <1>4 DEF Inv, Judging, Disposition
<1>5. ASSUME verdict = "PASS"
      PROVE  raised = {} /\ extra = {} /\ CheckResult("REL-005") # "WARN"
  <2>1. raised = {}
    BY <1>4, <1>5 DEF Inv, Judging, Types, TypeOK
  <2>2. extra = {}
    BY <1>3, <1>4, <1>5 DEF Inv, Judging, Types, TypeOK
  <2>3. QED
    BY <1>2, <1>4, <1>5, <2>1, <2>2 DEF Checks
<1>6. QED
  BY <1>1, <1>2, <1>3, <1>5

LEMMA InvIsClean == Inv => ExitZeroIsClean
<1> SUFFICES ASSUME Inv PROVE ExitZeroIsClean
  OBVIOUS
<1>1. InspectionIsClean
  BY DEF Inv, Looking, InspectionIsClean, Exits
<1>2. ASSUME Exits("own") PROVE PreflightIsClean
  <2>1. \A r \in Checks \ raised : CheckResult(r) # "FAIL"
    BY <1>2, ChecksPassed
  <2>2. Seen \subseteq listed
    BY DEF Inv, Listing
  <2>3. kind \in {"wheel", "sdist"} => readable = listed
    BY DEF Inv, Listing
  <2>4. ASSUME NEW r \in NameRules \ raised, NEW f \in Seen, Offends(r, f)
        PROVE  f \in Allowed(r)
    <3>1. CheckResult(r) # "FAIL" /\ f \in listed
      BY <2>1, <2>2 DEF Checks
    <3>2. CASE r = "REL-001"
      <4>1. SourceMaps \subseteq Allowed(r)
        BY <3>1, <3>2 DEF CheckResult, Blocker
      <4>2. f \in SourceMaps
        BY <2>3, <2>4, <3>1, <3>2 DEF Offends, SourceMaps
      <4>3. QED
        BY <4>1, <4>2
    <3>3. CASE r = "REL-002"
      <4>1. Secrets \subseteq Allowed(r)
        BY <3>1, <3>3 DEF CheckResult, Blocker
      <4>2. f \in Secrets
        BY <2>3, <2>4, <3>1, <3>3 DEF Offends, Secrets
      <4>3. QED
        BY <4>1, <4>2
    <3>4. CASE r = "REL-003"
      <4>1. InternalFiles \subseteq Allowed(r)
        BY <3>1, <3>4 DEF CheckResult, Blocker
      <4>2. f \in InternalFiles
        BY <2>4, <3>1, <3>4 DEF Offends, InternalFiles
      <4>3. QED
        BY <4>1, <4>2
    <3>5. QED
      BY <3>2, <3>3, <3>4 DEF NameRules
  <2>5. ASSUME manifest # None, "REL-004" \notin raised
        PROVE  /\ manifest.version /\ manifest.denied \cap Seen = {}
               /\ (kind # "oci" => manifest.required \subseteq Shipped)
    <3>1. AllowlistManifest # "FAIL"
      BY <2>1, <2>5 DEF CheckResult, Checks
    <3>2. /\ manifest.version /\ manifest.required \subseteq listed
          /\ manifest.denied \cap listed = {}
      BY <2>5, <3>1 DEF AllowlistManifest
    <3>3. kind # "oci" => listed \subseteq Shipped
      BY DEF Inv, Listing, Shipped
    <3>4. QED
      BY <2>2, <3>2, <3>3
  <2>6. ASSUME verdict = "PASS", baseline # None, BaselineKind = kind
        PROVE  Suspicious \cap Seen \subseteq baseline.files
    <3>1. ReleaseDiff # "WARN" /\ ReleaseDiff # "FAIL"
      BY <1>2, <2>1, <2>6, ChecksPassed DEF CheckResult, Checks
    <3>2. kind # None
      BY <1>2, NoneIsNoStatus DEF Inv, Judging
    <3>3. Suspicious \cap Added = {}
      BY <2>6, <3>1, <3>2 DEF ReleaseDiff
    <3>4. QED
      BY <2>2, <3>3 DEF Added
  <2>7. QED
    BY <1>2, <2>4, <2>5, <2>6, ChecksPassed DEF PreflightIsClean
<1>3. ~Exits("own") => PreflightIsClean
  BY DEF PreflightIsClean
<1>4. QED
  BY <1>1, <1>2, <1>3 DEF ExitZeroIsClean

\* A release command that exits 0 has nothing blocking behind it, whatever an
\* image's layers do to each other, whichever checks raise, whatever the hook
\* adds and whichever downloads fail.
THEOREM ExitsAreClean == Spec => []ExitZeroIsClean
BY InitInv, StepInv, InvIsClean, PTL DEF Spec
=============================================================================
