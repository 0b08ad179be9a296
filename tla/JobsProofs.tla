----------------------------- MODULE JobsProofs ------------------------------
(***************************************************************************)
(* Proofs for the builds of a site and for the ingestion of a document, and  *)
(* the types of all background jobs together.  Every copy of the manifest    *)
(* that somebody still holds is backed: what it calls stable or ready has    *)
(* been built.  So it does not matter how old the copy is that a writer      *)
(* starts from.  Which version is stable does depend on it: a write that     *)
(* crossed no other one starts from the manifest as it is, and carries the   *)
(* stable version over.  A document that is ready has behind it every step   *)
(* of the delivery that made it so, because a delivery takes the status back *)
(* before it replaces anything.                                              *)
(***************************************************************************)
EXTENDS MCJobs, ProfileRefreshProofs
-----------------------------------------------------------------------------
(* The builds of a site: what their copies of the manifest say.             *)

BuildAt == Attempting \cup {"none", "waiting", "delayed", "doomed", "completed", "failed"}
BuildRecord == [at : BuildAt, made : 0..2, stalled : BOOLEAN, seen : Manifest]
ReconcileRecord == [at : {"none", "read", "write"}, seen : Manifest]
RequestRecord == [op : {"none", "build", "retry", "rollback"}, at : {"idle", "write", "enqueue"},
                  version : 0..MaxVersions, seen : Manifest]

\* What m calls stable or ready is in b.
BackedBy(m, b) ==
    /\ m \in Manifest
    /\ m.stable # 0 => m.stable \in b
    /\ \A v \in Version : m.versions[v] = "ready" => v \in b

Published == {"publish", "ready", "settle"}

Copies ==
    /\ BackedBy(manifest, built)
    /\ BackedBy(request.seen, built)
    /\ \A v \in Version : BackedBy(build[v].seen, built) /\ BackedBy(reconcile[v].seen, built)

PublishedIsBuilt == \A v \in Version : build[v].at \in Published => v \in built

RolledBackIsBuilt ==
    request.at = "write" /\ request.op = "rollback" => request.version \in built

\* Who is about to write asked for something.
WriterAsked == request.at = "write" => request.op # "none"

SiteInv == SiteTypeOK /\ Copies /\ PublishedIsBuilt /\ RolledBackIsBuilt /\ WriterAsked

-----------------------------------------------------------------------------
(* Manifests.                                                               *)

LEMMA NoManifestBacked == ASSUME NEW b PROVE BackedBy(NoManifest, b)
<1>1. 0 \in 0..MaxVersions
  BY SiteAssumption
<1>2. [v \in Version |-> "none"] \in [Version -> Status]
  BY DEF Status
<1>3. NoManifest \in Manifest
  BY <1>1, <1>2 DEF NoManifest, Manifest, Status
<1> QED
  BY <1>3 DEF BackedBy, NoManifest

LEMMA ForVersionBacked ==
  ASSUME NEW b, NEW seen, BackedBy(seen, b), NEW v \in 0..MaxVersions,
         NEW status \in Status \ {"ready"}
  PROVE  BackedBy(ForVersion(seen, v, status), b)
<1> DEFINE statuses == [seen.versions EXCEPT ![v] = status]
<1>1. seen.versions \in [Version -> Status] /\ seen.stable \in 0..MaxVersions
  BY DEF BackedBy, Manifest
<1>2. statuses \in [Version -> Status]
  BY <1>1
<1>3. \A w \in Version : statuses[w] = "ready" => seen.versions[w] = "ready"
  BY <1>1
<1>4. ForVersion(seen, v, status) =
        [version |-> v, status |-> status, stable |-> seen.stable, versions |-> statuses]
  BY DEF ForVersion
<1> HIDE DEF statuses
<1> QED
  BY <1>1, <1>2, <1>3, <1>4 DEF BackedBy, Manifest

\* The manifest that a build publishes itself in.
LEMMA ReadyBacked ==
  ASSUME NEW b, NEW seen, BackedBy(seen, b), NEW v \in Version, v \in b
  PROVE  /\ BackedBy([ForVersion(seen, v, "ready") EXCEPT !.stable = v], b)
         /\ [ForVersion(seen, v, "ready") EXCEPT !.stable = v].stable = v
<1> DEFINE statuses == [seen.versions EXCEPT ![v] = "ready"]
<1>1. seen.versions \in [Version -> Status] /\ v \in 0..MaxVersions
  BY SiteAssumption DEF BackedBy, Manifest, Version
<1>2. statuses \in [Version -> Status]
  BY <1>1 DEF Status
<1>3. \A w \in Version : statuses[w] = "ready" => w = v \/ seen.versions[w] = "ready"
  BY <1>1
<1>4. [ForVersion(seen, v, "ready") EXCEPT !.stable = v] =
        [version |-> v, status |-> "ready", stable |-> v, versions |-> statuses]
  BY DEF ForVersion
<1> HIDE DEF statuses
<1> QED
  BY <1>1, <1>2, <1>3, <1>4 DEF BackedBy, Manifest, Status

LEMMA StatusBacked ==
  ASSUME NEW b, NEW seen, BackedBy(seen, b), NEW status \in Status
  PROVE  /\ BackedBy([seen EXCEPT !.status = status], b)
         /\ [seen EXCEPT !.status = status].stable = seen.stable
BY DEF BackedBy, Manifest

LEMMA StableBacked ==
  ASSUME NEW b, NEW seen, BackedBy(seen, b), NEW v \in 0..MaxVersions, v \in b
  PROVE  /\ BackedBy([seen EXCEPT !.stable = v], b)
         /\ [seen EXCEPT !.stable = v].stable = v
BY DEF BackedBy, Manifest

-----------------------------------------------------------------------------
(* What every step does to the copies.                                      *)

\* No copy but of the manifest, no manifest that is not backed.
Carries ==
    /\ built \subseteq built' /\ built' \subseteq Version
    /\ manifest' = manifest \/ BackedBy(manifest', built')
    /\ build' \in [Version -> BuildRecord]
    /\ \A v \in Version :
        /\ build'[v].seen \in {build[v].seen, manifest, NoManifest}
        /\ build'[v].at \in Published => build[v].at \in Published \/ v \in built'
    /\ reconcile' \in [Version -> ReconcileRecord]
    /\ \A v \in Version : reconcile'[v].seen \in {reconcile[v].seen, manifest, NoManifest}
    /\ request' \in RequestRecord
    /\ request'.seen \in {request.seen, manifest, NoManifest}
    /\ request'.at = "write" /\ request'.op = "rollback"
          => request' = request \/ request'.version \in built'
    /\ request'.at = "write" => request' = request \/ request'.op # "none"
    /\ requests' \in 0..MaxRequests /\ siteFaults' \in 0..MaxTroubles
    /\ good' \in 0..MaxVersions
    /\ crossings' \in 0..MaxTroubles /\ lost' \in BOOLEAN

\* Without a crossing the stable version is carried over or is the good one.
CarriesGood ==
    crossings' = 0 => /\ crossings = 0
                      /\ \/ manifest'.stable = manifest.stable /\ good' = good
                         \/ manifest'.stable = good'

LEMMA Typed ==
  ASSUME SiteInv
  PROVE  /\ manifest \in Manifest /\ build \in [Version -> BuildRecord]
         /\ reconcile \in [Version -> ReconcileRecord] /\ request \in RequestRecord
         /\ requests \in 0..MaxRequests /\ siteFaults \in 0..MaxTroubles
         /\ built \subseteq Version /\ good \in 0..MaxVersions
         /\ crossings \in 0..MaxTroubles /\ lost \in BOOLEAN
         /\ NoManifest \in Manifest
<1>1. NoManifest \in Manifest
  BY NoManifestBacked DEF BackedBy
<1> QED
  BY <1>1
  DEF SiteInv, SiteTypeOK, BuildRecord, BuildAt, ReconcileRecord, RequestRecord

LEMMA CarriesKeeps == ASSUME SiteInv, Carries PROVE SiteInv'
<1>1. \A m : BackedBy(m, built) => BackedBy(m, built')
  BY DEF Carries, BackedBy
<1>2. BackedBy(manifest, built') /\ BackedBy(NoManifest, built')
  BY <1>1, NoManifestBacked DEF SiteInv, Copies
<1>3. BackedBy(manifest', built')
  BY <1>2 DEF Carries
<1>4. BackedBy(request'.seen, built')
  BY <1>1, <1>2 DEF SiteInv, Copies, Carries
<1>5. \A v \in Version : BackedBy(build'[v].seen, built') /\ BackedBy(reconcile'[v].seen, built')
  BY <1>1, <1>2 DEF SiteInv, Copies, Carries
<1>6. Copies'
  BY <1>3, <1>4, <1>5 DEF Copies
<1>7. PublishedIsBuilt' /\ RolledBackIsBuilt' /\ WriterAsked'
  BY DEF SiteInv, PublishedIsBuilt, RolledBackIsBuilt, WriterAsked, Carries
<1>8. manifest' \in Manifest
  BY <1>3 DEF BackedBy
<1>9. SiteTypeOK'
  BY <1>8
  DEF Carries, SiteTypeOK, BuildRecord, BuildAt, ReconcileRecord, RequestRecord
<1> QED
  BY <1>6, <1>7, <1>9 DEF SiteInv

\* The helpers.
LEMMA CrossCounts ==
  ASSUME SiteInv, Cross
  PROVE  crossings' \in 0..MaxTroubles /\ crossings' # 0
BY Typed, SiteAssumption DEF Cross

LEMMA FaultCounts ==
  ASSUME SiteInv, SiteFault
  PROVE  siteFaults' \in 0..MaxTroubles
BY Typed, SiteAssumption DEF SiteFault

LEMMA WriteCrosses ==
  ASSUME SiteInv, NEW seen, NEW m, WriteManifest(seen, m)
  PROVE  /\ manifest' = m /\ crossings' \in 0..MaxTroubles
         /\ crossings' = 0 => crossings = 0 /\ seen = manifest
<1>1. CASE Cross
  BY <1>1, CrossCounts DEF WriteManifest
<1>2. CASE UNCHANGED crossings /\ seen = manifest
  BY <1>2, Typed DEF WriteManifest
<1> QED
  BY <1>1, <1>2 DEF WriteManifest

LEMMA ReadCrosses ==
  ASSUME SiteInv, NEW seen, ReadManifest(seen)
  PROVE  /\ seen \in {manifest, NoManifest}
         /\ crossings' \in 0..MaxTroubles /\ (crossings' = 0 => crossings = 0)
<1>1. CASE seen = manifest /\ UNCHANGED crossings
  BY <1>1, Typed
<1>2. CASE seen = NoManifest /\ Cross
  BY <1>2, CrossCounts
<1> QED
  BY <1>1, <1>2 DEF ReadManifest

\* An attempt that moves, with the copy it holds then.
LEMMA Moves ==
  ASSUME SiteInv, NEW v \in Version, NEW to \in BuildAt, NEW seen \in {manifest, NoManifest},
         build' = [build EXCEPT ![v].at = to, ![v].seen = seen]
  PROVE  /\ build' \in [Version -> BuildRecord]
         /\ build'[v].at = to /\ build'[v].seen = seen
         /\ \A w \in Version : build'[w].seen \in {build[w].seen, manifest, NoManifest}
         /\ \A w \in Version \ {v} : build'[w] = build[w]
<1>1. seen \in Manifest /\ build \in [Version -> BuildRecord]
  BY Typed
<1>2. /\ build'[v] = [build[v] EXCEPT !.at = to, !.seen = seen]
      /\ \A w \in Version \ {v} : build'[w] = build[w]
      /\ DOMAIN build' = Version
      /\ build' = [w \in Version |-> build'[w]]
  BY <1>1
<1>3. build'[v] \in BuildRecord /\ build'[v].at = to /\ build'[v].seen = seen
  BY <1>1, <1>2 DEF BuildRecord
<1>4. \A w \in Version : build'[w] \in BuildRecord
  BY <1>1, <1>2, <1>3
<1>5. build' \in [Version -> BuildRecord]
  BY <1>2, <1>4
<1> QED
  BY <1>2, <1>3, <1>5

-----------------------------------------------------------------------------
(* The requests.                                                            *)

LEMMA RequestSteps ==
  ASSUME SiteInv, AskBuild \/ AskRetry \/ AskRollback
  PROVE  Carries /\ CarriesGood
<1>1. PICK op \in {"build", "retry", "rollback"}, v \in 0..MaxVersions :
         /\ Ask(op, v, manifest)
         /\ op = "rollback" => v \in built
  <2>1. CASE AskBuild
    <3>1. manifest.version + 1 \in 0..MaxVersions
      BY <2>1, Typed, SiteAssumption DEF AskBuild, Manifest
    <3> QED
      BY <2>1, <3>1 DEF AskBuild
  <2>2. CASE AskRetry
    <3>1. manifest.version \in 0..MaxVersions
      BY Typed DEF Manifest
    <3> QED
      BY <2>2, <3>1 DEF AskRetry
  <2>3. CASE AskRollback
    <3>1. PICK v \in Version : manifest.versions[v] = "ready" /\ Ask("rollback", v, manifest)
      BY <2>3 DEF AskRollback
    <3>2. v \in built /\ v \in 0..MaxVersions
      BY <3>1, SiteAssumption DEF SiteInv, Copies, BackedBy, Version
    <3> QED
      BY <3>1, <3>2
  <2> QED
    BY <2>1, <2>2, <2>3
<1>2. /\ requests < MaxRequests /\ requests' = requests + 1
      /\ request' = [op |-> op, at |-> "write", version |-> v, seen |-> manifest]
      /\ UNCHANGED <<manifest, build, reconcile, siteFaults, built, good, crossings, lost>>
  BY <1>1 DEF Ask
<1>3. requests' \in 0..MaxRequests
  BY <1>2, Typed, SiteAssumption
<1>4. /\ request' \in RequestRecord /\ request'.seen = manifest
      /\ request'.op = op /\ request'.version = v
  BY <1>2, Typed DEF RequestRecord
<1>5. Carries
  BY <1>1, <1>2, <1>3, <1>4, Typed DEF Carries
<1> QED
  BY <1>2, <1>5 DEF CarriesGood

LEMMA WriteRequestedStep ==
  ASSUME SiteInv, WriteRequested
  PROVE  Carries /\ CarriesGood
<1> DEFINE m == Requested
<1>1. /\ request.at = "write" /\ WriteManifest(request.seen, m)
      /\ good' = IF request.op = "rollback" THEN request.version ELSE good
      /\ UNCHANGED <<build, reconcile, requests, siteFaults, built, lost>>
  BY DEF WriteRequested
<1>2. BackedBy(request.seen, built) /\ request.version \in 0..MaxVersions
  BY Typed DEF SiteInv, Copies, RequestRecord
<1>3. /\ BackedBy(m, built)
      /\ m.stable = IF request.op = "rollback" THEN request.version ELSE request.seen.stable
  <2>1. CASE request.op = "build"
    <3>1. m = ForVersion(request.seen, request.version, "queued")
      BY <2>1 DEF Requested
    <3>2. BackedBy(m, built)
      BY <1>2, <3>1, ForVersionBacked DEF Status
    <3> QED
      BY <2>1, <3>1, <3>2 DEF ForVersion
  <2>2. CASE request.op = "retry"
    <3>1. m = [request.seen EXCEPT !.status = "queued"]
      BY <2>2 DEF Requested
    <3> QED
      BY <1>2, <2>2, <3>1, StatusBacked DEF Status
  <2>3. CASE request.op \notin {"build", "retry"}
    <3>1. m = [request.seen EXCEPT !.stable = request.version]
      BY <2>3 DEF Requested
    <3>2. CASE request.op = "rollback"
      <4>1. request.version \in built
        BY <1>1, <3>2 DEF SiteInv, RolledBackIsBuilt
      <4> QED
        BY <1>2, <3>1, <3>2, <4>1, StableBacked
    <3> QED
      BY <1>1, <2>3, <3>2, Typed DEF RequestRecord, SiteInv, WriterAsked
  <2> QED
    BY <2>1, <2>2, <2>3
<1> HIDE DEF m
<1>4. /\ manifest' = m /\ crossings' \in 0..MaxTroubles
      /\ crossings' = 0 => crossings = 0 /\ request.seen = manifest
  BY <1>1, WriteCrosses
<1>5. request' \in RequestRecord /\ request'.seen = NoManifest /\ request'.at # "write"
  <2>1. Idle \in RequestRecord /\ Idle.seen = NoManifest /\ Idle.at # "write"
    BY Typed, SiteAssumption DEF Idle, RequestRecord
  <2>2. /\ [request EXCEPT !.at = "enqueue", !.seen = NoManifest] \in RequestRecord
        /\ [request EXCEPT !.at = "enqueue", !.seen = NoManifest].seen = NoManifest
        /\ [request EXCEPT !.at = "enqueue", !.seen = NoManifest].at # "write"
    BY Typed DEF RequestRecord
  <2> QED
    BY <2>1, <2>2 DEF WriteRequested
<1>6. good' \in 0..MaxVersions
  BY <1>1, <1>2, Typed
<1>7. Carries
  BY <1>1, <1>3, <1>4, <1>5, <1>6, Typed DEF Carries
<1> QED
  BY <1>1, <1>3, <1>4, <1>7 DEF CarriesGood

LEMMA EnqueueStep ==
  ASSUME SiteInv, EnqueueBuild \/ EnqueueFails
  PROVE  Carries /\ CarriesGood
<1>1. Idle \in RequestRecord /\ Idle.seen = NoManifest /\ Idle.at # "write"
  BY Typed, SiteAssumption DEF Idle, RequestRecord
<1>2. CASE EnqueueFails
  <2>1. /\ UNCHANGED <<manifest, build, reconcile, requests, built, good, crossings>>
        /\ request' = Idle /\ lost' = TRUE /\ SiteFault
    BY <1>2 DEF EnqueueFails
  <2>2. siteFaults' \in 0..MaxTroubles
    BY <2>1, FaultCounts
  <2>3. Carries
    BY <1>1, <2>1, <2>2, Typed DEF Carries
  <2> QED
    BY <2>1, <2>3 DEF CarriesGood
<1>3. CASE EnqueueBuild
  <2> DEFINE v == request.version
  <2>1. /\ UNCHANGED <<manifest, reconcile, requests, siteFaults, built, good, crossings, lost>>
        /\ request' = Idle
        /\ build' = build \/ build' = [build EXCEPT ![v].at = "waiting"]
    BY <1>3 DEF EnqueueBuild
  <2> HIDE DEF v
  <2>2. /\ build' \in [Version -> BuildRecord]
        /\ \A w \in Version : /\ build'[w].seen = build[w].seen
                              /\ build'[w].at \in Published => build[w].at \in Published
    <3>1. CASE build' = build
      BY <3>1, Typed
    <3>2. CASE build' = [build EXCEPT ![v].at = "waiting"] /\ v \in Version
      BY <3>2, Typed DEF BuildRecord, BuildAt, Published
    <3>3. CASE build' = [build EXCEPT ![v].at = "waiting"] /\ v \notin Version
      <4>1. build' \in [Version -> BuildRecord] /\ \A w \in Version : build'[w] = build[w]
        BY <3>3, Typed
      <4> QED
        BY <4>1
    <3> QED
      BY <2>1, <3>1, <3>2, <3>3
  <2>3. Carries
    BY <1>1, <2>1, <2>2, Typed DEF Carries
  <2> QED
    BY <2>1, <2>3 DEF CarriesGood
<1> QED
  BY <1>2, <1>3

-----------------------------------------------------------------------------
(* The attempts at a build.                                                 *)

\* An attempt that holds no copy between the steps and changes nothing else.
LEMMA GoesStep ==
  ASSUME SiteInv, NEW v \in Version, NEW from, NEW to \in BuildAt, BuildGoes(v, from, to),
         to \in Published => from \in Published,
         UNCHANGED <<manifest, reconcile, request, requests, built, good, crossings, lost>>,
         siteFaults' \in 0..MaxTroubles
  PROVE  Carries /\ CarriesGood
<1>1. build[v].at = from /\ build' = [build EXCEPT ![v].at = to, ![v].seen = NoManifest]
  BY DEF BuildGoes
<1>2. /\ build' \in [Version -> BuildRecord] /\ build'[v].at = to
      /\ \A w \in Version : build'[w].seen \in {build[w].seen, manifest, NoManifest}
      /\ \A w \in Version \ {v} : build'[w] = build[w]
  BY <1>1, Moves
<1>3. Carries
  BY <1>1, <1>2, Typed DEF Carries
<1> QED
  BY <1>3 DEF CarriesGood

LEMMA PlainSteps ==
  ASSUME SiteInv, NEW v \in Version,
         TakeBuild(v) \/ ThrowEarly(v) \/ BuildCompletes(v) \/ BuildFails(v) \/ BackoffEnds(v)
  PROVE  Carries /\ CarriesGood
<1>1. siteFaults \in 0..MaxTroubles
  BY Typed
<1>2. CASE ThrowEarly(v)
  <2>1. siteFaults' \in 0..MaxTroubles
    BY <1>2, FaultCounts DEF ThrowEarly
  <2>2. "throw" \in BuildAt /\ "throw" \notin Published
    BY DEF BuildAt, Attempting, Published
  <2> QED
    BY <1>2, <2>1, <2>2, GoesStep DEF ThrowEarly
<1>3. {"begin", "completed", "catch", "waiting"} \subseteq BuildAt \ Published
  BY DEF BuildAt, Attempting, Reading, Published
<1>4. CASE TakeBuild(v)
  BY <1>1, <1>3, <1>4, GoesStep DEF TakeBuild
<1>5. CASE BuildCompletes(v)
  BY <1>1, <1>3, <1>5, GoesStep DEF BuildCompletes
<1>6. CASE BuildFails(v)
  BY <1>1, <1>3, <1>6, GoesStep DEF BuildFails
<1>7. CASE BackoffEnds(v)
  BY <1>1, <1>3, <1>7, GoesStep DEF BackoffEnds
<1> QED
  BY <1>2, <1>4, <1>5, <1>6, <1>7

LEMMA WriteFilesStep ==
  ASSUME SiteInv, NEW v \in Version, WriteFiles(v)
  PROVE  Carries /\ CarriesGood
<1>1. /\ build' = [build EXCEPT ![v].at = "publish", ![v].seen = NoManifest]
      /\ built' = built \cup {v}
      /\ UNCHANGED <<manifest, reconcile, request, requests, siteFaults, good, crossings, lost>>
  BY DEF WriteFiles, BuildGoes
<1>2. "publish" \in BuildAt
  BY DEF BuildAt, Attempting, Reading
<1>3. /\ build' \in [Version -> BuildRecord]
      /\ \A w \in Version : build'[w].seen \in {build[w].seen, manifest, NoManifest}
      /\ \A w \in Version \ {v} : build'[w] = build[w]
  BY <1>1, <1>2, Moves
<1>4. Carries
  BY <1>1, <1>3, Typed DEF Carries
<1> QED
  BY <1>1, <1>4 DEF CarriesGood

LEMMA ReadStep ==
  ASSUME SiteInv, NEW v \in Version,
         ReadForRunning(v) \/ ReadForReady(v) \/ ReadForFailed(v)
  PROVE  Carries /\ CarriesGood
<1>1. PICK to \in {"mark", "ready", "fail"}, from \in {"begin", "publish", "catch"} :
         BuildReads(v, from, to) /\ (to = "ready" => from = "publish")
  BY DEF ReadForRunning, ReadForReady, ReadForFailed
<1>2. PICK seen \in {manifest, NoManifest} :
         /\ ReadManifest(seen)
         /\ build[v].at = from
         /\ build' = [build EXCEPT ![v].at = to, ![v].seen = seen]
         /\ UNCHANGED <<manifest, reconcile, request, requests, siteFaults, built, good, lost>>
  BY <1>1 DEF BuildReads
<1>3. to \in BuildAt
  BY DEF BuildAt, Attempting, Writing
<1>4. crossings' \in 0..MaxTroubles /\ (crossings' = 0 => crossings = 0)
  BY <1>2, ReadCrosses
<1>5. /\ build' \in [Version -> BuildRecord] /\ build'[v].at = to
      /\ \A w \in Version : build'[w].seen \in {build[w].seen, manifest, NoManifest}
      /\ \A w \in Version \ {v} : build'[w] = build[w]
  BY <1>2, <1>3, Moves
<1>6. build'[v].at \in Published => build[v].at \in Published
  BY <1>1, <1>2, <1>5 DEF Published
<1>7. Carries
  BY <1>2, <1>4, <1>5, <1>6, Typed DEF Carries
<1> QED
  BY <1>2, <1>4, <1>7 DEF CarriesGood

LEMMA MarkBuildStep ==
  ASSUME SiteInv, NEW v \in Version, MarkRunning(v) \/ MarkFailed(v)
  PROVE  Carries /\ CarriesGood
<1> DEFINE seen == build[v].seen
<1>1. PICK status \in {"running", "failed"}, to \in {"work", "throw"} :
         /\ build' = [build EXCEPT ![v].at = to, ![v].seen = NoManifest]
         /\ WriteManifest(seen, ForVersion(seen, v, status))
         /\ UNCHANGED <<reconcile, request, requests, siteFaults, built, good, lost>>
  BY DEF MarkRunning, MarkFailed, BuildGoes
<1>2. BackedBy(seen, built) /\ v \in 0..MaxVersions
  BY SiteAssumption DEF SiteInv, Copies, Version
<1> HIDE DEF seen
<1>3. BackedBy(ForVersion(seen, v, status), built) /\ ForVersion(seen, v, status).stable = seen.stable
  <2>1. status \in Status \ {"ready"}
    BY DEF Status
  <2> QED
    BY <1>2, <2>1, ForVersionBacked DEF ForVersion
<1>4. /\ manifest' = ForVersion(seen, v, status) /\ crossings' \in 0..MaxTroubles
      /\ crossings' = 0 => crossings = 0 /\ seen = manifest
  BY <1>1, WriteCrosses
<1>5. to \in BuildAt /\ to \notin Published
  BY DEF BuildAt, Attempting, Published
<1>6. /\ build' \in [Version -> BuildRecord] /\ build'[v].at = to
      /\ \A w \in Version : build'[w].seen \in {build[w].seen, manifest, NoManifest}
      /\ \A w \in Version \ {v} : build'[w] = build[w]
  BY <1>1, <1>5, Moves
<1>7. Carries
  BY <1>1, <1>3, <1>4, <1>5, <1>6, Typed DEF Carries
<1> QED
  BY <1>1, <1>3, <1>4, <1>7 DEF CarriesGood

LEMMA MarkBuiltStep ==
  ASSUME SiteInv, NEW v \in Version, MarkBuilt(v)
  PROVE  Carries /\ CarriesGood
<1> DEFINE seen == build[v].seen
           m == [ForVersion(seen, v, "ready") EXCEPT !.stable = v]
<1>1. /\ build[v].at = "ready"
      /\ build' = [build EXCEPT ![v].at = "settle", ![v].seen = NoManifest]
      /\ WriteManifest(seen, m)
      /\ good' = v
      /\ UNCHANGED <<reconcile, request, requests, siteFaults, built, lost>>
  BY DEF MarkBuilt, BuildGoes
<1>2. BackedBy(seen, built) /\ v \in 0..MaxVersions /\ v \in built
  BY <1>1, SiteAssumption DEF SiteInv, Copies, PublishedIsBuilt, Published, Version
<1>3. BackedBy(m, built) /\ m.stable = v
  BY <1>2, ReadyBacked
<1> HIDE DEF m, seen
<1>4. /\ manifest' = m /\ crossings' \in 0..MaxTroubles /\ (crossings' = 0 => crossings = 0)
  BY <1>1, WriteCrosses
<1>5. "settle" \in BuildAt
  BY DEF BuildAt, Attempting
<1>6. /\ build' \in [Version -> BuildRecord]
      /\ \A w \in Version : build'[w].seen \in {build[w].seen, manifest, NoManifest}
      /\ \A w \in Version \ {v} : build'[w] = build[w]
  BY <1>1, <1>5, Moves
<1>7. Carries
  BY <1>1, <1>2, <1>3, <1>4, <1>6, Typed DEF Carries
<1> QED
  BY <1>1, <1>3, <1>4, <1>7 DEF CarriesGood

-----------------------------------------------------------------------------
(* BullMQ and the failed listener.                                          *)

LEMMA ThrowStep ==
  ASSUME SiteInv, NEW v \in Version, JobThrows(v) \/ DoomedFails(v)
  PROVE  Carries /\ CarriesGood
<1>1. PICK to \in {"delayed", "failed"}, attempts \in {1, 2} :
         build' = [build EXCEPT ![v].at = to, ![v].made = attempts]
  BY DEF JobThrows, DoomedFails
<1>2. UNCHANGED <<manifest, request, requests, siteFaults, built, good, crossings>> /\ lost' \in BOOLEAN
  BY Typed DEF JobThrows, DoomedFails
<1>3. reconcile' = reconcile \/ reconcile' = [reconcile EXCEPT ![v].at = "read"]
  BY DEF JobThrows, DoomedFails
<1>4. /\ build' \in [Version -> BuildRecord]
      /\ \A w \in Version : /\ build'[w].seen = build[w].seen
                            /\ build'[w].at \in Published => build[w].at \in Published
  <2>1. /\ build'[v] = [build[v] EXCEPT !.at = to, !.made = attempts]
        /\ \A w \in Version \ {v} : build'[w] = build[w]
        /\ build' = [w \in Version |-> build'[w]]
    BY <1>1, Typed
  <2>2. to \in BuildAt \ Published /\ attempts \in 0..2
    BY DEF BuildAt, Published
  <2>3. /\ build'[v] \in BuildRecord /\ build'[v].at = to /\ build'[v].seen = build[v].seen
    <3>1. build[v] \in BuildRecord
      BY Typed
    <3> QED
      BY <2>1, <2>2, <3>1 DEF BuildRecord
  <2>4. \A w \in Version : build'[w] \in BuildRecord
    BY <2>1, <2>3, Typed
  <2> QED
    BY <2>1, <2>2, <2>3, <2>4
<1>5. /\ reconcile' \in [Version -> ReconcileRecord]
      /\ \A w \in Version : reconcile'[w].seen = reconcile[w].seen
  BY <1>3, Typed DEF ReconcileRecord
<1>6. Carries
  BY <1>2, <1>4, <1>5, Typed DEF Carries
<1> QED
  BY <1>2, <1>6 DEF CarriesGood

LEMMA ListenerReadsStep ==
  ASSUME SiteInv, NEW v \in Version, ListenerReads(v)
  PROVE  Carries /\ CarriesGood
<1>1. PICK seen \in {manifest, NoManifest} :
         /\ ReadManifest(seen)
         /\ reconcile' = [reconcile EXCEPT ![v] =
              IF seen.status \in {"none", "ready", "failed"}
              THEN [at |-> "none", seen |-> NoManifest] ELSE [at |-> "write", seen |-> seen]]
         /\ UNCHANGED <<manifest, build, request, requests, siteFaults, built, good, lost>>
  BY DEF ListenerReads
<1>2. crossings' \in 0..MaxTroubles /\ (crossings' = 0 => crossings = 0)
  BY <1>1, ReadCrosses
<1>3. PICK r \in ReconcileRecord : /\ r.seen \in {manifest, NoManifest}
                                  /\ reconcile' = [reconcile EXCEPT ![v] = r]
  <2>1. /\ [at |-> "none", seen |-> NoManifest] \in ReconcileRecord
        /\ [at |-> "write", seen |-> seen] \in ReconcileRecord
    BY <1>1, Typed DEF ReconcileRecord
  <2> QED
    BY <1>1, <2>1
<1>4. /\ reconcile' \in [Version -> ReconcileRecord]
      /\ \A w \in Version : reconcile'[w].seen \in {reconcile[w].seen, manifest, NoManifest}
  BY <1>3, Typed
<1>5. Carries
  BY <1>1, <1>2, <1>4, Typed DEF Carries
<1> QED
  BY <1>1, <1>2, <1>5 DEF CarriesGood

LEMMA ListenerWritesStep ==
  ASSUME SiteInv, NEW v \in Version, ListenerWrites(v)
  PROVE  Carries /\ CarriesGood
<1> DEFINE seen == reconcile[v].seen
           m == ForVersion(seen, seen.version, "failed")
<1>1. /\ WriteManifest(seen, m)
      /\ reconcile' = [reconcile EXCEPT ![v] = [at |-> "none", seen |-> NoManifest]]
      /\ UNCHANGED <<build, request, requests, siteFaults, built, good, lost>>
  BY DEF ListenerWrites
<1>2. BackedBy(seen, built)
  BY DEF SiteInv, Copies
<1>3. BackedBy(m, built) /\ m.stable = seen.stable
  <2>1. seen.version \in 0..MaxVersions /\ "failed" \in Status \ {"ready"}
    BY <1>2 DEF BackedBy, Manifest, Status
  <2> HIDE DEF seen
  <2> QED
    BY <1>2, <2>1, ForVersionBacked DEF ForVersion
<1> HIDE DEF m, seen
<1>4. /\ manifest' = m /\ crossings' \in 0..MaxTroubles
      /\ crossings' = 0 => crossings = 0 /\ seen = manifest
  BY <1>1, WriteCrosses
<1>5. /\ reconcile' \in [Version -> ReconcileRecord]
      /\ \A w \in Version : reconcile'[w].seen \in {reconcile[w].seen, NoManifest}
  <2>1. [at |-> "none", seen |-> NoManifest] \in ReconcileRecord
    BY Typed DEF ReconcileRecord
  <2> QED
    BY <1>1, <2>1, Typed
<1>6. Carries
  BY <1>1, <1>3, <1>4, <1>5, Typed DEF Carries
<1> QED
  BY <1>1, <1>3, <1>4, <1>6 DEF CarriesGood

LEMMA DiesStep ==
  ASSUME SiteInv, BuilderDies
  PROVE  Carries /\ CarriesGood
<1>1. /\ SiteFault /\ lost' \in BOOLEAN
      /\ UNCHANGED <<manifest, request, requests, built, good, crossings>>
      /\ build' = [v \in Version |->
           IF build[v].at \notin Attempting THEN build[v]
           ELSE [build[v] EXCEPT !.at = IF build[v].stalled THEN "doomed" ELSE "waiting",
                                 !.stalled = TRUE, !.seen = NoManifest]]
      /\ reconcile' = [v \in Version |-> [at |-> "none", seen |-> NoManifest]]
  BY Typed DEF BuilderDies
<1>2. siteFaults' \in 0..MaxTroubles
  BY <1>1, FaultCounts
<1>3. ASSUME NEW v \in Version
      PROVE  /\ build'[v] \in BuildRecord
             /\ build'[v].seen \in {build[v].seen, NoManifest}
             /\ build'[v].at \in Published => build[v].at \in Published
  <2>1. CASE build[v].at \notin Attempting
    <3>1. build'[v] = build[v]
      BY <1>1, <2>1
    <3> QED
      BY <3>1, Typed
  <2>2. CASE build[v].at \in Attempting
    <3>1. PICK to \in {"doomed", "waiting"} :
            build'[v] = [build[v] EXCEPT !.at = to, !.stalled = TRUE, !.seen = NoManifest]
      BY <1>1, <2>2
    <3>2. to \in BuildAt \ Published
      BY DEF BuildAt, Published
    <3>3. build[v] \in BuildRecord
      BY Typed
    <3>4. build'[v] \in BuildRecord /\ build'[v].at = to /\ build'[v].seen = NoManifest
      BY <3>1, <3>2, <3>3, Typed DEF BuildRecord
    <3> QED
      BY <3>2, <3>4
  <2> QED
    BY <2>1, <2>2
<1>4. build' \in [Version -> BuildRecord]
  <2>1. build' = [v \in Version |-> build'[v]]
    BY <1>1
  <2> QED
    BY <1>3, <2>1
<1>5. /\ reconcile' \in [Version -> ReconcileRecord]
      /\ \A v \in Version : reconcile'[v].seen = NoManifest
  <2>1. [at |-> "none", seen |-> NoManifest] \in ReconcileRecord
    BY Typed DEF ReconcileRecord
  <2> QED
    BY <1>1, <2>1
<1>6. Carries
  BY <1>1, <1>2, <1>3, <1>4, <1>5, Typed DEF Carries
<1> QED
  BY <1>1, <1>6 DEF CarriesGood

-----------------------------------------------------------------------------
(* The theorems.                                                            *)

LEMMA InitHolds == SiteInit => SiteInv /\ GoodVersionKept
<1> SUFFICES ASSUME SiteInit PROVE SiteInv /\ GoodVersionKept
  OBVIOUS
<1>1. BackedBy(NoManifest, built) /\ NoManifest \in Manifest
  BY NoManifestBacked DEF BackedBy
<1>2. 0 \in 0..MaxVersions /\ 0 \in 0..MaxRequests /\ 0 \in 0..MaxTroubles /\ 0 \in 0..2
  BY SiteAssumption
<1>3. /\ [at |-> "none", made |-> 0, stalled |-> FALSE, seen |-> NoManifest] \in BuildRecord
      /\ [at |-> "none", seen |-> NoManifest] \in ReconcileRecord
      /\ Idle \in RequestRecord /\ Idle.seen = NoManifest /\ Idle.at # "write"
  BY <1>1, <1>2 DEF BuildRecord, BuildAt, ReconcileRecord, RequestRecord, Idle
<1>4. /\ build \in [Version -> BuildRecord] /\ reconcile \in [Version -> ReconcileRecord]
      /\ \A v \in Version : /\ build[v].at = "none" /\ build[v].seen = NoManifest
                            /\ reconcile[v].seen = NoManifest
  BY <1>3 DEF SiteInit
<1>5. SiteTypeOK
  BY <1>1, <1>2, <1>3, <1>4
  DEF SiteInit, SiteTypeOK, BuildRecord, BuildAt, ReconcileRecord, RequestRecord
<1>6. Copies /\ PublishedIsBuilt /\ RolledBackIsBuilt /\ WriterAsked
  BY <1>1, <1>3, <1>4
  DEF SiteInit, Copies, PublishedIsBuilt, RolledBackIsBuilt, WriterAsked, Published
<1>7. GoodVersionKept
  BY DEF SiteInit, GoodVersionKept, NoManifest
<1> QED
  BY <1>5, <1>6, <1>7 DEF SiteInv

LEMMA StepCarries ==
  ASSUME SiteInv, [SiteNext]_siteVars
  PROVE  Carries /\ CarriesGood
<1>1. CASE UNCHANGED siteVars
  <2>1. Carries
    BY <1>1, Typed DEF siteVars, Carries
  <2> QED
    BY <1>1, <2>1 DEF siteVars, CarriesGood
<1>2. ASSUME NEW v \in Version,
             \/ TakeBuild(v) \/ ThrowEarly(v) \/ ReadForRunning(v) \/ MarkRunning(v)
             \/ WriteFiles(v) \/ ReadForReady(v) \/ MarkBuilt(v) \/ BuildCompletes(v)
             \/ BuildFails(v) \/ ReadForFailed(v) \/ MarkFailed(v)
             \/ JobThrows(v) \/ DoomedFails(v) \/ BackoffEnds(v)
             \/ ListenerReads(v) \/ ListenerWrites(v)
      PROVE  Carries /\ CarriesGood
  BY <1>2, PlainSteps, ReadStep, MarkBuildStep, WriteFilesStep, MarkBuiltStep, ThrowStep,
     ListenerReadsStep, ListenerWritesStep
<1> QED
  BY <1>1, <1>2, RequestSteps, WriteRequestedStep, EnqueueStep, DiesStep DEF SiteNext

\* The manifest, the jobs and everybody's copies keep their types.
THEOREM SiteTypeCorrect == SiteSpec => []SiteTypeOK
<1>1. SiteInv /\ [SiteNext]_siteVars => SiteInv'
  BY StepCarries, CarriesKeeps
<1>2. SiteInv => SiteTypeOK
  BY DEF SiteInv
<1> QED
  BY <1>1, <1>2, InitHolds, PTL DEF SiteSpec

\* The version a site offers has been built completely, however the writers of
\* its manifest cross and whoever dies.
THEOREM OffersBuilt == SiteSpec => []StableIsBuilt
<1>1. SiteInv /\ [SiteNext]_siteVars => SiteInv'
  BY StepCarries, CarriesKeeps
<1>2. SiteInv => StableIsBuilt
  BY DEF SiteInv, Copies, BackedBy, StableIsBuilt
<1> QED
  BY <1>1, <1>2, InitHolds, PTL DEF SiteSpec

\* Without a crossed write the site keeps the version that worked last, through
\* any number of failed builds, retries, deaths and listeners.
THEOREM KeepsGood == SiteSpec => []GoodVersionKept
<1>1. SiteInv /\ GoodVersionKept /\ [SiteNext]_siteVars => SiteInv' /\ GoodVersionKept'
  <2> SUFFICES ASSUME SiteInv, GoodVersionKept, [SiteNext]_siteVars
               PROVE  SiteInv' /\ GoodVersionKept'
    OBVIOUS
  <2>1. Carries /\ CarriesGood
    BY StepCarries
  <2>2. GoodVersionKept'
    BY <2>1 DEF CarriesGood, GoodVersionKept
  <2> QED
    BY <2>1, <2>2, CarriesKeeps
<1> QED
  BY <1>1, InitHolds, PTL DEF SiteSpec

-----------------------------------------------------------------------------
(* What the manifest promises.  Where no write crossed another and nobody     *)
(* who owed the manifest a step died, it speaks of the newest version, only    *)
(* the job of that version writes to it, and a promise has somebody to keep    *)
(* it: the request that will enqueue the job, the job, or a listener.          *)

AtWork == Attempting \cup {"waiting", "delayed", "doomed"}

\* There is no manifest yet, or one of a version somebody asked for.
Started == manifest = NoManifest \/ (manifest.status # "none" /\ manifest.version \in Version)

\* No version has a job before the manifest speaks of it.
NotYetAsked == \A v \in Version : v > manifest.version => build[v].at = "none"

\* What a request is about to write follows from what it read.
WellAsked == request.at = "write" =>
    /\ request.op = "build" => request.version \in Version /\ request.version = request.seen.version + 1
    /\ request.op = "retry" => request.seen.status = "failed" /\ request.version = request.seen.version
    /\ request.op = "rollback" => request.seen.status # "none"

Enqueues == request.at = "enqueue" => request.version = manifest.version

\* A listener only overwrites a promise.
WellTold == \A v \in Version :
    reconcile[v].at = "write" => reconcile[v].seen.status \in {"queued", "running"}

\* A build that published itself is what the manifest tells.
PublishedTold == \A v \in Version :
    v = manifest.version /\ build[v].at \in {"settle", "completed"} => manifest.status = "ready"

Kept == manifest.status \in {"queued", "running"} =>
    \/ request.at = "enqueue"
    \/ \E v \in Version : v = manifest.version /\ build[v].at \in AtWork
    \/ \E v \in Version : reconcile[v].at # "none"

Outlook == /\ Started /\ NotYetAsked /\ WellAsked /\ Enqueues /\ WellTold
           /\ PublishedTold /\ Kept

OutlookInv == crossings = 0 /\ ~lost => Outlook

LEMMA EmptyManifest == NoManifest.status = "none" /\ NoManifest.version = 0
  BY DEF NoManifest

\* A job at work that moves and leaves the manifest alone.
LEMMA AttemptMoves ==
  ASSUME SiteInv, Outlook, NEW v \in Version, UNCHANGED <<manifest, request>>,
         build[v].at \in AtWork, build'[v].at \in BuildAt \ {"none"},
         build'[v].at \in {"settle", "completed"} => build[v].at = "settle",
         build'[v].at = "failed" => reconcile'[v].at # "none",
         \A w \in Version \ {v} : build'[w] = build[w],
         \A w \in Version : reconcile'[w] = reconcile[w] \/ reconcile'[w].at = "read"
  PROVE  Outlook'
<1> USE DEF Outlook
<1>1. Started' /\ WellAsked' /\ Enqueues'
  BY DEF Started, WellAsked, Enqueues
<1>2. NotYetAsked'
  BY DEF NotYetAsked, AtWork, Attempting, Reading, Writing
<1>3. WellTold'
  BY DEF WellTold
<1>4. PublishedTold'
  BY DEF PublishedTold
<1>5. Kept'
  <2> SUFFICES ASSUME manifest.status \in {"queued", "running"}, request.at # "enqueue",
                      \A w \in Version : reconcile'[w].at = "none"
               PROVE  \E w \in Version : w = manifest.version /\ build'[w].at \in AtWork
    BY DEF Kept
  <2>1. \A w \in Version : reconcile[w].at = "none"
    OBVIOUS
  <2>2. PICK w \in Version : w = manifest.version /\ build[w].at \in AtWork
    BY <2>1 DEF Kept
  <2>3. CASE w = v
    <3>1. build[v].at # "settle"
      BY <2>2, <2>3 DEF PublishedTold
    <3>2. build'[v].at \in AtWork
      BY <3>1 DEF BuildAt, AtWork
    <3> QED
      BY <2>2, <2>3, <3>2
  <2> QED
    BY <2>2, <2>3
<1> QED
  BY <1>1, <1>2, <1>3, <1>4, <1>5

\* The moves of an attempt between its take and its end.
MayGo(from, to) ==
    \/ from = "waiting" /\ to = "begin"
    \/ from \in {"begin", "mark"} /\ to = "throw"
    \/ from = "begin" /\ to = "mark"
    \/ from = "work" /\ to \in {"publish", "catch"}
    \/ from = "publish" /\ to = "ready"
    \/ from = "settle" /\ to = "completed"
    \/ from = "catch" /\ to = "fail"
    \/ from = "delayed" /\ to = "waiting"

LEMMA AttemptGoes ==
  ASSUME SiteInv, OutlookInv, NEW v \in Version, NEW from, NEW to,
         NEW seen \in {manifest, NoManifest},
         MayGo(from, to), build[v].at = from,
         build' = [build EXCEPT ![v].at = to, ![v].seen = seen],
         UNCHANGED <<manifest, reconcile, request, lost>>,
         crossings' = 0 => crossings = 0
  PROVE  OutlookInv'
<1>1. /\ from \in AtWork /\ to \in BuildAt \ {"none"} /\ to # "failed"
      /\ to \in {"settle", "completed"} => from = "settle"
  BY DEF MayGo, BuildAt, AtWork, Attempting, Reading, Writing
<1>2. build'[v].at = to /\ \A w \in Version \ {v} : build'[w] = build[w]
  BY <1>1, Moves
<1> QED
  BY <1>1, <1>2, AttemptMoves DEF OutlookInv

LEMMA AttemptReads ==
  ASSUME SiteInv, OutlookInv, NEW v \in Version, NEW from, NEW to, MayGo(from, to),
         BuildReads(v, from, to)
  PROVE  OutlookInv'
<1>1. PICK seen \in {manifest, NoManifest} :
         /\ ReadManifest(seen)
         /\ build' = [build EXCEPT ![v].at = to, ![v].seen = seen]
  BY DEF BuildReads
<1>2. build[v].at = from /\ UNCHANGED <<manifest, reconcile, request, lost>>
  BY DEF BuildReads
<1>3. crossings' = 0 => crossings = 0
  BY <1>1, ReadCrosses
<1> QED
  BY <1>1, <1>2, <1>3, AttemptGoes

LEMMA AttemptSteps ==
  ASSUME SiteInv, OutlookInv, NEW v \in Version,
         \/ TakeBuild(v) \/ ThrowEarly(v) \/ ReadForRunning(v) \/ WriteFiles(v)
         \/ ReadForReady(v) \/ BuildCompletes(v) \/ BuildFails(v) \/ ReadForFailed(v)
         \/ BackoffEnds(v)
  PROVE  OutlookInv'
<1>1. CASE ReadForRunning(v)
  <2>1. MayGo("begin", "mark")
    BY DEF MayGo
  <2> QED
    BY <1>1, <2>1, AttemptReads DEF ReadForRunning
<1>2. CASE ReadForReady(v)
  <2>1. MayGo("publish", "ready")
    BY DEF MayGo
  <2> QED
    BY <1>2, <2>1, AttemptReads DEF ReadForReady
<1>3. CASE ReadForFailed(v)
  <2>1. MayGo("catch", "fail")
    BY DEF MayGo
  <2> QED
    BY <1>3, <2>1, AttemptReads DEF ReadForFailed
<1>4. CASE TakeBuild(v)
  <2>1. /\ build[v].at = "waiting" /\ build' = [build EXCEPT ![v].at = "begin", ![v].seen = NoManifest]
        /\ UNCHANGED <<manifest, reconcile, request, lost, crossings>>
    BY <1>4 DEF TakeBuild, BuildGoes
  <2>2. MayGo("waiting", "begin")
    BY DEF MayGo
  <2> QED
    BY <2>1, <2>2, AttemptGoes
<1>5. CASE WriteFiles(v)
  <2>1. /\ build[v].at = "work" /\ build' = [build EXCEPT ![v].at = "publish", ![v].seen = NoManifest]
        /\ UNCHANGED <<manifest, reconcile, request, lost, crossings>>
    BY <1>5 DEF WriteFiles, BuildGoes
  <2>2. MayGo("work", "publish")
    BY DEF MayGo
  <2> QED
    BY <2>1, <2>2, AttemptGoes
<1>6. CASE BuildCompletes(v)
  <2>1. /\ build[v].at = "settle" /\ build' = [build EXCEPT ![v].at = "completed", ![v].seen = NoManifest]
        /\ UNCHANGED <<manifest, reconcile, request, lost, crossings>>
    BY <1>6 DEF BuildCompletes, BuildGoes
  <2>2. MayGo("settle", "completed")
    BY DEF MayGo
  <2> QED
    BY <2>1, <2>2, AttemptGoes
<1>7. CASE BuildFails(v)
  <2>1. /\ build[v].at = "work" /\ build' = [build EXCEPT ![v].at = "catch", ![v].seen = NoManifest]
        /\ UNCHANGED <<manifest, reconcile, request, lost, crossings>>
    BY <1>7 DEF BuildFails, BuildGoes
  <2>2. MayGo("work", "catch")
    BY DEF MayGo
  <2> QED
    BY <2>1, <2>2, AttemptGoes
<1>8. CASE BackoffEnds(v)
  <2>1. /\ build[v].at = "delayed" /\ build' = [build EXCEPT ![v].at = "waiting", ![v].seen = NoManifest]
        /\ UNCHANGED <<manifest, reconcile, request, lost, crossings>>
    BY <1>8 DEF BackoffEnds, BuildGoes
  <2>2. MayGo("delayed", "waiting")
    BY DEF MayGo
  <2> QED
    BY <2>1, <2>2, AttemptGoes
<1>9. CASE ThrowEarly(v)
  <2>1. /\ build[v].at \in {"begin", "mark"}
        /\ build' = [build EXCEPT ![v].at = "throw", ![v].seen = NoManifest]
        /\ UNCHANGED <<manifest, reconcile, request, lost, crossings>>
    BY <1>9 DEF ThrowEarly, BuildGoes
  <2>2. MayGo(build[v].at, "throw")
    BY <2>1 DEF MayGo
  <2> QED
    BY <2>1, <2>2, AttemptGoes
<1> QED
  BY <1>1, <1>2, <1>3, <1>4, <1>5, <1>6, <1>7, <1>8, <1>9

LEMMA ThrowSteps ==
  ASSUME SiteInv, OutlookInv, NEW v \in Version, JobThrows(v) \/ DoomedFails(v)
  PROVE  OutlookInv'
<1>1. build[v].at \in AtWork
  BY DEF JobThrows, DoomedFails, AtWork, Attempting
<1>2. PICK to \in {"delayed", "failed"}, attempts \in {1, 2} :
         /\ build' = [build EXCEPT ![v].at = to, ![v].made = attempts]
         /\ ~lost' /\ to = "failed" => reconcile' = [reconcile EXCEPT ![v].at = "read"]
  BY DEF JobThrows, DoomedFails
<1>3. UNCHANGED <<manifest, request, crossings>> /\ (~lost' => ~lost)
  BY DEF JobThrows, DoomedFails
<1>4. \A w \in Version : reconcile'[w] = reconcile[w] \/ reconcile'[w].at = "read"
  <2>1. reconcile' = reconcile \/ reconcile' = [reconcile EXCEPT ![v].at = "read"]
    BY DEF JobThrows, DoomedFails
  <2> QED
    BY <2>1, Typed DEF ReconcileRecord
<1>5. build'[v].at = to /\ \A w \in Version \ {v} : build'[w] = build[w]
  BY <1>2, Typed DEF BuildRecord
<1>6. ~lost' /\ to = "failed" => reconcile'[v].at = "read"
  BY <1>2, Typed DEF ReconcileRecord
<1>7. to \in BuildAt
  BY DEF BuildAt
<1> QED
  BY <1>1, <1>3, <1>4, <1>5, <1>6, <1>7, AttemptMoves DEF OutlookInv


\* A write that crosses nothing starts from the manifest and does not go back.
LEMMA WriteInOrder ==
  ASSUME SiteInv, NEW seen, NEW m, WriteManifest(seen, m), crossings' = 0
  PROVE  manifest' = m /\ crossings = 0 /\ seen = manifest /\ m.version >= manifest.version
<1>1. ~Cross
  BY CrossCounts
<1> QED
  BY <1>1 DEF WriteManifest

\* The job of the manifest's version writes how far it is.
LEMMA Marked ==
  ASSUME SiteInv, Outlook, NEW v \in Version, build[v].at # "none",
         v >= manifest.version, manifest'.version = v,
         manifest'.status \in {"running", "ready", "failed"},
         build'[v].at \in BuildAt \ {"none", "completed"},
         manifest'.status = "running" => build'[v].at = "work",
         build'[v].at = "settle" => manifest'.status = "ready",
         \A w \in Version \ {v} : build'[w] = build[w],
         UNCHANGED <<reconcile, request>>
  PROVE  Outlook'
<1> USE DEF Outlook
<1>1. v = manifest.version
  <2>1. v \in Nat /\ manifest.version \in Nat
    BY Typed, SiteAssumption DEF Version, Manifest
  <2> QED
    BY <2>1 DEF NotYetAsked
<1>2. Started'
  BY DEF Started
<1>3. NotYetAsked' /\ WellAsked' /\ Enqueues' /\ WellTold'
  BY <1>1 DEF NotYetAsked, WellAsked, Enqueues, WellTold
<1>4. PublishedTold' /\ Kept'
  BY <1>1 DEF PublishedTold, Kept, AtWork, Attempting
<1> QED
  BY <1>2, <1>3, <1>4

LEMMA MarkBuildSteps ==
  ASSUME SiteInv, OutlookInv, NEW v \in Version,
         MarkRunning(v) \/ MarkBuilt(v) \/ MarkFailed(v)
  PROVE  OutlookInv'
<1> SUFFICES ASSUME crossings' = 0, ~lost' PROVE Outlook'
  BY DEF OutlookInv
<1> DEFINE seen == build[v].seen
<1>1. CASE MarkRunning(v)
  <2> DEFINE m == ForVersion(seen, v, "running")
  <2>1. /\ build[v].at = "mark" /\ build' = [build EXCEPT ![v].at = "work", ![v].seen = NoManifest]
        /\ WriteManifest(seen, m)
        /\ UNCHANGED <<reconcile, request, lost>>
    BY <1>1 DEF MarkRunning, BuildGoes
  <2>2. m.version = v /\ m.status = "running"
    BY DEF ForVersion
  <2>3. "work" \in BuildAt
    BY DEF BuildAt, Attempting
  <2>4. build'[v].at = "work" /\ \A w \in Version \ {v} : build'[w] = build[w]
    BY <2>1, <2>3, Moves
  <2> HIDE DEF m, seen
  <2>5. manifest' = m /\ crossings = 0 /\ m.version >= manifest.version
    BY <2>1, WriteInOrder
  <2> QED
    BY <2>1, <2>2, <2>3, <2>4, <2>5, Marked DEF OutlookInv
<1>2. CASE MarkFailed(v)
  <2> DEFINE m == ForVersion(seen, v, "failed")
  <2>1. /\ build[v].at = "fail" /\ build' = [build EXCEPT ![v].at = "throw", ![v].seen = NoManifest]
        /\ WriteManifest(seen, m)
        /\ UNCHANGED <<reconcile, request, lost>>
    BY <1>2 DEF MarkFailed, BuildGoes
  <2>2. m.version = v /\ m.status = "failed"
    BY DEF ForVersion
  <2>3. "throw" \in BuildAt
    BY DEF BuildAt, Attempting
  <2>4. build'[v].at = "throw" /\ \A w \in Version \ {v} : build'[w] = build[w]
    BY <2>1, <2>3, Moves
  <2> HIDE DEF m, seen
  <2>5. manifest' = m /\ crossings = 0 /\ m.version >= manifest.version
    BY <2>1, WriteInOrder
  <2> QED
    BY <2>1, <2>2, <2>3, <2>4, <2>5, Marked DEF OutlookInv
<1>3. CASE MarkBuilt(v)
  <2> DEFINE m == [ForVersion(seen, v, "ready") EXCEPT !.stable = v]
  <2>1. /\ build[v].at = "ready" /\ build' = [build EXCEPT ![v].at = "settle", ![v].seen = NoManifest]
        /\ WriteManifest(seen, m)
        /\ UNCHANGED <<reconcile, request, lost>>
    BY <1>3 DEF MarkBuilt, BuildGoes
  <2>2. m.version = v /\ m.status = "ready"
    BY DEF ForVersion
  <2>3. "settle" \in BuildAt
    BY DEF BuildAt, Attempting
  <2>4. build'[v].at = "settle" /\ \A w \in Version \ {v} : build'[w] = build[w]
    BY <2>1, <2>3, Moves
  <2> HIDE DEF m, seen
  <2>5. manifest' = m /\ crossings = 0 /\ m.version >= manifest.version
    BY <2>1, WriteInOrder
  <2> QED
    BY <2>1, <2>2, <2>3, <2>4, <2>5, Marked DEF OutlookInv
<1> QED
  BY <1>1, <1>2, <1>3

LEMMA AskSteps ==
  ASSUME SiteInv, OutlookInv, AskBuild \/ AskRetry \/ AskRollback
  PROVE  OutlookInv'
<1> SUFFICES ASSUME crossings' = 0, ~lost' PROVE Outlook'
  BY DEF OutlookInv
<1>1. /\ request.at = "idle" /\ request'.at = "write" /\ request'.seen = manifest
      /\ UNCHANGED <<manifest, build, reconcile, crossings, lost>>
  BY DEF AskBuild, AskRetry, AskRollback, Ask
<1>2. Outlook
  BY <1>1 DEF OutlookInv
<1>3. WellAsked'
  <2>1. CASE AskBuild
    <3>1. /\ request'.op = "build" /\ request'.version = manifest.version + 1
          /\ manifest.version < MaxVersions
      BY <2>1 DEF AskBuild, Ask
    <3>2. request'.version \in Version
      BY <3>1, Typed, SiteAssumption DEF Manifest, Version
    <3> QED
      BY <1>1, <3>1, <3>2 DEF WellAsked
  <2>2. CASE AskRetry
    BY <1>1, <2>2 DEF AskRetry, Ask, WellAsked
  <2>3. CASE AskRollback
    <3>1. PICK v \in Version : manifest.versions[v] = "ready"
      BY <2>3 DEF AskRollback
    <3>2. manifest # NoManifest
      BY <3>1 DEF NoManifest
    <3>3. request'.op = "rollback"
      BY <2>3 DEF AskRollback, Ask
    <3> QED
      BY <1>1, <1>2, <3>2, <3>3 DEF WellAsked, Outlook, Started
  <2> QED
    BY <2>1, <2>2, <2>3
<1>4. Started' /\ NotYetAsked' /\ Enqueues' /\ WellTold' /\ PublishedTold'
  BY <1>1, <1>2 DEF Outlook, Started, NotYetAsked, Enqueues, WellTold, PublishedTold
<1>5. Kept'
  BY <1>1, <1>2 DEF Outlook, Kept
<1> QED
  BY <1>3, <1>4, <1>5 DEF Outlook

LEMMA WriteRequestedOutlook ==
  ASSUME SiteInv, OutlookInv, WriteRequested
  PROVE  OutlookInv'
<1> SUFFICES ASSUME crossings' = 0, ~lost' PROVE Outlook'
  BY DEF OutlookInv
<1> DEFINE m == Requested
<1>1. request.at = "write" /\ WriteManifest(request.seen, m)
  BY DEF WriteRequested
<1>2. UNCHANGED <<build, reconcile, lost>>
  BY DEF WriteRequested
<1> HIDE DEF m
<1>3. manifest' = m /\ crossings = 0 /\ request.seen = manifest
  BY <1>1, WriteInOrder
<1>4. Outlook
  BY <1>2, <1>3 DEF OutlookInv
<1>5. manifest \in Manifest /\ request \in RequestRecord
  BY Typed
<1>6. CASE request.op \in {"build", "retry"}
  <2>1. request' = [request EXCEPT !.at = "enqueue", !.seen = NoManifest]
    BY <1>6 DEF WriteRequested
  <2>2. request'.at = "enqueue" /\ request'.version = request.version
    BY <1>5, <2>1 DEF RequestRecord
  <2>3. /\ m.status = "queued" /\ m.version = request.version
        /\ \/ request.version \in Version /\ request.version = manifest.version + 1
           \/ request.version = manifest.version /\ manifest.status = "failed"
    <3>1. CASE request.op = "build"
      <4>1. m = ForVersion(request.seen, request.version, "queued")
        BY <3>1 DEF m, Requested
      <4> QED
        BY <1>1, <1>3, <1>4, <3>1, <4>1 DEF ForVersion, Outlook, WellAsked
    <3>2. CASE request.op = "retry"
      <4>1. m = [request.seen EXCEPT !.status = "queued"]
        BY <3>2 DEF m, Requested
      <4>2. m.status = "queued" /\ m.version = manifest.version
        BY <1>3, <1>5, <4>1 DEF Manifest
      <4> QED
        BY <1>1, <1>3, <1>4, <3>2, <4>2 DEF Outlook, WellAsked
    <3> QED
      BY <1>6, <3>1, <3>2
  <2>4. manifest.version \in Nat /\ Version \subseteq Nat
    BY <1>5, SiteAssumption DEF Manifest, Version
  <2>5. Started'
    BY <1>3, <1>4, <2>3, EmptyManifest DEF Outlook, Started
  <2>6. NotYetAsked' /\ PublishedTold'
    BY <1>2, <1>3, <1>4, <2>3, <2>4 DEF Outlook, NotYetAsked, PublishedTold
  <2>7. WellAsked' /\ Enqueues' /\ WellTold' /\ Kept'
    BY <1>2, <1>3, <1>4, <2>2, <2>3 DEF Outlook, WellAsked, Enqueues, WellTold, Kept
  <2> QED
    BY <2>5, <2>6, <2>7 DEF Outlook
<1>7. CASE request.op \notin {"build", "retry"}
  <2>1. request' = Idle
    BY <1>7 DEF WriteRequested
  <2>2. m = [request.seen EXCEPT !.stable = request.version]
    BY <1>7 DEF m, Requested
  <2>3. m.status = manifest.status /\ m.version = manifest.version
    BY <1>3, <1>5, <2>2 DEF Manifest
  <2>4. request.op = "rollback"
    BY <1>1, <1>5, <1>7 DEF RequestRecord, SiteInv, WriterAsked
  <2>5. manifest.status # "none"
    BY <1>1, <1>3, <1>4, <2>4 DEF Outlook, WellAsked
  <2>6. Started'
    BY <1>3, <1>4, <2>3, <2>5, EmptyManifest DEF Outlook, Started
  <2>7. NotYetAsked' /\ PublishedTold' /\ WellAsked' /\ Enqueues' /\ WellTold'
    BY <1>2, <1>3, <1>4, <2>1, <2>3 DEF Outlook, NotYetAsked, PublishedTold, WellAsked,
       Enqueues, WellTold, Idle
  <2>8. Kept'
    BY <1>1, <1>2, <1>3, <1>4, <2>3 DEF Outlook, Kept
  <2> QED
    BY <2>6, <2>7, <2>8 DEF Outlook
<1> QED
  BY <1>6, <1>7

LEMMA EnqueueSteps ==
  ASSUME SiteInv, OutlookInv, EnqueueBuild \/ EnqueueFails
  PROVE  OutlookInv'
<1>1. CASE EnqueueFails
  BY <1>1 DEF EnqueueFails, OutlookInv
<1>2. CASE EnqueueBuild
  <2> SUFFICES ASSUME crossings' = 0, ~lost' PROVE Outlook'
    BY DEF OutlookInv
  <2> DEFINE v == request.version
  <2>1. request.at = "enqueue" /\ request' = Idle /\ UNCHANGED <<manifest, reconcile, crossings, lost>>
    BY <1>2 DEF EnqueueBuild
  <2>2. Outlook
    BY <2>1 DEF OutlookInv
  <2>3. v = manifest.version /\ Idle.at = "idle"
    BY <2>1, <2>2 DEF Outlook, Enqueues, Idle
  <2>4. build' = IF build[v].at \in {"none", "failed"} THEN [build EXCEPT ![v].at = "waiting"] ELSE build
    BY <1>2 DEF EnqueueBuild
  <2> HIDE DEF v
  <2>5. \A w \in Version : \/ build'[w] = build[w] /\ (w = v => build[w].at \notin {"none", "failed"})
                           \/ w = v /\ build'[w].at = "waiting"
    BY <2>4, Typed DEF BuildRecord
  <2>6. Started' /\ NotYetAsked' /\ WellAsked' /\ Enqueues' /\ WellTold' /\ PublishedTold'
    <3>1. manifest.version \in Nat /\ Version \subseteq Nat
      BY Typed, SiteAssumption DEF Manifest, Version
    <3> QED
      BY <2>1, <2>2, <2>3, <2>5, <3>1 DEF Outlook, Started, NotYetAsked, WellAsked, Enqueues,
         WellTold, PublishedTold
  <2>7. Kept'
    <3> SUFFICES ASSUME manifest.status \in {"queued", "running"}
                 PROVE  v \in Version /\ build'[v].at \in AtWork
      BY <2>1, <2>3 DEF Kept
    <3>1. v \in Version
      BY <2>2, <2>3, EmptyManifest DEF Outlook, Started
    <3>2. build[v].at \notin {"settle", "completed"}
      BY <2>2, <2>3, <3>1 DEF Outlook, PublishedTold
    <3>3. build[v].at \in BuildAt
      BY <3>1, Typed DEF BuildRecord
    <3>4. CASE build'[v].at = "waiting"
      BY <3>1, <3>4 DEF AtWork
    <3>5. CASE build'[v] = build[v] /\ build[v].at \notin {"none", "failed"}
      BY <3>1, <3>2, <3>3, <3>5 DEF AtWork, BuildAt
    <3> QED
      BY <2>5, <3>1, <3>4, <3>5
  <2> QED
    BY <2>6, <2>7 DEF Outlook
<1> QED
  BY <1>1, <1>2

LEMMA ListenerSteps ==
  ASSUME SiteInv, OutlookInv, NEW v \in Version, ListenerReads(v) \/ ListenerWrites(v)
  PROVE  OutlookInv'
<1> SUFFICES ASSUME crossings' = 0, ~lost' PROVE Outlook'
  BY DEF OutlookInv
<1> DEFINE rest == [at |-> "none", seen |-> NoManifest]
<1>1. CASE ListenerReads(v)
  <2>1. PICK seen \in {manifest, NoManifest} :
          /\ ReadManifest(seen)
          /\ reconcile' = [reconcile EXCEPT ![v] =
               IF seen.status \in {"none", "ready", "failed"}
               THEN rest ELSE [at |-> "write", seen |-> seen]]
    BY <1>1 DEF ListenerReads
  <2>2. reconcile[v].at = "read" /\ UNCHANGED <<manifest, build, request, lost>>
    BY <1>1 DEF ListenerReads
  <2>3. seen = manifest /\ crossings = 0
    <3>1. ~Cross
      BY CrossCounts
    <3> QED
      BY <2>1, <3>1 DEF ReadManifest
  <2>4. Outlook
    BY <2>2, <2>3 DEF OutlookInv
  <2>5. /\ \A w \in Version \ {v} : reconcile'[w] = reconcile[w]
        /\ IF manifest.status \in {"none", "ready", "failed"} THEN reconcile'[v].at = "none"
           ELSE reconcile'[v].at = "write" /\ reconcile'[v].seen = manifest
    BY <2>1, <2>3, Typed
  <2>6. manifest.status \in Status
    BY Typed DEF Manifest
  <2>7. WellTold'
    BY <2>4, <2>5, <2>6 DEF Outlook, WellTold, Status
  <2>8. Kept'
    BY <2>2, <2>4, <2>5, <2>6 DEF Outlook, Kept, Status
  <2> QED
    BY <2>2, <2>4, <2>7, <2>8 DEF Outlook, Started, NotYetAsked, WellAsked, Enqueues,
       PublishedTold
<1>2. CASE ListenerWrites(v)
  <2> DEFINE seen == reconcile[v].seen
             m == ForVersion(seen, seen.version, "failed")
  <2>1. reconcile[v].at = "write" /\ WriteManifest(seen, m)
    BY <1>2 DEF ListenerWrites
  <2>2. reconcile' = [reconcile EXCEPT ![v] = rest] /\ UNCHANGED <<build, request, lost>>
    BY <1>2 DEF ListenerWrites
  <2>3. m.version = seen.version /\ m.status = "failed"
    BY DEF ForVersion
  <2> HIDE DEF m
  <2>4. manifest' = m /\ crossings = 0 /\ seen = manifest
    BY <2>1, WriteInOrder
  <2>5. Outlook
    BY <2>2, <2>4 DEF OutlookInv
  <2>6. manifest.status \in {"queued", "running"}
    BY <2>1, <2>4, <2>5 DEF Outlook, WellTold
  <2>7. manifest'.version = manifest.version /\ manifest'.status = "failed"
    BY <2>3, <2>4
  <2>8. \A w \in Version : reconcile'[w] = reconcile[w] \/ reconcile'[w].at = "none"
    BY <2>2, Typed
  <2> HIDE DEF seen
  <2>9. Started' /\ NotYetAsked' /\ WellAsked' /\ Enqueues' /\ WellTold' /\ Kept'
    BY <2>2, <2>5, <2>6, <2>7, <2>8, EmptyManifest DEF Outlook, Started, NotYetAsked,
       WellAsked, Enqueues,
       WellTold, Kept
  <2>10. PublishedTold'
    BY <2>2, <2>5, <2>6, <2>7 DEF Outlook, PublishedTold
  <2> QED
    BY <2>9, <2>10 DEF Outlook
<1> QED
  BY <1>1, <1>2

LEMMA DiesSteps ==
  ASSUME SiteInv, OutlookInv, BuilderDies
  PROVE  OutlookInv'
<1> SUFFICES ASSUME crossings' = 0, ~lost' PROVE Outlook'
  BY DEF OutlookInv
<1>1. /\ UNCHANGED <<manifest, request, crossings>> /\ ~lost
      /\ \A v \in Version : reconcile[v].at = "none"
  BY DEF BuilderDies
<1>2. Outlook
  BY <1>1 DEF OutlookInv
<1>3. \A v \in Version : reconcile'[v].at = "none"
  BY DEF BuilderDies
<1>4. ASSUME NEW v \in Version
      PROVE  \/ build[v].at \notin Attempting /\ build'[v] = build[v]
             \/ build[v].at \in Attempting /\ build'[v].at \in {"doomed", "waiting"}
  <2>1. build'[v] = IF build[v].at \notin Attempting THEN build[v]
                    ELSE [build[v] EXCEPT !.at = IF build[v].stalled THEN "doomed" ELSE "waiting",
                                          !.stalled = TRUE, !.seen = NoManifest]
    BY DEF BuilderDies
  <2> QED
    BY <2>1, Typed DEF BuildRecord
<1>5. Started' /\ NotYetAsked' /\ WellAsked' /\ Enqueues' /\ WellTold' /\ PublishedTold'
  BY <1>1, <1>2, <1>3, <1>4 DEF Outlook, Started, NotYetAsked, WellAsked, Enqueues, WellTold,
     PublishedTold, Attempting, Reading, Writing
<1>6. Kept'
  BY <1>1, <1>2, <1>3, <1>4 DEF Outlook, Kept, AtWork
<1> QED
  BY <1>5, <1>6 DEF Outlook

LEMMA StepOutlook ==
  ASSUME SiteInv, OutlookInv, [SiteNext]_siteVars
  PROVE  OutlookInv'
<1>1. CASE UNCHANGED siteVars
  BY <1>1 DEF siteVars, OutlookInv, Outlook, Started, NotYetAsked, WellAsked, Enqueues, WellTold,
     PublishedTold, Kept
<1>2. ASSUME NEW v \in Version,
             \/ TakeBuild(v) \/ ThrowEarly(v) \/ ReadForRunning(v) \/ MarkRunning(v)
             \/ WriteFiles(v) \/ ReadForReady(v) \/ MarkBuilt(v) \/ BuildCompletes(v)
             \/ BuildFails(v) \/ ReadForFailed(v) \/ MarkFailed(v)
             \/ JobThrows(v) \/ DoomedFails(v) \/ BackoffEnds(v)
             \/ ListenerReads(v) \/ ListenerWrites(v)
      PROVE  OutlookInv'
  BY <1>2, AttemptSteps, MarkBuildSteps, ThrowSteps, ListenerSteps
<1> QED
  BY <1>1, <1>2, AskSteps, WriteRequestedOutlook, EnqueueSteps, DiesSteps DEF SiteNext

\* When nobody is at work any more the manifest promises nothing, and a build
\* that completed is told as ready: for any number of versions, requests, deaths
\* and retries, as long as no write crossed another and no listener was lost.
\* Once its requests, builds and listeners are at rest, the manifest tells how the
\* newest build ended, unless a write crossed another or somebody died.
THEOREM PromisesSettled == SiteSpec => []SiteSettles
<1>1. SiteInit => OutlookInv
  <2> SUFFICES ASSUME SiteInit PROVE Outlook
    BY DEF OutlookInv
  <2>1. /\ manifest = NoManifest /\ request.at = "idle"
        /\ \A v \in Version : build[v].at = "none" /\ reconcile[v].at = "none"
    BY DEF SiteInit, Idle
  <2> QED
    BY <2>1, EmptyManifest DEF Outlook, Started, NotYetAsked, WellAsked, Enqueues, WellTold,
       PublishedTold, Kept
<1>2. SiteInv /\ OutlookInv /\ [SiteNext]_siteVars => SiteInv' /\ OutlookInv'
  BY StepCarries, CarriesKeeps, StepOutlook
<1>3. SiteInv /\ OutlookInv => SiteSettles
  <2> SUFFICES ASSUME SiteInv, Outlook, request.at = "idle", manifest # NoManifest,
                      \A v \in Version : /\ build[v].at \in {"none", "completed", "failed"}
                                         /\ reconcile[v].at = "none"
               PROVE  /\ manifest.status \in {"ready", "failed"}
                      /\ build[manifest.version].at = "completed" => manifest.status = "ready"
    BY DEF OutlookInv, SiteSettles
  <2>1. manifest.status # "none" /\ manifest.version \in Version
    BY DEF Outlook, Started
  <2>2. manifest.status \notin {"queued", "running"}
    BY DEF Outlook, Kept, AtWork, Attempting, Reading, Writing
  <2>3. manifest.status \in Status
    BY Typed DEF Manifest
  <2> QED
    BY <2>1, <2>2, <2>3 DEF Outlook, PublishedTold, Status
<1> QED
  BY <1>1, <1>2, <1>3, InitHolds, PTL DEF SiteSpec

-----------------------------------------------------------------------------
(* The document.                                                            *)

Stalls == IF ingest.stalled THEN 1 ELSE 0

\* Past the step that writes the pages; the delivery has to end before another begins.
HasWritten == {"purge", "embed", "upsert", "ready", "return", "catch"}

\* A deletion that left "idle" goes on without the upload and the ingest.
Deleting ==
    /\ deletePc \in {"file", "images", "chunks", "done"} => document.status = "deleted"
    /\ uploadPc = "create" => document.status = "none" /\ deletePc = "idle"

\* The job comes last of the upload.
JobIsLast == uploadPc # "accepted" => ingest.pc = "none"

\* Every delivery that wrote pages threw, stalled, or is the one at work.
PagesCounted ==
    /\ ingest.pc # "spent" => ingest.thrown < MaxIngests
    /\ ingest.pc \notin {"spent", "gone"} =>
           ingest.wrote <= ingest.thrown + Stalls + (IF ingest.pc \in HasWritten THEN 1 ELSE 0)

\* While a delivery replaces what there is, chats may not use the document.
NotYetReady ==
    ingest.pc \in InIngest \ {"begin", "return"} => document.status # "ready"

\* What a delivery has behind it holds as long as the row exists.
Behind ==
    document.status # "deleted" =>
        /\ ingest.pc \in ({"images", "pages"} \cup HasWritten) \ {"catch"} => docFile
        /\ ingest.pc \in HasWritten \ {"return", "catch"} => document.pages = ingest.wrote /\ document.pages # 0
        /\ ingest.pc \in {"embed", "upsert"} => docChunks = {}
        /\ ingest.pc = "upsert" => ingest.seen = document.pages
        /\ ingest.pc = "ready" => docChunks = {document.pages}

\* Tables have one generation of pages.
OneTable == document.kind = "tabular" => ingest.wrote \in {0, 1}

\* An image that was stored is there until the row is gone.
ImagesKept ==
    document.status # "deleted" => (ingest.shown \/ document.listed => docImage)

DocumentInv ==
    /\ DocumentTypeOK /\ Deleting /\ JobIsLast /\ PagesCounted /\ NotYetReady
    /\ Behind /\ OneTable /\ ImagesKept /\ ReadyIsComplete

-----------------------------------------------------------------------------
(* Invariance of the document.                                              *)

DocumentRow == [status : {"none", "uploading", "queued", "ocr_processing",
                          "embedding_processing", "ready", "failed", "deleted"},
                kind : {"paged", "tabular"}, r2Key : BOOLEAN,
                pages : {0} \cup Generation, listed : BOOLEAN]
IngestRecord == [pc : {"none", "waiting", "catch", "gone", "spent"} \cup InIngest,
                 thrown : 0..MaxIngests, stalled : BOOLEAN,
                 wrote : {0} \cup Generation, shown : BOOLEAN, seen : {0} \cup Generation]

LEMMA StepDocument == DocumentInv /\ [DocumentNext]_documentVars => DocumentInv'
<1> SUFFICES ASSUME DocumentInv, [DocumentNext]_documentVars PROVE DocumentInv'
  OBVIOUS
<1> USE DEF DocumentInv, DocumentTypeOK, Generation, MaxIngests, InIngest, RowExists
<1>1. CASE CreateDocument
  <2>1. DocumentTypeOK'
    BY <1>1 DEF CreateDocument, PagesCounted, Stalls, HasWritten, OneTable
  <2>2. (Deleting /\ JobIsLast)'
    BY <1>1 DEF CreateDocument, Deleting, JobIsLast
  <2>3. (PagesCounted /\ OneTable)'
    BY <1>1 DEF CreateDocument, PagesCounted, OneTable, Stalls, HasWritten, JobIsLast
  <2>4. (NotYetReady /\ ImagesKept)'
    BY <1>1 DEF CreateDocument, NotYetReady, ImagesKept, Deleting, JobIsLast
  <2>5. Behind'
    BY <1>1 DEF CreateDocument, Behind, HasWritten, NotYetReady, Deleting, OneTable, JobIsLast
  <2>6. ReadyIsComplete'
    BY <1>1 DEF CreateDocument, ReadyIsComplete, Behind, HasWritten, NotYetReady, ImagesKept,
       Deleting, JobIsLast
  <2> QED
    BY <2>1, <2>2, <2>3, <2>4, <2>5, <2>6
<1>2. CASE PutFile
  <2>1. DocumentTypeOK'
    BY <1>2 DEF PutFile, PagesCounted, Stalls, HasWritten, OneTable
  <2>2. (Deleting /\ JobIsLast)'
    BY <1>2 DEF PutFile, Deleting, JobIsLast
  <2>3. (PagesCounted /\ OneTable)'
    BY <1>2 DEF PutFile, PagesCounted, OneTable, Stalls, HasWritten, JobIsLast
  <2>4. (NotYetReady /\ ImagesKept)'
    BY <1>2 DEF PutFile, NotYetReady, ImagesKept, Deleting, JobIsLast
  <2>5. Behind'
    BY <1>2 DEF PutFile, Behind, HasWritten, NotYetReady, Deleting, OneTable, JobIsLast
  <2>6. ReadyIsComplete'
    BY <1>2 DEF PutFile, ReadyIsComplete, Behind, HasWritten, NotYetReady, ImagesKept,
       Deleting, JobIsLast
  <2> QED
    BY <2>1, <2>2, <2>3, <2>4, <2>5, <2>6
<1>3. CASE MarkQueued
  <2>1. DocumentTypeOK'
    <3>1. document \in DocumentRow
      BY DEF DocumentRow
    <3>2. document' \in DocumentRow
      BY <1>3, <3>1 DEF MarkQueued, DocumentRow
    <3> QED
      BY <1>3, <3>2 DEF MarkQueued, DocumentRow
  <2>2. (Deleting /\ JobIsLast)'
    BY <1>3 DEF MarkQueued, Deleting, JobIsLast
  <2>3. (PagesCounted /\ OneTable)'
    BY <1>3 DEF MarkQueued, PagesCounted, OneTable, Stalls, HasWritten, JobIsLast
  <2>4. (NotYetReady /\ ImagesKept)'
    BY <1>3 DEF MarkQueued, NotYetReady, ImagesKept, Deleting, JobIsLast
  <2>5. Behind'
    BY <1>3 DEF MarkQueued, Behind, HasWritten, NotYetReady, Deleting, OneTable, JobIsLast
  <2>6. ReadyIsComplete'
    BY <1>3 DEF MarkQueued, ReadyIsComplete, Behind, HasWritten, NotYetReady, ImagesKept,
       Deleting, JobIsLast
  <2> QED
    BY <2>1, <2>2, <2>3, <2>4, <2>5, <2>6
<1>4. CASE AddIngestJob
  <2>1. DocumentTypeOK'
    BY <1>4 DEF AddIngestJob, PagesCounted, Stalls, HasWritten, OneTable
  <2>2. (Deleting /\ JobIsLast)'
    BY <1>4 DEF AddIngestJob, Deleting, JobIsLast
  <2>3. (PagesCounted /\ OneTable)'
    BY <1>4 DEF AddIngestJob, PagesCounted, OneTable, Stalls, HasWritten, JobIsLast
  <2>4. (NotYetReady /\ ImagesKept)'
    BY <1>4 DEF AddIngestJob, NotYetReady, ImagesKept, Deleting, JobIsLast
  <2>5. Behind'
    BY <1>4 DEF AddIngestJob, Behind, HasWritten, NotYetReady, Deleting, OneTable, JobIsLast
  <2>6. ReadyIsComplete'
    BY <1>4 DEF AddIngestJob, ReadyIsComplete, Behind, HasWritten, NotYetReady, ImagesKept,
       Deleting, JobIsLast
  <2> QED
    BY <2>1, <2>2, <2>3, <2>4, <2>5, <2>6
<1>5. CASE UploadBreaks
  <2>1. DocumentTypeOK'
    BY <1>5 DEF UploadBreaks, PagesCounted, Stalls, HasWritten, OneTable
  <2>2. (Deleting /\ JobIsLast)'
    BY <1>5 DEF UploadBreaks, Deleting, JobIsLast
  <2>3. (PagesCounted /\ OneTable)'
    BY <1>5 DEF UploadBreaks, PagesCounted, OneTable, Stalls, HasWritten, JobIsLast
  <2>4. (NotYetReady /\ ImagesKept)'
    BY <1>5 DEF UploadBreaks, NotYetReady, ImagesKept, Deleting, JobIsLast
  <2>5. Behind'
    BY <1>5 DEF UploadBreaks, Behind, HasWritten, NotYetReady, Deleting, OneTable, JobIsLast
  <2>6. ReadyIsComplete'
    BY <1>5 DEF UploadBreaks, ReadyIsComplete, Behind, HasWritten, NotYetReady, ImagesKept,
       Deleting, JobIsLast
  <2> QED
    BY <2>1, <2>2, <2>3, <2>4, <2>5, <2>6
<1>6. CASE Deliver
  <2>1. DocumentTypeOK'
    BY <1>6 DEF Deliver, IngestAt, PagesCounted, Stalls, HasWritten, OneTable
  <2>2. (Deleting /\ JobIsLast)'
    BY <1>6 DEF Deliver, IngestAt, Deleting, JobIsLast
  <2>3. (PagesCounted /\ OneTable)'
    BY <1>6 DEF Deliver, IngestAt, PagesCounted, OneTable, Stalls, HasWritten, JobIsLast
  <2>4. (NotYetReady /\ ImagesKept)'
    BY <1>6 DEF Deliver, IngestAt, NotYetReady, ImagesKept, Deleting, JobIsLast
  <2>5. Behind'
    BY <1>6 DEF Deliver, IngestAt, Behind, HasWritten, NotYetReady, Deleting, OneTable, JobIsLast
  <2>6. ReadyIsComplete'
    BY <1>6 DEF Deliver, IngestAt, ReadyIsComplete, Behind, HasWritten, NotYetReady,
       ImagesKept, Deleting, JobIsLast
  <2> QED
    BY <2>1, <2>2, <2>3, <2>4, <2>5, <2>6
<1>7. CASE BeginIngest
  <2>1. DocumentTypeOK'
    BY <1>7 DEF BeginIngest, IngestAt, PagesCounted, Stalls, HasWritten, OneTable
  <2>2. (Deleting /\ JobIsLast)'
    BY <1>7 DEF BeginIngest, IngestAt, Deleting, JobIsLast
  <2>3. (PagesCounted /\ OneTable)'
    BY <1>7 DEF BeginIngest, IngestAt, PagesCounted, OneTable, Stalls, HasWritten, JobIsLast
  <2>4. (NotYetReady /\ ImagesKept)'
    BY <1>7 DEF BeginIngest, IngestAt, NotYetReady, ImagesKept, Deleting, JobIsLast
  <2>5. Behind'
    BY <1>7 DEF BeginIngest, IngestAt, Behind, HasWritten, NotYetReady, Deleting, OneTable,
       JobIsLast
  <2>6. ReadyIsComplete'
    BY <1>7 DEF BeginIngest, IngestAt, ReadyIsComplete, Behind, HasWritten, NotYetReady,
       ImagesKept, Deleting, JobIsLast
  <2> QED
    BY <2>1, <2>2, <2>3, <2>4, <2>5, <2>6
<1>8. CASE FetchFile
  <2>1. DocumentTypeOK'
    BY <1>8 DEF FetchFile, IngestAt, PagesCounted, Stalls, HasWritten, OneTable
  <2>2. (Deleting /\ JobIsLast)'
    BY <1>8 DEF FetchFile, IngestAt, Deleting, JobIsLast
  <2>3. (PagesCounted /\ OneTable)'
    BY <1>8 DEF FetchFile, IngestAt, PagesCounted, OneTable, Stalls, HasWritten, JobIsLast
  <2>4. (NotYetReady /\ ImagesKept)'
    BY <1>8 DEF FetchFile, IngestAt, NotYetReady, ImagesKept, Deleting, JobIsLast
  <2>5. Behind'
    BY <1>8 DEF FetchFile, IngestAt, Behind, HasWritten, NotYetReady, Deleting, OneTable,
       JobIsLast
  <2>6. ReadyIsComplete'
    BY <1>8 DEF FetchFile, IngestAt, ReadyIsComplete, Behind, HasWritten, NotYetReady,
       ImagesKept, Deleting, JobIsLast
  <2> QED
    BY <2>1, <2>2, <2>3, <2>4, <2>5, <2>6
<1>9. CASE StoreImages
  <2>1. DocumentTypeOK'
    <3>1. ingest \in IngestRecord
      BY DEF IngestRecord
    <3>2. ingest' \in IngestRecord /\ docImage' \in BOOLEAN
      BY <1>9, <3>1 DEF StoreImages, IngestRecord
    <3> QED
      BY <1>9, <3>2 DEF StoreImages, IngestRecord
  <2>2. (Deleting /\ JobIsLast)'
    BY <1>9 DEF StoreImages, Deleting, JobIsLast
  <2>3. (PagesCounted /\ OneTable)'
    BY <1>9 DEF StoreImages, PagesCounted, OneTable, Stalls, HasWritten, JobIsLast
  <2>4. (NotYetReady /\ ImagesKept)'
    BY <1>9 DEF StoreImages, NotYetReady, ImagesKept, Deleting, JobIsLast
  <2>5. Behind'
    BY <1>9 DEF StoreImages, Behind, HasWritten, NotYetReady, Deleting, OneTable, JobIsLast
  <2>6. ReadyIsComplete'
    BY <1>9 DEF StoreImages, ReadyIsComplete, Behind, HasWritten, NotYetReady, ImagesKept,
       Deleting, JobIsLast
  <2> QED
    BY <2>1, <2>2, <2>3, <2>4, <2>5, <2>6
<1>10. CASE ReplacePages
  <2>1. DocumentTypeOK'
    <3>1. document \in DocumentRow /\ ingest \in IngestRecord
      BY DEF DocumentRow, IngestRecord
    <3>2. NextPages \in Generation
      BY <1>10, <3>1 DEF IngestRecord, ReplacePages, NextPages, PagesCounted, Stalls, HasWritten
    <3>3. document' \in DocumentRow
      BY <1>10, <3>1, <3>2 DEF ReplacePages, DocumentRow, IngestRecord
    <3>4. ingest' \in IngestRecord
      BY <1>10, <3>1, <3>2 DEF ReplacePages, IngestRecord
    <3> QED
      BY <1>10, <3>3, <3>4 DEF ReplacePages, DocumentRow, IngestRecord
  <2>2. (Deleting /\ JobIsLast)'
    BY <1>10 DEF ReplacePages, NextPages, Deleting, JobIsLast
  <2>3. (PagesCounted /\ OneTable)'
    BY <1>10 DEF ReplacePages, NextPages, PagesCounted, OneTable, Stalls, HasWritten, JobIsLast
  <2>4. (NotYetReady /\ ImagesKept)'
    BY <1>10 DEF ReplacePages, NextPages, NotYetReady, ImagesKept, Deleting, JobIsLast
  <2>5. Behind'
    BY <1>10 DEF ReplacePages, NextPages, Behind, HasWritten, NotYetReady, Deleting, OneTable,
       JobIsLast
  <2>6. ReadyIsComplete'
    BY <1>10 DEF ReplacePages, NextPages, ReadyIsComplete, Behind, HasWritten, NotYetReady,
       ImagesKept, Deleting, JobIsLast
  <2> QED
    BY <2>1, <2>2, <2>3, <2>4, <2>5, <2>6
<1>11. CASE PurgeChunks
  <2>1. DocumentTypeOK'
    BY <1>11 DEF PurgeChunks, IngestAt, PagesCounted, Stalls, HasWritten, OneTable
  <2>2. (Deleting /\ JobIsLast)'
    BY <1>11 DEF PurgeChunks, IngestAt, Deleting, JobIsLast
  <2>3. (PagesCounted /\ OneTable)'
    BY <1>11 DEF PurgeChunks, IngestAt, PagesCounted, OneTable, Stalls, HasWritten, JobIsLast
  <2>4. (NotYetReady /\ ImagesKept)'
    BY <1>11 DEF PurgeChunks, IngestAt, NotYetReady, ImagesKept, Deleting, JobIsLast
  <2>5. Behind'
    BY <1>11 DEF PurgeChunks, IngestAt, Behind, HasWritten, NotYetReady, Deleting, OneTable,
       JobIsLast
  <2>6. ReadyIsComplete'
    BY <1>11 DEF PurgeChunks, IngestAt, ReadyIsComplete, Behind, HasWritten, NotYetReady,
       ImagesKept, Deleting, JobIsLast
  <2> QED
    BY <2>1, <2>2, <2>3, <2>4, <2>5, <2>6
<1>12. CASE Embed
  <2>1. DocumentTypeOK'
    <3>1. ingest \in IngestRecord /\ document.pages \in {0} \cup Generation
      BY DEF IngestRecord
    <3> DEFINE read == IF document.kind = "tabular" THEN 1 ELSE document.pages
    <3>3. read \in {0} \cup Generation
      BY <3>1
    <3>4. ingest' = [ingest EXCEPT !.pc = "upsert", !.seen = read]
      BY <1>12 DEF Embed
    <3> HIDE DEF read
    <3>2. ingest' \in IngestRecord
      BY <3>1, <3>3, <3>4 DEF IngestRecord
    <3> QED
      BY <1>12, <3>2 DEF Embed, IngestRecord
  <2>2. (Deleting /\ JobIsLast)'
    BY <1>12 DEF Embed, Deleting, JobIsLast
  <2>3. (PagesCounted /\ OneTable)'
    BY <1>12 DEF Embed, PagesCounted, OneTable, Stalls, HasWritten, JobIsLast
  <2>4. (NotYetReady /\ ImagesKept)'
    BY <1>12 DEF Embed, NotYetReady, ImagesKept, Deleting, JobIsLast
  <2>5. Behind'
    BY <1>12 DEF Embed, Behind, HasWritten, NotYetReady, Deleting, OneTable, JobIsLast
  <2>6. ReadyIsComplete'
    BY <1>12 DEF Embed, ReadyIsComplete, Behind, HasWritten, NotYetReady, ImagesKept,
       Deleting, JobIsLast
  <2> QED
    BY <2>1, <2>2, <2>3, <2>4, <2>5, <2>6
<1>13. CASE UpsertChunks
  <2>1. DocumentTypeOK'
    BY <1>13 DEF UpsertChunks, IngestAt, PagesCounted, Stalls, HasWritten, OneTable
  <2>2. (Deleting /\ JobIsLast)'
    BY <1>13 DEF UpsertChunks, IngestAt, Deleting, JobIsLast
  <2>3. (PagesCounted /\ OneTable)'
    BY <1>13 DEF UpsertChunks, IngestAt, PagesCounted, OneTable, Stalls, HasWritten, JobIsLast
  <2>4. (NotYetReady /\ ImagesKept)'
    BY <1>13 DEF UpsertChunks, IngestAt, NotYetReady, ImagesKept, Deleting, JobIsLast
  <2>5. Behind'
    BY <1>13 DEF UpsertChunks, IngestAt, Behind, HasWritten, NotYetReady, Deleting, OneTable,
       JobIsLast
  <2>6. ReadyIsComplete'
    BY <1>13 DEF UpsertChunks, IngestAt, ReadyIsComplete, Behind, HasWritten, NotYetReady,
       ImagesKept, Deleting, JobIsLast
  <2> QED
    BY <2>1, <2>2, <2>3, <2>4, <2>5, <2>6
<1>14. CASE MarkReady
  <2>1. DocumentTypeOK'
    BY <1>14 DEF MarkReady, IngestAt, PagesCounted, Stalls, HasWritten, OneTable
  <2>2. (Deleting /\ JobIsLast)'
    BY <1>14 DEF MarkReady, IngestAt, Deleting, JobIsLast
  <2>3. (PagesCounted /\ OneTable)'
    BY <1>14 DEF MarkReady, IngestAt, PagesCounted, OneTable, Stalls, HasWritten, JobIsLast
  <2>4. (NotYetReady /\ ImagesKept)'
    BY <1>14 DEF MarkReady, IngestAt, NotYetReady, ImagesKept, Deleting, JobIsLast
  <2>5. Behind'
    BY <1>14 DEF MarkReady, IngestAt, Behind, HasWritten, NotYetReady, Deleting, OneTable,
       JobIsLast
  <2>6. ReadyIsComplete'
    BY <1>14 DEF MarkReady, IngestAt, ReadyIsComplete, Behind, HasWritten, NotYetReady,
       ImagesKept, Deleting, JobIsLast
  <2> QED
    BY <2>1, <2>2, <2>3, <2>4, <2>5, <2>6
<1>15. CASE IngestReturns
  <2>1. DocumentTypeOK'
    BY <1>15 DEF IngestReturns, IngestAt, PagesCounted, Stalls, HasWritten, OneTable
  <2>2. (Deleting /\ JobIsLast)'
    BY <1>15 DEF IngestReturns, IngestAt, Deleting, JobIsLast
  <2>3. (PagesCounted /\ OneTable)'
    BY <1>15 DEF IngestReturns, IngestAt, PagesCounted, OneTable, Stalls, HasWritten, JobIsLast
  <2>4. (NotYetReady /\ ImagesKept)'
    BY <1>15 DEF IngestReturns, IngestAt, NotYetReady, ImagesKept, Deleting, JobIsLast
  <2>5. Behind'
    BY <1>15 DEF IngestReturns, IngestAt, Behind, HasWritten, NotYetReady, Deleting, OneTable,
       JobIsLast
  <2>6. ReadyIsComplete'
    BY <1>15 DEF IngestReturns, IngestAt, ReadyIsComplete, Behind, HasWritten, NotYetReady,
       ImagesKept, Deleting, JobIsLast
  <2> QED
    BY <2>1, <2>2, <2>3, <2>4, <2>5, <2>6
<1>16. CASE IngestThrows
  <2>1. DocumentTypeOK'
    BY <1>16 DEF IngestThrows, PagesCounted, Stalls, HasWritten, OneTable
  <2>2. (Deleting /\ JobIsLast)'
    BY <1>16 DEF IngestThrows, Deleting, JobIsLast
  <2>3. (PagesCounted /\ OneTable)'
    BY <1>16 DEF IngestThrows, PagesCounted, OneTable, Stalls, HasWritten, JobIsLast
  <2>4. (NotYetReady /\ ImagesKept)'
    BY <1>16 DEF IngestThrows, NotYetReady, ImagesKept, Deleting, JobIsLast
  <2>5. Behind'
    BY <1>16 DEF IngestThrows, Behind, HasWritten, NotYetReady, Deleting, OneTable, JobIsLast
  <2>6. ReadyIsComplete'
    BY <1>16 DEF IngestThrows, ReadyIsComplete, Behind, HasWritten, NotYetReady, ImagesKept,
       Deleting, JobIsLast
  <2> QED
    BY <2>1, <2>2, <2>3, <2>4, <2>5, <2>6
<1>17. CASE CatchIngest
  <2>1. DocumentTypeOK'
    <3>1. document \in DocumentRow /\ ingest \in IngestRecord
      BY DEF DocumentRow, IngestRecord
    <3>2. document' \in DocumentRow
      BY <1>17, <3>1 DEF CatchIngest, DocumentRow
    <3> DEFINE after == IF ingest.thrown + 1 < MaxIngests THEN "waiting" ELSE "spent"
    <3>4. ingest.thrown + 1 \in 0..MaxIngests
      BY <1>17, <3>1 DEF CatchIngest, IngestRecord, PagesCounted
    <3>5. after \in {"waiting", "spent"}
      OBVIOUS
    <3>6. ingest' = [ingest EXCEPT !.thrown = @ + 1, !.pc = after]
      BY <1>17 DEF CatchIngest
    <3> HIDE DEF after
    <3>3. ingest' \in IngestRecord
      BY <3>1, <3>4, <3>5, <3>6 DEF IngestRecord
    <3> QED
      BY <1>17, <3>2, <3>3 DEF CatchIngest, DocumentRow, IngestRecord
  <2>2. (Deleting /\ JobIsLast)'
    BY <1>17 DEF CatchIngest, Deleting, JobIsLast
  <2>3. (PagesCounted /\ OneTable)'
    BY <1>17 DEF CatchIngest, PagesCounted, OneTable, Stalls, HasWritten, JobIsLast
  <2>4. (NotYetReady /\ ImagesKept)'
    BY <1>17 DEF CatchIngest, NotYetReady, ImagesKept, Deleting, JobIsLast
  <2>5. Behind'
    BY <1>17 DEF CatchIngest, Behind, HasWritten, NotYetReady, Deleting, OneTable, JobIsLast
  <2>6. ReadyIsComplete'
    BY <1>17 DEF CatchIngest, ReadyIsComplete, Behind, HasWritten, NotYetReady, ImagesKept,
       Deleting, JobIsLast
  <2> QED
    BY <2>1, <2>2, <2>3, <2>4, <2>5, <2>6
<1>18. CASE IngestDies
  <2>1. DocumentTypeOK'
    <3>1. ingest \in IngestRecord
      BY DEF IngestRecord
    <3>2. ingest' \in IngestRecord
      BY <1>18, <3>1 DEF IngestDies, IngestRecord
    <3> QED
      BY <1>18, <3>2 DEF IngestDies, IngestRecord
  <2>2. (Deleting /\ JobIsLast)'
    BY <1>18 DEF IngestDies, Deleting, JobIsLast
  <2>3. (PagesCounted /\ OneTable)'
    BY <1>18 DEF IngestDies, PagesCounted, OneTable, Stalls, HasWritten, JobIsLast
  <2>4. (NotYetReady /\ ImagesKept)'
    BY <1>18 DEF IngestDies, NotYetReady, ImagesKept, Deleting, JobIsLast
  <2>5. Behind'
    BY <1>18 DEF IngestDies, Behind, HasWritten, NotYetReady, Deleting, OneTable, JobIsLast
  <2>6. ReadyIsComplete'
    BY <1>18 DEF IngestDies, ReadyIsComplete, Behind, HasWritten, NotYetReady, ImagesKept,
       Deleting, JobIsLast
  <2> QED
    BY <2>1, <2>2, <2>3, <2>4, <2>5, <2>6
<1>19. CASE ReadKeys
  <2>1. DocumentTypeOK'
    BY <1>19 DEF ReadKeys, PagesCounted, Stalls, HasWritten, OneTable
  <2>2. (Deleting /\ JobIsLast)'
    BY <1>19 DEF ReadKeys, Deleting, JobIsLast
  <2>3. (PagesCounted /\ OneTable)'
    BY <1>19 DEF ReadKeys, PagesCounted, OneTable, Stalls, HasWritten, JobIsLast
  <2>4. (NotYetReady /\ ImagesKept)'
    BY <1>19 DEF ReadKeys, NotYetReady, ImagesKept, Deleting, JobIsLast
  <2>5. Behind'
    BY <1>19 DEF ReadKeys, Behind, HasWritten, NotYetReady, Deleting, OneTable, JobIsLast
  <2>6. ReadyIsComplete'
    BY <1>19 DEF ReadKeys, ReadyIsComplete, Behind, HasWritten, NotYetReady, ImagesKept,
       Deleting, JobIsLast
  <2> QED
    BY <2>1, <2>2, <2>3, <2>4, <2>5, <2>6
<1>20. CASE DeleteRow
  <2>1. DocumentTypeOK'
    <3>1. document \in DocumentRow
      BY DEF DocumentRow
    <3>2. document' \in DocumentRow
      BY <1>20, <3>1 DEF DeleteRow, DocumentRow
    <3> QED
      BY <1>20, <3>2 DEF DeleteRow, DocumentRow
  <2>2. (Deleting /\ JobIsLast)'
    BY <1>20 DEF DeleteRow, Deleting, JobIsLast
  <2>3. (PagesCounted /\ OneTable)'
    BY <1>20 DEF DeleteRow, PagesCounted, OneTable, Stalls, HasWritten, JobIsLast
  <2>4. (NotYetReady /\ ImagesKept)'
    BY <1>20 DEF DeleteRow, NotYetReady, ImagesKept, Deleting, JobIsLast
  <2>5. Behind'
    BY <1>20 DEF DeleteRow, Behind, HasWritten, NotYetReady, Deleting, OneTable, JobIsLast
  <2>6. ReadyIsComplete'
    BY <1>20 DEF DeleteRow, ReadyIsComplete, Behind, HasWritten, NotYetReady, ImagesKept,
       Deleting, JobIsLast
  <2> QED
    BY <2>1, <2>2, <2>3, <2>4, <2>5, <2>6
<1>21. CASE DeleteFile
  <2>1. DocumentTypeOK'
    <3>1. docFile' \in BOOLEAN /\ deletePc' \in {"idle", "row", "file", "images", "chunks", "done"}
      BY <1>21 DEF DeleteFile
    <3> QED
      BY <1>21, <3>1 DEF DeleteFile
  <2>2. (Deleting /\ JobIsLast)'
    BY <1>21 DEF DeleteFile, Deleting, JobIsLast
  <2>3. (PagesCounted /\ OneTable)'
    BY <1>21 DEF DeleteFile, PagesCounted, OneTable, Stalls, HasWritten, JobIsLast
  <2>4. (NotYetReady /\ ImagesKept)'
    BY <1>21 DEF DeleteFile, NotYetReady, ImagesKept, Deleting, JobIsLast
  <2>5. Behind'
    BY <1>21 DEF DeleteFile, Behind, HasWritten, NotYetReady, Deleting, OneTable, JobIsLast
  <2>6. ReadyIsComplete'
    BY <1>21 DEF DeleteFile, ReadyIsComplete, Behind, HasWritten, NotYetReady, ImagesKept,
       Deleting, JobIsLast
  <2> QED
    BY <2>1, <2>2, <2>3, <2>4, <2>5, <2>6
<1>22. CASE DeleteImages
  <2>1. DocumentTypeOK'
    <3>1. docImage' \in BOOLEAN /\ deletePc' \in {"idle", "row", "file", "images", "chunks", "done"}
      BY <1>22 DEF DeleteImages
    <3> QED
      BY <1>22, <3>1 DEF DeleteImages
  <2>2. (Deleting /\ JobIsLast)'
    BY <1>22 DEF DeleteImages, Deleting, JobIsLast
  <2>3. (PagesCounted /\ OneTable)'
    BY <1>22 DEF DeleteImages, PagesCounted, OneTable, Stalls, HasWritten, JobIsLast
  <2>4. (NotYetReady /\ ImagesKept)'
    BY <1>22 DEF DeleteImages, NotYetReady, ImagesKept, Deleting, JobIsLast
  <2>5. Behind'
    BY <1>22 DEF DeleteImages, Behind, HasWritten, NotYetReady, Deleting, OneTable, JobIsLast
  <2>6. ReadyIsComplete'
    BY <1>22 DEF DeleteImages, ReadyIsComplete, Behind, HasWritten, NotYetReady, ImagesKept,
       Deleting, JobIsLast
  <2> QED
    BY <2>1, <2>2, <2>3, <2>4, <2>5, <2>6
<1>23. CASE DeleteChunks
  <2>1. DocumentTypeOK'
    BY <1>23 DEF DeleteChunks, PagesCounted, Stalls, HasWritten, OneTable
  <2>2. (Deleting /\ JobIsLast)'
    BY <1>23 DEF DeleteChunks, Deleting, JobIsLast
  <2>3. (PagesCounted /\ OneTable)'
    BY <1>23 DEF DeleteChunks, PagesCounted, OneTable, Stalls, HasWritten, JobIsLast
  <2>4. (NotYetReady /\ ImagesKept)'
    BY <1>23 DEF DeleteChunks, NotYetReady, ImagesKept, Deleting, JobIsLast
  <2>5. Behind'
    BY <1>23 DEF DeleteChunks, Behind, HasWritten, NotYetReady, Deleting, OneTable, JobIsLast
  <2>6. ReadyIsComplete'
    BY <1>23 DEF DeleteChunks, ReadyIsComplete, Behind, HasWritten, NotYetReady, ImagesKept,
       Deleting, JobIsLast
  <2> QED
    BY <2>1, <2>2, <2>3, <2>4, <2>5, <2>6
<1>24. CASE UNCHANGED documentVars
  BY <1>24 DEF documentVars, Deleting, JobIsLast, PagesCounted, OneTable, NotYetReady,
     ImagesKept, Behind, ReadyIsComplete, Stalls, HasWritten
<1> QED
  BY <1>1, <1>2, <1>3, <1>4, <1>5, <1>6, <1>7, <1>8, <1>9, <1>10, <1>11, <1>12, <1>13, <1>14,
     <1>15, <1>16, <1>17, <1>18, <1>19, <1>20, <1>21, <1>22, <1>23, <1>24
  DEF DocumentNext

LEMMA InitDocument == DocumentInit => DocumentInv
<1> SUFFICES ASSUME DocumentInit PROVE DocumentInv
  OBVIOUS
<1>1. /\ document.status = "none" /\ document.kind \in {"paged", "tabular"}
      /\ document.r2Key = FALSE /\ document.pages = 0 /\ document.listed = FALSE
  BY DEF DocumentInit
<1>2. document \in DocumentRow
  BY DEF DocumentInit, DocumentRow
<1>3. ingest \in IngestRecord
  BY DEF DocumentInit, IngestRecord, MaxIngests
<1>4. DocumentTypeOK
  BY <1>2, <1>3 DEF DocumentInit, DocumentTypeOK, DocumentRow, IngestRecord
<1>5. ingest.pc = "none" /\ ingest.thrown = 0 /\ ingest.wrote = 0 /\ ingest.shown = FALSE
      /\ ingest.stalled = FALSE
  BY DEF DocumentInit
<1>6. uploadPc = "create" /\ deletePc = "idle"
  BY DEF DocumentInit
<1> QED
  BY <1>1, <1>4, <1>5, <1>6 DEF DocumentInv, Deleting, JobIsLast, PagesCounted, Stalls,
     HasWritten,
     NotYetReady, Behind, OneTable, ImagesKept, ReadyIsComplete, InIngest, MaxIngests

\* The state of a document has its type.
THEOREM DocumentTypeCorrect == DocumentSpec => []DocumentTypeOK
BY InitDocument, StepDocument, PTL DEF DocumentSpec, DocumentInv

\* A document that chats may use is whole, however often its job threw, died or
\* was delivered again, and whenever the user deletes it.
THEOREM ReadyAndComplete == DocumentSpec => []ReadyIsComplete
BY InitDocument, StepDocument, PTL DEF DocumentSpec, DocumentInv

-----------------------------------------------------------------------------
(* The jobs together: a behaviour takes the steps of one of the components.  *)

LEMMA JobsAreComponents == Spec => ProfileSpec /\ DocumentSpec /\ SiteSpec
<1>1. Init => ProfileInit /\ DocumentInit /\ SiteInit
  BY DEF Init
<1>2. [Next]_jobVars => [ProfileNext]_profileVars
  BY DEF Next, jobVars
<1>3. [Next]_jobVars => [DocumentNext]_documentVars
  BY DEF Next, jobVars
<1>4. [Next]_jobVars => [SiteNext]_siteVars
  BY DEF Next, jobVars
<1> QED
  BY <1>1, <1>2, <1>3, <1>4, PTL DEF Spec, ProfileSpec, DocumentSpec, SiteSpec

\* The state of every background job has its type, whichever of them runs.
THEOREM JobsTypeCorrect == Spec => []JobsTypeOK
BY JobsAreComponents, ProfileTypeCorrect, DocumentTypeCorrect, SiteTypeCorrect, PTL DEF JobsTypeOK
=============================================================================
