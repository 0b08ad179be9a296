----------------------------- MODULE SiteBuilds -----------------------------
(***************************************************************************)
(* One site: the builds of its versions in the BullMQ queue site-build and    *)
(* its manifest, a file that the build tool, the build jobs, their failed     *)
(* listener and three routes each read whole and later write whole, without a *)
(* lock.  The indexes beside it, prompts and briefs are left out.             *)
(***************************************************************************)
EXTENDS Naturals, FiniteSets

CONSTANTS
    MaxVersions,    \* bound: versions the tool asks for
    MaxRequests,    \* bound: requests of the tool and of the routes
    MaxTroubles     \* bound: faults and crossings together

ASSUME SiteAssumption ==
    /\ MaxVersions \in Nat \ {0}
    /\ MaxRequests \in Nat
    /\ MaxTroubles \in Nat

Version == 1..MaxVersions
Concurrency == 2

VARIABLES
    manifest,   \* site.json
    build,      \* for each version its job and what the running attempt read
    reconcile,  \* for each version the failed listener of its job
    request,    \* the request at work: the tool, or a route
    requests,   \* requests so far
    siteFaults, \* deaths and rejected calls so far
    built,      \* versions whose files were written completely
    good,       \* the version that a build or the user made stable last
    crossings,  \* torn reads, writes based on a stale read or of an older version
    lost        \* somebody who owed the manifest a step died or was ignored

siteVars == <<manifest, build, reconcile, request, requests, siteFaults, built, good, crossings, lost>>

Status == {"none", "queued", "running", "ready", "failed"}
Manifest == [version : 0..MaxVersions, status : Status, stable : 0..MaxVersions,
             versions : [Version -> Status]]
NoManifest == [version |-> 0, status |-> "none", stable |-> 0,
               versions |-> [v \in Version |-> "none"]]

\* Between a read of the manifest and the write that follows from it.
Reading == {"begin", "publish", "catch"}
Writing == {"mark", "ready", "fail"}
Attempting == Reading \cup Writing \cup {"work", "settle", "throw"}

SiteTypeOK ==
    /\ manifest \in Manifest
    /\ build \in [Version -> [at : Attempting \cup {"none", "waiting", "delayed", "doomed",
                                                    "completed", "failed"},
                              made : 0..2, stalled : BOOLEAN, seen : Manifest]]
    /\ reconcile \in [Version -> [at : {"none", "read", "write"}, seen : Manifest]]
    /\ request \in [op : {"none", "build", "retry", "rollback"},
                    at : {"idle", "write", "enqueue"},
                    version : 0..MaxVersions, seen : Manifest]
    /\ requests \in 0..MaxRequests /\ siteFaults \in 0..MaxTroubles
    /\ built \subseteq Version
    /\ good \in 0..MaxVersions
    /\ crossings \in 0..MaxTroubles /\ lost \in BOOLEAN

Idle == [op |-> "none", at |-> "idle", version |-> 0, seen |-> NoManifest]

SiteInit ==
    /\ manifest = NoManifest
    /\ build = [v \in Version |-> [at |-> "none", made |-> 0, stalled |-> FALSE, seen |-> NoManifest]]
    /\ reconcile = [v \in Version |-> [at |-> "none", seen |-> NoManifest]]
    /\ request = Idle
    /\ requests = 0 /\ siteFaults = 0
    /\ built = {} /\ good = 0
    /\ crossings = 0 /\ lost = FALSE

-----------------------------------------------------------------------------
(* readSiteManifest and writeSiteManifest.                                  *)

SiteFault ==
    /\ siteFaults + crossings < MaxTroubles
    /\ siteFaults' = siteFaults + 1

Cross ==
    /\ siteFaults + crossings < MaxTroubles
    /\ crossings' = crossings + 1

\* writeFile truncates first: a read in between meets no JSON and returns null.
BeingWritten ==
    \/ \E v \in Version : build[v].at \in Writing \/ reconcile[v].at = "write"
    \/ request.at = "write"

ReadManifest(seen) ==
    \/ /\ seen = manifest
       /\ UNCHANGED crossings
    \/ /\ BeingWritten
       /\ manifest # NoManifest
       /\ seen = NoManifest
       /\ Cross

WriteManifest(seen, m) ==
    /\ manifest' = m
    /\ IF seen = manifest /\ m.version >= manifest.version
       THEN UNCHANGED crossings
       ELSE Cross

ForVersion(seen, v, status) ==
    [version |-> v, status |-> status, stable |-> seen.stable,
     versions |-> [seen.versions EXCEPT ![v] = status]]

-----------------------------------------------------------------------------
(* enqueueSiteBuildFromTool and the routes retry and rollback.              *)

Ask(op, v, seen) ==
    /\ request.at = "idle"
    /\ requests < MaxRequests
    /\ requests' = requests + 1
    /\ request' = [op |-> op, at |-> "write", version |-> v, seen |-> seen]
    /\ UNCHANGED <<manifest, build, reconcile, siteFaults, built, good, crossings, lost>>

\* The site's id is drawn on the first call.  A request that reads no manifest,
\* because there is none or by a torn read, is refused and changes nothing.
AskBuild ==
    /\ manifest.version < MaxVersions
    /\ Ask("build", manifest.version + 1, manifest)

AskRetry ==
    /\ manifest.status = "failed"
    /\ Ask("retry", manifest.version, manifest)

\* The screenshot cache is kept in the manifest too: storing a shot writes back
\* what it read, like a rollback to the stable version.
AskRollback ==
    \E v \in Version :
        /\ manifest.versions[v] = "ready"
        /\ Ask("rollback", v, manifest)

Requested ==
    CASE request.op = "build" -> ForVersion(request.seen, request.version, "queued")
      [] request.op = "retry" -> [request.seen EXCEPT !.status = "queued"]
      [] OTHER -> [request.seen EXCEPT !.stable = request.version]

WriteRequested ==
    /\ request.at = "write"
    /\ WriteManifest(request.seen, Requested)
    /\ request' = IF request.op \in {"build", "retry"}
                  THEN [request EXCEPT !.at = "enqueue", !.seen = NoManifest] ELSE Idle
    /\ good' = IF request.op = "rollback" THEN request.version ELSE good
    /\ UNCHANGED <<build, reconcile, requests, siteFaults, built, lost>>

\* enqueueSiteBuild: a failed record is run again, any other job is kept.  The
\* state it reads may be old when it adds, but then the add changes nothing.
EnqueueBuild ==
    /\ request.at = "enqueue"
    /\ build' = IF build[request.version].at \in {"none", "failed"}
                THEN [build EXCEPT ![request.version].at = "waiting"] ELSE build
    /\ request' = Idle
    /\ UNCHANGED <<manifest, reconcile, requests, siteFaults, built, good, crossings, lost>>

\* The API dies, or BullMQ rejects the call, once the manifest says queued.
EnqueueFails ==
    /\ request.at = "enqueue"
    /\ SiteFault
    /\ request' = Idle
    /\ lost' = TRUE
    /\ UNCHANGED <<manifest, build, reconcile, requests, built, good, crossings>>

-----------------------------------------------------------------------------
(* processSiteBuildJob, for the job of version v.                           *)

BuildReads(v, from, to) ==
    /\ build[v].at = from
    /\ \E seen \in {manifest, NoManifest} :
        /\ ReadManifest(seen)
        /\ build' = [build EXCEPT ![v].at = to, ![v].seen = seen]
    /\ UNCHANGED <<manifest, reconcile, request, requests, siteFaults, built, good, lost>>

BuildGoes(v, from, to) ==
    /\ build[v].at = from
    /\ build' = [build EXCEPT ![v].at = to, ![v].seen = NoManifest]

TakeBuild(v) ==
    /\ Cardinality({w \in Version : build[w].at \in Attempting}) < Concurrency
    /\ BuildGoes(v, "waiting", "begin")
    /\ UNCHANGED <<manifest, reconcile, request, requests, siteFaults, built, good, crossings, lost>>

\* The user's model cannot be resolved, or the manifest cannot be written:
\* both happen before the try.
ThrowEarly(v) ==
    /\ SiteFault
    /\ BuildGoes(v, build[v].at, "throw")
    /\ build[v].at \in {"begin", "mark"}
    /\ UNCHANGED <<manifest, reconcile, request, requests, built, good, crossings, lost>>

ReadForRunning(v) == BuildReads(v, "begin", "mark")

MarkRunning(v) ==
    /\ BuildGoes(v, "mark", "work")
    /\ WriteManifest(build[v].seen, ForVersion(build[v].seen, v, "running"))
    /\ UNCHANGED <<reconcile, request, requests, siteFaults, built, good, lost>>

\* The agent, npm and vite succeed; the files and the zip are written.
WriteFiles(v) ==
    /\ BuildGoes(v, "work", "publish")
    /\ built' = built \cup {v}
    /\ UNCHANGED <<manifest, reconcile, request, requests, siteFaults, good, crossings, lost>>

\* Mutant of ReadForReady: the manifest is read before the files are written.
ReadBeforeFiles(v) == BuildReads(v, "work", "ready")

ReadForReady(v) == BuildReads(v, "publish", "ready")

MarkBuilt(v) ==
    /\ BuildGoes(v, "ready", "settle")
    /\ WriteManifest(build[v].seen, [ForVersion(build[v].seen, v, "ready") EXCEPT !.stable = v])
    /\ good' = v
    /\ UNCHANGED <<reconcile, request, requests, siteFaults, built, lost>>

BuildCompletes(v) ==
    /\ BuildGoes(v, "settle", "completed")
    /\ UNCHANGED <<manifest, reconcile, request, requests, siteFaults, built, good, crossings, lost>>

BuildFails(v) ==
    /\ BuildGoes(v, "work", "catch")
    /\ UNCHANGED <<manifest, reconcile, request, requests, siteFaults, built, good, crossings, lost>>

ReadForFailed(v) == BuildReads(v, "catch", "fail")

\* Mutant of MarkFailed: the manifest of a failed build starts over.
MarkFailedAfresh(v) ==
    /\ BuildGoes(v, "fail", "throw")
    /\ WriteManifest(build[v].seen, ForVersion(NoManifest, v, "failed"))
    /\ UNCHANGED <<reconcile, request, requests, siteFaults, built, good, lost>>

MarkFailed(v) ==
    /\ BuildGoes(v, "fail", "throw")
    /\ WriteManifest(build[v].seen, ForVersion(build[v].seen, v, "failed"))
    /\ UNCHANGED <<reconcile, request, requests, siteFaults, built, good, lost>>

-----------------------------------------------------------------------------
(* BullMQ and the failed listener: two attempts, one stall.                 *)

\* Mutant of JobThrows: the listener waits for one attempt more than are made.
JobThrowsUnheard(v) ==
    /\ build[v].at = "throw"
    /\ build' = [build EXCEPT ![v].at = IF build[v].made = 0 THEN "delayed" ELSE "failed",
                              ![v].made = IF @ = 0 THEN 1 ELSE 2]
    /\ UNCHANGED <<manifest, reconcile, request, requests, siteFaults, built, good, crossings, lost>>

\* A job retried by hand keeps its attempts: it fails for good again at once.
JobThrows(v) ==
    /\ build[v].at = "throw"
    /\ IF build[v].made = 0
       THEN /\ build' = [build EXCEPT ![v].at = "delayed", ![v].made = 1]
            /\ UNCHANGED reconcile
       ELSE /\ build' = [build EXCEPT ![v].at = "failed", ![v].made = 2]
            /\ reconcile' = [reconcile EXCEPT ![v].at = "read"]
    /\ UNCHANGED <<manifest, request, requests, siteFaults, built, good, crossings, lost>>

\* A job that stalled twice fails without a retry, and the listener looks at
\* the attempts alone: one that has some left is ignored.
DoomedFails(v) ==
    /\ build[v].at = "doomed"
    /\ build' = [build EXCEPT ![v].at = "failed",
                              ![v].made = IF @ = 0 THEN 1 ELSE 2]
    /\ IF build[v].made = 0
       THEN lost' = TRUE /\ UNCHANGED reconcile
       ELSE reconcile' = [reconcile EXCEPT ![v].at = "read"] /\ UNCHANGED lost
    /\ UNCHANGED <<manifest, request, requests, siteFaults, built, good, crossings>>

BackoffEnds(v) ==
    /\ BuildGoes(v, "delayed", "waiting")
    /\ UNCHANGED <<manifest, reconcile, request, requests, siteFaults, built, good, crossings, lost>>

\* markSiteBuildFailed
ListenerReads(v) ==
    /\ reconcile[v].at = "read"
    /\ \E seen \in {manifest, NoManifest} :
        /\ ReadManifest(seen)
        /\ reconcile' = [reconcile EXCEPT ![v] =
            IF seen.status \in {"none", "ready", "failed"}
            THEN [at |-> "none", seen |-> NoManifest] ELSE [at |-> "write", seen |-> seen]]
    /\ UNCHANGED <<manifest, build, request, requests, siteFaults, built, good, lost>>

ListenerWrites(v) ==
    /\ reconcile[v].at = "write"
    /\ LET seen == reconcile[v].seen IN
       WriteManifest(seen, ForVersion(seen, seen.version, "failed"))
    /\ reconcile' = [reconcile EXCEPT ![v] = [at |-> "none", seen |-> NoManifest]]
    /\ UNCHANGED <<build, request, requests, siteFaults, built, good, lost>>

\* The process of the build worker dies with what it has at work.
BuilderDies ==
    /\ SiteFault
    /\ \E v \in Version : build[v].at \in Attempting \/ reconcile[v].at # "none"
    /\ build' = [v \in Version |->
        IF build[v].at \notin Attempting THEN build[v]
        ELSE [build[v] EXCEPT !.at = IF build[v].stalled THEN "doomed" ELSE "waiting",
                              !.stalled = TRUE, !.seen = NoManifest]]
    /\ lost' = (lost \/ \E v \in Version : reconcile[v].at # "none")
    /\ reconcile' = [v \in Version |-> [at |-> "none", seen |-> NoManifest]]
    /\ UNCHANGED <<manifest, request, requests, built, good, crossings>>

SiteNext ==
    \/ AskBuild \/ AskRetry \/ AskRollback
    \/ WriteRequested \/ EnqueueBuild \/ EnqueueFails
    \/ \E v \in Version :
        \/ TakeBuild(v) \/ ThrowEarly(v) \/ ReadForRunning(v) \/ MarkRunning(v)
        \/ WriteFiles(v) \/ ReadForReady(v) \/ MarkBuilt(v) \/ BuildCompletes(v)
        \/ BuildFails(v) \/ ReadForFailed(v) \/ MarkFailed(v)
        \/ JobThrows(v) \/ DoomedFails(v) \/ BackoffEnds(v)
        \/ ListenerReads(v) \/ ListenerWrites(v)
    \/ BuilderDies

SiteSpec == SiteInit /\ [][SiteNext]_siteVars

-----------------------------------------------------------------------------
(* Properties.                                                              *)

\* Whatever the writers of the manifest do to each other, the version it
\* offers as the stable one has been built completely: a build writes its
\* files before it reads the manifest it publishes itself in.
StableIsBuilt == manifest.stable # 0 => manifest.stable \in built

\* As long as no write crossed another one's, the site keeps the version that
\* worked last, or that the user went back to: requests, failed and repeated
\* builds and the failed listener all carry it over.
GoodVersionKept == crossings = 0 => manifest.stable = good

\* When the queue is empty and nobody is at work, the manifest does not promise
\* progress any more, and tells the build of its version by its outcome: an
\* error outside of the build's try is left to the failed listener, which runs
\* beside a retry by the user.  Excepted are writes that crossed each other, a
\* listener or an enqueue that died, and a job that stalled out.
SiteSettles ==
    ( /\ request.at = "idle"
      /\ \A v \in Version : /\ build[v].at \in {"none", "completed", "failed"}
                            /\ reconcile[v].at = "none"
      /\ manifest # NoManifest
      /\ crossings = 0 /\ ~lost )
    => /\ manifest.status \in {"ready", "failed"}
       /\ build[manifest.version].at = "completed" => manifest.status = "ready"

=============================================================================
