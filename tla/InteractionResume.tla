-------------------------- MODULE InteractionResume --------------------------
(***************************************************************************)
(* One interaction: the question a run suspended on, stored in Redis with a  *)
(* tombstone, and the requests that answer it from several tabs.  A request  *)
(* takes the session's lock, opens a stream, claims the interaction under a  *)
(* lease, enqueues the job that continues the run and marks the interaction  *)
(* consumed.  Every call to Redis or BullMQ is a step.  A connection that     *)
(* breaks makes ioredis send a call again, so a call may run twice; a Redis   *)
(* out of memory rejects any write but DEL; and the API process may die.      *)
(***************************************************************************)
EXTENDS Naturals

CONSTANTS
    Request,        \* requests that answer the interaction
    Source,         \* the run that raised it
    NoOne,
    MaxResends      \* bound: calls sent again because their reply was lost

ASSUME ResumeAssumption ==
    /\ MaxResends \in Nat
    /\ Source \notin Request
    /\ NoOne \notin Request \cup {Source}

VARIABLES
    state,      \* the record's state field, "absent" without a record
    owner,      \* the request in its ownerToken and resumeStreamId
    tomb,       \* the state field of the tombstone
    leaseOver,  \* claimExpiresAt has passed
    ttlOver,    \* expiresAt has passed
    lock,       \* rs-active:<session>
    pc,         \* the call each request makes next, or how it ended
    stream,     \* each request's stream
    added,      \* history: jobs BullMQ stored for each request
    done,       \* jobs of each request the worker is through with
    reopened,   \* history: the record went back to pending behind a stored job
    resends     \* how much of the bound has been used

record == <<state, owner, tomb, leaseOver>>
jobs   == <<added, done>>
vars == <<state, owner, tomb, leaseOver, ttlOver, lock, pc, stream,
          added, done, reopened, resends>>

State   == {"absent", "pending", "claimed", "consumed", "expired"}
Working == {"look", "lock", "open", "read", "claim", "confirm", "add",
            "consume", "release", "close", "unlock"}
Ended   == {"streaming", "busy", "refused", "crashed"}

\* The parser takes a record with fields of another state for corrupt.
TypeOK ==
    /\ state \in State
    /\ owner \in IF state \in {"claimed", "consumed"} THEN Request ELSE {NoOne}
    /\ tomb \in State
    /\ leaseOver \in BOOLEAN
    /\ ttlOver \in BOOLEAN
    /\ lock \in Request \cup {Source, NoOne}
    /\ pc \in [Request -> Working \cup Ended]
    /\ stream \in [Request -> {"absent", "running", "closed"}]
    /\ added \in [Request -> Nat]
    /\ done \in [Request -> Nat]
    /\ reopened \in BOOLEAN
    /\ resends \in 0..MaxResends

\* The source run is at work and has not suspended yet.
Init ==
    /\ state = "absent"
    /\ owner = NoOne
    /\ tomb = "absent"
    /\ leaseOver = FALSE
    /\ ttlOver = FALSE
    /\ lock = Source
    /\ pc = [r \in Request |-> "look"]
    /\ stream = [r \in Request |-> "absent"]
    /\ added = [r \in Request |-> 0]
    /\ done = [r \in Request |-> 0]
    /\ reopened = FALSE
    /\ resends = 0

-----------------------------------------------------------------------------
(* The scripts.                                                            *)

\* Every script that moves the record moves its tombstone along.
SetRecord(s, o) ==
    /\ state' = s
    /\ tomb' = s
    /\ owner' = o
    /\ leaseOver' = FALSE

Overdue == ttlOver /\ state \in {"pending", "claimed"}

\* Mutant of MarkExpired: a consumed record expires too.
ExpireAnything ==
    IF ttlOver /\ state # "absent" THEN SetRecord("expired", NoOne) ELSE UNCHANGED record

\* get() runs the expire script, then reads the record.
MarkExpired == IF Overdue THEN SetRecord("expired", NoOne) ELSE UNCHANGED record

\* Mutant of Reopen: the owner is not deleted with the claim.
ReopenKeepsOwner(r) ==
    /\ SetRecord("pending", owner)
    /\ reopened' = (reopened \/ added[r] > 0)

\* A claim that is given back leaves the interaction open to the next answer.
Reopen(r) ==
    /\ SetRecord("pending", NoOne)
    /\ reopened' = (reopened \/ added[r] > 0)

Mine(r) == state = "claimed" /\ owner = r

-----------------------------------------------------------------------------
(* The source run, which holds the session's lock until it closes.         *)

\* A second put of the interaction finds the record or its tombstone.
Put ==
    /\ lock = Source
    /\ tomb = "absent"
    /\ SetRecord("pending", NoOne)
    /\ UNCHANGED <<ttlOver, lock, pc, stream, jobs, reopened, resends>>

SourceEnds ==
    /\ lock = Source
    /\ lock' = NoOne
    /\ UNCHANGED <<record, ttlOver, pc, stream, jobs, reopened, resends>>

-----------------------------------------------------------------------------
(* A request, call by call.                                                *)

Goto(r, p) == pc' = [pc EXCEPT ![r] = p] /\ UNCHANGED resends

\* The call has run; unless its reply arrives, it is sent again.
Replied(r, p) ==
    \/ Goto(r, p)
    \/ /\ resends < MaxResends
       /\ resends' = resends + 1
       /\ UNCHANGED pc

\* POST /chat refuses whatever is not pending before it takes anything.
Look(r) ==
    /\ pc[r] = "look"
    /\ MarkExpired
    /\ Goto(r, IF state' = "pending" THEN "lock" ELSE "refused")
    /\ UNCHANGED <<ttlOver, lock, stream, jobs, reopened>>

\* SET NX: a SET that is sent again finds the lock that it took itself.
Acquire(r) ==
    /\ pc[r] = "lock"
    /\ IF lock = NoOne
       THEN lock' = r /\ Replied(r, "open")
       ELSE UNCHANGED lock /\ Goto(r, "busy")
    /\ UNCHANGED <<record, ttlOver, stream, jobs, reopened>>

Open(r) ==
    /\ pc[r] = "open"
    /\ stream' = [stream EXCEPT ![r] = "running"]
    /\ Replied(r, "read")
    /\ UNCHANGED <<record, ttlOver, lock, jobs, reopened>>

\* enqueueChatResume reads the record again.  The reconciliation of a consumed
\* record is refused as a replay conflict: the stream id is another one.
Read(r) ==
    /\ pc[r] = "read"
    /\ MarkExpired
    /\ Goto(r, IF state' \in {"absent", "consumed"} THEN "close" ELSE "claim")
    /\ UNCHANGED <<ttlOver, lock, stream, jobs, reopened>>

\* Mutant of ClaimPending: a claim whose lease ran out is up for grabs.
ClaimLeased(r) ==
    /\ pc[r] = "claim"
    /\ state = "pending" \/ (state = "claimed" /\ leaseOver)
    /\ ~ttlOver
    /\ SetRecord("claimed", r)
    /\ Replied(r, "confirm")
    /\ UNCHANGED <<ttlOver, lock, stream, jobs, reopened>>

ClaimPending(r) ==
    /\ pc[r] = "claim"
    /\ state = "pending"
    /\ ~ttlOver
    /\ SetRecord("claimed", r)
    /\ Replied(r, "confirm")
    /\ UNCHANGED <<ttlOver, lock, stream, jobs, reopened>>

\* "same-claim": the script meets the claim that its first execution made.
ClaimAgain(r) ==
    /\ pc[r] = "claim"
    /\ Mine(r)
    /\ ~ttlOver
    /\ ~leaseOver
    /\ Replied(r, "confirm")
    /\ UNCHANGED <<record, ttlOver, lock, stream, jobs, reopened>>

\* Whoever claimed before, under whatever lease: the token and the stream id of
\* a request are fresh, so "reclaimed" is never the answer.
ClaimRefused(r) ==
    /\ pc[r] = "claim"
    /\ \/ ttlOver
       \/ state \in {"absent", "consumed", "expired"}
       \/ state = "claimed" /\ (owner # r \/ leaseOver)
    /\ MarkExpired
    /\ Goto(r, "close")
    /\ UNCHANGED <<ttlOver, lock, stream, jobs, reopened>>

\* claim() reads the record back, and does not ask for its state.
Confirm(r) ==
    /\ pc[r] = "confirm"
    /\ MarkExpired
    /\ Goto(r, IF state' = "absent" THEN "close" ELSE "add")
    /\ UNCHANGED <<ttlOver, lock, stream, jobs, reopened>>

\* queue.add takes the resume's id as the job's name: each call stores a job.
Add(r) ==
    /\ pc[r] = "add"
    /\ added' = [added EXCEPT ![r] = @ + 1]
    /\ Replied(r, "consume")
    /\ UNCHANGED <<record, ttlOver, lock, stream, done, reopened>>

\* Whatever consume answers, the job is stored: the client gets its stream.
Consume(r) ==
    /\ pc[r] = "consume"
    /\ IF Mine(r) /\ leaseOver /\ ~ttlOver
       THEN Reopen(r)
       ELSE /\ IF Mine(r) /\ ~ttlOver THEN SetRecord("consumed", r) ELSE MarkExpired
            /\ UNCHANGED reopened
    /\ Replied(r, "streaming")
    /\ UNCHANGED <<ttlOver, lock, stream, jobs>>

\* The claim goes back, and the read behind the script expires an old record.
Release(r) ==
    /\ pc[r] = "release"
    /\ IF Mine(r) /\ ~ttlOver
       THEN Reopen(r)
       ELSE /\ IF Mine(r) THEN SetRecord("expired", NoOne) ELSE UNCHANGED record
            /\ UNCHANGED reopened
    /\ Replied(r, "close")
    /\ UNCHANGED <<ttlOver, lock, stream, jobs>>

Close(r) ==
    /\ pc[r] = "close"
    /\ stream' = [stream EXCEPT ![r] = "closed"]
    /\ Goto(r, "unlock")
    /\ UNCHANGED <<record, ttlOver, lock, jobs, reopened>>

\* releaseActiveRun, taken as one call: ChatRun models its two.
Unlock(r) ==
    /\ pc[r] = "unlock"
    /\ lock' = IF lock = r THEN NoOne ELSE lock
    /\ Goto(r, "refused")
    /\ UNCHANGED <<record, ttlOver, stream, jobs, reopened>>

\* Where a request goes when its call is rejected: "opened" is not set by an
\* open that failed, a job that was stored is never disowned.
OnError == [look |-> "refused", lock |-> "refused", open |-> "unlock",
            read |-> "close", claim |-> "close", confirm |-> "close",
            add |-> "release", consume |-> "streaming", release |-> "close",
            close |-> "unlock"]

\* Mutant of Rejected: a request whose clean-up fails ends with its lock.
RejectedKeepsLock(r) ==
    /\ pc[r] \in DOMAIN OnError
    /\ Goto(r, IF pc[r] = "close" THEN "refused" ELSE OnError[pc[r]])
    /\ UNCHANGED <<record, ttlOver, lock, stream, jobs, reopened>>

\* Mutant of Rejected: the client follows its stream whatever was rejected.
RejectedStreams(r) ==
    /\ pc[r] \in DOMAIN OnError
    /\ Goto(r, IF pc[r] = "add" THEN "streaming" ELSE OnError[pc[r]])
    /\ UNCHANGED <<record, ttlOver, lock, stream, jobs, reopened>>

Rejected(r) ==
    /\ pc[r] \in DOMAIN OnError
    /\ Goto(r, OnError[pc[r]])
    /\ UNCHANGED <<record, ttlOver, lock, stream, jobs, reopened>>

\* The process that serves the request dies.
Crash(r) ==
    /\ pc[r] \in Working
    /\ Goto(r, "crashed")
    /\ UNCHANGED <<record, ttlOver, lock, stream, jobs, reopened>>

-----------------------------------------------------------------------------
(* The worker and the clock.                                               *)

\* A job runs to its end, or finds its stream closed: either way the stream is
\* closed and the lock given back when the worker is through.
Work(r) ==
    /\ done[r] < added[r]
    /\ done' = [done EXCEPT ![r] = @ + 1]
    /\ stream' = [stream EXCEPT ![r] = "closed"]
    /\ lock' = IF lock = r THEN NoOne ELSE lock
    /\ UNCHANGED <<record, ttlOver, pc, added, reopened, resends>>

LeaseEnds ==
    /\ state = "claimed"
    /\ ~leaseOver
    /\ leaseOver' = TRUE
    /\ UNCHANGED <<state, owner, tomb, ttlOver, lock, pc, stream, jobs, reopened, resends>>

TtlEnds ==
    /\ tomb # "absent"
    /\ ~ttlOver
    /\ ttlOver' = TRUE
    /\ UNCHANGED <<record, lock, pc, stream, jobs, reopened, resends>>

\* The retention of the record, a day or more past its TTL; the tombstone stays.
Vanish ==
    /\ ttlOver
    /\ state # "absent"
    /\ state' = "absent"
    /\ owner' = NoOne
    /\ leaseOver' = FALSE
    /\ UNCHANGED <<tomb, ttlOver, lock, pc, stream, jobs, reopened, resends>>

\* The lock lives for two hours, longer than the interaction's quarter.
LockExpires ==
    /\ ttlOver
    /\ lock \in Request
    /\ lock' = NoOne
    /\ UNCHANGED <<record, ttlOver, pc, stream, jobs, reopened, resends>>

-----------------------------------------------------------------------------
Claim(r) == ClaimPending(r) \/ ClaimAgain(r) \/ ClaimRefused(r)

Serve(r) == \/ Look(r) \/ Acquire(r) \/ Open(r) \/ Read(r) \/ Claim(r)
            \/ Confirm(r) \/ Add(r) \/ Consume(r) \/ Release(r)
            \/ Close(r) \/ Unlock(r) \/ Rejected(r) \/ Crash(r)

Clock == LeaseEnds \/ TtlEnds \/ Vanish \/ LockExpires

Next == Put \/ SourceEnds \/ Clock \/ \E r \in Request : Serve(r) \/ Work(r)

Spec == Init /\ [][Next]_vars

-----------------------------------------------------------------------------
(* Properties.                                                             *)

(* Two requests never both enqueue the continuation, whichever of them die,   *)
(* stall or send their calls twice, as long as no claim was given back after  *)
(* its job had been stored.                                                  *)
AnsweredOnce == ~reopened =>
    \A r, q \in Request : added[r] > 0 /\ added[q] > 0 => r = q

(* An interaction is marked as consumed, and a client sent to a new stream,   *)
(* only if BullMQ stored a job that will write to that stream.                *)
AnswerWasQueued ==
    /\ state = "consumed" => owner \in Request /\ added[owner] > 0
    /\ \A r \in Request : pc[r] = "streaming" => added[r] > 0

(* Whatever stalled requests, expiry scripts and repeated calls still do to a *)
(* consumed or expired interaction, it stays so, and bound to the same        *)
(* request; its tombstone keeps saying so when the record is gone.            *)
SettledStays ==
    [][(tomb \in {"consumed", "expired"}) =>
         tomb' = tomb /\ (UNCHANGED <<state, owner>> \/ state' = "absent")]_vars

(* The session's lock is held by a request at work, or for a job that is not  *)
(* done, or by a process that died: never by a request that ended otherwise,   *)
(* but for one whose SET lost its reply before a stream was opened.           *)
LockHasUser == \A r \in Request : lock = r =>
    \/ pc[r] \in Working \cup {"crashed"}
    \/ done[r] < added[r]
    \/ stream[r] = "absent"

(* BullMQ stores one job for an interaction: its id is said to be "Stable     *)
(* BullMQ id for one interaction response" (run-queue.ts:162).                 *)
OneJob == \A r, q \in Request :
    added[r] > 0 /\ added[q] > 0 => r = q /\ added[r] = 1
=============================================================================
