------------------------------- MODULE ChatRun -------------------------------
(***************************************************************************)
(* The life of chat runs: the API request that acquires a session's single *)
(* active-run lock, opens a resumable stream and enqueues a BullMQ job; the *)
(* worker slots that execute the job; the listener that closes failed runs; *)
(* the watchdog that closes abandoned ones; and the deletion of a session   *)
(* while all of these run.  Every Redis or database call is one step, so    *)
(* the GET and the DEL of `releaseActiveRun` are two.                       *)
(***************************************************************************)
EXTENDS Naturals, FiniteSets

CONSTANTS
    Session,      \* chat sessions
    Stream,       \* run ids: one fresh stream id per POST /chat
    SessionOf,    \* the session each run belongs to
    Worker,       \* slots of the worker process (BullMQ concurrency)
    NoStream, NoWorker,
    Admits(_),    \* bound: what may come together in a behaviour, see Budget
    MaxStalls     \* BullMQ's maxStalledCount: redeliveries before a job fails

(* What a behaviour contains only so often: runs, worker crashes, API       *)
(* crashes, graceful shutdowns, heartbeats or job tokens lost by a live worker,      *)
(* calls to Redis that fail, locks that outlive their two-hour TTL, session *)
(* deletions, client stop requests.  Admits says which counts are allowed.  *)
Budget == {"run", "crash", "api", "shutdown", "lag", "fail", "ttl", "delete", "stop"}

ASSUME RunAssumption ==
    /\ SessionOf \in [Stream -> Session]
    /\ NoStream \notin Stream
    /\ NoWorker \notin Worker
    /\ MaxStalls \in Nat

VARIABLES
    lock,       \* rs-active:<session>: the run that holds the session, or NoStream
    robbed,     \* history: <<run, cause>> for each unclosed run that lost its
                \*   claim: its lock was taken, or a Redis call of its own failed
    exists,     \* sessions whose ChatSession row exists
    stream,     \* status of the run's resumable stream
    terms,      \* history: terminal events in the run's log
    stopFlag,   \* runs whose rs-stop flag is set
    job,        \* state of the run's BullMQ job
    holder,     \* the slot whose token holds the job, or NoWorker
    stalls,     \* times the job was found stalled
    wal,        \* runs whose rs-owner-wal heartbeat key is present
    created,    \* rs-created marker: "none", "fresh" (< 30 s) or "old" (< 600 s)
    req,        \* where the API request for the run is
    wpc, wrun, wend,     \* each slot: its step, its run, the outcome so far
    cancelled,  \* slots whose current attempt was cancelled
    listener,   \* the "failed" listener of each run's job
    accepting,  \* ActiveRunRegistry.accepting
    sweep, sweepRun,     \* the watchdog's step and the run it looks at
    dpc, drun, dmiss, dlast,  \* each deletion: step, run, empty polls, last pass
    spent       \* how often each kind of trouble or request has come

sessVars == <<lock, robbed>>
logVars  == <<stream, terms>>
jobVars  == <<job, holder, stalls>>
ownVars  == <<wal, created>>
workVars == <<wpc, wrun, wend, cancelled>>
dogVars  == <<sweep, sweepRun>>
delVars  == <<dpc, drun, dmiss, dlast>>

vars == <<lock, robbed, exists, stream, terms, stopFlag, job, holder, stalls,
          wal, created, req, wpc, wrun, wend, cancelled, listener, accepting,
          sweep, sweepRun, dpc, drun, dmiss, dlast, spent>>

Final  == {"completed", "error"}
Causes == {"release", "ttl", "delete", "fail"}

ReqPC == {"idle", "acquire", "open", "enqueue", "accepted", "rejected",
          "close", "get", "del", "failed", "crashed"}
InFlight == {"acquire", "open", "enqueue", "close", "get", "del"}
WorkPC == {"idle", "checkOpen", "checkSession", "register", "prepare",
           "recheckSession", "recheckOpen", "run", "closeOwn", "catch",
           "append", "close", "get", "del", "finish"}
ListenerPC == {"idle", "check", "append", "close", "get", "del"}
SweepPC == {"idle", "status", "append", "close", "get", "del"}
DelPC == {"idle", "lock", "status", "drop", "find", "jobState", "setStop",
          "remove", "poll", "pollJob", "close", "get", "del", "relock",
          "unqueue", "hard"}

\* The steps during which a slot is in the registry and its heartbeat runs.
Owning == {"prepare", "recheckSession", "recheckOpen", "run", "closeOwn",
           "catch", "append", "close", "get", "del", "finish"}
Registered(w) == wpc[w] \in Owning /\ wend[w] \notin {"noop", "thrown"}

TypeOK ==
    /\ lock \in [Session -> Stream \cup {NoStream}]
    /\ \A x \in Session : lock[x] # NoStream => SessionOf[lock[x]] = x
    /\ robbed \subseteq Stream \X Causes
    /\ exists \subseteq Session
    /\ stream \in [Stream -> {"missing", "running"} \cup Final]
    /\ terms \in [Stream -> Nat]
    /\ stopFlag \subseteq Stream
    /\ job \in [Stream -> {"none", "waiting", "active", "done", "failed", "removed"}]
    /\ holder \in [Stream -> Worker \cup {NoWorker}]
    /\ stalls \in [Stream -> Nat]
    /\ wal \subseteq Stream
    /\ created \in [Stream -> {"none", "fresh", "old"}]
    /\ req \in [Stream -> ReqPC]
    /\ wpc \in [Worker -> WorkPC]
    /\ wrun \in [Worker -> Stream \cup {NoStream}]
    /\ \A w \in Worker : wpc[w] # "idle" => wrun[w] \in Stream
    /\ wend \in [Worker -> {"none", "noop", "thrown"} \cup Final]
    /\ \A w \in Worker : wpc[w] = "closeOwn" => wend[w] \in Final
    /\ cancelled \subseteq Worker
    /\ listener \in [Stream -> ListenerPC]
    /\ accepting \in BOOLEAN
    /\ sweep \in SweepPC
    /\ sweepRun \in Stream \cup {NoStream}
    /\ sweep # "idle" => sweepRun \in Stream
    /\ dpc \in [Session -> DelPC]
    /\ drun \in [Session -> Stream \cup {NoStream}]
    /\ \A x \in Session :
         dpc[x] \notin {"idle", "lock", "poll", "relock", "hard"}
           => drun[x] \in Stream /\ SessionOf[drun[x]] = x
    /\ dmiss \in [Session -> 0..2]
    /\ dlast \in [Session -> BOOLEAN]
    /\ spent \in [Budget -> Nat]

Init ==
    /\ lock = [x \in Session |-> NoStream]
    /\ robbed = {}
    /\ exists = Session
    /\ stream = [s \in Stream |-> "missing"]
    /\ terms = [s \in Stream |-> 0]
    /\ stopFlag = {}
    /\ job = [s \in Stream |-> "none"]
    /\ holder = [s \in Stream |-> NoWorker]
    /\ stalls = [s \in Stream |-> 0]
    /\ wal = {}
    /\ created = [s \in Stream |-> "none"]
    /\ req = [s \in Stream |-> "idle"]
    /\ wpc = [w \in Worker |-> "idle"]
    /\ wrun = [w \in Worker |-> NoStream]
    /\ wend = [w \in Worker |-> "none"]
    /\ cancelled = {}
    /\ listener = [s \in Stream |-> "idle"]
    /\ accepting = TRUE
    /\ sweep = "idle"
    /\ sweepRun = NoStream
    /\ dpc = [x \in Session |-> "idle"]
    /\ drun = [x \in Session |-> NoStream]
    /\ dmiss = [x \in Session |-> 0]
    /\ dlast = [x \in Session |-> FALSE]
    /\ spent = [k \in Budget |-> 0]

Spend(kind) ==
    /\ Admits([spent EXCEPT ![kind] = @ + 1])
    /\ spent' = [spent EXCEPT ![kind] = @ + 1]

-----------------------------------------------------------------------------
(* Redis operations shared by every process.                               *)

\* Mutant of CloseStream: the script writes the status without reading it.
BlindClose(s, status) == stream' = [stream EXCEPT ![s] = status]

\* The stream store's CLOSE script: only a running stream changes status.
CloseStream(s, status) ==
    stream' = [stream EXCEPT ![s] = IF @ = "running" THEN status ELSE @]

\* t loses its claim on the session; a closed run has nothing to lose.
Rob(t, cause) ==
    robbed' = IF t = NoStream \/ stream[t] \in Final THEN robbed
              ELSE robbed \cup {<<t, cause>>}

\* The DEL of releaseActiveRun.  Its GET saw the lock held by s; the DEL does
\* not look again, so it takes whatever lock is there now.
DelLock(s) ==
    LET x == SessionOf[s] IN
    /\ lock' = [lock EXCEPT ![x] = NoStream]
    /\ IF lock[x] = s THEN UNCHANGED robbed ELSE Rob(lock[x], "release")

\* Mutant of LockFree: SET without NX.
LockWithoutNX(s) == TRUE

\* Set NX on rs-active:<session>.
LockFree(s) == lock[SessionOf[s]] = NoStream

-----------------------------------------------------------------------------
(* The API: POST /chat for a fresh prompt, and POST /chat/stop.            *)

\* The first authenticated POST creates the session row when it is missing.
Submit(s) ==
    /\ req[s] = "idle"
    /\ Spend("run")
    /\ req' = [req EXCEPT ![s] = "acquire"]
    /\ exists' = exists \cup {SessionOf[s]}
    /\ UNCHANGED <<lock, robbed, logVars, stopFlag, jobVars, ownVars, workVars,
                   listener, accepting, dogVars, delVars>>

Acquire(s) ==
    /\ req[s] = "acquire"
    /\ IF LockFree(s)
       THEN /\ lock' = [lock EXCEPT ![SessionOf[s]] = s]
            /\ req' = [req EXCEPT ![s] = "open"]
       ELSE /\ req' = [req EXCEPT ![s] = "rejected"]
            /\ UNCHANGED lock
    /\ UNCHANGED <<robbed, exists, logVars, stopFlag, jobVars, ownVars, workVars,
                   listener, accepting, dogVars, delVars, spent>>

Open(s) ==
    /\ req[s] = "open"
    /\ stream' = [stream EXCEPT ![s] = "running"]
    /\ req' = [req EXCEPT ![s] = "enqueue"]
    /\ UNCHANGED <<sessVars, exists, terms, stopFlag, jobVars, ownVars, workVars,
                   listener, accepting, dogVars, delVars, spent>>

\* openWithMeta rejects: before Redis ran the script, or with only the reply
\* lost.  The handler takes the stream for unopened either way.
OpenFails(s) ==
    /\ req[s] = "open"
    /\ Spend("fail")
    /\ \/ UNCHANGED <<stream, robbed>>
       \/ stream' = [stream EXCEPT ![s] = "running"] /\ Rob(s, "fail")
    /\ req' = [req EXCEPT ![s] = "get"]
    /\ UNCHANGED <<lock, exists, terms, stopFlag, jobVars, ownVars, workVars,
                   listener, accepting, dogVars, delVars>>

Enqueue(s) ==
    /\ req[s] = "enqueue"
    /\ job' = [job EXCEPT ![s] = "waiting"]
    /\ req' = [req EXCEPT ![s] = "accepted"]
    /\ UNCHANGED <<sessVars, exists, logVars, stopFlag, holder, stalls, ownVars,
                   workVars, listener, accepting, dogVars, delVars, spent>>

\* queue.add rejects: before Redis stored the job, or with only the reply lost.
EnqueueFails(s) ==
    /\ req[s] = "enqueue"
    /\ Spend("fail")
    /\ \/ UNCHANGED job
       \/ job' = [job EXCEPT ![s] = "waiting"]
    /\ req' = [req EXCEPT ![s] = "close"]
    /\ UNCHANGED <<sessVars, exists, logVars, stopFlag, holder, stalls, ownVars,
                   workVars, listener, accepting, dogVars, delVars>>

CleanupClose(s) ==
    /\ req[s] = "close"
    /\ CloseStream(s, "error")
    /\ req' = [req EXCEPT ![s] = "get"]
    /\ UNCHANGED <<sessVars, exists, terms, stopFlag, jobVars, ownVars, workVars,
                   listener, accepting, dogVars, delVars, spent>>

CleanupGet(s) ==
    /\ req[s] = "get"
    /\ req' = [req EXCEPT ![s] = IF lock[SessionOf[s]] = s THEN "del" ELSE "failed"]
    /\ UNCHANGED <<sessVars, exists, logVars, stopFlag, jobVars, ownVars, workVars,
                   listener, accepting, dogVars, delVars, spent>>

CleanupDel(s) ==
    /\ req[s] = "del"
    /\ DelLock(s)
    /\ req' = [req EXCEPT ![s] = "failed"]
    /\ UNCHANGED <<exists, logVars, stopFlag, jobVars, ownVars, workVars, listener,
                   accepting, dogVars, delVars, spent>>

\* SET NX rejects, done or not; or the clean-up does, which the handler ignores.
RequestFails(s) ==
    /\ Spend("fail")
    /\ \/ /\ req[s] = "acquire"
          /\ \/ UNCHANGED lock
             \/ LockFree(s) /\ lock' = [lock EXCEPT ![SessionOf[s]] = s]
          /\ req' = [req EXCEPT ![s] = "failed"]
          /\ UNCHANGED robbed
       \/ /\ req[s] = "close"
          /\ Rob(s, "fail")
          /\ req' = [req EXCEPT ![s] = "get"]
          /\ UNCHANGED lock
       \/ /\ req[s] \in {"get", "del"}
          /\ req' = [req EXCEPT ![s] = "failed"]
          /\ UNCHANGED sessVars
    /\ UNCHANGED <<exists, logVars, stopFlag, jobVars, ownVars, workVars, listener,
                   accepting, dogVars, delVars>>

\* A client may ask to stop any stream it knows, finished ones included.
Stop(s) ==
    /\ stream[s] # "missing"
    /\ Spend("stop")
    /\ stopFlag' = stopFlag \cup {s}
    /\ UNCHANGED <<sessVars, exists, logVars, jobVars, ownVars, req, workVars,
                   listener, accepting, dogVars, delVars>>

-----------------------------------------------------------------------------
(* BullMQ, as the code uses it: a job is handed to one slot under a token;  *)
(* when the token is not renewed the stalled check puts the job back, or    *)
(* fails it once it has stalled too often (attempts: 1, maxStalledCount 1). *)

Take(w, s) ==
    /\ wpc[w] = "idle"
    /\ job[s] = "waiting"
    /\ job' = [job EXCEPT ![s] = "active"]
    /\ holder' = [holder EXCEPT ![s] = w]
    /\ wpc' = [wpc EXCEPT ![w] = "checkOpen"]
    /\ wrun' = [wrun EXCEPT ![w] = s]
    /\ UNCHANGED <<sessVars, exists, logVars, stopFlag, stalls, ownVars, req, wend,
                   cancelled, listener, accepting, dogVars, delVars, spent>>

Stall(s) ==
    /\ job[s] = "active"
    /\ IF holder[s] = NoWorker THEN UNCHANGED spent ELSE Spend("lag")
    /\ holder' = [holder EXCEPT ![s] = NoWorker]
    /\ IF stalls[s] < MaxStalls
       THEN /\ job' = [job EXCEPT ![s] = "waiting"]
            /\ stalls' = [stalls EXCEPT ![s] = @ + 1]
            /\ UNCHANGED listener
       ELSE /\ job' = [job EXCEPT ![s] = "failed"]
            /\ listener' = [listener EXCEPT ![s] = "check"]
            /\ UNCHANGED stalls
    /\ UNCHANGED <<sessVars, exists, logVars, stopFlag, ownVars, req, workVars,
                   accepting, dogVars, delVars>>

-----------------------------------------------------------------------------
(* A worker slot executing process(job).                                   *)

Goto(w, pc) == wpc' = [wpc EXCEPT ![w] = pc]
Ends(w, how) == wend' = [wend EXCEPT ![w] = how]
IsOpen(w) == stream[wrun[w]] = "running"
Stopped(w) == wrun[w] \in stopFlag

\* The first status read; a run closed while queued only frees its lock.
CheckOpen(w) ==
    /\ wpc[w] = "checkOpen"
    /\ \/ ~IsOpen(w) /\ Goto(w, "get") /\ Ends(w, "noop")
       \/ IsOpen(w) /\ ~accepting /\ Goto(w, "finish") /\ Ends(w, "thrown")
       \/ IsOpen(w) /\ accepting /\ Goto(w, "checkSession") /\ UNCHANGED wend
    /\ UNCHANGED <<sessVars, exists, logVars, stopFlag, jobVars, ownVars, req, wrun,
                   cancelled, listener, accepting, dogVars, delVars, spent>>

CheckSession(w) ==
    /\ wpc[w] = "checkSession"
    /\ IF SessionOf[wrun[w]] \in exists
       THEN Goto(w, "register") /\ UNCHANGED wend
       ELSE Goto(w, "append") /\ Ends(w, "noop")
    /\ UNCHANGED <<sessVars, exists, logVars, stopFlag, jobVars, ownVars, req, wrun,
                   cancelled, listener, accepting, dogVars, delVars, spent>>

\* Register with the ActiveRunRegistry (which throws once shutdown began),
\* start the heartbeat, read the stop flag (a read that may fail).
Register(w) ==
    /\ wpc[w] = "register"
    /\ IF accepting
       THEN /\ wal' = wal \cup {wrun[w]}
            /\ created' = [created EXCEPT ![wrun[w]] = "fresh"]
            /\ \/ Stopped(w) /\ Goto(w, "catch") /\ Ends(w, "error") /\ UNCHANGED spent
               \/ ~Stopped(w) /\ Goto(w, "prepare") /\ UNCHANGED <<wend, spent>>
               \/ Spend("fail") /\ Goto(w, "catch") /\ Ends(w, "error")
       ELSE Goto(w, "finish") /\ Ends(w, "thrown") /\ UNCHANGED <<ownVars, spent>>
    /\ UNCHANGED <<sessVars, exists, logVars, stopFlag, jobVars, req, wrun,
                   cancelled, listener, accepting, dogVars, delVars>>

\* The stop monitor's poll: cancels the attempt, whatever step it is at.
StopSeen(w) ==
    /\ wpc[w] \in {"prepare", "recheckSession", "recheckOpen", "run"}
    /\ Stopped(w)
    /\ w \notin cancelled
    /\ cancelled' = cancelled \cup {w}
    /\ UNCHANGED <<sessVars, exists, logVars, stopFlag, jobVars, ownVars, req, wpc,
                   wrun, wend, listener, accepting, dogVars, delVars, spent>>

\* Reconstruction of the agent, raced with cancellation; it may also throw.
Prepare(w) ==
    /\ wpc[w] = "prepare"
    /\ \/ w \notin cancelled /\ Goto(w, "recheckSession") /\ UNCHANGED wend
       \/ Goto(w, "catch") /\ Ends(w, "error")
    /\ UNCHANGED <<sessVars, exists, logVars, stopFlag, jobVars, ownVars, req, wrun,
                   cancelled, listener, accepting, dogVars, delVars, spent>>

RecheckSession(w) ==
    /\ wpc[w] = "recheckSession"
    /\ IF SessionOf[wrun[w]] \in exists
       THEN Goto(w, "recheckOpen") /\ UNCHANGED wend
       ELSE Goto(w, "catch") /\ Ends(w, "error")
    /\ UNCHANGED <<sessVars, exists, logVars, stopFlag, jobVars, ownVars, req, wrun,
                   cancelled, listener, accepting, dogVars, delVars, spent>>

\* The last status read; the agent starts in the same turn of the event loop.
RecheckOpen(w) ==
    /\ wpc[w] = "recheckOpen"
    /\ IF IsOpen(w) /\ w \notin cancelled
       THEN Goto(w, "run") /\ UNCHANGED wend
       ELSE Goto(w, "catch") /\ Ends(w, "error")
    /\ UNCHANGED <<sessVars, exists, logVars, stopFlag, jobVars, ownVars, req, wrun,
                   cancelled, listener, accepting, dogVars, delVars, spent>>

\* The agent reaches a terminal, which is appended; a cancelled attempt ends
\* with an error whatever the provider answered.
AgentEnds(w) ==
    /\ wpc[w] = "run"
    /\ IsOpen(w)
    /\ terms' = [terms EXCEPT ![wrun[w]] = @ + 1]
    /\ Goto(w, "closeOwn")
    /\ \/ w \notin cancelled /\ Ends(w, "completed")
       \/ Ends(w, "error")
    /\ UNCHANGED <<sessVars, exists, stream, stopFlag, jobVars, ownVars, req, wrun,
                   cancelled, listener, accepting, dogVars, delVars, spent>>

\* An append to a stream somebody closed throws out of the event loop.
AppendRejected(w) ==
    /\ wpc[w] = "run"
    /\ ~IsOpen(w)
    /\ Goto(w, "catch")
    /\ Ends(w, "error")
    /\ UNCHANGED <<sessVars, exists, logVars, stopFlag, jobVars, ownVars, req, wrun,
                   cancelled, listener, accepting, dogVars, delVars, spent>>

\* Mutant of CloseOwn: returns without releasing the lock.
CloseKeepsLock(w) ==
    /\ wpc[w] = "closeOwn"
    /\ CloseStream(wrun[w], wend[w])
    /\ Goto(w, "finish")
    /\ UNCHANGED <<sessVars, exists, terms, stopFlag, jobVars, ownVars, req, wrun,
                   wend, cancelled, listener, accepting, dogVars, delVars, spent>>

\* close throws when the stream already has the other final status.
CloseOwn(w) ==
    /\ wpc[w] = "closeOwn"
    /\ CloseStream(wrun[w], wend[w])
    /\ IF stream[wrun[w]] \in Final \ {wend[w]}
       THEN Goto(w, "catch") /\ Ends(w, "error")
       ELSE Goto(w, "get") /\ UNCHANGED wend
    /\ UNCHANGED <<sessVars, exists, terms, stopFlag, jobVars, ownVars, req, wrun,
                   cancelled, listener, accepting, dogVars, delVars, spent>>

\* Mutant of Catch: releases the lock without closing the stream.
CatchOnlyReleases(w) ==
    /\ wpc[w] = "catch"
    /\ Goto(w, "get")
    /\ UNCHANGED <<sessVars, exists, logVars, stopFlag, jobVars, ownVars, req, wrun,
                   wend, cancelled, listener, accepting, dogVars, delVars, spent>>

\* The catch block: one safe terminal if the stream is still open.
Catch(w) ==
    /\ wpc[w] = "catch"
    /\ Goto(w, IF IsOpen(w) THEN "append" ELSE "get")
    /\ UNCHANGED <<sessVars, exists, logVars, stopFlag, jobVars, ownVars, req, wrun,
                   wend, cancelled, listener, accepting, dogVars, delVars, spent>>

AppendTerminal(w) ==
    /\ wpc[w] = "append"
    /\ IF IsOpen(w)
       THEN /\ terms' = [terms EXCEPT ![wrun[w]] = @ + 1]
            /\ Goto(w, "close")
       ELSE Goto(w, "get") /\ UNCHANGED terms
    /\ UNCHANGED <<sessVars, exists, stream, stopFlag, jobVars, ownVars, req, wrun,
                   wend, cancelled, listener, accepting, dogVars, delVars, spent>>

\* Mutant of CloseFailed: the terminal is written, the stream left open.
CloseForgotten(w) ==
    /\ wpc[w] = "close"
    /\ Goto(w, "get")
    /\ UNCHANGED <<sessVars, exists, logVars, stopFlag, jobVars, ownVars, req, wrun,
                   wend, cancelled, listener, accepting, dogVars, delVars, spent>>

CloseFailed(w) ==
    /\ wpc[w] = "close"
    /\ CloseStream(wrun[w], "error")
    /\ Goto(w, "get")
    /\ UNCHANGED <<sessVars, exists, terms, stopFlag, jobVars, ownVars, req, wrun,
                   wend, cancelled, listener, accepting, dogVars, delVars, spent>>

ReleaseGet(w) ==
    /\ wpc[w] = "get"
    /\ Goto(w, IF lock[SessionOf[wrun[w]]] = wrun[w] THEN "del" ELSE "finish")
    /\ UNCHANGED <<sessVars, exists, logVars, stopFlag, jobVars, ownVars, req, wrun,
                   wend, cancelled, listener, accepting, dogVars, delVars, spent>>

ReleaseDel(w) ==
    /\ wpc[w] = "del"
    /\ DelLock(wrun[w])
    /\ Goto(w, "finish")
    /\ UNCHANGED <<exists, logVars, stopFlag, jobVars, ownVars, req, wrun, wend,
                   cancelled, listener, accepting, dogVars, delVars, spent>>

\* A Redis or database call of the slot rejects.  The first two are outside the
\* try block; the catch block swallows its own failures and still releases.
SlotFails(w) ==
    /\ Spend("fail")
    /\ \/ /\ wpc[w] \in {"checkOpen", "checkSession"}
          /\ Goto(w, "finish") /\ Ends(w, "thrown") /\ UNCHANGED robbed
       \/ /\ wpc[w] \in {"recheckSession", "recheckOpen", "run", "closeOwn"}
          /\ Goto(w, "catch") /\ Ends(w, "error") /\ UNCHANGED robbed
       \/ /\ wpc[w] \in {"append", "close"}
          /\ Goto(w, "get") /\ UNCHANGED wend /\ Rob(wrun[w], "fail")
       \/ /\ wpc[w] \in {"get", "del"}
          /\ Goto(w, "finish") /\ UNCHANGED <<wend, robbed>>
    /\ UNCHANGED <<lock, exists, logVars, stopFlag, jobVars, ownVars, req, wrun,
                   cancelled, listener, accepting, dogVars, delVars>>

\* The stop flag and the heartbeat are cleared by runs that got past Register;
\* a slot whose token was lost cannot settle the job.
Finish(w) ==
    LET s == wrun[w]
        failed == wend[w] \in {"error", "thrown"} IN
    /\ wpc[w] = "finish"
    /\ IF wend[w] \in Final
       THEN stopFlag' = stopFlag \ {s} /\ wal' = wal \ {s}
       ELSE UNCHANGED <<stopFlag, wal>>
    /\ IF holder[s] = w
       THEN /\ job' = [job EXCEPT ![s] = IF failed THEN "failed" ELSE "done"]
            /\ holder' = [holder EXCEPT ![s] = NoWorker]
            /\ listener' = IF failed THEN [listener EXCEPT ![s] = "check"] ELSE listener
       ELSE UNCHANGED <<job, holder, listener>>
    /\ Goto(w, "idle")
    /\ wrun' = [wrun EXCEPT ![w] = NoStream]
    /\ Ends(w, "none")
    /\ cancelled' = cancelled \ {w}
    /\ UNCHANGED <<sessVars, exists, logVars, stalls, created, req, accepting,
                   dogVars, delVars, spent>>

-----------------------------------------------------------------------------
(* failChatRun, called by the "failed" listener of the worker process.     *)

ListenerStep(s, from, to) ==
    /\ listener[s] = from
    /\ listener' = [listener EXCEPT ![s] = to]

\* Mutant of ListenerCheck: the listener only frees the lock.
ListenerOnlyReleases(s) ==
    /\ ListenerStep(s, "check", "get")
    /\ UNCHANGED <<sessVars, exists, logVars, stopFlag, jobVars, ownVars, req,
                   workVars, accepting, dogVars, delVars, spent>>

ListenerCheck(s) ==
    /\ ListenerStep(s, "check", IF stream[s] = "running" THEN "append" ELSE "get")
    /\ UNCHANGED <<sessVars, exists, logVars, stopFlag, jobVars, ownVars, req,
                   workVars, accepting, dogVars, delVars, spent>>

ListenerAppend(s) ==
    /\ IF stream[s] = "running"
       THEN /\ ListenerStep(s, "append", "close")
            /\ terms' = [terms EXCEPT ![s] = @ + 1]
       ELSE ListenerStep(s, "append", "get") /\ UNCHANGED terms
    /\ UNCHANGED <<sessVars, exists, stream, stopFlag, jobVars, ownVars, req,
                   workVars, accepting, dogVars, delVars, spent>>

ListenerClose(s) ==
    /\ ListenerStep(s, "close", "get")
    /\ CloseStream(s, "error")
    /\ UNCHANGED <<sessVars, exists, terms, stopFlag, jobVars, ownVars, req,
                   workVars, accepting, dogVars, delVars, spent>>

ListenerGet(s) ==
    /\ ListenerStep(s, "get", IF lock[SessionOf[s]] = s THEN "del" ELSE "idle")
    /\ UNCHANGED <<sessVars, exists, logVars, stopFlag, jobVars, ownVars, req,
                   workVars, accepting, dogVars, delVars, spent>>

ListenerDel(s) ==
    /\ ListenerStep(s, "del", "idle")
    /\ DelLock(s)
    /\ UNCHANGED <<exists, logVars, stopFlag, jobVars, ownVars, req, workVars,
                   accepting, dogVars, delVars, spent>>

ListenerFails(s) ==
    /\ Spend("fail")
    /\ \/ /\ listener[s] \in {"check", "append", "close"}
          /\ listener' = [listener EXCEPT ![s] = "get"]
          /\ Rob(s, "fail")
       \/ /\ listener[s] \in {"get", "del"}
          /\ listener' = [listener EXCEPT ![s] = "idle"]
          /\ UNCHANGED robbed
    /\ UNCHANGED <<lock, exists, logVars, stopFlag, jobVars, ownVars, req, workVars,
                   accepting, dogVars, delVars>>

-----------------------------------------------------------------------------
(* The worker process: death, graceful shutdown, restart.                  *)

\* Everything in the process is lost; its job tokens expire unrenewed.
Crash ==
    /\ Spend("crash")
    /\ wpc' = [w \in Worker |-> "idle"]
    /\ wrun' = [w \in Worker |-> NoStream]
    /\ wend' = [w \in Worker |-> "none"]
    /\ cancelled' = {}
    /\ listener' = [s \in Stream |-> "idle"]
    /\ holder' = [s \in Stream |-> NoWorker]
    /\ accepting' = TRUE
    /\ UNCHANGED <<sessVars, exists, logVars, stopFlag, job, stalls, ownVars, req,
                   dogVars, delVars>>

\* SIGTERM: stop accepting, then cancel every registered run.
Shutdown ==
    /\ accepting
    /\ Spend("shutdown")
    /\ accepting' = FALSE
    /\ cancelled' = cancelled \cup {w \in Worker : Registered(w)}
    /\ UNCHANGED <<sessVars, exists, logVars, stopFlag, jobVars, ownVars, req, wpc,
                   wrun, wend, listener, dogVars, delVars>>

\* The drained process exits without waiting for its listeners, and a new one
\* starts.
Restart ==
    /\ ~accepting
    /\ \A w \in Worker : wpc[w] = "idle"
    /\ accepting' = TRUE
    /\ listener' = [s \in Stream |-> "idle"]
    /\ UNCHANGED <<sessVars, exists, logVars, stopFlag, jobVars, ownVars, req,
                   workVars, dogVars, delVars, spent>>

-----------------------------------------------------------------------------
(* Redis keys over time.                                                   *)

\* A live owner renews the heartbeat three times per TTL: it expires only when
\* the owner is gone, or lags.
WalExpires(s) ==
    /\ s \in wal
    /\ IF \E w \in Worker : Registered(w) /\ wrun[w] = s THEN Spend("lag") ELSE UNCHANGED spent
    /\ wal' = wal \ {s}
    /\ UNCHANGED <<sessVars, exists, logVars, stopFlag, jobVars, created, req,
                   workVars, listener, accepting, dogVars, delVars>>

Beat(w) ==
    /\ Registered(w)
    /\ wal' = wal \cup {wrun[w]}
    /\ wal' # wal
    /\ UNCHANGED <<sessVars, exists, logVars, stopFlag, jobVars, created, req,
                   workVars, listener, accepting, dogVars, delVars, spent>>

\* The created marker is written once per execution and never renewed.
MarkerAges(s) ==
    /\ created[s] # "none"
    /\ created' = [created EXCEPT ![s] = IF @ = "fresh" THEN "old" ELSE "none"]
    /\ UNCHANGED <<sessVars, exists, logVars, stopFlag, jobVars, wal, req, workVars,
                   listener, accepting, dogVars, delVars, spent>>

\* The lock's two-hour TTL is never extended.
LockExpires(x) ==
    /\ lock[x] # NoStream
    /\ Spend("ttl")
    /\ lock' = [lock EXCEPT ![x] = NoStream]
    /\ Rob(lock[x], "ttl")
    /\ UNCHANGED <<exists, logVars, stopFlag, jobVars, ownVars, req, workVars,
                   listener, accepting, dogVars, delVars>>

-----------------------------------------------------------------------------
(* The API's watchdog: sweepStaleRuns and closeStaleRun, one key at a time. *)

\* No heartbeat, and a created marker past its grace period.  A run without a
\* marker is left alone.
SweepPick(x) ==
    /\ sweep = "idle"
    /\ lock[x] # NoStream
    /\ lock[x] \notin wal
    /\ created[lock[x]] = "old"
    /\ sweep' = "status"
    /\ sweepRun' = lock[x]
    /\ UNCHANGED <<sessVars, exists, logVars, stopFlag, jobVars, ownVars, req,
                   workVars, listener, accepting, delVars, spent>>

SweepStatus ==
    /\ sweep = "status"
    /\ IF stream[sweepRun] = "running"
       THEN sweep' = "append" /\ UNCHANGED sweepRun
       ELSE sweep' = "idle" /\ sweepRun' = NoStream
    /\ UNCHANGED <<sessVars, exists, logVars, stopFlag, jobVars, ownVars, req,
                   workVars, listener, accepting, delVars, spent>>

SweepAppend ==
    /\ sweep = "append"
    /\ IF stream[sweepRun] = "running"
       THEN /\ terms' = [terms EXCEPT ![sweepRun] = @ + 1]
            /\ sweep' = "close"
       ELSE sweep' = "get" /\ UNCHANGED terms
    /\ UNCHANGED <<sessVars, exists, stream, stopFlag, jobVars, ownVars, req,
                   workVars, listener, accepting, sweepRun, delVars, spent>>

SweepClose ==
    /\ sweep = "close"
    /\ CloseStream(sweepRun, "error")
    /\ sweep' = "get"
    /\ UNCHANGED <<sessVars, exists, terms, stopFlag, jobVars, ownVars, req,
                   workVars, listener, accepting, sweepRun, delVars, spent>>

SweepGet ==
    /\ sweep = "get"
    /\ IF lock[SessionOf[sweepRun]] = sweepRun
       THEN sweep' = "del" /\ UNCHANGED sweepRun
       ELSE sweep' = "idle" /\ sweepRun' = NoStream
    /\ UNCHANGED <<sessVars, exists, logVars, stopFlag, jobVars, ownVars, req,
                   workVars, listener, accepting, delVars, spent>>

SweepDel ==
    /\ sweep = "del"
    /\ DelLock(sweepRun)
    /\ sweep' = "idle"
    /\ sweepRun' = NoStream
    /\ UNCHANGED <<exists, logVars, stopFlag, jobVars, ownVars, req, workVars,
                   listener, accepting, delVars, spent>>

\* The sweep's status read skips the key; the next read of a run found open,
\* in closeStaleRun, releases anyway.
SweepFails ==
    /\ Spend("fail")
    /\ \/ /\ sweep \in {"status", "append", "close"}
          /\ sweep = "status" => stream[sweepRun] = "running"
          /\ sweep' = "get" /\ UNCHANGED sweepRun
          /\ Rob(sweepRun, "fail")
       \/ /\ sweep \in {"status", "get", "del"}
          /\ sweep' = "idle" /\ sweepRun' = NoStream
          /\ UNCHANGED robbed
    /\ UNCHANGED <<lock, exists, logVars, stopFlag, jobVars, ownVars, req, workVars,
                   listener, accepting, delVars>>

-----------------------------------------------------------------------------
(* deleteChatSession: stop the active run, look for a new one, delete.     *)

DelGoto(x, pc) == dpc' = [dpc EXCEPT ![x] = pc]

Live(s)    == job[s] \in {"waiting", "active"}
Settled(s) == job[s] \in {"done", "failed", "removed", "none"}

\* Where the deletion goes once the lock is out of the way.
Done(x) == IF dlast[x] THEN "hard" ELSE "relock"

DeleteSession(x) ==
    /\ dpc[x] = "idle"
    /\ x \in exists
    /\ Spend("delete")
    /\ DelGoto(x, "lock")
    /\ UNCHANGED <<sessVars, exists, logVars, stopFlag, jobVars, ownVars, req,
                   workVars, listener, accepting, dogVars, drun, dmiss, dlast>>

DelLockRead(x) ==
    /\ dpc[x] = "lock"
    /\ IF lock[x] = NoStream
       THEN DelGoto(x, "relock") /\ UNCHANGED drun
       ELSE DelGoto(x, "status") /\ drun' = [drun EXCEPT ![x] = lock[x]]
    /\ UNCHANGED <<sessVars, exists, logVars, stopFlag, jobVars, ownVars, req,
                   workVars, listener, accepting, dogVars, dmiss, dlast, spent>>

DelStatus(x) ==
    /\ dpc[x] = "status"
    /\ DelGoto(x, IF stream[drun[x]] = "running" THEN "find" ELSE "drop")
    /\ UNCHANGED <<sessVars, exists, logVars, stopFlag, jobVars, ownVars, req,
                   workVars, listener, accepting, dogVars, drun, dmiss, dlast, spent>>

\* A lock judged stale is deleted without looking at it again.
DelDrop(x) ==
    /\ dpc[x] = "drop"
    /\ lock' = [lock EXCEPT ![x] = NoStream]
    /\ Rob(lock[x], "delete")
    /\ DelGoto(x, "relock")
    /\ UNCHANGED <<exists, logVars, stopFlag, jobVars, ownVars, req, workVars,
                   listener, accepting, dogVars, drun, dmiss, dlast, spent>>

\* getJobs lists live jobs only; the state of the one found is read next.
DelFind(x) ==
    /\ dpc[x] = "find"
    /\ DelGoto(x, IF Live(drun[x]) THEN "jobState" ELSE "setStop")
    /\ dmiss' = [dmiss EXCEPT ![x] = IF Live(drun[x]) THEN 0 ELSE 1]
    /\ UNCHANGED <<sessVars, exists, logVars, stopFlag, jobVars, ownVars, req,
                   workVars, listener, accepting, dogVars, drun, dlast, spent>>

DelJobState(x) ==
    /\ dpc[x] = "jobState"
    /\ DelGoto(x, IF Settled(drun[x]) THEN "drop" ELSE "setStop")
    /\ UNCHANGED <<sessVars, exists, logVars, stopFlag, jobVars, ownVars, req,
                   workVars, listener, accepting, dogVars, drun, dmiss, dlast, spent>>

DelSetStop(x) ==
    /\ dpc[x] = "setStop"
    /\ stopFlag' = stopFlag \cup {drun[x]}
    /\ DelGoto(x, IF dmiss[x] = 0 THEN "remove" ELSE "poll")
    /\ UNCHANGED <<sessVars, exists, logVars, jobVars, ownVars, req, workVars,
                   listener, accepting, dogVars, drun, dmiss, dlast, spent>>

\* Mutant of DelRemove: a run whose job was removed is released, not closed.
RemoveSkipsClose(x) ==
    LET s == drun[x] IN
    /\ dpc[x] = "remove"
    /\ job' = [job EXCEPT ![s] = IF @ = "waiting" THEN "removed" ELSE @]
    /\ DelGoto(x, IF job[s] = "active" THEN "poll" ELSE "get")
    /\ dmiss' = [dmiss EXCEPT ![x] = 0]
    /\ UNCHANGED <<sessVars, exists, logVars, stopFlag, holder, stalls, ownVars, req,
                   workVars, listener, accepting, dogVars, drun, dlast, spent>>

\* tryRemoveQueuedJob: a settled job needs no removal, an active one resists.
DelRemove(x) ==
    LET s == drun[x] IN
    /\ dpc[x] = "remove"
    /\ job' = [job EXCEPT ![s] = IF @ = "waiting" THEN "removed" ELSE @]
    /\ DelGoto(x, IF job[s] = "active" THEN "poll" ELSE "close")
    /\ dmiss' = [dmiss EXCEPT ![x] = 0]
    /\ UNCHANGED <<sessVars, exists, logVars, stopFlag, holder, stalls, ownVars, req,
                   workVars, listener, accepting, dogVars, drun, dlast, spent>>

\* Mutant of DelPoll: the polled lock is not tested for null.
PollIgnoresNull(x) ==
    /\ dpc[x] = "poll"
    /\ DelGoto(x, "pollJob")
    /\ drun' = [drun EXCEPT ![x] = lock[x]]
    /\ UNCHANGED <<sessVars, exists, logVars, stopFlag, jobVars, ownVars, req,
                   workVars, listener, accepting, dogVars, dmiss, dlast, spent>>

DelPoll(x) ==
    /\ dpc[x] = "poll"
    /\ IF lock[x] = NoStream
       THEN DelGoto(x, "relock") /\ UNCHANGED drun
       ELSE DelGoto(x, "pollJob") /\ drun' = [drun EXCEPT ![x] = lock[x]]
    /\ UNCHANGED <<sessVars, exists, logVars, stopFlag, jobVars, ownVars, req,
                   workVars, listener, accepting, dogVars, dmiss, dlast, spent>>

\* The poll that misses the job a second time abandons the run.
DelPollJob(x) ==
    /\ dpc[x] = "pollJob"
    /\ IF Live(drun[x])
       THEN DelGoto(x, "remove") /\ UNCHANGED dmiss
       ELSE /\ dmiss' = [dmiss EXCEPT ![x] = IF @ = 2 THEN 2 ELSE @ + 1]
            /\ DelGoto(x, IF dmiss[x] + 1 >= 2 THEN "close" ELSE "poll")
    /\ UNCHANGED <<sessVars, exists, logVars, stopFlag, jobVars, ownVars, req,
                   workVars, listener, accepting, dogVars, drun, dlast, spent>>

\* Mutant of DelTimeout: the deletion waits for the holder of the lock.
TimeoutWaits(x) ==
    /\ dpc[x] = "poll"
    /\ lock[x] = NoStream
    /\ DelGoto(x, "relock")
    /\ UNCHANGED <<sessVars, exists, logVars, stopFlag, jobVars, ownVars, req,
                   workVars, listener, accepting, dogVars, drun, dmiss, dlast, spent>>

\* The twelve seconds are over: whoever holds the lock now is abandoned.
DelTimeout(x) ==
    /\ dpc[x] = "poll"
    /\ IF lock[x] = NoStream
       THEN DelGoto(x, "relock") /\ UNCHANGED drun
       ELSE DelGoto(x, "close") /\ drun' = [drun EXCEPT ![x] = lock[x]]
    /\ UNCHANGED <<sessVars, exists, logVars, stopFlag, jobVars, ownVars, req,
                   workVars, listener, accepting, dogVars, dmiss, dlast, spent>>

\* abandonLockedRun: close the stream, then release its lock.
DelClose(x) ==
    /\ dpc[x] = "close"
    /\ CloseStream(drun[x], "error")
    /\ DelGoto(x, "get")
    /\ UNCHANGED <<sessVars, exists, terms, stopFlag, jobVars, ownVars, req, workVars,
                   listener, accepting, dogVars, drun, dmiss, dlast, spent>>

DelGet(x) ==
    /\ dpc[x] = "get"
    /\ DelGoto(x, IF lock[x] = drun[x] THEN "del" ELSE Done(x))
    /\ UNCHANGED <<sessVars, exists, logVars, stopFlag, jobVars, ownVars, req,
                   workVars, listener, accepting, dogVars, drun, dmiss, dlast, spent>>

\* A run abandoned between its lock and its stream loses the lock, and may
\* still open: closing a missing stream does nothing.
DelDel(x) ==
    /\ dpc[x] = "del"
    /\ lock' = [lock EXCEPT ![x] = NoStream]
    /\ Rob(lock[x], IF lock[x] = drun[x] THEN "delete" ELSE "release")
    /\ DelGoto(x, Done(x))
    /\ UNCHANGED <<exists, logVars, stopFlag, jobVars, ownVars, req, workVars,
                   listener, accepting, dogVars, drun, dmiss, dlast, spent>>

\* After the snapshot: a second tab may have started another run meanwhile.
DelRelock(x) ==
    /\ dpc[x] = "relock"
    /\ dlast' = [dlast EXCEPT ![x] = TRUE]
    /\ IF lock[x] = NoStream
       THEN DelGoto(x, "hard") /\ UNCHANGED drun
       ELSE DelGoto(x, "unqueue") /\ drun' = [drun EXCEPT ![x] = lock[x]]
    /\ UNCHANGED <<sessVars, exists, logVars, stopFlag, jobVars, ownVars, req,
                   workVars, listener, accepting, dogVars, dmiss, spent>>

DelUnqueue(x) ==
    /\ dpc[x] = "unqueue"
    /\ job' = [job EXCEPT ![drun[x]] = IF @ = "waiting" THEN "removed" ELSE @]
    /\ DelGoto(x, "close")
    /\ UNCHANGED <<sessVars, exists, logVars, stopFlag, holder, stalls, ownVars, req,
                   workVars, listener, accepting, dogVars, drun, dmiss, dlast, spent>>

DelReset(x) ==
    /\ DelGoto(x, "idle")
    /\ drun' = [drun EXCEPT ![x] = NoStream]
    /\ dmiss' = [dmiss EXCEPT ![x] = 0]
    /\ dlast' = [dlast EXCEPT ![x] = FALSE]

HardDelete(x) ==
    /\ dpc[x] = "hard"
    /\ exists' = exists \ {x}
    /\ DelReset(x)
    /\ UNCHANGED <<sessVars, logVars, stopFlag, jobVars, ownVars, req, workVars,
                   listener, accepting, dogVars, spent>>

\* closeRunningStream swallows a failure; any other fails the deletion.
DelFails(x) ==
    /\ Spend("fail")
    /\ \/ /\ dpc[x] = "close"
          /\ DelGoto(x, "get")
          /\ Rob(drun[x], "fail")
          /\ UNCHANGED <<drun, dmiss, dlast>>
       \/ /\ dpc[x] \notin {"idle", "close"}
          /\ DelReset(x)
          /\ UNCHANGED robbed
    /\ UNCHANGED <<lock, exists, logVars, stopFlag, jobVars, ownVars, req, workVars,
                   listener, accepting, dogVars>>

\* The API process dies: its requests, its sweep and its deletions are gone.
ApiCrash ==
    /\ Spend("api")
    /\ req' = [s \in Stream |-> IF req[s] \in InFlight THEN "crashed" ELSE req[s]]
    /\ sweep' = "idle"
    /\ sweepRun' = NoStream
    /\ dpc' = [x \in Session |-> "idle"]
    /\ drun' = [x \in Session |-> NoStream]
    /\ dmiss' = [x \in Session |-> 0]
    /\ dlast' = [x \in Session |-> FALSE]
    /\ UNCHANGED <<sessVars, exists, logVars, stopFlag, jobVars, ownVars, workVars,
                   listener, accepting>>

-----------------------------------------------------------------------------
Request(s) == \/ Acquire(s) \/ Open(s) \/ Enqueue(s)
              \/ CleanupClose(s) \/ CleanupGet(s) \/ CleanupDel(s)

Slot(w) == \/ CheckOpen(w) \/ CheckSession(w) \/ Register(w) \/ Prepare(w)
           \/ RecheckSession(w) \/ RecheckOpen(w) \/ AgentEnds(w)
           \/ AppendRejected(w) \/ CloseOwn(w) \/ Catch(w) \/ AppendTerminal(w)
           \/ CloseFailed(w) \/ ReleaseGet(w) \/ ReleaseDel(w) \/ Finish(w)

Listener(s) == \/ ListenerCheck(s) \/ ListenerAppend(s) \/ ListenerClose(s)
               \/ ListenerGet(s) \/ ListenerDel(s)

Watchdog == \/ \E x \in Session : SweepPick(x)
            \/ SweepStatus \/ SweepAppend \/ SweepClose \/ SweepGet \/ SweepDel

Deletion(x) == \/ DelLockRead(x) \/ DelStatus(x) \/ DelDrop(x) \/ DelFind(x)
               \/ DelJobState(x) \/ DelSetStop(x) \/ DelRemove(x) \/ DelPollJob(x)
               \/ DelTimeout(x) \/ DelClose(x) \/ DelGet(x) \/ DelDel(x)
               \/ DelRelock(x) \/ DelUnqueue(x) \/ HardDelete(x)

CallFails == \/ \E s \in Stream : \/ OpenFails(s) \/ EnqueueFails(s)
                                  \/ RequestFails(s) \/ ListenerFails(s)
             \/ \E w \in Worker : SlotFails(w)
             \/ \E x \in Session : DelFails(x)
             \/ SweepFails

Next ==
    \/ \E s \in Stream : \/ Submit(s) \/ Request(s) \/ Stop(s) \/ Stall(s)
                         \/ Listener(s) \/ WalExpires(s) \/ MarkerAges(s)
    \/ \E w \in Worker : \/ \E s \in Stream : Take(w, s)
                         \/ Slot(w) \/ StopSeen(w) \/ Beat(w)
    \/ \E x \in Session : LockExpires(x) \/ DeleteSession(x) \/ Deletion(x) \/ DelPoll(x)
    \/ Crash \/ Shutdown \/ Restart \/ Watchdog \/ ApiCrash \/ CallFails

Spec == Init /\ [][Next]_vars

\* Redelivery after the token of a dead holder ran out.
Redeliver(s) == holder[s] = NoWorker /\ Stall(s)

(* Every process keeps taking its steps: Node runs pending callbacks, the    *)
(* worker is restarted, BullMQ hands out waiting jobs and repeats its        *)
(* stalled check, and a started agent run ends (provider calls time out and  *)
(* turns are bounded).                                                       *)
WorkerFairness ==
    /\ \A w \in Worker : WF_vars(Slot(w)) /\ WF_vars(\E s \in Stream : Take(w, s))
    /\ \A s \in Stream : WF_vars(Listener(s)) /\ WF_vars(Redeliver(s))
    /\ WF_vars(Restart)

ApiFairness ==
    /\ \A s \in Stream : WF_vars(Request(s))
    /\ WF_vars(Watchdog)
    /\ \A x \in Session : /\ WF_vars(Deletion(x) \/ DelPoll(x))
                          /\ SF_vars(DelTimeout(x))

\* Keys with a TTL expire: the heartbeat after 60 s, the marker after 600 s.
TimeFairness ==
    \A s \in Stream : WF_vars(WalExpires(s)) /\ WF_vars(MarkerAges(s))

FairSpec == Spec /\ WorkerFairness /\ ApiFairness

\* A worker that dies is not restarted: while it lives its slots and its
\* listeners take their steps, but nobody need fetch a job.
DeadWorkerFairness ==
    /\ \A w \in Worker : WF_vars(Slot(w))
    /\ \A s \in Stream : WF_vars(Listener(s))

DeadWorkerSpec == Spec /\ DeadWorkerFairness /\ ApiFairness /\ TimeFairness

-----------------------------------------------------------------------------
(* Properties.                                                             *)

IsRunning(s) == stream[s] = "running"
Evicted   == {s \in Stream : \E c \in Causes : <<s, c>> \in robbed}

\* The API process died, or the worker was shut down, with calls under way.
Exited == spent["api"] + spent["shutdown"] > 0

(* An open run holds its session's lock until its stream is closed: no      *)
(* request, slot, listener or sweep frees the lock of its own run first.    *)
(* Only another run's DEL, the TTL or a deletion can take it.               *)
HoldsLock == \A s \in Stream : IsRunning(s) /\ s \notin Evicted => lock[SessionOf[s]] = s

(* Two runs of a session are never open together, unless one was evicted.   *)
Exclusive ==
    \A s, t \in Stream : IsRunning(s) /\ IsRunning(t) /\ SessionOf[s] = SessionOf[t] =>
        s = t \/ s \in Evicted \/ t \in Evicted

(* A closed stream keeps its status and its log, although five kinds of     *)
(* process check its status in one call and close or append in a later one. *)
ClosedIsFinal ==
    [][\A s \in Stream : stream[s] \in Final =>
          stream'[s] = stream[s] /\ terms'[s] = terms[s]]_vars

(* A run's log has at most one terminal event, although the catch block,    *)
(* the failed listener, the watchdog and the session guard each write one:  *)
(* at least as long as no worker died or lagged and no call failed.         *)
OneTerminal ==
    spent["crash"] + spent["lag"] + spent["fail"] = 0 => \A s \in Stream : terms[s] <= 1

(* An open run has somebody who will close it: its request, its job, the    *)
(* listener of its failed job, or the deletion that removed its job; unless  *)
(* the Redis call that should have closed it failed, a crash took the        *)
(* listener of its failed job, or its process exited.                       *)
HasCustodian ==
    ~Exited => \A s \in Stream : IsRunning(s) =>
        \/ req[s] \in {"enqueue", "close"}
        \/ Live(s)
        \/ listener[s] \in {"check", "append", "close"}
        \/ job[s] = "removed" /\ dpc[SessionOf[s]] = "close" /\ drun[SessionOf[s]] = s
        \/ <<s, "fail">> \in robbed
        \/ job[s] = "failed" /\ spent["crash"] > 0

(* The whole system does what the session promises.                        *)
Runs == INSTANCE SessionRuns WITH phase <- stream, evicted <- Evicted
ImplementsSessionRuns == Runs!Spec

(* Once BullMQ accepted its job a run's stream is closed, through worker    *)
(* crashes, redelivery and the stall limit, unless the API died while it     *)
(* deleted the session, or a shutdown cut the failed listener short.         *)
AcceptedRunEnds == \A s \in Stream : job[s] # "none" ~> ~IsRunning(s) \/ Exited

(* A closed run gives its session back, unless its process exited.          *)
LockReturned ==
    \A s \in Stream : stream[s] \in Final ~> lock[SessionOf[s]] # s \/ Exited

(* Deleting a session succeeds although the worker never settles.           *)
DeleteEnds == \A x \in Session : dpc[x] # "idle" ~> dpc[x] = "idle"

(* The release helper only deletes the lock it owns (run-queue.ts:368).     *)
ReleaseOwnOnly == \A s \in Stream : <<s, "release">> \notin robbed

(* A run whose worker died is closed by the watchdog, so that clients never *)
(* hang (run-stale-watchdog.ts:86-91), also when it had been running for    *)
(* longer than the created marker's ten minutes.                            *)
NeverHangs ==
    \A s \in Stream :
        (IsRunning(s) /\ job[s] = "active" /\ holder[s] = NoWorker
           /\ s \in wal /\ created[s] = "none") ~> ~IsRunning(s)
=============================================================================
