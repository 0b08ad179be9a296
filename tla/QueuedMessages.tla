--------------------------- MODULE QueuedMessages ---------------------------
(***************************************************************************)
(* Messages a user writes while a run is at work. A tab keeps them in a      *)
(* queue that survives a reload, in the order of writing; it posts one as    *)
(* the prompt of a run when the session is idle, or pushes them all into the *)
(* run that holds the session's lock, where a pump hands them to the agent   *)
(* one by one. The item leaves the tab when the run reports it applied. One  *)
(* tab, the runs of a session in order; the tab can reload, a reply or an    *)
(* acknowledgement can get lost, and a worker can die.                       *)
(***************************************************************************)
EXTENDS Naturals, Sequences

CONSTANTS
    Item,       \* queued messages, named by their clientMessageId
    MaxRuns,    \* bound: runs of the session
    MaxUpsets,  \* bound: reloads, stops, removals, lost replies and events
    NoItem

ASSUME QueueAssumption ==
    /\ MaxRuns \in Nat
    /\ MaxUpsets \in Nat
    /\ NoItem \notin Item

VARIABLES
    queue,      \* items of the tab; their order is that of writing
    inflight,   \* those of them with status "inflight"; the others are pending
    written,    \* what the user has queued, in order
    hold,       \* queueHold
    flush,      \* the auto-flush effect: where it is, what sync said, its item
    send,       \* "Send now" waits for its reply
    following,  \* the run whose stream the tab reads, 0 without one
    released,   \* items the user removed, stopped or got back in the composer
    post,       \* POST /chat/steer in the server: the run it read, what is left
    runState,   \* each run of the session
    prompt,     \* the queued item a run was started with, if any
    runFailed,  \* its terminal is an error
    steerQueue, \* rs-steer:<stream>:queue
    seen,       \* rs-steer:<stream>:seen
    pumped,     \* the pump's active item
    acks,       \* queued_message_applied events the tab has not read
    steered,    \* history: how often a run's agent took an item
    answered,   \* user messages with the item's id in the conversation memory
    upsets      \* how much of the bound has been used

tabVars == <<queue, inflight, written, hold, flush, send, following, released>>
runVars == <<runState, prompt, runFailed, steerQueue, seen, pumped, acks,
             steered, answered>>
queueVars == <<queue, inflight, written, hold, flush, send, following, released,
               post, runState, prompt, runFailed, steerQueue, seen, pumped, acks,
               steered, answered, upsets>>

SessionRun == 1..MaxRuns
Waits   == {"idle", "sync", "purge", "post", "stream"}
NoPost  == [at |-> "none", run |-> 0, left |-> {}]
NoFlush == [at |-> "idle", applied |-> {}, item |-> NoItem]
Written == {written[n] : n \in DOMAIN written}
HoldsLock(r) == runState[r] \in {"open", "live", "closing"}

QueueTypeOK ==
    /\ written \in Seq(Item)
    /\ \A m, n \in DOMAIN written : written[m] = written[n] => m = n
    /\ queue \subseteq Written
    /\ inflight \subseteq queue
    /\ hold \in BOOLEAN
    /\ flush \in [at : Waits, applied : SUBSET Item, item : Item \cup {NoItem}]
    /\ send \in BOOLEAN
    /\ following \in 0..MaxRuns
    /\ released \subseteq Item
    /\ post \in [at : {"none", "get", "push", "replied", "refused"}, run : 0..MaxRuns,
                left : SUBSET Item]
    /\ runState \in [SessionRun -> {"none", "open", "live", "closing", "ended"}]
    /\ \A r, s \in SessionRun : HoldsLock(r) /\ HoldsLock(s) => r = s
    /\ prompt \in [SessionRun -> Item \cup {NoItem}]
    /\ runFailed \in [SessionRun -> BOOLEAN]
    /\ steerQueue \in [SessionRun -> Seq(Item)]
    /\ seen \in [SessionRun -> SUBSET Item]
    /\ pumped \in [SessionRun -> Item \cup {NoItem}]
    /\ acks \in [SessionRun -> SUBSET Item]
    /\ steered \in [SessionRun -> [Item -> Nat]]
    /\ answered \in [Item -> Nat]
    /\ upsets \in 0..MaxUpsets

QueueInit ==
    /\ queue = {}
    /\ inflight = {}
    /\ written = <<>>
    /\ hold = FALSE
    /\ flush = NoFlush
    /\ send = FALSE
    /\ following = 0
    /\ released = {}
    /\ post = NoPost
    /\ runState = [r \in SessionRun |-> "none"]
    /\ prompt = [r \in SessionRun |-> NoItem]
    /\ runFailed = [r \in SessionRun |-> FALSE]
    /\ steerQueue = [r \in SessionRun |-> <<>>]
    /\ seen = [r \in SessionRun |-> {}]
    /\ pumped = [r \in SessionRun |-> NoItem]
    /\ acks = [r \in SessionRun |-> {}]
    /\ steered = [r \in SessionRun |-> [i \in Item |-> 0]]
    /\ answered = [i \in Item |-> 0]
    /\ upsets = 0

-----------------------------------------------------------------------------
(* The tab's queue.                                                        *)

Pending == queue \ inflight

\* Of the items S, i is the one that was written first.
First(i, S) ==
    \A j \in S : \E m, n \in DOMAIN written : m <= n /\ written[m] = i /\ written[n] = j

Drop(S) == queue' = queue \ S /\ inflight' = inflight \ S

Upset == upsets < MaxUpsets /\ upsets' = upsets + 1

QueueItem(i) ==
    /\ i \notin Written
    /\ queue' = queue \cup {i}
    /\ written' = Append(written, i)
    /\ UNCHANGED <<inflight, hold, flush, send, following, released, post,
                   runVars, upsets>>

\* readQueue restores every stored item as pending; what the tab was waiting
\* for is forgotten, what it had asked the server for goes on.  The tab then
\* joins the run that is still streaming, behind events or from the start.
Reload ==
    /\ Upset
    /\ inflight' = {}
    /\ hold' = FALSE
    /\ flush' = NoFlush
    /\ send' = FALSE
    /\ following' = IF \E r \in SessionRun : runState[r] \in {"open", "live"}
                    THEN CHOOSE r \in SessionRun : runState[r] \in {"open", "live"}
                    ELSE 0
    /\ \/ UNCHANGED acks
       \/ acks' = [r \in SessionRun |-> {}]
    /\ UNCHANGED <<queue, written, released, post, runState, prompt, runFailed,
                   steerQueue, seen, pumped, steered, answered>>

-----------------------------------------------------------------------------
(* Auto-flush: with the chat idle, the first pending item becomes a run.    *)

FlushStarts ==
    /\ following = 0 /\ ~hold
    /\ flush.at = "idle" /\ Pending # {}
    /\ flush' = [flush EXCEPT !.at = "sync"]
    /\ UNCHANGED <<queue, inflight, written, hold, send, following, released,
                   post, runVars, upsets>>

\* POST /queue/sync tells which items the memory already has; the tab goes on
\* without the answer if the call fails.
SyncIds ==
    /\ flush.at = "sync"
    /\ \E known \in {{}, {i \in queue : answered[i] > 0}} :
          flush' = [flush EXCEPT !.at = "purge", !.applied = known]
    /\ UNCHANGED <<queue, inflight, written, hold, send, following, released,
                   post, runVars, upsets>>

PurgeApplied ==
    /\ flush.at = "purge"
    /\ Drop(flush.applied)
    /\ LET left == Pending \ flush.applied
       IN  \/ left = {} /\ flush' = NoFlush
           \/ \E i \in left :
                 First(i, left) /\ flush' = [at |-> "post", applied |-> {}, item |-> i]
    /\ UNCHANGED <<written, hold, send, following, released, post, runVars, upsets>>

NextRun(r) == runState[r] = "none" /\ \A s \in 1..(r - 1) : runState[s] # "none"

SessionBusy == \E r \in SessionRun : HoldsLock(r)

Accept(r, i) ==
    /\ NextRun(r)
    /\ ~SessionBusy
    /\ runState' = [runState EXCEPT ![r] = "open"]
    /\ prompt' = [prompt EXCEPT ![r] = i]

\* The item stays in the queue while its run streams.  A refused request, or a
\* reply that is lost, holds the queue until the user does something.
FlushPosts ==
    /\ flush.at = "post"
    /\ \/ /\ \E r \in SessionRun : Accept(r, flush.item) /\ following' = r
          /\ flush' = [flush EXCEPT !.at = "stream"]
          /\ UNCHANGED <<hold, upsets>>
       \/ /\ Upset
          /\ \E r \in SessionRun : Accept(r, flush.item)
          /\ flush' = NoFlush
          /\ hold' = TRUE
          /\ UNCHANGED following
       \/ /\ flush' = NoFlush
          /\ hold' = TRUE
          /\ UNCHANGED <<runState, prompt, following, upsets>>
    /\ UNCHANGED <<queue, inflight, written, send, released, post, runFailed,
                   steerQueue, seen, pumped, acks, steered, answered>>

\* A message that was not queued starts a run; the tab follows it.
OtherPrompt(r) ==
    /\ following = 0 /\ flush.at # "post"
    /\ Accept(r, NoItem)
    /\ following' = r
    /\ UNCHANGED <<queue, inflight, written, hold, flush, send, released, post,
                   runFailed, steerQueue, seen, pumped, acks, steered,
                   answered, upsets>>

-----------------------------------------------------------------------------
(* Send now: every pending item is pushed into the run that has the lock.   *)

SendNow ==
    /\ flush.at = "idle" /\ ~send /\ post = NoPost
    /\ Pending # {}
    /\ send' = TRUE
    /\ inflight' = queue
    /\ post' = [at |-> "get", run |-> 0, left |-> Pending]
    /\ UNCHANGED <<queue, written, hold, flush, following, released, runVars,
                   upsets>>

\* POST /chat/steer reads the lock once.
SteerReadsLock ==
    /\ post.at = "get"
    /\ \/ \E r \in SessionRun : /\ HoldsLock(r)
                                /\ post' = [post EXCEPT !.at = "push", !.run = r]
       \/ /\ ~SessionBusy
          /\ post' = [post EXCEPT !.at = "refused"]
    /\ UNCHANGED <<tabVars, runVars, upsets>>

\* Mutant of Push: the stream's set of known ids is not asked.
PushAgain(r, i) ==
    /\ steerQueue' = [steerQueue EXCEPT ![r] = Append(@, i)]
    /\ seen' = [seen EXCEPT ![r] = @ \cup {i}]

\* PUSH_SCRIPT: an id is taken once per stream.
Push(r, i) ==
    /\ steerQueue' = IF i \in seen[r] THEN steerQueue
                     ELSE [steerQueue EXCEPT ![r] = Append(@, i)]
    /\ seen' = [seen EXCEPT ![r] = @ \cup {i}]

\* The messages of the body are pushed one after the other; one that the store
\* finds invalid fails the request behind those already pushed.
SteerPushes ==
    /\ post.at = "push"
    /\ \/ \E i \in post.left :
             /\ First(i, post.left)
             /\ Push(post.run, i)
             /\ post' = [post EXCEPT !.left = @ \ {i},
                                     !.at = IF post.left = {i} THEN "replied" ELSE "push"]
       \/ /\ post' = [post EXCEPT !.at = "refused"]
          /\ UNCHANGED <<steerQueue, seen>>
    /\ UNCHANGED <<tabVars, runState, prompt, runFailed, pumped, acks, steered,
                   answered, upsets>>

\* The reply reaches the tab that asked, or nobody.  An error reverts every
\* inflight item; only an error other than "no active run" keeps the hold.
SteerReply ==
    /\ post.at \in {"replied", "refused"}
    /\ post' = NoPost
    /\ send' = FALSE
    /\ inflight' = IF send /\ post.at = "refused" THEN {} ELSE inflight
    /\ hold' = IF send /\ (post.at = "replied" \/ post.run = 0) THEN FALSE ELSE hold
    /\ UNCHANGED <<queue, written, flush, following, released, runVars, upsets>>

-----------------------------------------------------------------------------
(* The run, its pump and its agent.                                        *)

\* The agent's memory stores the prompt as the run starts.
RunStarts(r) ==
    /\ runState[r] = "open"
    /\ runState' = [runState EXCEPT ![r] = "live"]
    /\ answered' = IF prompt[r] = NoItem THEN answered
                   ELSE [answered EXCEPT ![prompt[r]] = @ + 1]
    /\ UNCHANGED <<tabVars, post, prompt, runFailed, steerQueue, seen, pumped,
                   acks, steered, upsets>>

\* afterEvent pops when the pump has nothing in flight, and submits it.
PumpTakes(r) ==
    /\ runState[r] = "live"
    /\ pumped[r] = NoItem /\ steerQueue[r] # <<>>
    /\ pumped' = [pumped EXCEPT ![r] = Head(steerQueue[r])]
    /\ steerQueue' = [steerQueue EXCEPT ![r] = Tail(@)]
    /\ UNCHANGED <<tabVars, post, runState, prompt, runFailed, seen, acks,
                   steered, answered, upsets>>

\* The agent takes the item between two turns; the receipt becomes the event
\* that the tab waits for.
AgentApplies(r) ==
    /\ runState[r] = "live"
    /\ pumped[r] # NoItem
    /\ LET i == pumped[r]
       IN  /\ answered' = [answered EXCEPT ![i] = @ + 1]
           /\ steered' = [steered EXCEPT ![r][i] = @ + 1]
           /\ acks' = [acks EXCEPT ![r] = @ \cup {i}]
    /\ pumped' = [pumped EXCEPT ![r] = NoItem]
    /\ UNCHANGED <<tabVars, post, runState, prompt, runFailed, steerQueue,
                   seen, upsets>>

\* Closing the pump puts an unapplied item back in front; nobody reads the
\* queue of a stream that has ended.  A worker that dies puts nothing back.
RunCloses(r) ==
    /\ runState[r] \in {"open", "live"}
    /\ runState' = [runState EXCEPT ![r] = "closing"]
    /\ \E failed \in BOOLEAN :
          /\ runState[r] = "open" => failed
          /\ runFailed' = [runFailed EXCEPT ![r] = failed]
    /\ steerQueue' \in {steerQueue,
                        [steerQueue EXCEPT ![r] = IF pumped[r] = NoItem THEN @
                                                  ELSE <<pumped[r]>> \o @]}
    /\ pumped' = [pumped EXCEPT ![r] = NoItem]
    /\ UNCHANGED <<tabVars, post, prompt, seen, acks, steered, answered, upsets>>

\* The lock goes after the stream is closed.
RunReleasesLock(r) ==
    /\ runState[r] = "closing"
    /\ runState' = [runState EXCEPT ![r] = "ended"]
    /\ UNCHANGED <<tabVars, post, prompt, runFailed, steerQueue, seen, pumped,
                   acks, steered, answered, upsets>>

-----------------------------------------------------------------------------
(* What the tab reads from the stream.                                     *)

\* applyAck removes the item.  Updates of the queue in one render are computed
\* from the same snapshot, so an acknowledgement can be overwritten.
AckArrives(i) ==
    /\ following # 0 /\ i \in acks[following]
    /\ acks' = [acks EXCEPT ![following] = @ \ {i}]
    /\ \/ Drop({i}) /\ UNCHANGED upsets
       \/ Upset /\ UNCHANGED <<queue, inflight>>
    /\ UNCHANGED <<written, hold, flush, send, following, released, post, runState,
                   prompt, runFailed, steerQueue, seen, pumped, steered, answered>>

FlushItem == IF flush.at = "stream" THEN {flush.item} ELSE {}

\* Mutant of StreamDone: the text of a failed prompt is not offered again.
DoneForgetsText(r) ==
    /\ queue' = queue \ FlushItem
    /\ inflight' = {}
    /\ hold' = (hold \/ runFailed[r])
    /\ flush' = IF flush.at = "stream" THEN NoFlush ELSE flush
    /\ UNCHANGED released

\* The item whose run this was leaves the queue, and what is inflight reverts
\* to pending.  An error holds the queue and gives the composer the prompt.
StreamDone(r) ==
    /\ queue' = queue \ FlushItem
    /\ inflight' = {}
    /\ hold' = (hold \/ runFailed[r])
    /\ flush' = IF flush.at = "stream" THEN NoFlush ELSE flush
    /\ released' = IF runFailed[r] THEN released \cup ({prompt[r]} \ {NoItem})
                                   ELSE released

StreamEnds ==
    /\ following # 0
    /\ runState[following] \in {"closing", "ended"}
    /\ acks[following] = {}
    /\ StreamDone(following)
    /\ following' = 0
    /\ UNCHANGED <<written, send, post, runVars, upsets>>

\* The user stops the run: the tab lets go of the stream before it has ended,
\* with or without an error of the aborted request.
StopRun ==
    /\ Upset
    /\ following # 0
    /\ following' = 0
    /\ hold' = TRUE
    /\ inflight' = {}
    /\ flush' = IF flush.at = "stream" THEN NoFlush ELSE flush
    /\ \/ UNCHANGED <<queue, released>>
       \/ /\ queue' = queue \ FlushItem
          /\ released' = released \cup FlushItem
    /\ UNCHANGED <<written, send, post, runVars>>

RemoveItem(i) ==
    /\ Upset
    /\ i \in queue
    /\ Drop({i})
    /\ released' = released \cup {i}
    /\ UNCHANGED <<written, hold, flush, send, following, post, runVars>>

-----------------------------------------------------------------------------
QueueTab ==
    \/ \E i \in Item : QueueItem(i) \/ AckArrives(i) \/ RemoveItem(i)
    \/ Reload \/ FlushStarts \/ SyncIds \/ PurgeApplied \/ FlushPosts
    \/ SendNow \/ SteerReply \/ StreamEnds \/ StopRun

QueueServer ==
    \/ SteerReadsLock \/ SteerPushes
    \/ \E r \in SessionRun :
          \/ OtherPrompt(r) \/ RunStarts(r) \/ PumpTakes(r) \/ AgentApplies(r)
          \/ RunCloses(r) \/ RunReleasesLock(r)

QueueNext == QueueTab \/ QueueServer

QueueSpec == QueueInit /\ [][QueueNext]_queueVars

-----------------------------------------------------------------------------
(* Properties.                                                             *)

\* A message the user queued is in the queue of the tab, in the conversation, or
\* back in the user's hands: reloads, stops, runs that die and replies that get
\* lost never drop it, and neither does a run that it started but never read it.
NoMessageLost == \A i \in Written : i \in queue \/ answered[i] > 0 \/ i \in released

\* The agent of one run takes an item by steering at most once, although a
\* reloaded tab posts it again: "the server dedupes re-posts per stream"
\* (queued-messages.ts:78).
SteeredOncePerRun == \A r \in SessionRun, i \in Item : steered[r][i] <= 1

\* An inflight item waits for something: for the reply of the request that
\* carries it or for the end of a stream.  "The run ended between render and
\* post, and the auto-flush effect sends it as a new run once idle"
\* (chat-session.tsx:2000).
InflightIsWaitedFor == inflight # {} => send \/ following # 0
=============================================================================
