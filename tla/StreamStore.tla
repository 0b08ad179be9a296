----------------------------- MODULE StreamStore -----------------------------
(***************************************************************************)
(* One resumable stream in Redis and the clients that follow it: the Lua    *)
(* scripts that open it, append events under a counter and close it with a   *)
(* marker; the subscription that reads it row by row, checks the status when *)
(* no row is left and blocks; and the HTTP responses that carry the events,  *)
(* which a client may lose and resume from the last event it received.       *)
(***************************************************************************)
EXTENDS Naturals, Sequences

CONSTANTS
    Client,         \* browsers that follow the stream
    MaxEvents,      \* bound: events appended to the stream
    MaxDrops,       \* bound: connections lost
    MaxExpiries     \* bound: the stream's keys outlive their TTL (0 or 1)

ASSUME StreamAssumption == MaxEvents \in Nat /\ MaxDrops \in Nat /\ MaxExpiries \in Nat

VARIABLES
    status,     \* the status field of rs:<stream>
    counter,    \* rs:<stream>:counter, the id of the last event
    rows,       \* rs:<stream>:events: the stream entries, events and end marker
    step,       \* what each client's subscription does next
    lastRead,   \* the id each subscription read last
    wire,       \* events each response has sent and its client not yet got
    cursor,     \* the id each client received last
    got,        \* history: the ids each client received, in order
    drops, expiries     \* how much of the bounds has been used

storeVars == <<status, counter, rows>>
subVars   == <<step, lastRead>>
netVars   == <<wire, cursor, got>>
vars == <<status, counter, rows, step, lastRead, wire, cursor, got, drops, expiries>>

Final == {"completed", "error"}
Row   == [id : Nat \ {0}, end : BOOLEAN]

\* "off": not connected.  "gap": the subscription threw for a missing id.
Step == {"off", "range", "status", "block", "gap", "done", "ended"}

TypeOK ==
    /\ status \in {"missing", "running"} \cup Final
    /\ counter \in Nat
    /\ rows \subseteq Row
    /\ step \in [Client -> Step]
    /\ lastRead \in [Client -> Nat]
    /\ wire \in [Client -> Seq(Nat)]
    /\ cursor \in [Client -> Nat]
    /\ got \in [Client -> Seq(Nat)]
    /\ drops \in Nat
    /\ expiries \in Nat

Init ==
    /\ status = "missing"
    /\ counter = 0
    /\ rows = {}
    /\ step = [c \in Client |-> "off"]
    /\ lastRead = [c \in Client |-> 0]
    /\ wire = [c \in Client |-> <<>>]
    /\ cursor = [c \in Client |-> 0]
    /\ got = [c \in Client |-> <<>>]
    /\ drops = 0
    /\ expiries = 0

-----------------------------------------------------------------------------
(* The scripts, each atomic in Redis.                                      *)

\* A stream id is fresh for each run: it is opened once, before it expires.
Open ==
    /\ status = "missing"
    /\ expiries = 0
    /\ status' = "running"
    /\ counter' = 0
    /\ rows' = {}
    /\ UNCHANGED <<subVars, netVars, drops, expiries>>

\* Mutant of AppendEvent: the status is not read before the event is added.
AppendUnchecked ==
    /\ status # "missing"
    /\ counter < MaxEvents
    /\ counter' = counter + 1
    /\ rows' = rows \cup {[id |-> counter', end |-> FALSE]}
    /\ UNCHANGED <<status, subVars, netVars, drops, expiries>>

\* Mutant of AppendEvent: the entry is added under the counter's old value.
AppendBeforeIncr ==
    /\ status = "running"
    /\ counter < MaxEvents
    /\ counter' = counter + 1
    /\ rows' = rows \cup {[id |-> counter, end |-> FALSE]}
    /\ UNCHANGED <<status, subVars, netVars, drops, expiries>>

\* Mutant of AppendEvent: XADD with MAXLEN 1, which trims what a slow
\* subscription has not read.
AppendTrims ==
    /\ status = "running"
    /\ counter < MaxEvents
    /\ counter' = counter + 1
    /\ rows' = {[id |-> counter', end |-> FALSE]}
    /\ UNCHANGED <<status, subVars, netVars, drops, expiries>>

AppendEvent ==
    /\ status = "running"
    /\ counter < MaxEvents
    /\ counter' = counter + 1
    /\ rows' = rows \cup {[id |-> counter', end |-> FALSE]}
    /\ UNCHANGED <<status, subVars, netVars, drops, expiries>>

\* The end marker takes the id after the counter, and leaves the counter.
Close ==
    /\ status = "running"
    /\ status' \in Final
    /\ rows' = rows \cup {[id |-> counter + 1, end |-> TRUE]}
    /\ UNCHANGED <<counter, subVars, netVars, drops, expiries>>

\* Every script renews the three keys together, so they expire together.
Expire ==
    /\ status # "missing"
    /\ expiries < MaxExpiries
    /\ expiries' = expiries + 1
    /\ status' = "missing"
    /\ counter' = 0
    /\ rows' = {}
    /\ UNCHANGED <<subVars, netVars, drops>>

-----------------------------------------------------------------------------
(* A client's request, and the subscription behind its response.           *)

SubGoto(c, s) == step' = [step EXCEPT ![c] = s]

\* Mutant of Connect: the response starts at what was sent, not received.
ConnectAtSent(c) ==
    /\ step[c] = "off"
    /\ status # "missing"
    /\ cursor[c] <= counter
    /\ SubGoto(c, "range")
    /\ UNCHANGED <<lastRead, storeVars, netVars, drops, expiries>>

\* POST /chat answers a fresh run from 0 and a resume from the client's cursor,
\* which it refuses for a missing stream or a cursor past the counter.
Connect(c) ==
    /\ step[c] = "off"
    /\ status # "missing"
    /\ cursor[c] <= counter
    /\ lastRead' = [lastRead EXCEPT ![c] = cursor[c]]
    /\ SubGoto(c, "range")
    /\ UNCHANGED <<storeVars, netVars, drops, expiries>>

\* The first row after n.
IsNext(r, n) == r.id > n /\ \A q \in rows : q.id > n => r.id <= q.id

\* XRANGE from the last id read: an event is yielded, and must follow the last.
RangeEvent(c) ==
    /\ step[c] = "range"
    /\ \E r \in rows :
         /\ IsNext(r, lastRead[c])
         /\ ~r.end
         /\ IF r.id = lastRead[c] + 1
            THEN /\ lastRead' = [lastRead EXCEPT ![c] = r.id]
                 /\ wire' = [wire EXCEPT ![c] = Append(@, r.id)]
                 /\ UNCHANGED step
            ELSE SubGoto(c, "gap") /\ UNCHANGED <<lastRead, wire>>
    /\ UNCHANGED <<storeVars, cursor, got, drops, expiries>>

RangeEnd(c) ==
    /\ step[c] = "range"
    /\ \E r \in rows : IsNext(r, lastRead[c]) /\ r.end
    /\ SubGoto(c, "done")
    /\ UNCHANGED <<lastRead, storeVars, netVars, drops, expiries>>

RangeEmpty(c) ==
    /\ step[c] = "range"
    /\ \A r \in rows : r.id <= lastRead[c]
    /\ SubGoto(c, "status")
    /\ UNCHANGED <<lastRead, storeVars, netVars, drops, expiries>>

\* No row was left a moment ago: a stream that is not running is finished.
ReadStatus(c) ==
    /\ step[c] = "status"
    /\ SubGoto(c, IF status = "running" THEN "block" ELSE "done")
    /\ UNCHANGED <<lastRead, storeVars, netVars, drops, expiries>>

\* Mutant of Wake: XREAD without BLOCK_MS waits for a row, however long.
WakeOnRow(c) ==
    /\ step[c] = "block"
    /\ \E r \in rows : r.id > lastRead[c]
    /\ SubGoto(c, "range")
    /\ UNCHANGED <<lastRead, storeVars, netVars, drops, expiries>>

\* XREAD returns with a row or after BLOCK_MS; its rows are read again.
Wake(c) ==
    /\ step[c] = "block"
    /\ SubGoto(c, "range")
    /\ UNCHANGED <<lastRead, storeVars, netVars, drops, expiries>>

Receive(c) ==
    /\ wire[c] # <<>>
    /\ cursor' = [cursor EXCEPT ![c] = Head(wire[c])]
    /\ got' = [got EXCEPT ![c] = Append(@, Head(wire[c]))]
    /\ wire' = [wire EXCEPT ![c] = Tail(@)]
    /\ UNCHANGED <<subVars, storeVars, drops, expiries>>

\* The stream_end frame: the client stops following the stream.
ReceiveEnd(c) ==
    /\ step[c] \in {"done", "gap"}
    /\ wire[c] = <<>>
    /\ SubGoto(c, "ended")
    /\ UNCHANGED <<lastRead, storeVars, netVars, drops, expiries>>

\* The connection breaks; what was on its way is lost.
Disconnect(c) ==
    /\ step[c] \notin {"off", "ended"}
    /\ drops < MaxDrops
    /\ drops' = drops + 1
    /\ SubGoto(c, "off")
    /\ wire' = [wire EXCEPT ![c] = <<>>]
    /\ UNCHANGED <<lastRead, storeVars, cursor, got, expiries>>

-----------------------------------------------------------------------------
\* The subscription behind one response, in the API process.
Respond(c) == \/ RangeEvent(c) \/ RangeEnd(c) \/ RangeEmpty(c)
              \/ ReadStatus(c) \/ Wake(c)

Follow(c) == Connect(c) \/ Respond(c) \/ Receive(c) \/ ReceiveEnd(c) \/ Disconnect(c)

Next == \/ Open \/ AppendEvent \/ Close \/ Expire
        \/ \E c \in Client : Follow(c)

Spec == Init /\ [][Next]_vars

\* The API process serves a response it has begun, and a connected browser
\* reads it.  Nothing else is fair: nobody need append, close or connect.
Fairness == \A c \in Client :
    WF_vars(Respond(c)) /\ WF_vars(Receive(c)) /\ WF_vars(ReceiveEnd(c))

FairSpec == Spec /\ Fairness

-----------------------------------------------------------------------------
(* Properties.                                                             *)

(* A client receives the events 1, 2, 3, ... without a gap or a repetition, *)
(* however often its connection breaks and it resumes from its cursor.      *)
InOrder == \A c \in Client : \A i \in 1..Len(got[c]) : got[c][i] = i

(* The subscription never meets a gap in the ids, although appends and the  *)
(* close race with its reads: the error it would throw is unreachable.      *)
NoGap == \A c \in Client : step[c] # "gap"

(* Nothing follows the end marker.                                         *)
MarkerLast == \A r, q \in rows : r.end => q.id <= r.id

(* A client that follows a stream reaches the end of its response once the  *)
(* stream is closed or its keys expire, even while the subscription blocks.  *)
FollowersFinish == \A c \in Client :
    (status # "running" /\ step[c] # "off") ~> step[c] \in {"off", "ended"}

(* A subscriber of a closed stream that completes has drained the final     *)
(* event (resumable-stream-store.test.ts:439, "drains the final event").     *)
DrainsFinalEvent == \A c \in Client :
    step[c] = "done" /\ status \in Final => lastRead[c] = counter
=============================================================================
