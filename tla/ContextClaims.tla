---------------------------- MODULE ContextClaims ----------------------------
(***************************************************************************)
(* What a user pins to the next message of a session: images and a snippet of *)
(* text, each in a row of its own.  POST /chat reads the rows, claims them    *)
(* under the id of the stream it is about to open, and deletes them when the  *)
(* queue has accepted the run, or frees them when it refuses the request.     *)
(* Requests of several tabs interleave with each other and with the user, who *)
(* pins again, edits and removes; the API process can die in between.         *)
(***************************************************************************)
EXTENDS Naturals

CONSTANTS
    Image,      \* images of the session
    Snippet,    \* its one row of selected text
    Ask,        \* requests to start a run, by stream id
    NoAsk,
    MaxPins     \* bound: times the user pins or edits

ASSUME ContextAssumption ==
    /\ Snippet \notin Image
    /\ NoAsk \notin Ask
    /\ MaxPins \in Nat

VARIABLES
    row,        \* each row: the pin it holds, 0 without a row, its id and claim
    pins,       \* how many pins there have been; a pin is known by its number
    discarded,  \* pins the user removed or replaced
    askPc,      \* where each request is
    readPin,    \* the pins it read, and the id of the snippet's row
    claimedPin, \* history: the pins in the rows it claimed
    queuedAsk,  \* requests whose job BullMQ took
    runLock     \* the session's active run

contextVars == <<row, pins, discarded, askPc, readPin, claimedPin, queuedAsk, runLock>>

Slot    == Image \cup {Snippet}
Pin     == 0..MaxPins
Nothing == [k \in Slot |-> 0]
NoRow   == [pin |-> 0, id |-> 0, claim |-> NoAsk]

ContextTypeOK ==
    /\ row \in [Slot -> [pin : Pin, id : Pin, claim : Ask \cup {NoAsk}]]
    /\ \A k \in Slot : row[k].pin = 0 => row[k] = NoRow
    /\ pins \in Pin
    /\ discarded \subseteq 1..pins
    /\ askPc \in [Ask -> {"readImages", "readSnippet", "claim", "recipe", "lock", "add",
                          "commit", "release", "accepted", "refused", "stranded", "crashed"}]
    /\ readPin \in [Ask -> [Slot -> Pin]]
    /\ claimedPin \in [Ask -> [Slot -> Pin]]
    /\ queuedAsk \subseteq Ask
    /\ runLock \in Ask \cup {NoAsk}

ContextInit ==
    /\ row = [k \in Slot |-> NoRow]
    /\ pins = 0
    /\ discarded = {}
    /\ askPc = [q \in Ask |-> "readImages"]
    /\ readPin = [q \in Ask |-> Nothing]
    /\ claimedPin = [q \in Ask |-> Nothing]
    /\ queuedAsk = {}
    /\ runLock = NoAsk

-----------------------------------------------------------------------------
(* The user.                                                               *)

\* Mutant of PinContext: pinning again keeps the claim of the row.
PinKeepsClaim(k) ==
    /\ pins < MaxPins
    /\ pins' = pins + 1
    /\ discarded' = discarded \cup ({row[k].pin} \ {0})
    /\ row' = [row EXCEPT ![k] = [pin |-> pins + 1,
                                  id |-> IF @.pin = 0 THEN pins + 1 ELSE @.id,
                                  claim |-> @.claim]]
    /\ UNCHANGED <<askPc, readPin, claimedPin, queuedAsk, runLock>>

\* upsert: an existing row keeps its id and is detached from its claim.
PinContext(k) ==
    /\ pins < MaxPins
    /\ pins' = pins + 1
    /\ discarded' = discarded \cup ({row[k].pin} \ {0})
    /\ row' = [row EXCEPT ![k] = [pin |-> pins + 1,
                                  id |-> IF @.pin = 0 THEN pins + 1 ELSE @.id,
                                  claim |-> NoAsk]]
    /\ UNCHANGED <<askPc, readPin, claimedPin, queuedAsk, runLock>>

Unpin(k) ==
    /\ row[k].pin # 0
    /\ discarded' = discarded \cup {row[k].pin}
    /\ row' = [row EXCEPT ![k] = NoRow]
    /\ UNCHANGED <<pins, askPc, readPin, claimedPin, queuedAsk, runLock>>

-----------------------------------------------------------------------------
(* A request: resolveChatAgentRecipe, then the queue.                      *)

AskAt(q, p) == askPc' = [askPc EXCEPT ![q] = p]

Visible(k) == row[k].pin # 0 /\ row[k].claim = NoAsk

ReadImages(q) ==
    /\ askPc[q] = "readImages"
    /\ readPin' = [readPin EXCEPT ![q] =
                     [k \in Slot |-> IF k \in Image /\ Visible(k) THEN row[k].pin ELSE 0]]
    /\ AskAt(q, "readSnippet")
    /\ UNCHANGED <<row, pins, discarded, claimedPin, queuedAsk, runLock>>

\* The snippet is read after the images, and known to the claim by its row's id.
ReadSnippet(q) ==
    /\ askPc[q] = "readSnippet"
    /\ readPin' = [readPin EXCEPT ![q][Snippet] = IF Visible(Snippet) THEN row[Snippet].id ELSE 0]
    /\ AskAt(q, "claim")
    /\ UNCHANGED <<row, pins, discarded, claimedPin, queuedAsk, runLock>>

Wanted(q) == {k \in Slot : readPin[q][k] # 0}

\* The transaction: every row is still there and free, or none is claimed.
RowsFree(q) ==
    /\ \A k \in Wanted(q) : Visible(k)
    /\ Snippet \in Wanted(q) => row[Snippet].id = readPin[q][Snippet]

ClaimRows(q) ==
    /\ askPc[q] = "claim"
    /\ IF RowsFree(q)
       THEN /\ row' = [k \in Slot |-> IF k \in Wanted(q) THEN [row[k] EXCEPT !.claim = q]
                                      ELSE row[k]]
            /\ claimedPin' = [claimedPin EXCEPT ![q] =
                                [k \in Slot |-> IF k \in Wanted(q) THEN row[k].pin ELSE 0]]
            /\ AskAt(q, "recipe")
       ELSE AskAt(q, "refused") /\ UNCHANGED <<row, claimedPin>>
    /\ UNCHANGED <<pins, discarded, readPin, queuedAsk, runLock>>

\* The recipe is invalid, or its documents are not those of the request.
RecipeDone(q) ==
    /\ askPc[q] = "recipe"
    /\ \/ AskAt(q, "lock")
       \/ AskAt(q, "release")
    /\ UNCHANGED <<row, pins, discarded, readPin, claimedPin, queuedAsk, runLock>>

\* Mutant of TakeLock: a busy session refuses without giving the context back.
BusyKeepsClaim(q) ==
    /\ askPc[q] = "lock"
    /\ IF runLock = NoAsk
       THEN runLock' = q /\ AskAt(q, "add")
       ELSE UNCHANGED runLock /\ AskAt(q, "refused")
    /\ UNCHANGED <<row, pins, discarded, readPin, claimedPin, queuedAsk>>

TakeLock(q) ==
    /\ askPc[q] = "lock"
    /\ IF runLock = NoAsk
       THEN runLock' = q /\ AskAt(q, "add")
       ELSE UNCHANGED runLock /\ AskAt(q, "release")
    /\ UNCHANGED <<row, pins, discarded, readPin, claimedPin, queuedAsk>>

\* The stream cannot be opened or the job not added; otherwise the job counts.
AddJob(q) ==
    /\ askPc[q] = "add"
    /\ \/ queuedAsk' = queuedAsk \cup {q} /\ AskAt(q, "commit")
       \/ UNCHANGED queuedAsk /\ AskAt(q, "release")
    /\ UNCHANGED <<row, pins, discarded, readPin, claimedPin, runLock>>

Mine(q) == {k \in Slot : row[k].claim = q}

\* A commit that fails leaves the claim: "only a validation or enqueue failure
\* is reversible here".
CommitClaim(q) ==
    /\ askPc[q] = "commit"
    /\ \/ row' = [k \in Slot |-> IF k \in Mine(q) THEN NoRow ELSE row[k]]
       \/ UNCHANGED row
    /\ AskAt(q, "accepted")
    /\ UNCHANGED <<pins, discarded, readPin, claimedPin, queuedAsk, runLock>>

\* The routes swallow an error of the release.
ReleaseClaim(q) ==
    /\ askPc[q] = "release"
    /\ \/ /\ row' = [k \in Slot |-> IF k \in Mine(q) THEN [row[k] EXCEPT !.claim = NoAsk]
                                    ELSE row[k]]
          /\ AskAt(q, "refused")
       \/ UNCHANGED row /\ AskAt(q, "stranded")
    /\ UNCHANGED <<pins, discarded, readPin, claimedPin, queuedAsk, runLock>>

RequestDies(q) ==
    /\ askPc[q] \notin {"readImages", "accepted", "refused", "stranded", "crashed"}
    /\ AskAt(q, "crashed")
    /\ UNCHANGED <<row, pins, discarded, readPin, claimedPin, queuedAsk, runLock>>

\* The lock is given back by the refused request, by the run or the watchdog.
LockGoes(q) ==
    /\ runLock = q
    /\ askPc[q] \in {"release", "refused", "stranded", "accepted", "crashed"}
    /\ runLock' = NoAsk
    /\ UNCHANGED <<row, pins, discarded, askPc, readPin, claimedPin, queuedAsk>>

ContextNext ==
    \/ \E k \in Slot : PinContext(k) \/ Unpin(k)
    \/ \E q \in Ask :
          \/ ReadImages(q) \/ ReadSnippet(q) \/ ClaimRows(q) \/ RecipeDone(q)
          \/ TakeLock(q) \/ AddJob(q) \/ CommitClaim(q) \/ ReleaseClaim(q)
          \/ RequestDies(q) \/ LockGoes(q)

ContextSpec == ContextInit /\ [][ContextNext]_contextVars

-----------------------------------------------------------------------------
(* Properties.                                                             *)

\* A pin goes to one run: it is in its row until the user removes or replaces
\* it or a run that the queue accepted has claimed it, and no two accepted runs
\* claimed the same pin: "the old claim cannot consume" a context that was
\* pinned again (images/service.ts:224).
PinGoesToOneRun ==
    /\ \A p \in 1..pins :
          \/ p \in discarded
          \/ \E k \in Slot : row[k].pin = p
          \/ \E q \in queuedAsk, k \in Slot : claimedPin[q][k] = p
    /\ \A q, r \in queuedAsk, k \in Slot :
          q # r /\ claimedPin[q][k] # 0 => claimedPin[q][k] # claimedPin[r][k]

\* A request that was refused in order holds no row: the next request sees what
\* the user pinned.
RefusedGivesBack == \A k \in Slot, q \in Ask : row[k].claim = q => askPc[q] # "refused"
=============================================================================
