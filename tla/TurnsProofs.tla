----------------------------- MODULE TurnsProofs -----------------------------
(***************************************************************************)
(* Proofs for what a turn goes through besides its stream: single-use        *)
(* context, long tool calls and queued messages, and the types of all five   *)
(* components together.  A request has a stake in what it claimed from the   *)
(* claim to its refusal, and for good once the queue took its job: a pin     *)
(* that someone has a stake in cannot be claimed by anybody else.  A call    *)
(* the agent was told to have stopped is cancelled, and was told no output   *)
(* before.  All waits for a call but the first few took as long as the       *)
(* longest slice, or the job has run out of time.  A message is pushed to a  *)
(* stream once, because the set of those it has seen is never taken back; a  *)
(* run that reports success has its prompt in the memory.                    *)
(***************************************************************************)
EXTENDS MCTurns, SchedulesProofs, InteractionPolicyProofs
-----------------------------------------------------------------------------
(* Single-use context.                                                     *)

\* The pins in rows and the pins claimed are pins there have been.
PinsKnown ==
    /\ \A k \in Slot : row[k].pin <= pins
    /\ \A q \in Ask, k \in Slot : claimedPin[q][k] <= pins

\* A row claimed by a request holds what the request recorded, and the request
\* is past its claim and was not refused.
ClaimsTold ==
    \A k \in Slot, q \in Ask :
        row[k].claim = q =>
            /\ claimedPin[q][k] = row[k].pin
            /\ askPc[q] \notin {"readImages", "readSnippet", "claim", "refused"}

\* The queue has the job of a request that commits.
QueuedAt ==
    \A q \in Ask :
        /\ askPc[q] = "commit" => q \in queuedAsk
        /\ q \in queuedAsk => askPc[q] \in {"commit", "accepted", "crashed"}

Stake(q) == askPc[q] \in {"recipe", "lock", "add"} \/ q \in queuedAsk

\* A pin somebody has a stake in is in no row another request could claim, and
\* no two requests have a stake in one pin.
StakesApart ==
    \A q \in Ask, k \in Slot :
        Stake(q) /\ claimedPin[q][k] # 0 =>
            /\ row[k].pin = claimedPin[q][k] => row[k].claim = q
            /\ \A r \in Ask : Stake(r) /\ r # q => claimedPin[r][k] # claimedPin[q][k]

\* A pin is in its row until it is discarded or claimed by an accepted run.
Kept ==
    \A p \in 1..pins :
        \/ p \in discarded
        \/ \E k \in Slot : row[k].pin = p
        \/ \E q \in queuedAsk, k \in Slot : claimedPin[q][k] = p

ContextInv == ContextTypeOK /\ PinsKnown /\ ClaimsTold /\ QueuedAt /\ StakesApart /\ Kept

RowType == [pin : Pin, id : Pin, claim : Ask \cup {NoAsk}]

-----------------------------------------------------------------------------
(* Rows.                                                                   *)

LEMMA Rows ==
  ASSUME ContextTypeOK, NEW k \in Slot
  PROVE  /\ row[k] \in RowType
         /\ row[k].pin \in Nat /\ row[k].id \in Nat
         /\ NoRow \in RowType
         /\ \A q \in Ask : row[k].claim = q => row[k].pin # 0
         /\ pins \in Nat
  BY ContextAssumption DEF ContextTypeOK, RowType, NoRow, Pin

LEMMA InitContext == ContextInit => ContextInv
<1> SUFFICES ASSUME ContextInit PROVE ContextInv
  OBVIOUS
<1>1. ContextTypeOK
  <2>1. 0 \in Pin /\ NoRow \in [pin : Pin, id : Pin, claim : Ask \cup {NoAsk}]
    BY ContextAssumption DEF Pin, NoRow
  <2>2. Nothing \in [Slot -> Pin]
    BY <2>1 DEF Nothing
  <2> QED
    BY <2>1, <2>2 DEF ContextInit, ContextTypeOK
<1>2. PinsKnown
  BY DEF ContextInit, PinsKnown, NoRow, Nothing
<1>3. ClaimsTold /\ QueuedAt /\ StakesApart
  BY ContextAssumption DEF ContextInit, ClaimsTold, QueuedAt, StakesApart, Stake, NoRow, Nothing
<1>4. Kept
  BY DEF ContextInit, Kept
<1> QED
  BY <1>1, <1>2, <1>3, <1>4 DEF ContextInv

-----------------------------------------------------------------------------
(* The user's steps.                                                       *)

LEMMA PinContextStep ==
  ASSUME ContextInv, NEW k \in Slot, PinContext(k)
  PROVE  ContextInv'
<1> DEFINE new == [pin |-> pins + 1,
                   id |-> IF row[k].pin = 0 THEN pins + 1 ELSE row[k].id,
                   claim |-> NoAsk]
<1>1. /\ pins \in Nat /\ pins' = pins + 1 /\ pins' \in Pin
      /\ row' = [row EXCEPT ![k] = new]
      /\ UNCHANGED <<askPc, readPin, claimedPin, queuedAsk, runLock>>
  BY ContextAssumption, Rows DEF PinContext, ContextInv, ContextTypeOK, Pin
<1>2. new \in [pin : Pin, id : Pin, claim : Ask \cup {NoAsk}]
  BY <1>1, Rows DEF ContextInv, RowType, Pin
<1>3. new.pin = pins + 1 /\ new.claim = NoAsk /\ new.pin # 0
  BY <1>1
<1> HIDE DEF new
<1>4. ContextTypeOK'
  <2>1. row' \in [Slot -> [pin : Pin, id : Pin, claim : Ask \cup {NoAsk}]]
    BY <1>1, <1>2 DEF ContextInv, ContextTypeOK
  <2>2. \A j \in Slot : row'[j].pin = 0 => row'[j] = NoRow
    BY <1>1, <1>3 DEF ContextInv, ContextTypeOK
  <2>3. discarded' \subseteq 1..pins'
    <3>1. row[k].pin \in Nat /\ row[k].pin <= pins
      BY Rows DEF ContextInv, PinsKnown
    <3>2. discarded \subseteq 1..pins /\ discarded' = discarded \cup ({row[k].pin} \ {0})
      BY DEF ContextInv, ContextTypeOK, PinContext
    <3>3. ASSUME NEW p \in discarded' PROVE p \in 1..pins + 1
      <4>1. p \in 1..pins \/ (p = row[k].pin /\ p # 0)
        BY <3>2
      <4> QED
        BY <4>1, <3>1, <1>1
    <3> QED
      BY <3>3, <1>1
  <2> QED
    BY <1>1, <2>1, <2>2, <2>3 DEF ContextInv, ContextTypeOK
<1>5. PinsKnown'
  <2>1. \A j \in Slot : row'[j].pin <= pins'
    <3>1. SUFFICES ASSUME NEW j \in Slot PROVE row'[j].pin <= pins'
      OBVIOUS
    <3>2. row[j].pin \in Nat /\ row[j].pin <= pins
      BY Rows DEF ContextInv, PinsKnown
    <3>3. row'[j] = IF j = k THEN new ELSE row[j]
      BY <1>1 DEF ContextInv, ContextTypeOK
    <3> QED
      BY <1>1, <1>3, <3>2, <3>3
  <2>2. \A q \in Ask, j \in Slot : claimedPin[q][j] \in Nat /\ claimedPin[q][j] <= pins
    BY DEF ContextInv, ContextTypeOK, Pin, PinsKnown
  <2> QED
    BY <1>1, <2>1, <2>2 DEF PinsKnown
<1>6. \A q \in Ask, j \in Slot : claimedPin[q][j] \in Nat /\ claimedPin[q][j] # pins + 1
  BY <1>1 DEF ContextInv, ContextTypeOK, Pin, PinsKnown
<1>7. \A j \in Slot : row'[j] = IF j = k THEN new ELSE row[j]
  BY <1>1 DEF ContextInv, ContextTypeOK
<1>8. ClaimsTold'
  BY <1>1, <1>3, <1>7, ContextAssumption DEF ContextInv, ClaimsTold
<1>9. QueuedAt'
  BY <1>1 DEF ContextInv, QueuedAt
<1>10. StakesApart'
  BY <1>1, <1>3, <1>6, <1>7 DEF ContextInv, StakesApart, Stake
<1>11. Kept'
  <2>1. SUFFICES ASSUME NEW p \in 1..pins'
                 PROVE  \/ p \in discarded'
                        \/ \E j \in Slot : row'[j].pin = p
                        \/ \E q \in queuedAsk', j \in Slot : claimedPin'[q][j] = p
    BY DEF Kept
  <2>2. CASE p = pins + 1
    BY <2>2, <1>3, <1>7
  <2>3. CASE p # pins + 1
    <3>1. p \in 1..pins /\ p # 0
      BY <1>1, <2>3
    <3>2. CASE \E j \in Slot : row[j].pin = p
      <4>1. PICK j \in Slot : row[j].pin = p
        BY <3>2
      <4> QED
        BY <3>1, <4>1, <1>7 DEF PinContext
    <3>3. CASE ~\E j \in Slot : row[j].pin = p
      BY <3>1, <3>3, <1>1 DEF ContextInv, Kept, PinContext
    <3> QED
      BY <3>2, <3>3
  <2> QED
    BY <2>2, <2>3
<1> QED
  BY <1>4, <1>5, <1>8, <1>9, <1>10, <1>11 DEF ContextInv

LEMMA UnpinStep ==
  ASSUME ContextInv, NEW k \in Slot, Unpin(k)
  PROVE  ContextInv'
<1>1. /\ pins \in Nat
      /\ row' = [row EXCEPT ![k] = NoRow]
      /\ discarded' = discarded \cup {row[k].pin}
      /\ UNCHANGED <<pins, askPc, readPin, claimedPin, queuedAsk, runLock>>
  BY Rows DEF Unpin, ContextInv
<1>2. \A j \in Slot : row'[j] = IF j = k THEN NoRow ELSE row[j]
  BY <1>1 DEF ContextInv, ContextTypeOK
<1>3. NoRow.pin = 0 /\ NoRow.claim = NoAsk /\ NoRow \in RowType
  BY Rows DEF NoRow, ContextInv
<1>4. row[k].pin \in 1..pins
  BY Rows DEF Unpin, ContextInv, PinsKnown
<1>5. ContextTypeOK'
  <2>1. row' \in [Slot -> [pin : Pin, id : Pin, claim : Ask \cup {NoAsk}]]
    BY <1>1, <1>3 DEF ContextInv, ContextTypeOK, RowType
  <2> QED
    BY <1>1, <1>2, <1>4, <2>1 DEF ContextInv, ContextTypeOK
<1>6. PinsKnown'
  BY <1>1, <1>2, <1>3 DEF ContextInv, PinsKnown
<1>7. ClaimsTold'
  BY <1>1, <1>2, <1>3, ContextAssumption DEF ContextInv, ClaimsTold
<1>8. QueuedAt'
  BY <1>1 DEF ContextInv, QueuedAt
<1>9. StakesApart'
  BY <1>1, <1>2, <1>3 DEF ContextInv, StakesApart, Stake
<1>10. Kept'
  BY <1>1, <1>2 DEF ContextInv, Kept
<1> QED
  BY <1>5, <1>6, <1>7, <1>8, <1>9, <1>10 DEF ContextInv

-----------------------------------------------------------------------------
(* The steps of a request.                                                 *)

\* What the steps that only move a request and the lock leave as it was.
Still == UNCHANGED <<row, pins, discarded, claimedPin>>

LEMMA StillStep ==
  ASSUME ContextInv, Still, QueuedAt',
         readPin' \in [Ask -> [Slot -> Pin]],
         queuedAsk' \subseteq Ask, queuedAsk \subseteq queuedAsk',
         runLock' \in Ask \cup {NoAsk},
         NEW q \in Ask,
         NEW s \in {"readSnippet", "claim", "recipe", "lock", "add", "commit", "release",
                    "accepted", "refused", "stranded", "crashed"},
         askPc' = [askPc EXCEPT ![q] = s],
         s \in {"readSnippet", "claim", "refused"} => \A k \in Slot : row[k].claim # q,
         \A r \in Ask : Stake(r)' => Stake(r)
  PROVE  ContextInv'
<1>1. ContextTypeOK'
  BY DEF ContextInv, ContextTypeOK, Still
<1>2. PinsKnown'
  BY DEF ContextInv, PinsKnown, Still
<1>3. ClaimsTold'
  BY DEF ContextInv, ContextTypeOK, ClaimsTold, Still
<1>4. StakesApart'
  BY DEF ContextInv, StakesApart, Still
<1>5. Kept'
  BY DEF ContextInv, Kept, Still
<1> QED
  BY <1>1, <1>2, <1>3, <1>4, <1>5 DEF ContextInv

\* Reading, the recipe, the lock and dying.
LEMMA QuietStep ==
  ASSUME ContextInv, NEW q \in Ask,
         ReadImages(q) \/ ReadSnippet(q) \/ RecipeDone(q) \/ TakeLock(q) \/ RequestDies(q)
  PROVE  ContextInv'
<1>1. /\ Still /\ queuedAsk' = queuedAsk /\ queuedAsk \subseteq Ask
      /\ runLock' \in Ask \cup {NoAsk}
  BY DEF ReadImages, ReadSnippet, RecipeDone, TakeLock, RequestDies, Still, ContextInv,
         ContextTypeOK
<1>2. \A k \in Slot : row[k].pin \in Pin /\ row[k].id \in Pin /\ 0 \in Pin
  BY Rows, ContextAssumption DEF ContextInv, RowType, Pin
<1>3. readPin' \in [Ask -> [Slot -> Pin]]
  <2>1. CASE ReadImages(q)
    <3>1. [k \in Slot |-> IF k \in Image /\ Visible(k) THEN row[k].pin ELSE 0]
              \in [Slot -> Pin]
      BY <1>2, ContextAssumption DEF Pin
    <3> QED
      BY <2>1, <3>1 DEF ReadImages, ContextInv, ContextTypeOK
  <2>2. CASE ReadSnippet(q)
    <3>1. readPin' = [readPin EXCEPT ![q] =
              [readPin[q] EXCEPT ![Snippet] = IF Visible(Snippet) THEN row[Snippet].id ELSE 0]]
      BY <2>2 DEF ReadSnippet
    <3>2. (IF Visible(Snippet) THEN row[Snippet].id ELSE 0) \in Pin
      BY <1>2 DEF Slot
    <3>3. readPin[q] \in [Slot -> Pin]
      BY DEF ContextInv, ContextTypeOK
    <3>4. [readPin[q] EXCEPT ![Snippet] = IF Visible(Snippet) THEN row[Snippet].id ELSE 0]
              \in [Slot -> Pin]
      BY <3>2, <3>3
    <3> QED
      BY <3>1, <3>4 DEF ContextInv, ContextTypeOK
  <2>3. CASE RecipeDone(q) \/ TakeLock(q) \/ RequestDies(q)
    BY <2>3 DEF RecipeDone, TakeLock, RequestDies, ContextInv, ContextTypeOK
  <2> QED
    BY <2>1, <2>2, <2>3
<1>4. PICK s \in {"readSnippet", "claim", "lock", "add", "release", "crashed"} :
        /\ askPc' = [askPc EXCEPT ![q] = s]
        /\ askPc[q] = "readImages" <=> s = "readSnippet"
        /\ s = "claim" => askPc[q] = "readSnippet"
        /\ s = "lock" => askPc[q] = "recipe"
        /\ s \in {"add", "release"} => askPc[q] \in {"recipe", "lock"}
        /\ s = "crashed" => askPc[q] \notin {"accepted", "refused", "stranded"}
  BY DEF ReadImages, ReadSnippet, RecipeDone, TakeLock, RequestDies, AskAt
<1>5. askPc'[q] = s /\ \A r \in Ask : r # q => askPc'[r] = askPc[r]
  BY <1>4 DEF ContextInv, ContextTypeOK
<1>6. s \in {"readSnippet", "claim"} => \A k \in Slot : row[k].claim # q
  BY <1>4 DEF ContextInv, ClaimsTold
<1>7. QueuedAt'
  BY <1>1, <1>4, <1>5 DEF ContextInv, QueuedAt
<1>8. \A r \in Ask : Stake(r)' => Stake(r)
  BY <1>1, <1>4, <1>5 DEF Stake
<1> QED
  BY <1>1, <1>3, <1>4, <1>6, <1>7, <1>8, StillStep

LEMMA AddStep ==
  ASSUME ContextInv, NEW q \in Ask, AddJob(q)
  PROVE  ContextInv'
<1>1. PICK s \in {"commit", "release"} :
        /\ askPc' = [askPc EXCEPT ![q] = s]
        /\ s = "commit" => queuedAsk' = queuedAsk \cup {q}
        /\ s = "release" => queuedAsk' = queuedAsk
  BY DEF AddJob, AskAt
<1>2. askPc[q] = "add" /\ Still /\ UNCHANGED <<readPin, runLock>>
  BY DEF AddJob, Still
<1>3. askPc'[q] = s /\ \A r \in Ask : r # q => askPc'[r] = askPc[r]
  BY <1>1 DEF ContextInv, ContextTypeOK
<1>4. QueuedAt'
  BY <1>1, <1>2, <1>3 DEF ContextInv, QueuedAt
<1>5. \A r \in Ask : Stake(r)' => Stake(r)
  BY <1>1, <1>2, <1>3 DEF Stake
<1>6. /\ readPin' \in [Ask -> [Slot -> Pin]] /\ runLock' \in Ask \cup {NoAsk}
      /\ queuedAsk' \subseteq Ask /\ queuedAsk \subseteq queuedAsk'
  BY <1>1, <1>2 DEF ContextInv, ContextTypeOK
<1> QED
  BY <1>1, <1>2, <1>4, <1>5, <1>6, StillStep

LEMMA LockStep ==
  ASSUME ContextInv, NEW q \in Ask, LockGoes(q)
  PROVE  ContextInv'
<1>1. ContextTypeOK'
  BY DEF ContextInv, ContextTypeOK, LockGoes
<1>2. UNCHANGED <<row, pins, discarded, askPc, claimedPin, queuedAsk>>
  BY DEF LockGoes
<1> QED
  BY <1>1, <1>2
  DEF ContextInv, PinsKnown, ClaimsTold, QueuedAt, StakesApart, Stake, Kept

LEMMA ClaimRefused ==
  ASSUME ContextInv, NEW q \in Ask, ClaimRows(q), ~RowsFree(q)
  PROVE  ContextInv'
<1>1. /\ Still /\ UNCHANGED <<readPin, queuedAsk, runLock>>
      /\ askPc[q] = "claim" /\ askPc' = [askPc EXCEPT ![q] = "refused"]
  BY DEF ClaimRows, Still, AskAt
<1>2. /\ askPc'[q] = "refused"
      /\ \A r \in Ask : r # q => askPc'[r] = askPc[r]
  BY <1>1 DEF ContextInv, ContextTypeOK
<1>3. \A k \in Slot : row[k].claim # q
  BY <1>1 DEF ContextInv, ClaimsTold
<1>4. QueuedAt' /\ \A r \in Ask : Stake(r)' => Stake(r)
  BY <1>1, <1>2 DEF ContextInv, QueuedAt, Stake
<1>5. readPin' \in [Ask -> [Slot -> Pin]] /\ runLock' \in Ask \cup {NoAsk} /\ queuedAsk' \subseteq Ask
  BY <1>1 DEF ContextInv, ContextTypeOK
<1> QED
  BY <1>1, <1>3, <1>4, <1>5, StillStep

\* The request claims its rows, all of them free until now.
LEMMA ClaimTaken ==
  ASSUME ContextInv, NEW q \in Ask, ClaimRows(q), RowsFree(q)
  PROVE  ContextInv'
<1> DEFINE got == [k \in Slot |-> IF k \in Wanted(q) THEN row[k].pin ELSE 0]
<1>1. /\ askPc[q] = "claim" /\ askPc' = [askPc EXCEPT ![q] = "recipe"]
      /\ row' = [k \in Slot |-> IF k \in Wanted(q) THEN [row[k] EXCEPT !.claim = q] ELSE row[k]]
      /\ claimedPin' = [claimedPin EXCEPT ![q] = got]
      /\ UNCHANGED <<pins, discarded, readPin, queuedAsk, runLock>>
  BY DEF ClaimRows, AskAt
<1>2. /\ askPc'[q] = "recipe"
      /\ \A r \in Ask : r # q => askPc'[r] = askPc[r]
  BY <1>1 DEF ContextInv, ContextTypeOK
<1>3. \A k \in Slot :
        /\ k \in Wanted(q) => row'[k].claim = q /\ row[k].pin # 0 /\ row[k].claim = NoAsk
        /\ k \notin Wanted(q) => row'[k] = row[k]
        /\ row'[k].pin = row[k].pin
        /\ row'[k] \in RowType
  <2> SUFFICES ASSUME NEW k \in Slot
               PROVE  /\ k \in Wanted(q) => /\ row'[k].claim = q
                                            /\ row[k].pin # 0 /\ row[k].claim = NoAsk
                      /\ k \notin Wanted(q) => row'[k] = row[k]
                      /\ row'[k].pin = row[k].pin
                      /\ row'[k] \in RowType
    OBVIOUS
  <2>1. row[k] \in RowType
    BY Rows DEF ContextInv
  <2>2. k \in Wanted(q) => row'[k] = [row[k] EXCEPT !.claim = q]
    BY <1>1
  <2>3. k \notin Wanted(q) => row'[k] = row[k]
    BY <1>1
  <2> QED
    BY <2>1, <2>2, <2>3 DEF RowsFree, Visible, RowType
<1>4. /\ got \in [Slot -> Pin]
      /\ \A k \in Slot : k \in Wanted(q) => got[k] = row[k].pin
      /\ \A k \in Slot : k \notin Wanted(q) => got[k] = 0
  BY Rows, ContextAssumption DEF ContextInv, RowType, Pin
<1> HIDE DEF got
<1>5. /\ claimedPin'[q] = got
      /\ \A r \in Ask : r # q => claimedPin'[r] = claimedPin[r]
  BY <1>1 DEF ContextInv, ContextTypeOK
<1>6. q \notin queuedAsk
  BY <1>1 DEF ContextInv, QueuedAt
<1>7. q # NoAsk
  BY ContextAssumption
<1>8. ContextTypeOK'
  <2>1. row' \in [Slot -> [pin : Pin, id : Pin, claim : Ask \cup {NoAsk}]]
    <3>1. \A k \in Slot : row'[k] \in RowType
      BY <1>3
    <3> QED
      BY <1>1, <3>1 DEF RowType
  <2>2. \A k \in Slot : row'[k].pin = 0 => row'[k] = NoRow
    BY <1>3 DEF ContextInv, ContextTypeOK
  <2>3. claimedPin' \in [Ask -> [Slot -> Pin]]
    BY <1>1, <1>4 DEF ContextInv, ContextTypeOK
  <2>4. askPc' \in [Ask -> {"readImages", "readSnippet", "claim", "recipe", "lock", "add",
                            "commit", "release", "accepted", "refused", "stranded", "crashed"}]
    BY <1>1 DEF ContextInv, ContextTypeOK
  <2> QED
    BY <1>1, <2>1, <2>2, <2>3, <2>4 DEF ContextInv, ContextTypeOK
<1>9. PinsKnown'
  <2>1. \A k \in Slot : pins \in Nat /\ row[k].pin \in Nat /\ row[k].pin <= pins
    BY Rows DEF ContextInv, PinsKnown
  <2>2. \A k \in Slot : row'[k].pin <= pins'
    <3>1. pins' = pins /\ \A k \in Slot : row'[k].pin = row[k].pin
      BY <1>1, <1>3
    <3> QED
      BY <2>1, <3>1
  <2>3. \A k \in Slot : got[k] <= pins
    BY <1>4, <2>1
  <2>4. \A r \in Ask, k \in Slot : claimedPin[r][k] <= pins
    BY DEF ContextInv, PinsKnown
  <2>5. \A r \in Ask, k \in Slot : claimedPin'[r][k] <= pins'
    BY <1>1, <1>5, <2>3, <2>4
  <2> QED
    BY <2>2, <2>5 DEF PinsKnown
<1>10. ClaimsTold'
  <2>1. SUFFICES ASSUME NEW k \in Slot, NEW r \in Ask, row'[k].claim = r
                 PROVE  /\ claimedPin'[r][k] = row'[k].pin
                        /\ askPc'[r] \notin {"readImages", "readSnippet", "claim", "refused"}
    BY DEF ClaimsTold
  <2>2. CASE k \in Wanted(q)
    <3>1. row'[k].claim = q
      BY <2>2, <1>3
    <3>2. row'[k].pin = row[k].pin /\ claimedPin'[q][k] = row[k].pin
      BY <2>2, <1>3, <1>4, <1>5
    <3> QED
      BY <2>1, <3>1, <3>2, <1>2
  <2>3. CASE k \notin Wanted(q)
    <3>1. row[k].claim = r /\ row'[k].pin = row[k].pin
      BY <2>1, <2>3, <1>3
    <3>2. r # q
      BY <3>1, <1>1 DEF ContextInv, ClaimsTold
    <3> QED
      BY <3>1, <3>2, <1>2, <1>5 DEF ContextInv, ClaimsTold
  <2> QED
    BY <2>2, <2>3
<1>11. QueuedAt'
  BY <1>1, <1>2, <1>6 DEF ContextInv, QueuedAt
<1>12. \A r \in Ask : r # q => (Stake(r)' <=> Stake(r))
  BY <1>1, <1>2 DEF Stake
<1>13. StakesApart'
  \* Nobody had a stake in what was free.
  <2>1. ASSUME NEW k \in Slot, k \in Wanted(q), NEW r \in Ask, r # q, Stake(r)
        PROVE  claimedPin[r][k] # row[k].pin
    <3>1. row[k].pin # 0 /\ row[k].claim # r
      BY <2>1, <1>3, ContextAssumption
    <3> QED
      BY <2>1, <3>1 DEF ContextInv, StakesApart
  <2>2. SUFFICES ASSUME NEW r \in Ask, NEW k \in Slot, Stake(r)', claimedPin'[r][k] # 0
                 PROVE  /\ row'[k].pin = claimedPin'[r][k] => row'[k].claim = r
                        /\ \A t \in Ask : Stake(t)' /\ t # r
                              => claimedPin'[t][k] # claimedPin'[r][k]
    BY DEF StakesApart
  <2>3. CASE r = q
    <3>1. k \in Wanted(q) /\ claimedPin'[r][k] = row[k].pin
      BY <2>2, <2>3, <1>4, <1>5
    <3>2. row'[k].claim = q
      BY <3>1, <1>3
    <3>3. ASSUME NEW t \in Ask, Stake(t)', t # q PROVE claimedPin'[t][k] # row[k].pin
      BY <3>1, <3>3, <2>1, <1>5, <1>12
    <3> QED
      BY <3>1, <3>2, <3>3, <2>3
  <2>4. CASE r # q
    <3>1. Stake(r) /\ claimedPin'[r][k] = claimedPin[r][k] /\ claimedPin[r][k] # 0
      BY <2>2, <2>4, <1>5, <1>12
    <3>2. row'[k].pin = claimedPin[r][k] => row'[k].claim = r
      <4>1. CASE k \in Wanted(q)
        <5>1. claimedPin[r][k] # row[k].pin /\ row'[k].pin = row[k].pin
          BY <4>1, <2>1, <2>4, <3>1, <1>3
        <5> QED
          BY <5>1
      <4>2. CASE k \notin Wanted(q)
        BY <4>2, <3>1, <1>3 DEF ContextInv, StakesApart
      <4> QED
        BY <4>1, <4>2
    <3>3. claimedPin'[q][k] # claimedPin[r][k]
      <4>1. CASE k \in Wanted(q)
        BY <4>1, <2>1, <2>4, <3>1, <1>4, <1>5
      <4>2. CASE k \notin Wanted(q)
        BY <4>2, <3>1, <1>4, <1>5
      <4> QED
        BY <4>1, <4>2
    <3>4. ASSUME NEW t \in Ask, Stake(t)', t # r, t # q
          PROVE  claimedPin'[t][k] # claimedPin[r][k]
      BY <3>4, <3>1, <1>5, <1>12 DEF ContextInv, StakesApart
    <3> QED
      BY <3>1, <3>2, <3>3, <3>4
  <2> QED
    BY <2>3, <2>4
<1>14. Kept'
  <2>1. \A r \in queuedAsk : claimedPin'[r] = claimedPin[r]
    BY <1>5, <1>6 DEF ContextInv, ContextTypeOK
  <2> QED
    BY <1>1, <1>3, <2>1 DEF ContextInv, Kept
<1> QED
  BY <1>8, <1>9, <1>10, <1>11, <1>13, <1>14 DEF ContextInv

\* Rows that a request deletes or frees are rows it had claimed.
LEMMA RowsLetGo ==
  ASSUME ContextInv, NEW q \in Ask,
         NEW s \in {"accepted", "refused"},
         askPc' = [askPc EXCEPT ![q] = s],
         UNCHANGED <<pins, discarded, readPin, claimedPin, queuedAsk, runLock>>,
         row' \in [Slot -> RowType],
         \A k \in Slot : row[k].claim # q => row'[k] = row[k],
         \A k \in Slot : row'[k].claim = q => s = "accepted" /\ row'[k] = row[k],
         \/ /\ askPc[q] = "commit" /\ s = "accepted"
            /\ \A k \in Slot : row[k].claim = q => row'[k] \in {NoRow, row[k]}
         \/ /\ askPc[q] = "release" /\ s = "refused"
            /\ \A k \in Slot : row[k].claim = q => row'[k].pin = row[k].pin /\ row'[k].claim = NoAsk
  PROVE  ContextInv'
<1>1. /\ askPc'[q] = s
      /\ \A r \in Ask : r # q => askPc'[r] = askPc[r]
  BY DEF ContextInv, ContextTypeOK
<1>2. NoRow.pin = 0 /\ NoRow.claim = NoAsk /\ q # NoAsk
  BY ContextAssumption DEF NoRow
<1>3. \A k \in Slot :
        /\ row[k].pin \in Nat /\ row[k].pin <= pins /\ pins \in Nat
        /\ row[k].claim = q => row[k].pin # 0 /\ claimedPin[q][k] = row[k].pin
  BY Rows DEF ContextInv, PinsKnown, ClaimsTold
<1>4. q \in queuedAsk <=> askPc[q] = "commit"
  BY DEF ContextInv, QueuedAt
<1>5. ContextTypeOK'
  <2>1. \A k \in Slot : row'[k].pin = 0 => row'[k] = NoRow
    BY <1>2, <1>3 DEF ContextInv, ContextTypeOK
  <2> QED
    BY <2>1 DEF ContextInv, ContextTypeOK, RowType
<1>6. PinsKnown'
  <2>1. \A k \in Slot : row'[k].pin <= pins
    BY <1>2, <1>3
  <2> QED
    BY <2>1 DEF ContextInv, PinsKnown
<1>7. ClaimsTold'
  BY <1>1, <1>2, ContextAssumption DEF ContextInv, ClaimsTold
<1>8. QueuedAt'
  BY <1>1, <1>4 DEF ContextInv, QueuedAt
<1>9. \A r \in Ask : Stake(r)' => Stake(r)
  BY <1>1, <1>4 DEF Stake
<1>10. StakesApart'
  <2>1. SUFFICES ASSUME NEW r \in Ask, NEW k \in Slot, Stake(r)', claimedPin[r][k] # 0,
                        row'[k].pin = claimedPin[r][k]
                 PROVE  row'[k].claim = r
    BY <1>9 DEF ContextInv, StakesApart
  <2>2. Stake(r)
    BY <2>1, <1>9
  <2>3. CASE row[k].claim # q
    BY <2>1, <2>2, <2>3 DEF ContextInv, StakesApart
  <2>4. CASE row[k].claim = q /\ r = q
    BY <2>1, <2>2, <2>4, <1>1, <1>2, <1>4 DEF Stake
  <2>5. CASE row[k].claim = q /\ r # q
    <3>1. row'[k].pin \in {0, row[k].pin}
      BY <2>5, <1>2
    <3>2. row[k].pin # claimedPin[r][k]
      BY <2>1, <2>2, <2>5 DEF ContextInv, StakesApart
    <3> QED
      BY <3>1, <3>2, <2>1
  <2> QED
    BY <2>3, <2>4, <2>5
<1>11. Kept'
  <2>1. SUFFICES ASSUME NEW p \in 1..pins, NEW k \in Slot, row[k].pin = p
                 PROVE  \/ \E j \in Slot : row'[j].pin = p
                        \/ \E r \in queuedAsk, j \in Slot : claimedPin[r][j] = p
    BY DEF ContextInv, Kept
  <2>2. CASE row[k].claim # q
    BY <2>1, <2>2
  <2>3. CASE row[k].claim = q
    BY <2>1, <2>3, <1>3, <1>4
  <2> QED
    BY <2>2, <2>3
<1> QED
  BY <1>5, <1>6, <1>7, <1>8, <1>10, <1>11 DEF ContextInv

LEMMA CommitStep ==
  ASSUME ContextInv, NEW q \in Ask, CommitClaim(q)
  PROVE  ContextInv'
<1>1. /\ askPc[q] = "commit" /\ askPc' = [askPc EXCEPT ![q] = "accepted"]
      /\ UNCHANGED <<pins, discarded, readPin, claimedPin, queuedAsk, runLock>>
  BY DEF CommitClaim, AskAt
<1>2. \A k \in Slot : row[k] \in RowType /\ NoRow \in RowType
  BY Rows DEF ContextInv
<1>3. row' \in [Slot -> RowType]
  BY <1>2 DEF CommitClaim, ContextInv, ContextTypeOK, RowType
<1>4. \A k \in Slot : /\ row[k].claim # q => row'[k] = row[k]
                      /\ row'[k] \in {NoRow, row[k]}
  BY DEF CommitClaim, Mine
<1>5. NoRow.claim # q
  BY ContextAssumption DEF NoRow
<1> QED
  BY <1>1, <1>3, <1>4, <1>5, RowsLetGo

LEMMA ReleaseStep ==
  ASSUME ContextInv, NEW q \in Ask, ReleaseClaim(q)
  PROVE  ContextInv'
<1>1. /\ askPc[q] = "release"
      /\ UNCHANGED <<pins, discarded, readPin, claimedPin, queuedAsk, runLock>>
  BY DEF ReleaseClaim
<1>2. \A k \in Slot : row[k] \in RowType
  BY Rows DEF ContextInv
<1>3. CASE askPc' = [askPc EXCEPT ![q] = "refused"]
  <2>1. row' = [k \in Slot |-> IF k \in Mine(q) THEN [row[k] EXCEPT !.claim = NoAsk] ELSE row[k]]
    <3>1. askPc'[q] = "refused"
      BY <1>3 DEF ContextInv, ContextTypeOK
    <3> QED
      BY <3>1 DEF ReleaseClaim, AskAt, ContextInv, ContextTypeOK
  <2>2. \A k \in Slot :
           /\ row[k].claim # q => row'[k] = row[k]
           /\ row[k].claim = q => row'[k].pin = row[k].pin /\ row'[k].claim = NoAsk
           /\ row'[k] \in RowType
    <3> SUFFICES ASSUME NEW k \in Slot
                 PROVE  /\ row[k].claim # q => row'[k] = row[k]
                        /\ row[k].claim = q => /\ row'[k].pin = row[k].pin
                                               /\ row'[k].claim = NoAsk
                        /\ row'[k] \in RowType
      OBVIOUS
    <3>1. row[k].claim = q => row'[k] = [row[k] EXCEPT !.claim = NoAsk]
      BY <2>1 DEF Mine
    <3>2. row[k].claim # q => row'[k] = row[k]
      BY <2>1 DEF Mine
    <3> QED
      BY <1>2, <3>1, <3>2 DEF RowType
  <2>3. row' \in [Slot -> RowType]
    BY <2>1, <2>2
  <2>4. \A k \in Slot : row'[k].claim # q
    BY <2>2, ContextAssumption
  <2> QED
    BY <1>1, <1>3, <2>2, <2>3, <2>4, RowsLetGo
<1>4. CASE askPc' = [askPc EXCEPT ![q] = "stranded"] /\ UNCHANGED row
  <2>1. /\ askPc'[q] = "stranded"
        /\ \A r \in Ask : r # q => askPc'[r] = askPc[r]
    BY <1>4 DEF ContextInv, ContextTypeOK
  <2>2. Still
    BY <1>1, <1>4 DEF Still
  <2>3. QueuedAt' /\ \A r \in Ask : Stake(r)' => Stake(r)
    BY <1>1, <2>1 DEF ContextInv, QueuedAt, Stake
  <2>4. readPin' \in [Ask -> [Slot -> Pin]] /\ runLock' \in Ask \cup {NoAsk} /\ queuedAsk' \subseteq Ask
    BY <1>1 DEF ContextInv, ContextTypeOK
  <2> QED
    BY <1>1, <1>4, <2>2, <2>3, <2>4, StillStep
<1> QED
  BY <1>3, <1>4 DEF ReleaseClaim, AskAt

-----------------------------------------------------------------------------
LEMMA ContextInvariance == ContextSpec => []ContextInv
<1>1. ContextInv /\ [ContextNext]_contextVars => ContextInv'
  <2> SUFFICES ASSUME ContextInv, [ContextNext]_contextVars PROVE ContextInv'
    OBVIOUS
  <2>1. CASE UNCHANGED contextVars
    BY <2>1
    DEF ContextInv, ContextTypeOK, PinsKnown, ClaimsTold, QueuedAt, StakesApart, Stake, Kept,
        contextVars
  <2>2. ASSUME NEW k \in Slot, PinContext(k) \/ Unpin(k) PROVE ContextInv'
    BY <2>2, PinContextStep, UnpinStep
  <2>3. ASSUME NEW q \in Ask, ClaimRows(q) PROVE ContextInv'
    BY <2>3, ClaimTaken, ClaimRefused
  <2> QED
    BY <2>1, <2>2, <2>3, QuietStep, AddStep, LockStep, CommitStep, ReleaseStep DEF ContextNext
<1> QED
  BY <1>1, InitContext, PTL DEF ContextSpec

-----------------------------------------------------------------------------
(* The theorems.                                                           *)

\* The rows of pinned context and the records of the requests keep their types.
THEOREM ContextTypeCorrect == ContextSpec => []ContextTypeOK
  BY ContextInvariance, PTL DEF ContextInv

\* However many requests race for the pinned context, and wherever they fail,
\* a pin stays until the user removes it or one accepted run claims it.
THEOREM PinsGoToOneRun == ContextSpec => []PinGoesToOneRun
<1>1. ContextInv => PinGoesToOneRun
  <2> SUFFICES ASSUME ContextInv PROVE PinGoesToOneRun
    OBVIOUS
  <2>1. ASSUME NEW q \in queuedAsk, NEW r \in queuedAsk, NEW k \in Slot, q # r,
               claimedPin[q][k] # 0
        PROVE  claimedPin[q][k] # claimedPin[r][k]
    BY <2>1 DEF ContextInv, ContextTypeOK, StakesApart, Stake
  <2> QED
    BY <2>1 DEF ContextInv, Kept, PinGoesToOneRun
<1> QED
  BY <1>1, ContextInvariance, PTL

\* A request that was refused in order gave its rows back.
THEOREM RefusalsGiveBack == ContextSpec => []RefusedGivesBack
<1>1. ContextInv => RefusedGivesBack
  BY DEF ContextInv, ClaimsTold, RefusedGivesBack
<1> QED
  BY <1>1, ContextInvariance, PTL

-----------------------------------------------------------------------------
(* Long tool calls.                                                        *)

JobRecord == [status : {"none", "running", "completed", "cancelled", "failed"},
              age : 0..MaxWall, waits : Nat]

\* The part of the types that the argument needs; how long a wait may be is
\* left to the model checker.
CallsTyped ==
    /\ job \in [Call -> JobRecord]
    /\ current \in 0..MaxToolCalls
    /\ work \in [Call -> [at : {"none", "busy", "resolved", "rejected"}, aborted : BOOLEAN]]
    /\ runAborted \in BOOLEAN
    /\ told \in [Call -> [stopped : BOOLEAN, output : BOOLEAN]]

\* The id was never given back: later calls have no job yet.
Later == \A c \in Call : c > current => job[c].status = "none" /\ work[c].at = "none"

\* A call that completed has settled, so that it stays completed.
CompletedSettled == \A c \in Call : job[c].status = "completed" => work[c].at = "resolved"

\* Only a call that completed told its output.
OutputIsCompleted == \A c \in Call : told[c].output => job[c].status = "completed"

StoppedIsCancelled == \A c \in Call : told[c].stopped => job[c].status = "cancelled"

ToolInv == CallsTyped /\ Later /\ CompletedSettled /\ OutputIsCompleted /\ StoppedIsCancelled

-----------------------------------------------------------------------------
LEMMA InitTools == ToolInit => ToolInv
<1> SUFFICES ASSUME ToolInit PROVE ToolInv
  OBVIOUS
<1>1. CallsTyped
  <2>1. 0 \in 0..MaxWall /\ 0 \in 0..MaxToolCalls /\ 0 \in Nat
    BY ToolAssumption
  <2>2. [status |-> "none", age |-> 0, waits |-> 0] \in JobRecord
    BY <2>1 DEF JobRecord
  <2>3. job \in [Call -> JobRecord]
    BY <2>2 DEF ToolInit
  <2>4. /\ work \in [Call -> [at : {"none", "busy", "resolved", "rejected"}, aborted : BOOLEAN]]
        /\ told \in [Call -> [stopped : BOOLEAN, output : BOOLEAN]]
        /\ runAborted \in BOOLEAN
    BY DEF ToolInit
  <2> QED
    BY <2>1, <2>3, <2>4 DEF ToolInit, CallsTyped
<1>2. \A c \in Call : /\ job[c].status = "none" /\ work[c].at = "none"
                      /\ ~told[c].output /\ ~told[c].stopped
  BY DEF ToolInit
<1> QED
  BY <1>1, <1>2
  DEF ToolInv, Later, CompletedSettled, OutputIsCompleted, StoppedIsCancelled

\* What is enough for a step: the types, completed and cancelled calls stay what
\* they are, what completes has resolved, and what is told is so.
LEMMA StepKeeps ==
  ASSUME ToolInv, CallsTyped',
         \A c \in Call :
            /\ job[c].status \in {"completed", "cancelled"} => job'[c].status = job[c].status
            /\ job'[c].status = "completed" => work'[c].at = "resolved"
            /\ told'[c].stopped => told[c].stopped \/ job'[c].status = "cancelled"
            /\ told'[c].output => told[c].output \/ job'[c].status = "completed"
            /\ c > current' => job'[c].status = "none" /\ work'[c].at = "none"
  PROVE  ToolInv'
<1>1. Later' /\ CompletedSettled'
  BY DEF ToolInv, Later, CompletedSettled
<1>2. OutputIsCompleted' /\ StoppedIsCancelled'
  BY DEF ToolInv, OutputIsCompleted, StoppedIsCancelled
<1> QED
  BY <1>1, <1>2 DEF ToolInv

-----------------------------------------------------------------------------
LEMMA RegisterStep == ToolInv /\ RegisterAndWait => ToolInv'
<1> SUFFICES ASSUME ToolInv, RegisterAndWait PROVE ToolInv'
  OBVIOUS
<1> DEFINE n == current + 1
<1>1. n \in Call /\ current \in Nat /\ job[n].status = "none"
  BY ToolAssumption DEF ToolInv, CallsTyped, Later, RegisterAndWait, Call
<1>2. /\ job' = [job EXCEPT ![n].status = "running"]
      /\ current' = n /\ told' = told
      /\ work' = [work EXCEPT ![n] = [at |-> "busy", aborted |-> runAborted]]
      /\ waiter' = [call |-> n, left |-> WaitBudget(0, 0)]
      /\ UNCHANGED runAborted
  BY DEF RegisterAndWait
<1> HIDE DEF n
<1>3. /\ job'[n].status = "running" /\ work'[n].at = "busy"
      /\ \A c \in Call \ {n} : job'[c] = job[c] /\ work'[c] = work[c]
  BY <1>1, <1>2 DEF ToolInv, CallsTyped, JobRecord
<1>4. CallsTyped'
  <2>1. job' \in [Call -> JobRecord]
    BY <1>1, <1>2, SMTT(30) DEF ToolInv, CallsTyped, JobRecord
  <2>2. work' \in [Call -> [at : {"none", "busy", "resolved", "rejected"}, aborted : BOOLEAN]]
    BY <1>1, <1>2 DEF ToolInv, CallsTyped
  <2>3. current' \in 0..MaxToolCalls /\ runAborted' \in BOOLEAN
    BY <1>1, <1>2 DEF ToolInv, CallsTyped, Call
  <2>4. told' \in [Call -> [stopped : BOOLEAN, output : BOOLEAN]]
    BY <1>2 DEF ToolInv, CallsTyped
  <2> QED
    BY <2>1, <2>2, <2>3, <2>4 DEF CallsTyped
<1>5. \A c \in Call : c > current' => c # n /\ c > current
  BY <1>1, <1>2 DEF Call, n
<1> QED
  BY <1>1, <1>2, <1>3, <1>4, <1>5, StepKeeps DEF ToolInv, Later, CompletedSettled

LEMMA PastWallStep == ToolInv /\ AwaitPastWall => ToolInv'
<1> SUFFICES ASSUME ToolInv, AwaitPastWall PROVE ToolInv'
  OBVIOUS
<1>1. current \in Call /\ job[current].status = "running"
  BY DEF ToolInv, CallsTyped, AwaitPastWall, Call
<1>2. /\ job' = [job EXCEPT ![current].status = "failed"]
      /\ work' = [work EXCEPT ![current].aborted = TRUE]
      /\ told' = told
      /\ UNCHANGED <<current, runAborted>>
  BY DEF AwaitPastWall
<1>3. /\ job'[current].status = "failed"
      /\ work'[current].at = work[current].at
      /\ \A c \in Call \ {current} : job'[c] = job[c] /\ work'[c] = work[c] /\ told'[c] = told[c]
      /\ told'[current].output = told[current].output
  BY <1>1, <1>2 DEF ToolInv, CallsTyped, JobRecord
<1>4. CallsTyped'
  <2>1. job' \in [Call -> JobRecord]
    BY <1>1, <1>2 DEF ToolInv, CallsTyped, JobRecord
  <2>2. work' \in [Call -> [at : {"none", "busy", "resolved", "rejected"}, aborted : BOOLEAN]]
    BY <1>1, <1>2 DEF ToolInv, CallsTyped
  <2>3. told' \in [Call -> [stopped : BOOLEAN, output : BOOLEAN]]
    BY <1>1, <1>2 DEF ToolInv, CallsTyped
  <2> QED
    BY <1>2, <2>1, <2>2, <2>3 DEF ToolInv, CallsTyped
<1>5. told'[current].stopped => told[current].stopped
  BY <1>2, <1>3
<1>6. current' = current /\ ~(current > current)
  BY <1>1, <1>2 DEF Call
<1> QED
  BY <1>1, <1>3, <1>4, <1>5, <1>6, StepKeeps DEF ToolInv, Later, CompletedSettled

LEMMA CancelStep == ToolInv /\ CancelCall => ToolInv'
<1> SUFFICES ASSUME ToolInv, CancelCall PROVE ToolInv'
  OBVIOUS
<1>1. current \in Call /\ job[current].status = "running"
  BY DEF ToolInv, CallsTyped, CancelCall, Call
<1>2. /\ job' = [job EXCEPT ![current].status = "cancelled"]
      /\ work' = [work EXCEPT ![current].aborted = TRUE]
      /\ told' = [told EXCEPT ![current].stopped = TRUE]
      /\ UNCHANGED <<current, runAborted>>
  BY DEF CancelCall
<1>3. /\ job'[current].status = "cancelled"
      /\ work'[current].at = work[current].at
      /\ \A c \in Call \ {current} : job'[c] = job[c] /\ work'[c] = work[c] /\ told'[c] = told[c]
      /\ told'[current].output = told[current].output
  BY <1>1, <1>2 DEF ToolInv, CallsTyped, JobRecord
<1>4. CallsTyped'
  <2>1. job' \in [Call -> JobRecord]
    BY <1>1, <1>2 DEF ToolInv, CallsTyped, JobRecord
  <2>2. work' \in [Call -> [at : {"none", "busy", "resolved", "rejected"}, aborted : BOOLEAN]]
    BY <1>1, <1>2 DEF ToolInv, CallsTyped
  <2>3. told' \in [Call -> [stopped : BOOLEAN, output : BOOLEAN]]
    BY <1>1, <1>2 DEF ToolInv, CallsTyped
  <2> QED
    BY <1>2, <2>1, <2>2, <2>3 DEF ToolInv, CallsTyped
<1>5. told'[current].stopped => job'[current].status = "cancelled"
  BY <1>2, <1>3
<1>6. current' = current /\ ~(current > current)
  BY <1>1, <1>2 DEF Call
<1> QED
  BY <1>1, <1>3, <1>4, <1>5, <1>6, StepKeeps DEF ToolInv, Later, CompletedSettled

LEMMA AbortAllStep == ToolInv /\ AbortAll => ToolInv'
<1> SUFFICES ASSUME ToolInv, AbortAll PROVE ToolInv'
  OBVIOUS
<1>1. current \in Call /\ job[current].status = "running"
  BY DEF ToolInv, CallsTyped, AbortAll, Call
<1>2. /\ job' = [job EXCEPT ![current].status = "cancelled"]
      /\ work' = [work EXCEPT ![current].aborted = TRUE]
      /\ told' = told
      /\ UNCHANGED <<current, runAborted>>
  BY DEF AbortAll
<1>3. /\ job'[current].status = "cancelled"
      /\ work'[current].at = work[current].at
      /\ \A c \in Call \ {current} : job'[c] = job[c] /\ work'[c] = work[c] /\ told'[c] = told[c]
      /\ told'[current].output = told[current].output
  BY <1>1, <1>2 DEF ToolInv, CallsTyped, JobRecord
<1>4. CallsTyped'
  <2>1. job' \in [Call -> JobRecord]
    BY <1>1, <1>2 DEF ToolInv, CallsTyped, JobRecord
  <2>2. work' \in [Call -> [at : {"none", "busy", "resolved", "rejected"}, aborted : BOOLEAN]]
    BY <1>1, <1>2 DEF ToolInv, CallsTyped
  <2>3. told' \in [Call -> [stopped : BOOLEAN, output : BOOLEAN]]
    BY <1>1, <1>2 DEF ToolInv, CallsTyped
  <2> QED
    BY <1>2, <2>1, <2>2, <2>3 DEF ToolInv, CallsTyped
<1>5. told'[current].stopped => told[current].stopped
  BY <1>2, <1>3
<1>6. current' = current /\ ~(current > current)
  BY <1>1, <1>2 DEF Call
<1> QED
  BY <1>1, <1>3, <1>4, <1>5, <1>6, StepKeeps DEF ToolInv, Later, CompletedSettled

LEMMA AwaitOverStep == ToolInv /\ AwaitOver => ToolInv'
<1> SUFFICES ASSUME ToolInv, AwaitOver PROVE ToolInv'
  OBVIOUS
<1>1. current \in Call
  BY DEF ToolInv, CallsTyped, AwaitOver, Call
<1>2. /\ told' = [told EXCEPT ![current].output = @ \/ job[current].status = "completed"]
      /\ UNCHANGED <<job, current, work, runAborted>>
  BY DEF AwaitOver, Telling
<1>3. /\ told'[current].stopped = told[current].stopped
      /\ told'[current].output => told[current].output \/ job[current].status = "completed"
      /\ \A c \in Call \ {current} : told'[c] = told[c]
  BY <1>1, <1>2 DEF ToolInv, CallsTyped
<1>4. told' \in [Call -> [stopped : BOOLEAN, output : BOOLEAN]]
  BY <1>1, <1>2 DEF ToolInv, CallsTyped
<1>5. CallsTyped'
  BY <1>2, <1>4 DEF ToolInv, CallsTyped
<1> QED
  BY <1>1, <1>2, <1>3, <1>5, StepKeeps DEF ToolInv, Later, CompletedSettled

\* A wait that begins or the run's own signal changes no job.
LEMMA AbortRunStep == ToolInv /\ (AwaitSlice \/ AbortRun \/ UNCHANGED toolVars) => ToolInv'
<1> SUFFICES ASSUME ToolInv, AwaitSlice \/ AbortRun \/ UNCHANGED toolVars PROVE ToolInv'
  OBVIOUS
<1>1. UNCHANGED <<job, current, told>> /\ runAborted' \in BOOLEAN
  BY DEF ToolInv, CallsTyped, AwaitSlice, AbortRun, toolVars
<1>2. \/ work' = work
      \/ work' = [c \in Call |-> [work[c] EXCEPT !.aborted = @ \/ work[c].at = "busy"]]
  BY DEF AwaitSlice, AbortRun, toolVars
<1>3. work' \in [Call -> [at : {"none", "busy", "resolved", "rejected"}, aborted : BOOLEAN]]
  <2>1. ASSUME NEW c \in Call
        PROVE  [work[c] EXCEPT !.aborted = @ \/ work[c].at = "busy"]
                  \in [at : {"none", "busy", "resolved", "rejected"}, aborted : BOOLEAN]
    BY DEF ToolInv, CallsTyped
  <2> QED
    BY <1>2, <2>1 DEF ToolInv, CallsTyped
<1>4. \A c \in Call : work'[c].at = work[c].at
  BY <1>2 DEF ToolInv, CallsTyped
<1>5. CallsTyped'
  BY <1>1, <1>3 DEF ToolInv, CallsTyped
<1> QED
  BY <1>1, <1>4, <1>5, StepKeeps DEF ToolInv, Later, CompletedSettled

\* The two steps that measure a job leave its status alone.
LEMMA MeasureStep == ToolInv /\ (SliceEnds \/ TimePasses) => ToolInv'
<1> SUFFICES ASSUME ToolInv, SliceEnds \/ TimePasses PROVE ToolInv'
  OBVIOUS
<1>1. UNCHANGED <<current, work, runAborted, told>>
  BY DEF SliceEnds, TimePasses
<1>2. job' \in [Call -> JobRecord] /\ \A c \in Call : job'[c].status = job[c].status
  <2>1. CASE SliceEnds
    <3> DEFINE c == waiter.call
    <3>1. job' = [job EXCEPT ![c].waits = @ + 1] /\ job \in [Call -> JobRecord]
      BY <2>1 DEF SliceEnds, ToolInv, CallsTyped
    <3> HIDE DEF c
    <3>2. CASE c \in Call
      BY <3>1, <3>2 DEF JobRecord
    <3>3. CASE c \notin Call
      <4>1. \A d \in Call : job'[d] = job[d]
        BY <3>1, <3>3
      <4> QED
        BY <3>1, <3>3, <4>1
    <3> QED
      BY <3>2, <3>3
  <2>2. CASE TimePasses
    <3>1. ASSUME NEW c \in Call
          PROVE  /\ [job[c] EXCEPT !.age = AtMost(@ + 1, MaxWall)] \in JobRecord
                 /\ [job[c] EXCEPT !.age = AtMost(@ + 1, MaxWall)].status = job[c].status
      <4>1. job[c] \in JobRecord
        BY DEF ToolInv, CallsTyped
      <4>2. AtMost(job[c].age + 1, MaxWall) \in 0..MaxWall
        BY <4>1, ToolAssumption DEF JobRecord, AtMost
      <4> DEFINE older == AtMost(job[c].age + 1, MaxWall)
      <4>3. [job[c] EXCEPT !.age = older] \in JobRecord
        <5> HIDE DEF older
        <5> QED
          BY <4>1, <4>2 DEF JobRecord, older
      <4> QED
        BY <4>1, <4>3 DEF JobRecord
    <3> QED
      BY <2>2, <3>1 DEF TimePasses, ToolInv, CallsTyped
  <2> QED
    BY <2>1, <2>2
<1>3. CallsTyped'
  BY <1>1, <1>2 DEF ToolInv, CallsTyped
<1> QED
  BY <1>1, <1>2, <1>3, StepKeeps DEF ToolInv, Later, CompletedSettled

LEMMA SettleStep ==
  ASSUME ToolInv, NEW c \in Call, NEW resolved \in BOOLEAN, WorkSettles(c, resolved)
  PROVE  ToolInv'
<1> DEFINE status == Settled(job[c].status, resolved, work[c].aborted)
<1>1. /\ work[c].at = "busy"
      /\ work' = [work EXCEPT ![c].at = IF resolved THEN "resolved" ELSE "rejected"]
      /\ job' = [job EXCEPT ![c].status = status]
      /\ told' = told \/ told' = [told EXCEPT ![c].output = @ \/ status = "completed"]
      /\ UNCHANGED <<current, runAborted>>
  BY DEF WorkSettles, Telling
<1>2. /\ status \in {"completed", "cancelled", "failed"}
      /\ status = "completed" => resolved
      /\ job[c].status = "cancelled" => status = "cancelled"
  BY DEF Settled
<1> HIDE DEF status
<1>3. job[c].status # "completed" /\ ~(c > current)
  BY <1>1 DEF ToolInv, CompletedSettled, Later
<1>4. /\ job'[c].status = status
      /\ resolved => work'[c].at = "resolved"
      /\ \A d \in Call \ {c} : job'[d] = job[d] /\ work'[d] = work[d] /\ told'[d] = told[d]
      /\ told'[c].stopped = told[c].stopped
      /\ told'[c].output => told[c].output \/ status = "completed"
  BY <1>1 DEF ToolInv, CallsTyped, JobRecord
<1>5. CallsTyped'
  <2>1. job' \in [Call -> JobRecord]
    BY <1>1, <1>2 DEF ToolInv, CallsTyped, JobRecord
  <2>2. work' \in [Call -> [at : {"none", "busy", "resolved", "rejected"}, aborted : BOOLEAN]]
    BY <1>1 DEF ToolInv, CallsTyped
  <2>3. told' \in [Call -> [stopped : BOOLEAN, output : BOOLEAN]]
    <3> DEFINE output == told[c].output \/ status = "completed"
    <3>1. told \in [Call -> [stopped : BOOLEAN, output : BOOLEAN]] /\ output \in BOOLEAN
      BY DEF ToolInv, CallsTyped
    <3>2. told' = told \/ told' = [told EXCEPT ![c].output = output]
      BY <1>1
    <3> HIDE DEF output
    <3> QED
      BY <3>1, <3>2
  <2> QED
    BY <1>1, <2>1, <2>2, <2>3 DEF ToolInv, CallsTyped
<1> QED
  BY <1>1, <1>2, <1>3, <1>4, <1>5, StepKeeps DEF ToolInv, Later, CompletedSettled

LEMMA ToolStep == ToolInv /\ [ToolNext]_toolVars => ToolInv'
<1> SUFFICES ASSUME ToolInv, [ToolNext]_toolVars PROVE ToolInv'
  OBVIOUS
<1>1. ASSUME NEW c \in Call, NEW resolved \in BOOLEAN, WorkSettles(c, resolved) PROVE ToolInv'
  BY <1>1, SettleStep
<1> QED
  BY <1>1, RegisterStep, AwaitOverStep, PastWallStep, CancelStep, AbortAllStep, AbortRunStep,
     MeasureStep
  DEF ToolNext

-----------------------------------------------------------------------------
\* Once the agent was told that it stopped a call at work, no wait ever hands it
\* the output of that call, however the tool and the waits go on.
THEOREM StoppedStaysStopped == ToolSpec => []StoppedHasNoOutput
<1>1. ToolInv /\ [ToolNext]_toolVars => ToolInv'
  BY ToolStep
<1>2. ToolInv => StoppedHasNoOutput
  BY DEF ToolInv, OutputIsCompleted, StoppedIsCancelled, StoppedHasNoOutput
<1> QED
  BY <1>1, <1>2, InitTools, PTL DEF ToolSpec

-----------------------------------------------------------------------------
(* The length of the slices.                                                *)

LEMMA PowerValues ==
  /\ Power[1] = 1 /\ Power[2] = 2 /\ Power[3] = 4 /\ Power[4] = 8 /\ Power[5] = 16
  /\ Power[6] = 32 /\ Power[7] = 64 /\ Power[8] = 128 /\ Power[9] = 256
  /\ Power[10] = 512 /\ Power[11] = 1024 /\ Power[12] = 2048 /\ Power[13] = 4096
  /\ Power[14] = 8192 /\ Power[15] = 16384 /\ Power[16] = 32768 /\ Power[17] = 65536
BY DEF Power

LEMMA PowerGrows ==
  ASSUME NEW m \in 1..17, NEW n \in 1..17, m <= n
  PROVE  Power[m] \in Nat \ {0} /\ Power[m] <= Power[n]
BY PowerValues

\* The slices reach their longest, and stay there.
LEMMA SlicesGrow ==
  /\ LongestSlice \in Nat \ {0} /\ Doublings \in 0..16
  /\ \A w \in Nat : EscalatedSlice(w) \in Nat \ {0}
  /\ \A w \in Nat : w >= Doublings => EscalatedSlice(w) = LongestSlice
<1>1. LongestSlice \in Nat \ {0} /\ LongestSlice <= 65536 /\ LongestSlice <= MaxSlice
  BY ToolAssumption, PowerValues DEF LongestSlice, AtMost
<1> DEFINE Reached(d) == Power[d + 1] >= LongestSlice /\ (d > 0 => Power[d] < LongestSlice)
<1>2. \E d \in 0..16 : Reached(d)
  BY <1>1, PowerValues
<1>3. Doublings \in 0..16 /\ Reached(Doublings)
  BY <1>2 DEF Doublings
<1>4. ASSUME NEW w \in Nat
      PROVE  /\ AtMost(w, 16) \in 0..16
             /\ EscalatedSlice(w) \in Nat \ {0}
             /\ w >= Doublings => EscalatedSlice(w) = LongestSlice
  <2> DEFINE n == AtMost(w, 16)
  <2>1. n \in 0..16 /\ (w >= Doublings => n >= Doublings)
    BY <1>3 DEF AtMost
  <2> HIDE DEF n
  <2>2. n + 1 \in 1..17 /\ n + 1 <= 17
    BY <2>1
  <2>3. Power[n + 1] \in Nat \ {0} /\ Power[n + 1] <= Power[17]
    BY <2>2, PowerGrows
  <2>4. EscalatedSlice(w) = AtMost(Power[n + 1], MaxSlice)
    BY DEF EscalatedSlice, n
  <2>5. w >= Doublings => Power[Doublings + 1] <= Power[n + 1]
    BY <1>3, <2>1, <2>2, PowerGrows
  <2>6. EscalatedSlice(w) \in Nat \ {0}
    BY <2>3, <2>4, ToolAssumption DEF AtMost
  <2>7. w >= Doublings => EscalatedSlice(w) = LongestSlice
    BY <1>1, <1>3, <2>3, <2>4, <2>5, PowerValues, ToolAssumption DEF AtMost, LongestSlice
  <2> QED
    BY <2>1, <2>6, <2>7 DEF n
<1> QED
  BY <1>1, <1>3, <1>4

LEMMA Quotient ==
  ASSUME NEW q \in Nat, NEW k \in Nat \ {0}, NEW n \in Nat, q * k <= n
  PROVE  n \div k \in Nat /\ q <= n \div k
OBVIOUS

LEMMA OneMore ==
  ASSUME NEW q \in Nat, NEW k \in Nat
  PROVE  q * k \in Nat /\ (q + 1) * k = q * k + k
OBVIOUS

-----------------------------------------------------------------------------
(* How often the agent waits for a call.                                    *)

MostFull == MaxWall \div LongestSlice

\* All waits but the first few took as long as the longest slice.
Earned(waits, age) ==
    waits <= Doublings \/ (waits - Doublings) * LongestSlice <= age

\* What a job has been waited for, and, with a wait on it, what it will have been
\* when the wait is over.
Paid(j, awaited, left) ==
    /\ ~awaited => /\ j.waits <= Doublings + MostFull + 1
                   /\ j.status = "running" /\ j.age < MaxWall => Earned(j.waits, j.age)
    /\ awaited => /\ j.waits <= Doublings + MostFull
                  /\ j.status = "running" =>
                        j.age + left >= MaxWall \/ Earned(j.waits + 1, j.age + left)

WaitsPaid == \A c \in Call : Paid(job[c], waiter.call = c, waiter.left)

\* Calls to come were not waited for.
NotYetWaited == \A c \in Call : c > current => job[c].waits = 0 /\ job[c].age = 0

WaitInv ==
    /\ waiter \in [call : 0..MaxToolCalls, left : 0..MaxWall]
    /\ waiter.call <= current
    /\ NotYetWaited /\ WaitsPaid

LEMMA Limits ==
  /\ MostFull \in Nat /\ Doublings \in Nat /\ LongestSlice \in Nat \ {0}
  /\ MaxWall \in Nat \ {0} /\ MaxToolCalls \in Nat \ {0}
<1>1. LongestSlice \in Nat \ {0} /\ Doublings \in Nat
  BY SlicesGrow
<1>2. MostFull \in Nat
  BY <1>1, ToolAssumption DEF MostFull
<1> QED
  BY <1>1, <1>2, ToolAssumption

\* A wait begins with a job that has time left.
LEMMA WaitBegins ==
  ASSUME NEW w \in Nat, NEW age \in 0..MaxWall, age < MaxWall, Earned(w, age)
  PROVE  /\ WaitBudget(age, w) \in 0..MaxWall
         /\ w <= Doublings + MostFull
         /\ \/ age + WaitBudget(age, w) >= MaxWall
            \/ Earned(w + 1, age + WaitBudget(age, w))
<1> DEFINE b == WaitBudget(age, w)
           s == EscalatedSlice(w)
<1>1. s \in Nat \ {0} /\ (w >= Doublings => s = LongestSlice)
  BY SlicesGrow
<1>2. b = AtMost(s, MaxWall - age)
  BY DEF WaitBudget
<1> HIDE DEF s, b
<1>3. b \in 0..MaxWall /\ (b = s \/ age + b = MaxWall)
  BY <1>1, <1>2, Limits DEF AtMost
<1>4. w <= Doublings + MostFull
  <2>1. CASE w <= Doublings
    BY <2>1, Limits
  <2>2. CASE w > Doublings
    <3> DEFINE q == w - Doublings
    <3>1. q \in Nat /\ q * LongestSlice <= age
      BY <2>2, Limits DEF Earned
    <3> HIDE DEF q
    <3>2. q * LongestSlice <= MaxWall
      BY <3>1, Limits, OneMore
    <3>3. q <= MostFull
      BY <3>1, <3>2, Limits, Quotient DEF MostFull
    <3> QED
      BY <3>3, Limits DEF q
  <2> QED
    BY <2>1, <2>2, Limits
<1>5. b = s => Earned(w + 1, age + b)
  <2>1. CASE w < Doublings
    BY <2>1, Limits DEF Earned
  <2>2. CASE w = Doublings
    <3>1. ((w + 1) - Doublings) * LongestSlice = LongestSlice
      BY <2>2, Limits
    <3> QED
      BY <1>1, <2>2, <3>1, Limits DEF Earned
  <2>3. CASE w > Doublings
    <3> DEFINE q == w - Doublings
    <3>1. q \in Nat /\ q * LongestSlice <= age /\ (w + 1) - Doublings = q + 1
      BY <2>3, Limits DEF Earned
    <3>2. s = LongestSlice
      BY <1>1, <2>3, Limits
    <3> HIDE DEF q
    <3>3. (q + 1) * LongestSlice = q * LongestSlice + LongestSlice /\ q * LongestSlice \in Nat
      BY <3>1, OneMore, Limits
    <3>4. b = s => (q + 1) * LongestSlice <= age + b
      BY <3>1, <3>2, <3>3, Limits
    <3>5. ((w + 1) - Doublings) * LongestSlice = (q + 1) * LongestSlice
      BY <3>1
    <3> QED
      BY <3>4, <3>5 DEF Earned
  <2> QED
    BY <2>1, <2>2, <2>3, Limits
<1> QED
  BY <1>3, <1>4, <1>5 DEF b

\* A job that is no longer at work, or was not waited for, owes no more than before.
LEMMA PaidStays ==
  ASSUME NEW j \in JobRecord, NEW k \in JobRecord, NEW awaited \in BOOLEAN, NEW left \in 0..MaxWall,
         Paid(j, awaited, left), k.waits = j.waits, k.age = j.age,
         k.status = "running" => j.status = "running"
  PROVE  Paid(k, awaited, left) /\ (k.status # "running" => Paid(k, FALSE, 0))
BY Limits DEF Paid, JobRecord

WaiterRecord == [call : 0..MaxToolCalls, left : 0..MaxWall]

LEMMA InitWaits == ToolInit => WaitInv
<1> SUFFICES ASSUME ToolInit PROVE WaitInv
  OBVIOUS
<1>1. waiter = [call |-> 0, left |-> 0] /\ current = 0
  BY DEF ToolInit, NoWait
<1>2. \A c \in Call : job[c] = [status |-> "none", age |-> 0, waits |-> 0]
  BY DEF ToolInit
<1>3. \A c \in Call : c # 0
  BY DEF Call
<1>4. WaitsPaid
  BY <1>1, <1>2, <1>3, Limits DEF WaitsPaid, Paid
<1> QED
  BY <1>1, <1>2, <1>4, Limits DEF WaitInv, NotYetWaited

\* The steps that change the status of a job, or nothing the waits are about.
LEMMA StatusStep ==
  ASSUME ToolInv, WaitInv, ToolInv', current' = current,
         \A c \in Call : /\ job'[c].waits = job[c].waits /\ job'[c].age = job[c].age
                         /\ job'[c].status = "running" => job[c].status = "running",
         \/ waiter' = waiter
         \/ waiter' = NoWait /\ \A c \in Call : c = waiter.call => job'[c].status # "running"
  PROVE  WaitInv'
<1>1. waiter' \in WaiterRecord /\ waiter'.call <= current'
  BY Limits DEF WaitInv, WaiterRecord, NoWait, ToolInv, CallsTyped
<1>2. NotYetWaited'
  BY DEF WaitInv, NotYetWaited
<1>3. ASSUME NEW c \in Call PROVE Paid(job'[c], waiter'.call = c, waiter'.left)
  <2>1. /\ job[c] \in JobRecord /\ job'[c] \in JobRecord /\ waiter.left \in 0..MaxWall
        /\ Paid(job[c], waiter.call = c, waiter.left)
    BY DEF ToolInv, CallsTyped, WaitInv, WaitsPaid
  <2>2. /\ Paid(job'[c], waiter.call = c, waiter.left)
        /\ job'[c].status # "running" => Paid(job'[c], FALSE, 0)
    BY <2>1, PaidStays
  <2>3. CASE waiter' = waiter
    BY <2>2, <2>3
  <2>4. CASE waiter' = NoWait /\ (c = waiter.call => job'[c].status # "running")
    <3>1. waiter'.call # c
      BY <2>4 DEF NoWait, Call
    <3>2. CASE c = waiter.call
      BY <2>2, <2>4, <3>1, <3>2 DEF Paid
    <3>3. CASE c # waiter.call
      BY <2>2, <3>1, <3>3 DEF Paid
    <3> QED
      BY <3>2, <3>3
  <2> QED
    BY <2>3, <2>4
<1> QED
  BY <1>1, <1>2, <1>3 DEF WaitInv, WaitsPaid, WaiterRecord

\* A wait begins: of a new call, or once more.
LEMMA BeginStep ==
  ASSUME ToolInv, WaitInv, ToolInv', RegisterAndWait \/ AwaitSlice
  PROVE  WaitInv'
<1> DEFINE n == waiter'.call
           b == waiter'.left
<1>1. /\ waiter = NoWait /\ current \in Nat /\ current' \in 0..MaxToolCalls
      /\ waiter' = [call |-> current', left |-> WaitBudget(job[current'].age, job[current'].waits)]
      /\ current' \in Call /\ current <= current'
      /\ job[current'].age < MaxWall /\ Earned(job[current'].waits, job[current'].age)
      /\ \A c \in Call : job'[c].waits = job[c].waits /\ job'[c].age = job[c].age
      /\ \A c \in Call \ {current'} : job'[c] = job[c]
  <2>1. CASE RegisterAndWait
    <3>1. current \in Nat /\ current + 1 \in Call /\ current + 1 > current
      BY <2>1, Limits DEF RegisterAndWait, ToolInv, CallsTyped, Call
    <3>2. job[current + 1].waits = 0 /\ job[current + 1].age = 0
      BY <3>1 DEF WaitInv, NotYetWaited
    <3>3. job' = [job EXCEPT ![current + 1].status = "running"] /\ job \in [Call -> JobRecord]
          /\ current' = current + 1
      BY <2>1 DEF RegisterAndWait, ToolInv, CallsTyped
    <3>4. /\ \A c \in Call : job'[c].waits = job[c].waits /\ job'[c].age = job[c].age
          /\ \A c \in Call \ {current'} : job'[c] = job[c]
      BY <3>3 DEF JobRecord
    <3>5. Earned(0, 0) /\ 0 < MaxWall
      BY Limits DEF Earned
    <3> QED
      BY <2>1, <3>1, <3>2, <3>3, <3>4, <3>5, Limits DEF RegisterAndWait, ToolInv, CallsTyped
  <2>2. CASE AwaitSlice
    <3>1. current \in Call /\ current \in 0..MaxToolCalls /\ current \in Nat
      BY <2>2, Limits DEF AwaitSlice, ToolInv, CallsTyped, Call
    <3>2. waiter.call # current
      BY <2>2 DEF AwaitSlice, NoWait
    <3>3. Paid(job[current], FALSE, waiter.left)
      BY <3>1, <3>2 DEF WaitInv, WaitsPaid
    <3>4. Earned(job[current].waits, job[current].age)
      BY <2>2, <3>3 DEF AwaitSlice, Paid
    <3> QED
      BY <2>2, <3>1, <3>4 DEF AwaitSlice
  <2> QED
    BY <2>1, <2>2
<1>2. job[current'] \in JobRecord /\ job[current'].waits \in Nat /\ job[current'].age \in 0..MaxWall
  BY <1>1 DEF ToolInv, CallsTyped, JobRecord
<1>3. n = current' /\ b = WaitBudget(job[current'].age, job[current'].waits)
  BY <1>1
<1>4. /\ b \in 0..MaxWall
      /\ job[n].waits <= Doublings + MostFull
      /\ job[n].age + b >= MaxWall \/ Earned(job[n].waits + 1, job[n].age + b)
  BY <1>1, <1>2, <1>3, WaitBegins
<1>5. ASSUME NEW c \in Call PROVE Paid(job'[c], waiter'.call = c, waiter'.left)
  <2>1. CASE c = n
    BY <1>1, <1>3, <1>4, <2>1 DEF Paid
  <2>2. CASE c # n
    <3>1. Paid(job[c], FALSE, waiter.left)
      <4>1. Paid(job[c], waiter.call = c, waiter.left)
        BY DEF WaitInv, WaitsPaid
      <4>2. waiter.call # c
        BY <1>1 DEF NoWait, Call
      <4> QED
        BY <4>1, <4>2 DEF Paid
    <3> QED
      BY <1>1, <1>3, <2>2, <3>1 DEF Paid
  <2> QED
    BY <2>1, <2>2
<1>6. NotYetWaited'
  BY <1>1 DEF WaitInv, NotYetWaited, Call
<1>7. waiter' \in WaiterRecord
  BY <1>1, <1>3, <1>4 DEF WaiterRecord
<1> QED
  BY <1>1, <1>3, <1>5, <1>6, <1>7 DEF WaitInv, WaitsPaid, WaiterRecord

LEMMA EndStep ==
  ASSUME ToolInv, WaitInv, ToolInv', SliceEnds
  PROVE  WaitInv'
<1> DEFINE n == waiter.call
<1>1. /\ waiter # NoWait /\ waiter.left = 0 /\ waiter \in WaiterRecord
      /\ job' = [job EXCEPT ![n].waits = @ + 1]
      /\ waiter' = NoWait /\ current' = current /\ job \in [Call -> JobRecord]
      /\ n <= current /\ current \in 0..MaxToolCalls
  BY DEF SliceEnds, WaitInv, WaiterRecord, ToolInv, CallsTyped
<1>2. n \in Call
  BY <1>1, Limits DEF WaiterRecord, NoWait, Call
<1> HIDE DEF n
<1>3. /\ job'[n].waits = job[n].waits + 1 /\ job'[n].age = job[n].age
      /\ job'[n].status = job[n].status
      /\ \A c \in Call \ {n} : job'[c] = job[c]
  BY <1>1, <1>2 DEF JobRecord
<1>4. ASSUME NEW c \in Call PROVE Paid(job'[c], FALSE, 0)
  <2>1. Paid(job[c], n = c, waiter.left)
    BY DEF WaitInv, WaitsPaid, n
  <2>2. CASE c = n
    BY <1>1, <1>2, <1>3, <2>1, <2>2, Limits DEF Paid, JobRecord
  <2>3. CASE c # n
    BY <1>3, <2>1, <2>3 DEF Paid
  <2> QED
    BY <2>2, <2>3
<1>5. \A c \in Call : c # 0
  BY DEF Call
<1>6. NotYetWaited'
  BY <1>1, <1>2, <1>3 DEF WaitInv, NotYetWaited, Call
<1>7. waiter'.call = 0 /\ waiter'.left = 0 /\ waiter' \in WaiterRecord
  BY <1>1, Limits DEF NoWait, WaiterRecord
<1>8. WaitsPaid'
  <2> SUFFICES ASSUME NEW c \in Call PROVE Paid(job'[c], waiter'.call = c, waiter'.left)
    BY DEF WaitsPaid
  <2>1. waiter'.call # c /\ Paid(job'[c], FALSE, 0)
    BY <1>4, <1>5, <1>7
  <2> QED
    BY <2>1 DEF Paid
<1> QED
  BY <1>1, <1>6, <1>7, <1>8, Limits DEF WaitInv, WaiterRecord

\* While time passes a job ages as fast as the wait on it gets shorter.
LEMMA TimeStep ==
  ASSUME ToolInv, WaitInv, ToolInv', TimePasses
  PROVE  WaitInv'
<1>1. /\ waiter \in WaiterRecord /\ current' = current
      /\ waiter # NoWait => waiter.left > 0
      /\ waiter' = IF waiter = NoWait THEN waiter ELSE [waiter EXCEPT !.left = @ - 1]
  BY DEF TimePasses, WaitInv, WaiterRecord
<1>2. waiter' \in WaiterRecord /\ waiter'.call = waiter.call
      /\ (waiter = NoWait \/ (waiter.left > 0 /\ waiter'.left = waiter.left - 1))
  BY <1>1, Limits DEF WaiterRecord
<1>3. ASSUME NEW c \in Call
      PROVE  /\ job[c] \in JobRecord /\ job'[c].waits = job[c].waits
             /\ job'[c].status = job[c].status
             /\ job'[c].age = IF job[c].status = "running" THEN AtMost(job[c].age + 1, MaxWall)
                                                           ELSE job[c].age
  <2>1. job[c] \in JobRecord
    BY DEF ToolInv, CallsTyped
  <2>2. job'[c] = IF job[c].status = "running"
                  THEN [job[c] EXCEPT !.age = AtMost(@ + 1, MaxWall)] ELSE job[c]
    BY DEF TimePasses
  <2> DEFINE older == AtMost(job[c].age + 1, MaxWall)
  <2>3. job'[c] = IF job[c].status = "running" THEN [job[c] EXCEPT !.age = older] ELSE job[c]
    BY <2>2
  <2> HIDE DEF older
  <2>4. /\ job'[c].waits = job[c].waits /\ job'[c].status = job[c].status
        /\ job'[c].age = IF job[c].status = "running" THEN older ELSE job[c].age
    BY <2>1, <2>3 DEF JobRecord
  <2> QED
    BY <2>1, <2>4 DEF older
<1>4. ASSUME NEW c \in Call PROVE Paid(job'[c], waiter'.call = c, waiter'.left)
  <2>1. /\ Paid(job[c], waiter.call = c, waiter.left) /\ job[c] \in JobRecord
        /\ waiter.left \in 0..MaxWall
    BY <1>1, <1>3 DEF WaitInv, WaitsPaid, WaiterRecord
  <2>2. job[c].waits \in Nat /\ job[c].age \in 0..MaxWall
    BY <2>1 DEF JobRecord
  <2>3. CASE job[c].status # "running"
    BY <1>2, <1>3, <2>1, <2>3 DEF Paid
  <2>4. CASE job[c].status = "running" /\ waiter.call # c
    <3>1. job'[c].age \in 0..MaxWall /\ job'[c].age >= job[c].age
      BY <1>3, <2>2, <2>4, Limits DEF AtMost
    <3>2. job[c].age < MaxWall => Earned(job[c].waits, job[c].age)
      BY <2>1, <2>4 DEF Paid
    <3>3. ASSUME job'[c].age < MaxWall PROVE Earned(job[c].waits, job'[c].age)
      <4>1. CASE job[c].waits <= Doublings
        BY <4>1 DEF Earned
      <4>2. CASE job[c].waits > Doublings
        <5>1. /\ (job[c].waits - Doublings) * LongestSlice <= job[c].age
              /\ (job[c].waits - Doublings) \in Nat
          BY <2>2, <3>1, <3>2, <3>3, <4>2, Limits DEF Earned
        <5>2. (job[c].waits - Doublings) * LongestSlice \in Nat
          BY <5>1, Limits, OneMore
        <5> QED
          BY <2>2, <3>1, <5>1, <5>2 DEF Earned
      <4> QED
        BY <2>2, <4>1, <4>2, Limits
    <3> QED
      BY <1>2, <1>3, <2>1, <2>4, <3>3 DEF Paid
  <2>5. CASE job[c].status = "running" /\ waiter.call = c
    <3>1. waiter # NoWait
      BY <2>5 DEF NoWait, Call
    <3>2. waiter'.left = waiter.left - 1 /\ waiter.left > 0
      BY <1>2, <3>1
    <3>3. \/ job'[c].age = job[c].age + 1
          \/ job'[c].age = MaxWall
      BY <1>3, <2>2, <2>5, Limits DEF AtMost
    <3>4. \/ job'[c].age + waiter'.left = job[c].age + waiter.left
          \/ job'[c].age + waiter'.left >= MaxWall
      BY <2>1, <2>2, <3>2, <3>3, Limits
    <3>5. /\ job[c].waits <= Doublings + MostFull
          /\ job[c].age + waiter.left >= MaxWall
             \/ Earned(job[c].waits + 1, job[c].age + waiter.left)
      BY <2>1, <2>5 DEF Paid
    <3>6. \/ job'[c].age + waiter'.left >= MaxWall
          \/ Earned(job'[c].waits + 1, job'[c].age + waiter'.left)
      BY <1>3, <3>4, <3>5
    <3> QED
      BY <1>2, <1>3, <2>5, <3>5, <3>6 DEF Paid
  <2> QED
    BY <2>3, <2>4, <2>5
<1>5. NotYetWaited'
  <2>1. \A c \in Call : c > current => job[c].status = "none"
    BY DEF ToolInv, Later
  <2> QED
    BY <1>1, <1>3, <2>1 DEF WaitInv, NotYetWaited
<1> QED
  BY <1>1, <1>2, <1>4, <1>5 DEF WaitInv, WaitsPaid, WaiterRecord

LEMMA StepWaits == ToolInv /\ WaitInv /\ ToolInv' /\ [ToolNext]_toolVars => WaitInv'
<1> SUFFICES ASSUME ToolInv, WaitInv, ToolInv', [ToolNext]_toolVars PROVE WaitInv'
  OBVIOUS
<1>0. job \in [Call -> JobRecord] /\ current \in 0..MaxToolCalls
  BY DEF ToolInv, CallsTyped
<1>1. CASE AwaitPastWall \/ CancelCall \/ AbortAll
  <2>1. PICK s \in {"failed", "cancelled"} : job' = [job EXCEPT ![current].status = s]
    BY <1>1 DEF AwaitPastWall, CancelCall, AbortAll
  <2>2. UNCHANGED <<current, waiter>>
    BY <1>1 DEF AwaitPastWall, CancelCall, AbortAll
  <2>3. \A c \in Call : /\ job'[c].waits = job[c].waits /\ job'[c].age = job[c].age
                        /\ job'[c].status = "running" => job[c].status = "running"
    BY <1>0, <2>1 DEF JobRecord
  <2> QED
    BY <2>2, <2>3, StatusStep
<1>2. CASE AwaitOver \/ AbortRun \/ UNCHANGED toolVars
  <2>1. UNCHANGED <<job, current, waiter>>
    BY <1>2 DEF AwaitOver, AbortRun, toolVars
  <2> QED
    BY <2>1, StatusStep
<1>3. ASSUME NEW c \in Call, NEW resolved \in BOOLEAN, WorkSettles(c, resolved) PROVE WaitInv'
  <2> DEFINE status == Settled(job[c].status, resolved, work[c].aborted)
  <2>1. /\ job' = [job EXCEPT ![c].status = status] /\ current' = current
        /\ IF waiter.call = c THEN waiter' = NoWait ELSE waiter' = waiter
    BY <1>3 DEF WorkSettles
  <2>2. status # "running"
    BY DEF Settled
  <2> HIDE DEF status
  <2>3. \A d \in Call : /\ job'[d].waits = job[d].waits /\ job'[d].age = job[d].age
                        /\ job'[d].status = "running" => job[d].status = "running"
    BY <1>0, <2>1, <2>2 DEF JobRecord
  <2>4. job'[c].status = status
    BY <1>0, <2>1 DEF JobRecord
  <2> QED
    BY <2>1, <2>2, <2>3, <2>4, StatusStep
<1> QED
  BY <1>1, <1>2, <1>3, BeginStep, EndStep, TimeStep DEF ToolNext

LEMMA WaitsInvariant == ToolSpec => [](ToolInv /\ WaitInv)
<1>1. ToolInv /\ WaitInv /\ [ToolNext]_toolVars => ToolInv' /\ WaitInv'
  BY ToolStep, StepWaits
<1> QED
  BY <1>1, InitTools, InitWaits, PTL DEF ToolSpec

\* Every variable of the registry has its type: no wait is longer than the job's
\* wall-clock budget, however long its tool has taken.
THEOREM ToolTypeCorrect == ToolSpec => []ToolTypeOK
<1>1. ToolInv /\ WaitInv => ToolTypeOK
  BY DEF ToolInv, CallsTyped, JobRecord, WaitInv, ToolTypeOK
<1> QED
  BY <1>1, WaitsInvariant, PTL

\* However long a tool takes, the agent spends few turns on waiting for it.
THEOREM WaitsAreFew == ToolSpec => []FewWaits
<1>1. ToolInv /\ WaitInv => FewWaits
  <2> SUFFICES ASSUME ToolInv, WaitInv, NEW c \in Call
               PROVE  job[c].waits <= Doublings + MostFull + 1
    BY DEF FewWaits, MostFull
  <2>1. Paid(job[c], waiter.call = c, waiter.left) /\ job[c].waits \in Nat
    BY DEF WaitInv, WaitsPaid, ToolInv, CallsTyped, JobRecord
  <2> QED
    BY <2>1, Limits DEF Paid
<1> QED
  BY <1>1, WaitsInvariant, PTL

-----------------------------------------------------------------------------
(* Queued messages.                                                         *)

\* What the tab was told is in the memory is there.
ToldIsAnswered ==
    /\ \A i \in flush.applied : answered[i] > 0
    /\ \A r \in SessionRun : \A i \in acks[r] : answered[i] > 0

\* A run that began, or ended well, has its prompt in the memory.
PromptAnswered ==
    \A r \in SessionRun :
        /\ runState[r] = "live" \/ (runState[r] \in {"closing", "ended"} /\ ~runFailed[r])
        /\ prompt[r] # NoItem
        => answered[prompt[r]] > 0

\* The tab follows a run there is; while an item streams, it is the item's.
FollowsItsRun ==
    /\ following # 0 => runState[following] # "none"
    /\ flush.at = "stream" => following # 0 /\ prompt[following] = flush.item
    /\ post.at = "push" => post.run # 0
    /\ flush.at \in {"post", "stream"} => flush.item # NoItem

\* An item that a stream has yet to hand to the agent was pushed, once, and not taken.
Elements(s) == {s[n] : n \in DOMAIN s}
Distinct(s) == \A m, n \in DOMAIN s : s[m] = s[n] => m = n

PushedOnce ==
    \A r \in SessionRun :
        /\ \A i \in Elements(steerQueue[r]) :
              i \in seen[r] /\ i # pumped[r] /\ steered[r][i] = 0
        /\ pumped[r] # NoItem => pumped[r] \in seen[r] /\ steered[r][pumped[r]] = 0
        /\ Distinct(steerQueue[r])
        /\ \A i \in Item \ seen[r] : steered[r][i] = 0

QueueInv ==
    /\ QueueTypeOK /\ ToldIsAnswered /\ PromptAnswered /\ FollowsItsRun /\ PushedOnce
    /\ NoMessageLost /\ SteeredOncePerRun

\* The conjuncts of the type invariant, by the variables they are about.
TabType ==
    /\ written \in Seq(Item)
    /\ \A m, n \in DOMAIN written : written[m] = written[n] => m = n
    /\ queue \subseteq Written
    /\ inflight \subseteq queue
FlagsType ==
    /\ hold \in BOOLEAN /\ send \in BOOLEAN /\ following \in 0..MaxRuns
    /\ released \subseteq Item /\ upsets \in 0..MaxUpsets
FlushType == flush \in [at : Waits, applied : SUBSET Item, item : Item \cup {NoItem}]
PostType ==
    post \in [at : {"none", "get", "push", "replied", "refused"}, run : 0..MaxRuns,
              left : SUBSET Item]
LockType ==
    /\ runState \in [SessionRun -> {"none", "open", "live", "closing", "ended"}]
    /\ \A r, s \in SessionRun : HoldsLock(r) /\ HoldsLock(s) => r = s
PromptType ==
    /\ prompt \in [SessionRun -> Item \cup {NoItem}]
    /\ runFailed \in [SessionRun -> BOOLEAN]
PumpType ==
    /\ steerQueue \in [SessionRun -> Seq(Item)]
    /\ seen \in [SessionRun -> SUBSET Item]
    /\ pumped \in [SessionRun -> Item \cup {NoItem}]
AcksType == acks \in [SessionRun -> SUBSET Item]
CountType ==
    /\ steered \in [SessionRun -> [Item -> Nat]]
    /\ answered \in [Item -> Nat]

-----------------------------------------------------------------------------
(* Sequences without repetition.                                            *)

LEMMA AppendDistinct ==
  ASSUME NEW S, NEW s \in Seq(S), NEW i \in S
  PROVE  /\ Append(s, i) \in Seq(S)
         /\ Elements(Append(s, i)) = Elements(s) \cup {i}
         /\ Distinct(s) /\ i \notin Elements(s) => Distinct(Append(s, i))
<1>1. Append(s, i) \in Seq(S) /\ DOMAIN Append(s, i) = 1..(Len(s) + 1) /\ DOMAIN s = 1..Len(s) /\ Len(s) \in Nat
  OBVIOUS
<1>2. \A n \in 1..Len(s) : Append(s, i)[n] = s[n]
  OBVIOUS
<1>3. Append(s, i)[Len(s) + 1] = i
  OBVIOUS
<1>4. Elements(Append(s, i)) = Elements(s) \cup {i}
  BY <1>1, <1>2, <1>3 DEF Elements
<1>5. Distinct(s) /\ i \notin Elements(s) => Distinct(Append(s, i))
  BY <1>1, <1>2, <1>3 DEF Elements, Distinct
<1> QED
  BY <1>1, <1>4, <1>5

LEMMA TailDistinct ==
  ASSUME NEW S, NEW s \in Seq(S), s # <<>>
  PROVE  /\ Head(s) \in S /\ Head(s) \in Elements(s)
         /\ Tail(s) \in Seq(S) /\ Elements(Tail(s)) \subseteq Elements(s)
         /\ Distinct(s) => Distinct(Tail(s)) /\ Head(s) \notin Elements(Tail(s))
<1>1. /\ Tail(s) \in Seq(S) /\ Len(s) \in Nat \ {0} /\ DOMAIN s = 1..Len(s)
      /\ DOMAIN Tail(s) = 1..(Len(s) - 1)
  OBVIOUS
<1>2. \A n \in 1..(Len(s) - 1) : Tail(s)[n] = s[n + 1]
  OBVIOUS
<1>3. Head(s) = s[1] /\ 1 \in DOMAIN s /\ s[1] \in S
  OBVIOUS
<1>4. Elements(Tail(s)) \subseteq Elements(s)
  BY <1>1, <1>2 DEF Elements
<1>5. Distinct(s) => Distinct(Tail(s)) /\ Head(s) \notin Elements(Tail(s))
  BY <1>1, <1>2, <1>3 DEF Elements, Distinct
<1> QED
  BY <1>1, <1>3, <1>4, <1>5 DEF Elements

LEMMA PrependDistinct ==
  ASSUME NEW S, NEW s \in Seq(S), NEW i \in S
  PROVE  /\ <<i>> \o s \in Seq(S)
         /\ Elements(<<i>> \o s) = Elements(s) \cup {i}
         /\ Distinct(s) /\ i \notin Elements(s) => Distinct(<<i>> \o s)
<1> DEFINE t == <<i>> \o s
<1>1. t \in Seq(S) /\ Len(s) \in Nat /\ DOMAIN t = 1..(Len(s) + 1) /\ DOMAIN s = 1..Len(s)
  OBVIOUS
<1>2. t[1] = i /\ \A n \in 2..(Len(s) + 1) : t[n] = s[n - 1]
  OBVIOUS
<1> HIDE DEF t
<1>3. \A n \in 1..Len(s) : t[n + 1] = s[n]
  BY <1>1, <1>2
<1>4. Elements(t) = Elements(s) \cup {i}
  <2>1. Elements(t) \subseteq Elements(s) \cup {i}
    BY <1>1, <1>2 DEF Elements
  <2>2. Elements(s) \subseteq Elements(t)
    <3>1. \A n \in DOMAIN s : n + 1 \in DOMAIN t
      BY <1>1
    <3> QED
      BY <1>1, <1>3, <3>1 DEF Elements
  <2>3. i \in Elements(t)
    BY <1>1, <1>2 DEF Elements
  <2> QED
    BY <2>1, <2>2, <2>3
<1>5. Distinct(s) /\ i \notin Elements(s) => Distinct(t)
  <2>1. \A m \in DOMAIN t : m = 1 \/ (m - 1 \in DOMAIN s /\ t[m] = s[m - 1])
    BY <1>1, <1>2
  <2>2. \A m \in DOMAIN t : m \in Nat
    BY <1>1
  <2> QED
    BY <1>2, <2>1, <2>2 DEF Elements, Distinct
<1> QED
  BY <1>1, <1>4, <1>5 DEF t

-----------------------------------------------------------------------------
LEMMA StepQueue == QueueInv /\ [QueueNext]_queueVars => QueueInv'
<1> SUFFICES ASSUME QueueInv, [QueueNext]_queueVars PROVE QueueInv'
  OBVIOUS
<1> USE QueueAssumption
<1>0. TabType /\ FlagsType /\ FlushType /\ PostType /\ LockType /\ PromptType /\ PumpType /\
      AcksType /\ CountType /\ ToldIsAnswered /\ PromptAnswered /\ FollowsItsRun /\
      PushedOnce /\ SteeredOncePerRun /\ NoMessageLost
  BY DEF QueueInv, QueueTypeOK, TabType, FlagsType, FlushType, PostType, LockType, PromptType,
     PumpType, AcksType, CountType
<1>1. ASSUME NEW i \in Item, QueueItem(i) PROVE QueueInv'
  <2>1. UNCHANGED <<inflight, hold, flush, send, following, released, post, runState,
                    prompt, runFailed, steerQueue, seen, pumped, acks, steered, answered,
                    upsets>>
    BY <1>1 DEF QueueItem, tabVars, runVars
  <2>2. (FlagsType /\ FlushType /\ PostType /\ LockType /\ PromptType /\ PumpType /\
         AcksType /\ CountType)'
    BY <1>0, <2>1 DEF FlagsType, FlushType, PostType, LockType, PromptType, PumpType,
       AcksType, CountType, HoldsLock, SessionRun
  <2>3. (ToldIsAnswered /\ PromptAnswered /\ FollowsItsRun /\ PushedOnce /\
         SteeredOncePerRun)'
    BY <1>0, <2>1 DEF ToldIsAnswered, PromptAnswered, FollowsItsRun, PushedOnce, SteeredOncePerRun
  <2>4. TabType'
    BY <1>0, <1>1, <2>1 DEF QueueItem, TabType, Written
  <2>5. NoMessageLost'
    BY <1>0, <1>1, <2>1 DEF QueueItem, NoMessageLost, TabType, CountType, FlagsType, Written,
       SessionRun
  <2> QED
    BY <2>2, <2>3, <2>4, <2>5 DEF QueueInv, QueueTypeOK, TabType, FlagsType, FlushType,
       PostType, LockType, PromptType, PumpType, AcksType, CountType
<1>2. ASSUME NEW i \in Item, AckArrives(i) PROVE QueueInv'
  <2>1. UNCHANGED <<written, hold, flush, send, following, released, post, runState,
                    prompt, runFailed, steerQueue, seen, pumped, steered, answered>>
    BY <1>2 DEF AckArrives, Drop, Upset, tabVars, runVars
  <2>2. (FlushType /\ PostType /\ LockType /\ PromptType /\ PumpType /\ CountType)'
    BY <1>0, <2>1 DEF FlushType, PostType, LockType, PromptType, PumpType, CountType,
       HoldsLock, SessionRun
  <2>3. (PromptAnswered /\ FollowsItsRun /\ PushedOnce /\ SteeredOncePerRun)'
    BY <1>0, <2>1 DEF PromptAnswered, FollowsItsRun, PushedOnce, SteeredOncePerRun
  <2>4. TabType'
    BY <1>0, <1>2, <2>1 DEF AckArrives, Drop, Upset, TabType, Written
  <2>5. FlagsType'
    BY <1>0, <1>2, <2>1 DEF AckArrives, Drop, Upset, FlagsType, SessionRun
  <2>6. AcksType'
    BY <1>0, <1>2, <2>1 DEF AckArrives, Drop, Upset, AcksType, SessionRun
  <2>7. ToldIsAnswered'
    BY <1>0, <1>2, <2>1 DEF AckArrives, Drop, Upset, ToldIsAnswered, FlushType, CountType,
       AcksType, Waits, SessionRun
  <2>8. NoMessageLost'
    <3>1. answered[i] > 0
      BY <1>0, <1>2 DEF AckArrives, ToldIsAnswered, FlagsType, SessionRun
    <3>2. queue \ {i} \subseteq queue'
      BY <1>2 DEF AckArrives, Drop
    <3> QED
      BY <1>0, <3>1, <3>2, <2>1 DEF NoMessageLost, Written
  <2> QED
    BY <2>2, <2>3, <2>4, <2>5, <2>6, <2>7, <2>8 DEF QueueInv, QueueTypeOK, TabType, FlagsType,
       FlushType, PostType, LockType, PromptType, PumpType, AcksType, CountType
<1>3. ASSUME NEW i \in Item, RemoveItem(i) PROVE QueueInv'
  <2>1. UNCHANGED <<written, hold, flush, send, following, post, runState, prompt,
                    runFailed, steerQueue, seen, pumped, acks, steered, answered>>
    BY <1>3 DEF RemoveItem, Drop, Upset, tabVars, runVars
  <2>2. (FlushType /\ PostType /\ LockType /\ PromptType /\ PumpType /\ AcksType /\
         CountType)'
    BY <1>0, <2>1 DEF FlushType, PostType, LockType, PromptType, PumpType, AcksType,
       CountType, HoldsLock, SessionRun
  <2>3. (ToldIsAnswered /\ PromptAnswered /\ FollowsItsRun /\ PushedOnce /\
         SteeredOncePerRun)'
    BY <1>0, <2>1 DEF ToldIsAnswered, PromptAnswered, FollowsItsRun, PushedOnce, SteeredOncePerRun
  <2>4. TabType'
    BY <1>0, <1>3, <2>1 DEF RemoveItem, Drop, Upset, TabType, Written
  <2>5. FlagsType'
    BY <1>0, <1>3, <2>1 DEF RemoveItem, Drop, Upset, FlagsType, TabType, SessionRun, Written
  <2>6. NoMessageLost'
    BY <1>0, <1>3, <2>1 DEF RemoveItem, Drop, Upset, NoMessageLost, TabType, CountType,
       FlagsType, Written, SessionRun
  <2> QED
    BY <2>2, <2>3, <2>4, <2>5, <2>6 DEF QueueInv, QueueTypeOK, TabType, FlagsType, FlushType,
       PostType, LockType, PromptType, PumpType, AcksType, CountType
<1>4. CASE Reload
  <2>1. UNCHANGED <<queue, written, released, post, runState, prompt, runFailed,
                    steerQueue, seen, pumped, steered, answered>>
    BY <1>4 DEF Reload, Upset, NoFlush, tabVars, runVars
  <2>2. (PostType /\ LockType /\ PromptType /\ PumpType /\ CountType)'
    BY <1>0, <2>1 DEF PostType, LockType, PromptType, PumpType, CountType, HoldsLock, SessionRun
  <2>3. (PromptAnswered /\ PushedOnce /\ SteeredOncePerRun /\ NoMessageLost)'
    BY <1>0, <2>1 DEF PromptAnswered, PushedOnce, SteeredOncePerRun, NoMessageLost, Written
  <2>4. TabType'
    BY <1>0, <1>4, <2>1 DEF Reload, Upset, NoFlush, TabType, Written
  <2>5. FlagsType'
    <3> DEFINE P(r) == runState[r] \in {"open", "live"}
    <3>1. (\E r \in SessionRun : P(r)) => (CHOOSE r \in SessionRun : P(r)) \in SessionRun
      BY Zenon
    <3>2. following' \in SessionRun \cup {0}
      BY <1>4, <3>1 DEF Reload
    <3>3. following' \in 0..MaxRuns
      BY <3>2 DEF SessionRun
    <3>4. hold' \in BOOLEAN /\ send' \in BOOLEAN
      BY <1>4 DEF Reload
    <3>5. upsets' \in 0..MaxUpsets
      BY <1>0, <1>4 DEF Reload, Upset, FlagsType
    <3> QED
      BY <1>0, <2>1, <3>3, <3>4, <3>5 DEF FlagsType
  <2>6. FlushType'
    BY <1>0, <1>4, <2>1 DEF Reload, Upset, NoFlush, FlushType, Waits
  <2>7. AcksType'
    BY <1>0, <1>4, <2>1 DEF Reload, Upset, NoFlush, AcksType, SessionRun
  <2>8. ToldIsAnswered'
    BY <1>0, <1>4, <2>1 DEF Reload, Upset, NoFlush, ToldIsAnswered, FlushType, CountType,
       AcksType, Waits, SessionRun
  <2>9. FollowsItsRun'
    BY <1>0, <1>4, <2>1 DEF Reload, Upset, NoFlush, FollowsItsRun, FlagsType, LockType,
       FlushType, PromptType, PostType, SessionRun, HoldsLock, Waits
  <2> QED
    BY <2>2, <2>3, <2>4, <2>5, <2>6, <2>7, <2>8, <2>9 DEF QueueInv, QueueTypeOK, TabType,
       FlagsType, FlushType, PostType, LockType, PromptType, PumpType, AcksType, CountType
<1>5. CASE FlushStarts
  <2>1. UNCHANGED <<queue, inflight, written, hold, send, following, released, post,
                    runState, prompt, runFailed, steerQueue, seen, pumped, acks, steered,
                    answered, upsets>>
    BY <1>5 DEF FlushStarts, Pending, tabVars, runVars
  <2>2. (TabType /\ FlagsType /\ PostType /\ LockType /\ PromptType /\ PumpType /\
         AcksType /\ CountType)'
    <3>1. (TabType /\ FlagsType /\ PostType)'
      BY <1>0, <2>1 DEF TabType, FlagsType, PostType, Written
    <3>2. (LockType /\ PromptType)'
      BY <1>0, <2>1 DEF LockType, PromptType, HoldsLock, SessionRun
    <3>3. (PumpType /\ AcksType /\ CountType)'
      BY <1>0, <2>1 DEF PumpType, AcksType, CountType, SessionRun
    <3> QED
      BY <3>1, <3>2, <3>3
  <2>3. (PromptAnswered /\ PushedOnce /\ SteeredOncePerRun /\ NoMessageLost)'
    <3>1. (PromptAnswered /\ NoMessageLost)'
      BY <1>0, <2>1 DEF PromptAnswered, NoMessageLost, Written
    <3>2. (PushedOnce /\ SteeredOncePerRun)'
      BY <1>0, <2>1 DEF PushedOnce, SteeredOncePerRun
    <3> QED
      BY <3>1, <3>2
  <2>4. FlushType'
    BY <1>0, <1>5, <2>1 DEF FlushStarts, Pending, FlushType, Waits
  <2>5. ToldIsAnswered'
    BY <1>0, <1>5, <2>1 DEF FlushStarts, Pending, ToldIsAnswered, FlushType, CountType,
       AcksType, Waits, SessionRun
  <2>6. FollowsItsRun'
    BY <1>0, <1>5, <2>1 DEF FlushStarts, Pending, FollowsItsRun, FlagsType, LockType,
       FlushType, PromptType, PostType, SessionRun, HoldsLock, Waits
  <2> QED
    BY <2>2, <2>3, <2>4, <2>5, <2>6 DEF QueueInv, QueueTypeOK, TabType, FlagsType, FlushType,
       PostType, LockType, PromptType, PumpType, AcksType, CountType
<1>6. CASE SyncIds
  <2>1. UNCHANGED <<queue, inflight, written, hold, send, following, released, post,
                    runState, prompt, runFailed, steerQueue, seen, pumped, acks, steered,
                    answered, upsets>>
    BY <1>6 DEF SyncIds, tabVars, runVars
  <2>2. (TabType /\ FlagsType /\ PostType /\ LockType /\ PromptType /\ PumpType /\
         AcksType /\ CountType)'
    <3>1. (TabType /\ FlagsType /\ PostType)'
      BY <1>0, <2>1 DEF TabType, FlagsType, PostType, Written
    <3>2. (LockType /\ PromptType)'
      BY <1>0, <2>1 DEF LockType, PromptType, HoldsLock, SessionRun
    <3>3. (PumpType /\ AcksType /\ CountType)'
      BY <1>0, <2>1 DEF PumpType, AcksType, CountType, SessionRun
    <3> QED
      BY <3>1, <3>2, <3>3
  <2>3. (PromptAnswered /\ PushedOnce /\ SteeredOncePerRun /\ NoMessageLost)'
    <3>1. (PromptAnswered /\ NoMessageLost)'
      BY <1>0, <2>1 DEF PromptAnswered, NoMessageLost, Written
    <3>2. (PushedOnce /\ SteeredOncePerRun)'
      BY <1>0, <2>1 DEF PushedOnce, SteeredOncePerRun
    <3> QED
      BY <3>1, <3>2
  <2>4. FlushType'
    <3>1. PICK known \in {{}, {i \in queue : answered[i] > 0}} :
             flush' = [flush EXCEPT !.at = "purge", !.applied = known]
      BY <1>6 DEF SyncIds
    <3>2. known \in SUBSET Item
      BY <1>0, <3>1 DEF TabType, Written
    <3> QED
      BY <1>0, <3>1, <3>2 DEF FlushType, Waits
  <2>5. ToldIsAnswered'
    BY <1>0, <1>6, <2>1 DEF SyncIds, ToldIsAnswered, FlushType, CountType, AcksType, Waits,
       SessionRun
  <2>6. FollowsItsRun'
    BY <1>0, <1>6, <2>1 DEF SyncIds, FollowsItsRun, FlagsType, LockType, FlushType,
       PromptType, PostType, SessionRun, HoldsLock, Waits
  <2> QED
    BY <2>2, <2>3, <2>4, <2>5, <2>6 DEF QueueInv, QueueTypeOK, TabType, FlagsType, FlushType,
       PostType, LockType, PromptType, PumpType, AcksType, CountType
<1>7. CASE PurgeApplied
  <2>1. UNCHANGED <<written, hold, send, following, released, post, runState, prompt,
                    runFailed, steerQueue, seen, pumped, acks, steered, answered, upsets>>
    BY <1>7 DEF PurgeApplied, Pending, Drop, NoFlush, First, tabVars, runVars
  <2>2. (FlagsType /\ PostType /\ LockType /\ PromptType /\ PumpType /\ AcksType /\
         CountType)'
    BY <1>0, <2>1 DEF FlagsType, PostType, LockType, PromptType, PumpType, AcksType,
       CountType, HoldsLock, SessionRun
  <2>3. (PromptAnswered /\ PushedOnce /\ SteeredOncePerRun)'
    BY <1>0, <2>1 DEF PromptAnswered, PushedOnce, SteeredOncePerRun
  <2>4. TabType'
    BY <1>0, <1>7, <2>1 DEF PurgeApplied, Pending, Drop, NoFlush, First, TabType, Written
  <2>5. FlushType'
    BY <1>0, <1>7, <2>1 DEF PurgeApplied, Pending, Drop, NoFlush, First, FlushType, TabType,
       Waits, Written
  <2>6. ToldIsAnswered'
    BY <1>0, <1>7, <2>1 DEF PurgeApplied, Pending, Drop, NoFlush, First, ToldIsAnswered,
       FlushType, CountType, AcksType, Waits, SessionRun
  <2>7. FollowsItsRun'
    <3>1. CASE flush' = NoFlush
      BY <1>0, <2>1, <3>1 DEF NoFlush, FollowsItsRun
    <3>2. CASE \E i \in Pending : flush' = [at |-> "post", applied |-> {}, item |-> i]
      <4>1. NoItem \notin Pending
        BY <1>0, QueueAssumption DEF Pending, TabType, Written
      <4> QED
        BY <1>0, <2>1, <3>2, <4>1 DEF FollowsItsRun
    <3> QED
      BY <1>7, <3>1, <3>2 DEF PurgeApplied
  <2>8. NoMessageLost'
    BY <1>0, <1>7, <2>1 DEF PurgeApplied, Pending, Drop, NoFlush, First, NoMessageLost,
       TabType, CountType, FlagsType, ToldIsAnswered, Written, SessionRun
  <2> QED
    BY <2>2, <2>3, <2>4, <2>5, <2>6, <2>7, <2>8 DEF QueueInv, QueueTypeOK, TabType, FlagsType,
       FlushType, PostType, LockType, PromptType, PumpType, AcksType, CountType
<1>8. CASE FlushPosts
  <2>1. UNCHANGED <<queue, inflight, written, send, released, post, runFailed, steerQueue,
                    seen, pumped, acks, steered, answered>>
    BY <1>8 DEF FlushPosts, Accept, NextRun, SessionBusy, Upset, NoFlush, tabVars, runVars
  <2>2. (TabType /\ PostType /\ PumpType /\ AcksType /\ CountType)'
    BY <1>0, <2>1 DEF TabType, PostType, PumpType, AcksType, CountType, Written
  <2>3. (PushedOnce /\ SteeredOncePerRun /\ NoMessageLost)'
    BY <1>0, <2>1 DEF PushedOnce, SteeredOncePerRun, NoMessageLost, Written
  <2>4. FlagsType'
    <3>1. following' \in 0..MaxRuns
      BY <1>0, <1>8 DEF FlushPosts, FlagsType, SessionRun
    <3>2. hold' \in BOOLEAN
      BY <1>0, <1>8 DEF FlushPosts, FlagsType
    <3>3. upsets' \in 0..MaxUpsets
      BY <1>0, <1>8 DEF FlushPosts, FlagsType, Upset
    <3> QED
      BY <1>0, <2>1, <3>1, <3>2, <3>3 DEF FlagsType
  <2>5. FlushType'
    BY <1>0, <1>8, <2>1 DEF FlushPosts, Accept, NextRun, SessionBusy, Upset, NoFlush,
       FlushType, Waits
  <2>6. LockType'
    BY <1>0, <1>8, <2>1 DEF FlushPosts, Accept, NextRun, SessionBusy, Upset, NoFlush,
       LockType, HoldsLock, SessionRun
  <2>7. PromptType'
    BY <1>0, <1>8, <2>1 DEF FlushPosts, Accept, NextRun, SessionBusy, Upset, NoFlush,
       PromptType, FlushType, SessionRun, Waits
  <2>8. ToldIsAnswered'
    <3>1. flush'.applied \subseteq flush.applied
      BY <1>0, <1>8 DEF FlushPosts, NoFlush, FlushType
    <3> QED
      BY <1>0, <2>1, <3>1 DEF ToldIsAnswered
  <2>9. PromptAnswered'
    BY <1>0, <1>8, <2>1 DEF FlushPosts, Accept, NextRun, SessionBusy, Upset, NoFlush,
       PromptAnswered, LockType, PromptType, CountType, HoldsLock, SessionRun
  <2>10. FollowsItsRun'
    BY <1>0, <1>8, <2>1 DEF FlushPosts, Accept, NextRun, SessionBusy, Upset, NoFlush,
       FollowsItsRun, FlagsType, LockType, FlushType, PromptType, PostType, SessionRun,
       HoldsLock, Waits
  <2> QED
    BY <2>2, <2>3, <2>4, <2>5, <2>6, <2>7, <2>8, <2>9, <2>10 DEF QueueInv, QueueTypeOK,
       TabType, FlagsType, FlushType, PostType, LockType, PromptType, PumpType, AcksType,
       CountType
<1>9. CASE SendNow
  <2>1. UNCHANGED <<queue, written, hold, flush, following, released, runState, prompt,
                    runFailed, steerQueue, seen, pumped, acks, steered, answered, upsets>>
    BY <1>9 DEF SendNow, NoPost, Pending, tabVars, runVars
  <2>2. (FlushType /\ LockType /\ PromptType /\ PumpType /\ AcksType /\ CountType)'
    BY <1>0, <2>1 DEF FlushType, LockType, PromptType, PumpType, AcksType, CountType,
       HoldsLock, SessionRun
  <2>3. (ToldIsAnswered /\ PromptAnswered /\ PushedOnce /\ SteeredOncePerRun /\
         NoMessageLost)'
    BY <1>0, <2>1 DEF ToldIsAnswered, PromptAnswered, PushedOnce, SteeredOncePerRun,
       NoMessageLost, Written
  <2>4. TabType'
    BY <1>0, <1>9, <2>1 DEF SendNow, NoPost, Pending, TabType, Written
  <2>5. FlagsType'
    BY <1>0, <1>9, <2>1 DEF SendNow, NoPost, Pending, FlagsType, SessionRun
  <2>6. PostType'
    BY <1>0, <1>9, <2>1 DEF SendNow, NoPost, Pending, PostType, TabType, Written
  <2>7. FollowsItsRun'
    BY <1>0, <1>9, <2>1 DEF SendNow, NoPost, Pending, FollowsItsRun, FlagsType, LockType,
       FlushType, PromptType, PostType, SessionRun, HoldsLock, Waits
  <2> QED
    BY <2>2, <2>3, <2>4, <2>5, <2>6, <2>7 DEF QueueInv, QueueTypeOK, TabType, FlagsType,
       FlushType, PostType, LockType, PromptType, PumpType, AcksType, CountType
<1>10. CASE SteerReply
  <2>1. UNCHANGED <<queue, written, flush, following, released, runState, prompt,
                    runFailed, steerQueue, seen, pumped, acks, steered, answered, upsets>>
    BY <1>10 DEF SteerReply, NoPost, tabVars, runVars
  <2>2. (FlushType /\ LockType /\ PromptType /\ PumpType /\ AcksType /\ CountType)'
    BY <1>0, <2>1 DEF FlushType, LockType, PromptType, PumpType, AcksType, CountType,
       HoldsLock, SessionRun
  <2>3. (ToldIsAnswered /\ PromptAnswered /\ PushedOnce /\ SteeredOncePerRun /\
         NoMessageLost)'
    BY <1>0, <2>1 DEF ToldIsAnswered, PromptAnswered, PushedOnce, SteeredOncePerRun,
       NoMessageLost, Written
  <2>4. TabType'
    BY <1>0, <1>10, <2>1 DEF SteerReply, NoPost, TabType, Written
  <2>5. FlagsType'
    BY <1>0, <1>10, <2>1 DEF SteerReply, NoPost, FlagsType, SessionRun
  <2>6. PostType'
    BY <1>0, <1>10, <2>1 DEF SteerReply, NoPost, PostType
  <2>7. FollowsItsRun'
    BY <1>0, <1>10, <2>1 DEF SteerReply, NoPost, FollowsItsRun, FlagsType, LockType,
       FlushType, PromptType, PostType, SessionRun, HoldsLock, Waits
  <2> QED
    BY <2>2, <2>3, <2>4, <2>5, <2>6, <2>7 DEF QueueInv, QueueTypeOK, TabType, FlagsType,
       FlushType, PostType, LockType, PromptType, PumpType, AcksType, CountType
<1>11. CASE StreamEnds
  <2>1. UNCHANGED <<written, send, post, runState, prompt, runFailed, steerQueue, seen,
                    pumped, acks, steered, answered, upsets>>
    BY <1>11 DEF StreamEnds, StreamDone, FlushItem, NoFlush, tabVars, runVars
  <2>2. (PostType /\ LockType /\ PromptType /\ PumpType /\ AcksType /\ CountType)'
    BY <1>0, <2>1 DEF PostType, LockType, PromptType, PumpType, AcksType, CountType,
       HoldsLock, SessionRun
  <2>3. (PromptAnswered /\ PushedOnce /\ SteeredOncePerRun)'
    BY <1>0, <2>1 DEF PromptAnswered, PushedOnce, SteeredOncePerRun
  <2>4. TabType'
    BY <1>0, <1>11, <2>1 DEF StreamEnds, StreamDone, FlushItem, NoFlush, TabType, Written
  <2>5. FlagsType'
    BY <1>0, <1>11, <2>1 DEF StreamEnds, StreamDone, FlushItem, NoFlush, FlagsType,
       PromptType, SessionRun
  <2>6. FlushType'
    BY <1>0, <1>11, <2>1 DEF StreamEnds, StreamDone, FlushItem, NoFlush, FlushType, Waits
  <2>7. ToldIsAnswered'
    BY <1>0, <1>11, <2>1 DEF StreamEnds, StreamDone, FlushItem, NoFlush, ToldIsAnswered,
       FlushType, CountType, AcksType, Waits, SessionRun
  <2>8. FollowsItsRun'
    BY <1>0, <1>11, <2>1 DEF StreamEnds, StreamDone, FlushItem, NoFlush, FollowsItsRun,
       FlagsType, LockType, FlushType, PromptType, PostType, SessionRun, HoldsLock, Waits
  <2>9. NoMessageLost'
    <3>1. /\ following \in SessionRun /\ runState[following] \in {"closing", "ended"}
          /\ queue' = queue \ FlushItem
          /\ released' = IF runFailed[following]
                          THEN released \cup ({prompt[following]} \ {NoItem}) ELSE released
      BY <1>0, <1>11 DEF StreamEnds, StreamDone, FlagsType, SessionRun
    <3>2. ASSUME NEW i \in FlushItem
          PROVE  answered[i] > 0 \/ i \in released'
      <4>1. prompt[following] = i /\ i # NoItem
        BY <1>0, <3>2 DEF FlushItem, FollowsItsRun
      <4> QED
        BY <1>0, <3>1, <4>1 DEF PromptAnswered
    <3>3. released \subseteq released' /\ Written' = Written /\ answered' = answered
      BY <2>1, <3>1 DEF Written
    <3> QED
      BY <1>0, <3>1, <3>2, <3>3 DEF NoMessageLost
  <2> QED
    BY <2>2, <2>3, <2>4, <2>5, <2>6, <2>7, <2>8, <2>9 DEF QueueInv, QueueTypeOK, TabType,
       FlagsType, FlushType, PostType, LockType, PromptType, PumpType, AcksType, CountType
<1>12. CASE StopRun
  <2>1. UNCHANGED <<written, send, post, runState, prompt, runFailed, steerQueue, seen,
                    pumped, acks, steered, answered>>
    BY <1>12 DEF StopRun, Upset, NoFlush, FlushItem, tabVars, runVars
  <2>2. (PostType /\ LockType /\ PromptType /\ PumpType /\ AcksType /\ CountType)'
    BY <1>0, <2>1 DEF PostType, LockType, PromptType, PumpType, AcksType, CountType,
       HoldsLock, SessionRun
  <2>3. (PromptAnswered /\ PushedOnce /\ SteeredOncePerRun)'
    BY <1>0, <2>1 DEF PromptAnswered, PushedOnce, SteeredOncePerRun
  <2>4. TabType'
    BY <1>0, <1>12, <2>1 DEF StopRun, Upset, NoFlush, FlushItem, TabType, Written
  <2>5. FlagsType'
    <3>1. FlushItem \subseteq Item
      BY <1>0 DEF FlushItem, FlushType, FollowsItsRun
    <3>2. released' \subseteq Item
      BY <1>0, <1>12, <3>1 DEF StopRun, FlagsType
    <3> QED
      BY <1>0, <1>12, <2>1, <3>2 DEF StopRun, Upset, FlagsType
  <2>6. FlushType'
    BY <1>0, <1>12, <2>1 DEF StopRun, Upset, NoFlush, FlushItem, FlushType, Waits
  <2>7. ToldIsAnswered'
    BY <1>0, <1>12, <2>1 DEF StopRun, Upset, NoFlush, FlushItem, ToldIsAnswered, FlushType,
       CountType, AcksType, Waits, SessionRun
  <2>8. FollowsItsRun'
    BY <1>0, <1>12, <2>1 DEF StopRun, Upset, NoFlush, FlushItem, FollowsItsRun, FlagsType,
       LockType, FlushType, PromptType, PostType, SessionRun, HoldsLock, Waits
  <2>9. NoMessageLost'
    BY <1>0, <1>12, <2>1 DEF StopRun, Upset, NoFlush, FlushItem, NoMessageLost, TabType,
       CountType, FlagsType, Written, SessionRun
  <2> QED
    BY <2>2, <2>3, <2>4, <2>5, <2>6, <2>7, <2>8, <2>9 DEF QueueInv, QueueTypeOK, TabType,
       FlagsType, FlushType, PostType, LockType, PromptType, PumpType, AcksType, CountType
<1>13. CASE SteerReadsLock
  <2>1. UNCHANGED <<queue, inflight, written, hold, flush, send, following, released,
                    runState, prompt, runFailed, steerQueue, seen, pumped, acks, steered,
                    answered, upsets>>
    BY <1>13 DEF SteerReadsLock, SessionBusy, tabVars, runVars
  <2>2. (TabType /\ FlagsType /\ FlushType /\ LockType /\ PromptType /\ PumpType /\
         AcksType /\ CountType)'
    BY <1>0, <2>1 DEF TabType, FlagsType, FlushType, LockType, PromptType, PumpType, AcksType,
       CountType, Written, HoldsLock, SessionRun
  <2>3. (ToldIsAnswered /\ PromptAnswered /\ PushedOnce /\ SteeredOncePerRun /\
         NoMessageLost)'
    BY <1>0, <2>1 DEF ToldIsAnswered, PromptAnswered, PushedOnce, SteeredOncePerRun,
       NoMessageLost, Written
  <2>4. PostType'
    <3>1. CASE \E r \in SessionRun : post' = [post EXCEPT !.at = "push", !.run = r]
      <4>1. PICK r \in SessionRun : post' = [post EXCEPT !.at = "push", !.run = r]
        BY <3>1
      <4>2. r \in 0..MaxRuns
        BY DEF SessionRun
      <4> QED
        BY <1>0, <4>1, <4>2 DEF PostType
    <3>2. CASE post' = [post EXCEPT !.at = "refused"]
      BY <1>0, <3>2 DEF PostType
    <3> QED
      BY <1>13, <3>1, <3>2 DEF SteerReadsLock
  <2>5. FollowsItsRun'
    <3>1. post'.at = "push" => post'.run # 0
      <4>1. CASE \E r \in SessionRun : post' = [post EXCEPT !.at = "push", !.run = r]
        BY <1>0, <4>1 DEF PostType, SessionRun
      <4>2. CASE post' = [post EXCEPT !.at = "refused"]
        BY <1>0, <4>2 DEF PostType
      <4> QED
        BY <1>13, <4>1, <4>2 DEF SteerReadsLock
    <3> QED
      BY <1>0, <2>1, <3>1 DEF FollowsItsRun
  <2> QED
    BY <2>2, <2>3, <2>4, <2>5 DEF QueueInv, QueueTypeOK, TabType, FlagsType, FlushType,
       PostType, LockType, PromptType, PumpType, AcksType, CountType
<1>14. CASE SteerPushes
  <2>1. UNCHANGED <<queue, inflight, written, hold, flush, send, following, released,
                    runState, prompt, runFailed, pumped, acks, steered, answered, upsets>>
    BY <1>14 DEF SteerPushes, Push, tabVars, runVars
  <2>2. (TabType /\ FlagsType /\ FlushType /\ LockType /\ PromptType /\ AcksType /\
         CountType)'
    BY <1>0, <2>1 DEF TabType, FlagsType, FlushType, LockType, PromptType, AcksType,
       CountType, Written, HoldsLock, SessionRun
  <2>3. (ToldIsAnswered /\ PromptAnswered /\ SteeredOncePerRun /\ NoMessageLost)'
    BY <1>0, <2>1 DEF ToldIsAnswered, PromptAnswered, SteeredOncePerRun, NoMessageLost, Written
  <2>4. PostType'
    <3>1. CASE \E i \in post.left :
                  post' = [post EXCEPT !.left = @ \ {i},
                                       !.at = IF post.left = {i} THEN "replied" ELSE "push"]
      <4>1. PICK i \in post.left :
                 post' = [post EXCEPT !.left = @ \ {i},
                                      !.at = IF post.left = {i} THEN "replied" ELSE "push"]
        BY <3>1
      <4>2. post.left \ {i} \in SUBSET Item
        BY <1>0 DEF PostType
      <4> QED
        BY <1>0, <4>1, <4>2 DEF PostType
    <3>2. CASE post' = [post EXCEPT !.at = "refused"]
      BY <1>0, <3>2 DEF PostType
    <3> QED
      BY <1>14, <3>1, <3>2 DEF SteerPushes
  <2>5. PumpType'
    <3>1. post.run \in SessionRun /\ post.left \subseteq Item
      <4>1. post.run \in 0..MaxRuns /\ post.left \subseteq Item
        BY <1>0 DEF PostType
      <4>2. post.run # 0
        BY <1>0, <1>14 DEF SteerPushes, FollowsItsRun
      <4> QED
        BY <4>1, <4>2 DEF SessionRun
    <3>2. CASE UNCHANGED <<steerQueue, seen>>
      BY <1>0, <2>1, <3>2 DEF PumpType
    <3>3. ASSUME NEW i \in post.left, Push(post.run, i) PROVE PumpType'

      <4>1. Append(steerQueue[post.run], i) \in Seq(Item)
        BY <1>0, <3>1, AppendDistinct DEF PumpType
      <4>2. steerQueue' \in [SessionRun -> Seq(Item)]
        BY <1>0, <3>1, <3>3, <4>1 DEF Push, PumpType
      <4>3. seen' \in [SessionRun -> SUBSET Item]
        BY <1>0, <3>1, <3>3 DEF Push, PumpType
      <4> QED
        BY <1>0, <2>1, <4>2, <4>3 DEF PumpType
    <3> QED
      BY <1>14, <3>2, <3>3 DEF SteerPushes
  <2>6. FollowsItsRun'
    BY <1>0, <1>14, <2>1 DEF SteerPushes, Push, FollowsItsRun, FlagsType, LockType, FlushType,
       PromptType, PostType, SessionRun, HoldsLock, Waits
  <2>7. PushedOnce'
    <3>1. post.run \in SessionRun /\ post.left \subseteq Item
      <4>1. post.run \in 0..MaxRuns /\ post.left \subseteq Item
        BY <1>0 DEF PostType
      <4>2. post.run # 0
        BY <1>0, <1>14 DEF SteerPushes, FollowsItsRun
      <4> QED
        BY <4>1, <4>2 DEF SessionRun
    <3>2. CASE UNCHANGED <<steerQueue, seen>>
      BY <1>0, <2>1, <3>2 DEF PushedOnce
    <3>3. ASSUME NEW i \in post.left, Push(post.run, i) PROVE PushedOnce'

      <4> SUFFICES ASSUME NEW r \in SessionRun PROVE
             /\ \A j \in Elements(steerQueue'[r]) :
                   j \in seen'[r] /\ j # pumped[r] /\ steered[r][j] = 0
             /\ pumped[r] # NoItem => pumped[r] \in seen'[r] /\ steered[r][pumped[r]] = 0
             /\ Distinct(steerQueue'[r])
             /\ \A j \in Item \ seen'[r] : steered[r][j] = 0
        BY <2>1 DEF PushedOnce
      <4>1. seen[r] \subseteq seen'[r]
        BY <1>0, <3>3 DEF Push, PumpType
      <4>2. CASE steerQueue'[r] = steerQueue[r]
        BY <1>0, <4>1, <4>2 DEF PushedOnce
      <4>3. CASE steerQueue'[r] # steerQueue[r]
        <5>1. r = post.run /\ i \notin seen[r] /\ steerQueue'[r] = Append(steerQueue[r], i)
              /\ i \in seen'[r]
          BY <1>0, <3>1, <3>3, <4>3 DEF Push, PumpType
        <5>2. i \notin Elements(steerQueue[r]) /\ i # pumped[r] /\ steered[r][i] = 0
          BY <1>0, <3>1, <5>1 DEF PushedOnce, PumpType, QueueAssumption
        <5>3. /\ Elements(Append(steerQueue[r], i)) = Elements(steerQueue[r]) \cup {i}
              /\ Distinct(Append(steerQueue[r], i))
          BY <1>0, <3>1, <5>2, AppendDistinct DEF PumpType, PushedOnce
        <5> QED
          BY <1>0, <4>1, <5>1, <5>2, <5>3 DEF PushedOnce
      <4> QED
        BY <4>2, <4>3
    <3> QED
      BY <1>14, <3>2, <3>3 DEF SteerPushes
  <2> QED
    BY <2>2, <2>3, <2>4, <2>5, <2>6, <2>7 DEF QueueInv, QueueTypeOK, TabType, FlagsType,
       FlushType, PostType, LockType, PromptType, PumpType, AcksType, CountType
<1>15. ASSUME NEW r \in SessionRun, OtherPrompt(r) PROVE QueueInv'
  <2>1. UNCHANGED <<queue, inflight, written, hold, flush, send, released, post,
                    runFailed, steerQueue, seen, pumped, acks, steered, answered, upsets>>
    BY <1>15 DEF OtherPrompt, Accept, NextRun, SessionBusy, tabVars, runVars
  <2>2. (TabType /\ FlushType /\ PostType /\ PumpType /\ AcksType /\ CountType)'
    BY <1>0, <2>1 DEF TabType, FlushType, PostType, PumpType, AcksType, CountType, Written
  <2>3. (ToldIsAnswered /\ PushedOnce /\ SteeredOncePerRun /\ NoMessageLost)'
    BY <1>0, <2>1 DEF ToldIsAnswered, PushedOnce, SteeredOncePerRun, NoMessageLost, Written
  <2>4. FlagsType'
    BY <1>0, <1>15, <2>1 DEF OtherPrompt, Accept, NextRun, SessionBusy, FlagsType, SessionRun
  <2>5. LockType'
    BY <1>0, <1>15, <2>1 DEF OtherPrompt, Accept, NextRun, SessionBusy, LockType, HoldsLock,
       SessionRun
  <2>6. PromptType'
    BY <1>0, <1>15, <2>1 DEF OtherPrompt, Accept, NextRun, SessionBusy, PromptType, SessionRun
  <2>7. PromptAnswered'
    BY <1>0, <1>15, <2>1 DEF OtherPrompt, Accept, NextRun, SessionBusy, PromptAnswered,
       LockType, PromptType, CountType, HoldsLock, SessionRun
  <2>8. FollowsItsRun'
    BY <1>0, <1>15, <2>1 DEF OtherPrompt, Accept, NextRun, SessionBusy, FollowsItsRun,
       FlagsType, LockType, FlushType, PromptType, PostType, SessionRun, HoldsLock, Waits
  <2> QED
    BY <2>2, <2>3, <2>4, <2>5, <2>6, <2>7, <2>8 DEF QueueInv, QueueTypeOK, TabType, FlagsType,
       FlushType, PostType, LockType, PromptType, PumpType, AcksType, CountType
<1>16. ASSUME NEW r \in SessionRun, RunStarts(r) PROVE QueueInv'
  <2>1. UNCHANGED <<queue, inflight, written, hold, flush, send, following, released,
                    post, prompt, runFailed, steerQueue, seen, pumped, acks, steered,
                    upsets>>
    BY <1>16 DEF RunStarts, tabVars, runVars
  <2>2. (TabType /\ FlagsType /\ FlushType /\ PostType /\ PromptType /\ PumpType /\ AcksType)'
    BY <1>0, <2>1 DEF TabType, FlagsType, FlushType, PostType, PromptType, PumpType, AcksType,
       Written
  <2>3. (PushedOnce /\ SteeredOncePerRun)'
    BY <1>0, <2>1 DEF PushedOnce, SteeredOncePerRun
  <2>4. LockType'
    BY <1>0, <1>16, <2>1 DEF RunStarts, LockType, HoldsLock, SessionRun
  <2>5. CountType'
    BY <1>0, <1>16, <2>1 DEF RunStarts, CountType, PromptType, SessionRun
  <2>6. ToldIsAnswered'
    BY <1>0, <1>16, <2>1 DEF RunStarts, ToldIsAnswered, FlushType, CountType, AcksType, Waits,
       SessionRun
  <2>7. PromptAnswered'
    BY <1>0, <1>16, <2>1 DEF RunStarts, PromptAnswered, LockType, PromptType, CountType,
       HoldsLock, SessionRun
  <2>8. FollowsItsRun'
    BY <1>0, <1>16, <2>1 DEF RunStarts, FollowsItsRun, FlagsType, LockType, FlushType,
       PromptType, PostType, SessionRun, HoldsLock, Waits
  <2>9. NoMessageLost'
    <3>1. Written' = Written /\ Written \subseteq Item
      BY <1>0, <2>1 DEF TabType, Written
    <3>2. \A i \in Item : answered[i] > 0 => answered'[i] > 0
      BY <1>0, <1>16 DEF RunStarts, CountType, PromptType
    <3> QED
      BY <1>0, <2>1, <3>1, <3>2 DEF NoMessageLost
  <2> QED
    BY <2>2, <2>3, <2>4, <2>5, <2>6, <2>7, <2>8, <2>9 DEF QueueInv, QueueTypeOK, TabType,
       FlagsType, FlushType, PostType, LockType, PromptType, PumpType, AcksType, CountType
<1>17. ASSUME NEW r \in SessionRun, PumpTakes(r) PROVE QueueInv'
  <2>1. UNCHANGED <<queue, inflight, written, hold, flush, send, following, released,
                    post, runState, prompt, runFailed, seen, acks, steered, answered,
                    upsets>>
    BY <1>17 DEF PumpTakes, tabVars, runVars
  <2>2. (TabType /\ FlagsType /\ FlushType /\ PostType /\ LockType /\ PromptType /\
         AcksType /\ CountType)'
    BY <1>0, <2>1 DEF TabType, FlagsType, FlushType, PostType, LockType, PromptType, AcksType,
       CountType, Written, HoldsLock, SessionRun
  <2>3. (ToldIsAnswered /\ PromptAnswered /\ FollowsItsRun /\ SteeredOncePerRun /\
         NoMessageLost)'
    BY <1>0, <2>1 DEF ToldIsAnswered, PromptAnswered, FollowsItsRun, SteeredOncePerRun,
       NoMessageLost, Written
  <2>4. PumpType'
    <3>1. Head(steerQueue[r]) \in Item /\ Tail(steerQueue[r]) \in Seq(Item)
      BY <1>0, <1>17, TailDistinct DEF PumpTakes, PumpType
    <3> QED
      BY <1>0, <1>17, <2>1, <3>1 DEF PumpTakes, PumpType
  <2>5. PushedOnce'
    <3> SUFFICES ASSUME NEW s \in SessionRun PROVE
           /\ \A j \in Elements(steerQueue'[s]) :
                 j \in seen[s] /\ j # pumped'[s] /\ steered[s][j] = 0
           /\ pumped'[s] # NoItem => pumped'[s] \in seen[s] /\ steered[s][pumped'[s]] = 0
           /\ Distinct(steerQueue'[s])
           /\ \A j \in Item \ seen[s] : steered[s][j] = 0
      BY <2>1 DEF PushedOnce

    <3>1. CASE s # r
      BY <1>0, <1>17, <3>1 DEF PumpTakes, PumpType, PushedOnce
    <3>2. CASE s = r
      <4>1. pumped'[s] = Head(steerQueue[s]) /\ steerQueue'[s] = Tail(steerQueue[s])
        BY <1>0, <1>17, <3>2 DEF PumpTakes, PumpType
      <4>2. steerQueue[s] \in Seq(Item) /\ steerQueue[s] # <<>>
        BY <1>0, <1>17, <3>2 DEF PumpTakes, PumpType
      <4>3. /\ Head(steerQueue[s]) \in Elements(steerQueue[s])
            /\ Elements(Tail(steerQueue[s])) \subseteq Elements(steerQueue[s])
            /\ Distinct(Tail(steerQueue[s]))
            /\ Head(steerQueue[s]) \notin Elements(Tail(steerQueue[s]))
        BY <1>0, <4>2, TailDistinct DEF PushedOnce
      <4> QED
        BY <1>0, <4>1, <4>3 DEF PushedOnce
    <3> QED
      BY <3>1, <3>2
  <2> QED
    BY <2>2, <2>3, <2>4, <2>5 DEF QueueInv, QueueTypeOK, TabType, FlagsType, FlushType,
       PostType, LockType, PromptType, PumpType, AcksType, CountType
<1>18. ASSUME NEW r \in SessionRun, AgentApplies(r) PROVE QueueInv'
  <2>1. UNCHANGED <<queue, inflight, written, hold, flush, send, following, released,
                    post, runState, prompt, runFailed, steerQueue, seen, upsets>>
    BY <1>18 DEF AgentApplies, tabVars, runVars
  <2>2. (TabType /\ FlagsType /\ FlushType /\ PostType /\ LockType /\ PromptType)'
    BY <1>0, <2>1 DEF TabType, FlagsType, FlushType, PostType, LockType, PromptType, Written,
       HoldsLock, SessionRun
  <2>3. (FollowsItsRun)'
    BY <1>0, <2>1 DEF FollowsItsRun
  <2>4. PumpType'
    BY <1>0, <1>18, <2>1 DEF AgentApplies, PumpType, SessionRun
  <2>5. AcksType'
    BY <1>0, <1>18, <2>1 DEF AgentApplies, AcksType, PumpType, SessionRun
  <2>6. CountType'
    BY <1>0, <1>18, <2>1 DEF AgentApplies, CountType, PumpType, SessionRun
  <2>7. ToldIsAnswered'
    <3>1. pumped[r] \in Item
      BY <1>0, <1>18 DEF AgentApplies, PumpType
    <3>2. answered'[pumped[r]] > 0 /\ \A j \in Item : answered'[j] >= answered[j]
      BY <1>0, <1>18, <3>1 DEF AgentApplies, CountType
    <3>3. \A s \in SessionRun : acks'[s] \subseteq acks[s] \cup {pumped[r]}
      BY <1>0, <1>18 DEF AgentApplies, AcksType
    <3>4. flush.applied \subseteq Item /\ \A s \in SessionRun : acks[s] \subseteq Item
      BY <1>0 DEF FlushType, AcksType
    <3>5. \A j \in Item : answered[j] > 0 => answered'[j] > 0
      BY <1>0, <1>18, <3>1 DEF AgentApplies, CountType
    <3> QED
      BY <1>0, <2>1, <3>1, <3>2, <3>3, <3>4, <3>5 DEF ToldIsAnswered
  <2>8. PromptAnswered'
    BY <1>0, <1>18, <2>1 DEF AgentApplies, PromptAnswered, LockType, PromptType, CountType,
       HoldsLock, SessionRun
  <2>9. PushedOnce'
    <3> SUFFICES ASSUME NEW s \in SessionRun PROVE
           /\ \A j \in Elements(steerQueue'[s]) :
                 j \in seen[s] /\ j # pumped'[s] /\ steered'[s][j] = 0
           /\ pumped'[s] # NoItem => pumped'[s] \in seen[s] /\ steered'[s][pumped'[s]] = 0
           /\ Distinct(steerQueue'[s])
           /\ \A j \in Item \ seen[s] : steered'[s][j] = 0
      BY <2>1 DEF PushedOnce

    <3>1. CASE s # r
      BY <1>0, <1>18, <3>1 DEF AgentApplies, PumpType, PushedOnce, CountType
    <3>2. CASE s = r
      <4>1. /\ pumped[r] \in Item /\ pumped'[r] = NoItem /\ steerQueue' = steerQueue
            /\ \A j \in Item : j # pumped[r] => steered'[r][j] = steered[r][j]
        BY <1>0, <1>18 DEF AgentApplies, PumpType, CountType
      <4>2. pumped[r] \in seen[r] /\ Elements(steerQueue[r]) \subseteq Item \ {pumped[r], NoItem}
        BY <1>0, <4>1, QueueAssumption DEF PumpType, PushedOnce, Elements
      <4> QED
        BY <1>0, <3>2, <4>1, <4>2 DEF PushedOnce
    <3> QED
      BY <3>1, <3>2
  <2>10. SteeredOncePerRun'
    <3>1. pumped[r] \in Item /\ steered[r][pumped[r]] = 0
      BY <1>0, <1>18 DEF AgentApplies, PumpType, PushedOnce
    <3>2. steered'[r][pumped[r]] = 1
      BY <1>0, <1>18, <3>1 DEF AgentApplies, CountType
    <3>3. \A s \in SessionRun, j \in Item :
             ~(s = r /\ j = pumped[r]) => steered'[s][j] = steered[s][j]
      BY <1>0, <1>18, <3>1 DEF AgentApplies, CountType
    <3> QED
      BY <1>0, <3>2, <3>3 DEF SteeredOncePerRun
  <2>11. NoMessageLost'
    BY <1>0, <1>18, <2>1 DEF AgentApplies, NoMessageLost, TabType, CountType, FlagsType,
       Written, SessionRun
  <2> QED
    BY <2>2, <2>3, <2>4, <2>5, <2>6, <2>7, <2>8, <2>9, <2>10, <2>11
    DEF QueueInv, QueueTypeOK, TabType, FlagsType, FlushType, PostType, LockType, PromptType,
        PumpType, AcksType, CountType
<1>19. ASSUME NEW r \in SessionRun, RunCloses(r) PROVE QueueInv'
  <2>1. UNCHANGED <<queue, inflight, written, hold, flush, send, following, released,
                    post, prompt, seen, acks, steered, answered, upsets>>
    BY <1>19 DEF RunCloses, tabVars, runVars
  <2>2. (TabType /\ FlagsType /\ FlushType /\ PostType /\ AcksType /\ CountType)'
    BY <1>0, <2>1 DEF TabType, FlagsType, FlushType, PostType, AcksType, CountType, Written
  <2>3. (ToldIsAnswered /\ SteeredOncePerRun /\ NoMessageLost)'
    BY <1>0, <2>1 DEF ToldIsAnswered, SteeredOncePerRun, NoMessageLost, Written
  <2>4. LockType'
    BY <1>0, <1>19, <2>1 DEF RunCloses, LockType, HoldsLock, SessionRun
  <2>5. PromptType'
    BY <1>0, <1>19, <2>1 DEF RunCloses, PromptType, SessionRun
  <2>6. PumpType'
    <3>1. pumped[r] # NoItem => <<pumped[r]>> \o steerQueue[r] \in Seq(Item)
      BY <1>0, PrependDistinct DEF PumpType
    <3>2. steerQueue' \in [SessionRun -> Seq(Item)]
      BY <1>0, <1>19, <3>1 DEF RunCloses, PumpType
    <3> QED
      BY <1>0, <1>19, <2>1, <3>2 DEF RunCloses, PumpType
  <2>7. PromptAnswered'
    BY <1>0, <1>19, <2>1 DEF RunCloses, PromptAnswered, LockType, PromptType, CountType,
       HoldsLock, SessionRun
  <2>8. FollowsItsRun'
    BY <1>0, <1>19, <2>1 DEF RunCloses, FollowsItsRun, FlagsType, LockType, FlushType,
       PromptType, PostType, SessionRun, HoldsLock, Waits
  <2>9. PushedOnce'
    <3> SUFFICES ASSUME NEW s \in SessionRun PROVE
           /\ \A j \in Elements(steerQueue'[s]) :
                 j \in seen[s] /\ j # pumped'[s] /\ steered[s][j] = 0
           /\ pumped'[s] # NoItem => pumped'[s] \in seen[s] /\ steered[s][pumped'[s]] = 0
           /\ Distinct(steerQueue'[s])
           /\ \A j \in Item \ seen[s] : steered[s][j] = 0
      BY <2>1 DEF PushedOnce

    <3>1. CASE s # r
      BY <1>0, <1>19, <3>1 DEF RunCloses, PumpType, PushedOnce
    <3>2. CASE s = r
      <4>1. pumped'[s] = NoItem
        BY <1>0, <1>19, <3>2 DEF RunCloses, PumpType
      <4>2. NoItem \notin Elements(steerQueue[s])
        BY <1>0, QueueAssumption DEF PumpType, Elements
      <4>3. CASE steerQueue'[s] = steerQueue[s]
        BY <1>0, <4>1, <4>2, <4>3 DEF PushedOnce
      <4>4. CASE pumped[s] # NoItem /\ steerQueue'[s] = <<pumped[s]>> \o steerQueue[s]
        <5>1. /\ Elements(steerQueue'[s]) = Elements(steerQueue[s]) \cup {pumped[s]}
              /\ Distinct(steerQueue'[s])
          BY <1>0, <4>4, PrependDistinct DEF PumpType, PushedOnce
        <5> QED
          BY <1>0, <4>1, <4>2, <4>4, <5>1 DEF PushedOnce
      <4> QED
        BY <1>0, <1>19, <3>2, <4>3, <4>4 DEF RunCloses, PumpType
    <3> QED
      BY <3>1, <3>2
  <2> QED
    BY <2>2, <2>3, <2>4, <2>5, <2>6, <2>7, <2>8, <2>9 DEF QueueInv, QueueTypeOK, TabType,
       FlagsType, FlushType, PostType, LockType, PromptType, PumpType, AcksType, CountType
<1>20. ASSUME NEW r \in SessionRun, RunReleasesLock(r) PROVE QueueInv'
  <2>1. UNCHANGED <<queue, inflight, written, hold, flush, send, following, released,
                    post, prompt, runFailed, steerQueue, seen, pumped, acks, steered,
                    answered, upsets>>
    BY <1>20 DEF RunReleasesLock, tabVars, runVars
  <2>2. (TabType /\ FlagsType /\ FlushType /\ PostType /\ PromptType /\ PumpType /\
         AcksType /\ CountType)'
    BY <1>0, <2>1 DEF TabType, FlagsType, FlushType, PostType, PromptType, PumpType, AcksType,
       CountType, Written
  <2>3. (ToldIsAnswered /\ PushedOnce /\ SteeredOncePerRun /\ NoMessageLost)'
    BY <1>0, <2>1 DEF ToldIsAnswered, PushedOnce, SteeredOncePerRun, NoMessageLost, Written
  <2>4. LockType'
    BY <1>0, <1>20, <2>1 DEF RunReleasesLock, LockType, HoldsLock, SessionRun
  <2>5. PromptAnswered'
    BY <1>0, <1>20, <2>1 DEF RunReleasesLock, PromptAnswered, LockType, PromptType, CountType,
       HoldsLock, SessionRun
  <2>6. FollowsItsRun'
    BY <1>0, <1>20, <2>1 DEF RunReleasesLock, FollowsItsRun, FlagsType, LockType, FlushType,
       PromptType, PostType, SessionRun, HoldsLock, Waits
  <2> QED
    BY <2>2, <2>3, <2>4, <2>5, <2>6 DEF QueueInv, QueueTypeOK, TabType, FlagsType, FlushType,
       PostType, LockType, PromptType, PumpType, AcksType, CountType
<1>21. CASE UNCHANGED queueVars
  <2>1. (TabType /\ FlagsType /\ FlushType /\ PostType /\ LockType /\ PromptType /\
         PumpType /\ AcksType /\ CountType)'
    BY <1>0, <1>21 DEF queueVars, TabType, FlagsType, FlushType, PostType, LockType,
       PromptType, PumpType, AcksType, CountType, Written, HoldsLock
  <2>2. (ToldIsAnswered /\ PromptAnswered /\ FollowsItsRun /\ PushedOnce /\
         SteeredOncePerRun /\ NoMessageLost)'
    BY <1>0, <1>21 DEF queueVars, ToldIsAnswered, PromptAnswered, FollowsItsRun, PushedOnce,
       SteeredOncePerRun, NoMessageLost, Written
  <2> QED
    BY <2>1, <2>2 DEF QueueInv, QueueTypeOK, TabType, FlagsType, FlushType, PostType,
       LockType, PromptType, PumpType, AcksType, CountType
<1> QED
  BY <1>1, <1>2, <1>3, <1>4, <1>5, <1>6, <1>7, <1>8, <1>9, <1>10, <1>11, <1>12, <1>13, <1>14,
     <1>15, <1>16, <1>17, <1>18, <1>19, <1>20, <1>21
  DEF QueueNext, QueueTab, QueueServer

LEMMA InitQueue == QueueInit => QueueInv
<1> SUFFICES ASSUME QueueInit PROVE QueueInv
  OBVIOUS
<1>1. TabType
  BY QueueAssumption DEF QueueInit, TabType, Written, SessionRun, Waits, NoFlush, NoPost
<1>2. FlagsType
  <2>1. hold = FALSE /\ send = FALSE /\ following = 0 /\ released = {} /\ upsets = 0
    BY DEF QueueInit
  <2>2. hold \in BOOLEAN /\ send \in BOOLEAN
    BY <2>1
  <2>3. following \in 0..MaxRuns /\ upsets \in 0..MaxUpsets
    BY QueueAssumption, <2>1
  <2> QED
    BY <2>1, <2>2, <2>3 DEF FlagsType
<1>3. FlushType
  BY QueueAssumption DEF QueueInit, FlushType, Waits, SessionRun, NoFlush, NoPost
<1>4. PostType
  BY QueueAssumption DEF QueueInit, PostType, SessionRun, Waits, NoFlush, NoPost
<1>5. LockType
  BY QueueAssumption DEF QueueInit, LockType, HoldsLock, SessionRun, Waits, NoFlush, NoPost
<1>6. PromptType
  BY QueueAssumption DEF QueueInit, PromptType, SessionRun, Waits, NoFlush, NoPost
<1>7. PumpType
  BY QueueAssumption DEF QueueInit, PumpType, SessionRun, Waits, NoFlush, NoPost
<1>8. AcksType
  BY QueueAssumption DEF QueueInit, AcksType, SessionRun, Waits, NoFlush, NoPost
<1>9. CountType
  BY QueueAssumption DEF QueueInit, CountType, SessionRun, Waits, NoFlush, NoPost
<1>10. ToldIsAnswered
  BY QueueAssumption DEF QueueInit, ToldIsAnswered, SessionRun, Waits, NoFlush, NoPost
<1>11. PromptAnswered
  BY QueueAssumption DEF QueueInit, PromptAnswered, SessionRun, Waits, NoFlush, NoPost
<1>12. FollowsItsRun
  BY QueueAssumption DEF QueueInit, FollowsItsRun, SessionRun, Waits, NoFlush, NoPost
<1>13. PushedOnce
  BY QueueAssumption DEF QueueInit, PushedOnce, Elements, Distinct
<1>14. SteeredOncePerRun
  <2>1. steered = [r \in SessionRun |-> [i \in Item |-> 0]]
    BY DEF QueueInit
  <2>2. \A r \in SessionRun : steered[r] = [i \in Item |-> 0]
    BY <2>1
  <2>3. \A r \in SessionRun, i \in Item : steered[r][i] = 0
    BY <2>2
  <2> QED
    BY <2>3 DEF SteeredOncePerRun
<1>15. NoMessageLost
  <2>1. Written = {}
    BY DEF Written, QueueInit
  <2> QED
    BY <2>1 DEF NoMessageLost
<1> QED
  BY <1>1, <1>2, <1>3, <1>4, <1>5, <1>6, <1>7, <1>8, <1>9, <1>10, <1>11, <1>12, <1>13, <1>14,
     <1>15
  DEF QueueInv, QueueTypeOK, TabType, FlagsType, FlushType, PostType, LockType, PromptType,
      PumpType, AcksType, CountType

LEMMA QueueInvariant == QueueSpec => []QueueInv
BY InitQueue, StepQueue, PTL DEF QueueSpec

\* Every variable of the tab, the server and the runs has its type, and no two
\* runs hold the session's lock.
THEOREM QueueTypeCorrect == QueueSpec => []QueueTypeOK
BY QueueInvariant, PTL DEF QueueInv

\* A message the user queued is in the tab's queue, in the conversation or back in
\* the user's hands, whatever reloads, stops, deaths and lost replies there were.
THEOREM MessagesKept == QueueSpec => []NoMessageLost
BY QueueInvariant, PTL DEF QueueInv

\* No run's agent takes an item twice by steering, however often it is posted.
THEOREM SteeredOnce == QueueSpec => []SteeredOncePerRun
BY QueueInvariant, PTL DEF QueueInv

-----------------------------------------------------------------------------
(* The turn together: a behaviour takes the steps of one of the components.  *)

LEMMA TurnIsComponents == Spec => ScheduleSpec /\ PolicySpec /\ QueueSpec /\ ContextSpec /\ ToolSpec
<1>1. Init => ScheduleInit /\ PolicyInit /\ QueueInit /\ ContextInit /\ ToolInit
  BY DEF Init
<1>2. [Next]_turnVars => [ScheduleNext]_scheduleVars
  BY DEF Next, turnVars
<1>3. [Next]_turnVars => [PolicyNext]_policyVars
  BY DEF Next, turnVars
<1>4. [Next]_turnVars => [QueueNext]_queueVars
  BY DEF Next, turnVars
<1>5. [Next]_turnVars => [ContextNext]_contextVars
  BY DEF Next, turnVars
<1>6. [Next]_turnVars => [ToolNext]_toolVars
  BY DEF Next, turnVars
<1> QED
  BY <1>1, <1>2, <1>3, <1>4, <1>5, <1>6, PTL
  DEF Spec, ScheduleSpec, PolicySpec, QueueSpec, ContextSpec, ToolSpec

\* The state of everything a turn goes through has its type.
THEOREM TurnTypeCorrect == Spec => []TurnTypeOK
BY TurnIsComponents, ScheduleTypeCorrect, PolicyTypeCorrect, QueueTypeCorrect, ContextTypeCorrect,
   ToolTypeCorrect, PTL DEF TurnTypeOK
=============================================================================
