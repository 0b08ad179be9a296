------------------------ MODULE ProfileRefreshProofs -------------------------
(***************************************************************************)
(* Proofs for the profile summaries, for any number of messages, passes and  *)
(* faults.  A pass may write a summary long after it read the profile, and   *)
(* the mark it moves may be one that another pass moved before: what it      *)
(* knows is judged against the messages there are now, so that no mark ever  *)
(* covers a message that is in no summary.  What is still owed, a message    *)
(* behind the leftover mark or a deleted conversation, is in the hands of a  *)
(* pass that will see to it, of its follow-up, or of an entry in the list.   *)
(***************************************************************************)
EXTENDS ProfileRefresh, FiniteSetTheorems, WellFoundedInduction, TLAPS
(* The profile.  What a pass knows is judged by the messages there are, those  *)
(* of deleted conversations and those written off: n, g and o below.          *)

PassPc == {"none", "queued", "over", "spent"} \cup PassWork \cup ToolWork
PassRecord == [pc : PassPc, tool : BOOLEAN, since : Mark, base : SUBSET Message,
               delta : SUBSET Message, read : SUBSET Message]
ProfileRow == [exists : BOOLEAN, sections : SUBSET Message, lastProcessedAt : Mark]
ToldRecord == [owedFrom : Mark, considered : SUBSET Message, trimmed : SUBSET Message,
               leftover : Mark, setBack : BOOLEAN, broken : BOOLEAN, faults : 0..MaxProfileFaults]

Queued == [NoPass EXCEPT !.pc = "queued"]

MarkOf(r) ==
    IF r.delta = {} THEN r.since ELSE CHOOSE m \in r.delta : \A n \in r.delta : n <= m

Entries == {reconsider[i] : i \in DOMAIN reconsider}

\* The messages up to mark are among sections, deleted or written off.
SummedUpTo(mark, sections, g, o) ==
    \A m \in 1..mark : m \in sections \cup g \/ m <= o

\* What a pass read of the row skips no message, and neither does what it will write.
PassInv(r, n, g, o) ==
    /\ r \in PassRecord
    /\ r.since <= n
    /\ r.delta \subseteq 1..n
    /\ r.read \subseteq g
    /\ r.pc \in {"delta", "check", "write"} => SummedUpTo(r.since, r.base, g, o)
    /\ r.pc \in {"check", "write"} => SummedUpTo(MarkOf(r), r.base \cup r.delta, g, o)

\* Only deleted conversations are reconsidered.
OnlyGone ==
    /\ Entries \subseteq gone
    /\ \A m \in Message : deletion[m] # "none" => m \in gone

\* No mark is ahead of the messages.
MarksReached ==
    /\ profile.lastProcessedAt <= messages
    /\ profileTold.owedFrom <= messages
    /\ profileTold.leftover <= messages

MarkInv ==
    /\ ProfileTypeOK /\ OnlyGone /\ MarksReached
    /\ \A p \in Pass : PassInv(pass[p], messages, gone, profileTold.owedFrom)
    /\ SummedUpTo(profile.lastProcessedAt, profile.sections, gone, profileTold.owedFrom)

-----------------------------------------------------------------------------
(* Marks and what is after them.                                            *)

LEMMA HasMost ==
  ASSUME NEW n \in Nat, NEW S \in SUBSET (1..n), S # {}
  PROVE  \E m \in S : \A k \in S : k <= m
<1> DEFINE T == {n - k : k \in S}
           R == {q \in Nat \X Nat : q[1] < q[2]}
<1>0. \A k \in S : k \in 1..n /\ n - k \in Nat
  OBVIOUS
<1>1. T \subseteq Nat /\ T # {}
  BY <1>0
<1>2. R = OpToRel(<, Nat)
  BY DEF OpToRel
<1>3. IsWellFoundedOn(R, Nat)
  BY <1>2, NatLessThanWellFounded
<1> HIDE DEF T, R
<1>4. PICK x \in T : \A y \in T : ~(<<y, x>> \in R)
  BY <1>1, <1>3, WFMin
<1> USE DEF T, R
<1>5. PICK m \in S : x = n - m
  BY <1>4
<1>6. ASSUME NEW k \in S PROVE k <= m
  <2>1. n - k \in T /\ n - k \in Nat /\ n - m \in Nat /\ k \in Nat /\ m \in Nat
    BY <1>0
  <2>2. ~(n - k < n - m)
    BY <2>1, <1>4, <1>5
  <2> HIDE DEF T, R
  <2> QED
    BY <2>1, <2>2
<1> QED
  BY <1>6

LEMMA HasLeast ==
  ASSUME NEW n \in Nat, NEW S \in SUBSET (1..n), S # {}
  PROVE  \E m \in S : \A k \in S : m <= k
<1> DEFINE T == {n + 1 - k : k \in S}
<1>0. \A k \in S : k \in 1..n /\ n + 1 - k \in 1..n
  OBVIOUS
<1>1. T \subseteq 1..n /\ T # {}
  BY <1>0
<1> HIDE DEF T
<1>2. PICK x \in T : \A y \in T : y <= x
  BY <1>1, HasMost
<1> USE DEF T
<1>3. PICK m \in S : x = n + 1 - m
  OBVIOUS
<1>4. ASSUME NEW k \in S PROVE m <= k
  <2>1. n + 1 - k \in T
    OBVIOUS
  <2>2. n + 1 - k <= n + 1 - m
    BY <2>1, <1>2, <1>3
  <2> QED
    BY <2>2
<1> QED
  BY <1>4

LEMMA MarkOfDelta ==
  ASSUME NEW r, NEW n \in Nat, r.delta \subseteq 1..n, r.delta # {}
  PROVE  MarkOf(r) \in r.delta /\ \A m \in r.delta : m <= MarkOf(r)
<1>1. \E m \in r.delta : \A k \in r.delta : k <= m
  BY HasMost
<1> QED
  BY <1>1 DEF MarkOf

\* The mark depends on the messages that were read, or else on the mark read.
LEMMA SameMark ==
  ASSUME NEW r, NEW s, r.delta = s.delta, r.delta # {} \/ r.since = s.since
  PROVE  MarkOf(r) = MarkOf(s)
BY DEF MarkOf

\* DeltaSince reads without gaps.
LEMMA DeltaHasNoGap ==
  ASSUME ProfileTypeOK, NEW from \in Nat, NEW m \in DeltaSince(from), NEW k \in Live(from), k <= m
  PROVE  k \in DeltaSince(from)
<1> DEFINE Upto(x) == {n \in Live(from) : n <= x}
<1>1. messages \in Nat /\ MaxDelta \in Nat
  BY ProfileAssumption DEF ProfileTypeOK, Mark
<1>2. IsFiniteSet(1..messages)
  BY <1>1, FS_Interval
<1>3. Upto(m) \subseteq 1..messages /\ Upto(k) \subseteq Upto(m)
  BY <1>1 DEF Live, DeltaSince
<1>4. IsFiniteSet(Upto(m))
  BY <1>2, <1>3, FS_Subset
<1>5. Cardinality(Upto(k)) <= Cardinality(Upto(m))
  BY <1>3, <1>4, FS_Subset
<1>6. Cardinality(Upto(k)) \in Nat /\ Cardinality(Upto(m)) \in Nat
  BY <1>3, <1>4, FS_Subset, FS_CardinalityType
<1>7. Cardinality(Upto(m)) <= MaxDelta
  BY DEF DeltaSince
<1>8. Cardinality(Upto(k)) <= MaxDelta
  BY <1>1, <1>5, <1>6, <1>7
<1> QED
  BY <1>8 DEF DeltaSince

\* It reads something if there is something to read.
LEMMA DeltaReads ==
  ASSUME ProfileTypeOK, NEW from \in Nat, Live(from) # {}
  PROVE  DeltaSince(from) # {}
<1>1. messages \in Nat /\ MaxDelta \in Nat \ {0}
  BY ProfileAssumption DEF ProfileTypeOK, Mark
<1>2. Live(from) \subseteq 1..messages
  BY DEF Live
<1>3. PICK m \in Live(from) : \A k \in Live(from) : m <= k
  BY <1>1, <1>2, HasLeast
<1>4. {n \in Live(from) : n <= m} = {m}
  BY <1>1, <1>2, <1>3
<1>5. Cardinality({n \in Live(from) : n <= m}) = 1
  BY <1>4, FS_Singleton
<1> QED
  BY <1>1, <1>5 DEF DeltaSince

LEMMA DeltaIsLive ==
  ASSUME ProfileTypeOK, NEW from
  PROVE  DeltaSince(from) \subseteq 1..messages /\ DeltaSince(from) \in SUBSET Message
<1>1. messages \in Mark /\ MaxMessages \in Nat
  BY ProfileAssumption DEF ProfileTypeOK
<1> QED
  BY <1>1 DEF DeltaSince, Live, Message, Mark

-----------------------------------------------------------------------------
(* Steps of the passes.                                                     *)

\* More messages, deletions and written off messages harm no pass.
LEMMA PassAgrees ==
  ASSUME NEW r, NEW n \in Nat, NEW n2 \in Nat, NEW g, NEW g2, NEW o \in Nat, NEW o2 \in Nat,
         PassInv(r, n, g, o), n <= n2, g \subseteq g2, o <= o2
  PROVE  PassInv(r, n2, g2, o2)
<1>1. \A k \in 1..n : k \in 1..n2
  OBVIOUS
<1>2. ASSUME NEW mark \in Mark, NEW sections, SummedUpTo(mark, sections, g, o)
      PROVE  SummedUpTo(mark, sections, g2, o2)
  <2> SUFFICES ASSUME NEW m \in 1..mark PROVE m \in sections \cup g2 \/ m <= o2
    BY DEF SummedUpTo
  <2>1. mark \in Nat /\ m \in Nat
    BY ProfileAssumption DEF Mark
  <2> QED
    BY <1>2, <2>1 DEF SummedUpTo
<1>3. r \in PassRecord /\ r.since \in Mark
  BY DEF PassInv, PassRecord
<1>4. MarkOf(r) \in Mark
  <2>1. r.delta = {} => MarkOf(r) = r.since
    BY DEF MarkOf
  <2>2. r.delta # {} => MarkOf(r) \in r.delta
    BY MarkOfDelta DEF PassInv
  <2>3. r.delta \subseteq Message /\ Message \subseteq Mark
    BY <1>3, ProfileAssumption DEF PassRecord, Message, Mark
  <2> QED
    BY <1>3, <2>1, <2>2, <2>3
<1>5. r.pc \in {"delta", "check", "write"} => SummedUpTo(r.since, r.base, g2, o2)
  BY <1>2, <1>3 DEF PassInv
<1>6. r.pc \in {"check", "write"} => SummedUpTo(MarkOf(r), r.base \cup r.delta, g2, o2)
  BY <1>2, <1>4 DEF PassInv
<1>7. r.since <= n2
  BY <1>3, ProfileAssumption DEF PassInv, Mark
<1> QED
  BY <1>1, <1>3, <1>5, <1>6, <1>7 DEF PassInv

LEMMA NewPasses ==
  /\ NoPass \in PassRecord /\ NoPass.pc = "none" /\ NoPass.read = {} /\ NoPass.delta = {}
  /\ NoPass.since = 0 /\ NoPass.tool = FALSE
  /\ Queued = [NoPass EXCEPT !.pc = "queued"] /\ Queued \in PassRecord
  /\ Over \in PassRecord
  /\ [NoPass EXCEPT !.pc = "spent"] \in PassRecord
<1>1. 0 \in Mark
  BY ProfileAssumption DEF Mark
<1>2. NoPass \in PassRecord
  BY <1>1 DEF NoPass, PassRecord, PassPc
<1>3. \A a \in PassPc : [NoPass EXCEPT !.pc = a] \in PassRecord
  BY <1>2 DEF PassRecord
<1>4. {"queued", "over", "spent"} \subseteq PassPc
  BY DEF PassPc
<1> QED
  BY <1>2, <1>3, <1>4 DEF NoPass, Queued, Over

LEMMA NewPassInv ==
  ASSUME NEW a \in {"none", "queued", "over", "spent"}, NEW n \in Nat, NEW g, NEW o
  PROVE  PassInv([NoPass EXCEPT !.pc = a], n, g, o)
<1> DEFINE r == [NoPass EXCEPT !.pc = a]
<1>1. r \in PassRecord
  <2>1. NoPass \in PassRecord /\ a \in PassPc
    BY NewPasses DEF PassPc
  <2> QED
    BY <2>1 DEF PassRecord
<1>2. r.pc = a /\ r.since = 0 /\ r.delta = {} /\ r.read = {}
  BY DEF NoPass
<1> HIDE DEF r
<1>3. PassInv(r, n, g, o)
  BY <1>1, <1>2 DEF PassInv
<1> QED
  BY <1>3 DEF r

LEMMA NewJob ==
  ASSUME NEW ps \in [Pass -> PassRecord], NEW ps2 \in WithNewJob(ps)
  PROVE  \E j \in Pass : /\ ps[j].pc = "none"
                         /\ ps2 = [ps EXCEPT ![j] = Queued]
BY DEF WithNewJob, Queued

\* Only p took a step, and the pass knows what it may know.
LEMMA PassMoves ==
  ASSUME MarkInv, NEW p \in Pass, NEW r,
         PassInv(r, messages, gone, profileTold.owedFrom), pass' = [pass EXCEPT ![p] = r]
  PROVE  /\ pass' \in [Pass -> PassRecord]
         /\ \A q \in Pass : PassInv(pass'[q], messages, gone, profileTold.owedFrom)
<1>1. pass \in [Pass -> PassRecord]
  BY DEF MarkInv, ProfileTypeOK, PassRecord, PassPc
<1>2. r \in PassRecord
  BY DEF PassInv
<1> QED
  BY <1>1, <1>2 DEF MarkInv

\* The invariant, once what the step disturbs is known to hold again.
LEMMA MarkStep ==
  ASSUME MarkInv, ProfileTypeOK', OnlyGone', MarksReached',
         messages <= messages', gone \subseteq gone', profileTold.owedFrom <= profileTold.owedFrom',
         \A p \in Pass : PassInv(pass'[p], messages, gone, profileTold.owedFrom),
         SummedUpTo(profile.lastProcessedAt, profile.sections, gone, profileTold.owedFrom)'
  PROVE  MarkInv'
<1>1. messages \in Nat /\ messages' \in Nat /\ profileTold.owedFrom \in Nat /\ profileTold.owedFrom' \in Nat
  BY ProfileAssumption DEF MarkInv, ProfileTypeOK, Mark
<1>2. \A p \in Pass : PassInv(pass'[p], messages', gone', profileTold.owedFrom')
  BY <1>1, PassAgrees
<1> QED
  BY <1>2 DEF MarkInv

FollowUps == {"none", "get", "del", "add"}
Deletions == {"none", "push", "enqueue", "queued", "lost"}

\* A step that changes no message, no deletion and not the row.
LEMMA RowStays ==
  ASSUME MarkInv, UNCHANGED <<messages, gone, profile>>,
         pass' \in [Pass -> PassRecord],
         \A q \in Pass : PassInv(pass'[q], messages, gone, profileTold.owedFrom),
         reconsider' \in Seq(Message), Len(reconsider') <= MaxReconsider, Entries' \subseteq gone,
         deletion' \in [Message -> Deletions], \A m \in Message : deletion'[m] # "none" => m \in gone,
         needsRefresh' \in BOOLEAN, followUp' \in [Pass -> FollowUps],
         profileTold' \in ToldRecord, profileTold'.owedFrom = profileTold.owedFrom,
         profileTold'.leftover \in {profileTold.leftover, messages}
  PROVE  MarkInv'
<1>1. ProfileTypeOK'
  BY DEF MarkInv, ProfileTypeOK, PassRecord, PassPc, ToldRecord, FollowUps, Deletions
<1>2. OnlyGone'
  BY DEF OnlyGone
<1>3. messages \in Nat
  BY ProfileAssumption DEF MarkInv, ProfileTypeOK, Mark
<1>4. MarksReached'
  BY <1>3 DEF MarkInv, MarksReached
<1>5. SummedUpTo(profile.lastProcessedAt, profile.sections, gone, profileTold.owedFrom)'
  BY DEF MarkInv, SummedUpTo
<1>6. profileTold.owedFrom \in Nat
  BY ProfileAssumption DEF MarkInv, ProfileTypeOK, Mark
<1> QED
  BY <1>1, <1>2, <1>3, <1>4, <1>5, <1>6, MarkStep

LEMMA ProfileTyped ==
  ASSUME MarkInv
  PROVE  /\ pass \in [Pass -> PassRecord] /\ followUp \in [Pass -> FollowUps]
         /\ deletion \in [Message -> Deletions] /\ profileTold \in ToldRecord
         /\ profile \in ProfileRow /\ needsRefresh \in BOOLEAN
         /\ reconsider \in Seq(Message) /\ Len(reconsider) <= MaxReconsider
         /\ Entries \subseteq gone /\ gone \subseteq 1..messages
         /\ \A m \in Message : deletion[m] # "none" => m \in gone
         /\ \A p \in Pass : PassInv(pass[p], messages, gone, profileTold.owedFrom)
         /\ messages \in Mark /\ messages \in Nat /\ messages <= MaxMessages /\ gone \in SUBSET Message
<1>1. messages \in Mark /\ MaxMessages \in Nat
  BY ProfileAssumption DEF MarkInv, ProfileTypeOK
<1>2. messages \in Nat /\ messages <= MaxMessages /\ 1..messages \subseteq Message
  BY <1>1 DEF Mark, Message
<1> QED
  BY <1>1, <1>2 DEF MarkInv, ProfileTypeOK, OnlyGone, PassRecord, PassPc, FollowUps,
     Deletions, ToldRecord, ProfileRow

\* A step of the passes and their handlers alone.
LEMMA OnlyPasses ==
  ASSUME MarkInv, UNCHANGED <<messages, gone, profile, reconsider, deletion>>,
         pass' \in [Pass -> PassRecord],
         \A q \in Pass : PassInv(pass'[q], messages, gone, profileTold.owedFrom),
         needsRefresh' \in BOOLEAN, followUp' \in [Pass -> FollowUps],
         profileTold' \in ToldRecord, profileTold'.owedFrom = profileTold.owedFrom,
         profileTold'.leftover \in {profileTold.leftover, messages}
  PROVE  MarkInv'
<1>1. Entries' = Entries
  BY DEF Entries
<1> QED
  BY <1>1, ProfileTyped, RowStays

LEMMA PcMoves ==
  ASSUME NEW r, NEW n \in Nat, NEW g, NEW o, PassInv(r, n, g, o),
         NEW a \in PassPc \ {"delta", "check", "write"}
  PROVE  PassInv([r EXCEPT !.pc = a], n, g, o)
<1> DEFINE s == [r EXCEPT !.pc = a]
<1>1. s \in PassRecord /\ s.pc = a /\ s.since = r.since /\ s.delta = r.delta /\ s.read = r.read
  BY DEF PassInv, PassRecord
<1> HIDE DEF s
<1>2. PassInv(s, n, g, o)
  BY <1>1 DEF PassInv
<1> QED
  BY <1>2 DEF s

\* Where somebody else has a job added.
LEMMA WithNewJobInv ==
  ASSUME MarkInv, NEW ps \in [Pass -> PassRecord], NEW ps2 \in WithNewJob(ps),
         \A q \in Pass : PassInv(ps[q], messages, gone, profileTold.owedFrom)
  PROVE  /\ ps2 \in [Pass -> PassRecord]
         /\ \A q \in Pass : PassInv(ps2[q], messages, gone, profileTold.owedFrom)
<1>1. PICK j \in Pass : ps2 = [ps EXCEPT ![j] = Queued]
  BY NewJob
<1>2. PassInv(Queued, messages, gone, profileTold.owedFrom) /\ Queued \in PassRecord
  BY ProfileTyped, NewPassInv, NewPasses DEF Queued
<1> QED
  BY <1>1, <1>2

LEMMA FaultTold ==
  ASSUME MarkInv, NEW loses \in BOOLEAN, Fault(loses)
  PROVE  /\ profileTold' \in ToldRecord
         /\ profileTold'.owedFrom = profileTold.owedFrom /\ profileTold'.leftover = profileTold.leftover
         /\ profileTold'.considered = profileTold.considered /\ profileTold'.trimmed = profileTold.trimmed
         /\ profileTold'.setBack = profileTold.setBack
         /\ profileTold'.broken = (profileTold.broken \/ loses)
<1>1. profileTold \in ToldRecord /\ MaxProfileFaults \in Nat
  BY ProfileTyped, ProfileAssumption
<1> DEFINE n == profileTold.faults + 1
           b == profileTold.broken \/ loses
<1>2. n \in 0..MaxProfileFaults
  BY <1>1 DEF Fault, ToldRecord
<1>3. b \in BOOLEAN
  OBVIOUS
<1>4. profileTold' = [profileTold EXCEPT !.faults = n, !.broken = b]
  BY DEF Fault
<1> HIDE DEF n, b
<1>5. /\ profileTold' \in ToldRecord
      /\ profileTold'.owedFrom = profileTold.owedFrom /\ profileTold'.leftover = profileTold.leftover
      /\ profileTold'.considered = profileTold.considered /\ profileTold'.trimmed = profileTold.trimmed
      /\ profileTold'.setBack = profileTold.setBack
      /\ profileTold'.broken = b
  BY <1>1, <1>2, <1>3, <1>4 DEF ToldRecord
<1> QED
  BY <1>5 DEF b

LEMMA ConversationMarks ==
  ASSUME MarkInv, NEW m \in Message,
         DeleteConversation(m) \/ PushReconsider(m) \/ EnqueueReconsider(m) \/ ReconsiderLost(m)
  PROVE  MarkInv'
<1> USE ProfileTyped
<1>1. CASE DeleteConversation(m)
  <2>1. gone \subseteq gone' /\ gone' \subseteq 1..messages /\ deletion' \in [Message -> Deletions]
    BY <1>1 DEF DeleteConversation, Deletions, Message
  <2>2. ProfileTypeOK'
    BY <1>1, <2>1 DEF DeleteConversation, MarkInv, ProfileTypeOK, Deletions
  <2>3. OnlyGone'
    BY <1>1, <2>1 DEF DeleteConversation, MarkInv, OnlyGone, Entries
  <2>4. MarksReached'
    BY <1>1 DEF DeleteConversation, MarkInv, MarksReached
  <2>5. SummedUpTo(profile.lastProcessedAt, profile.sections, gone, profileTold.owedFrom)'
    BY <1>1, <2>1 DEF DeleteConversation, MarkInv, SummedUpTo
  <2>6. profileTold.owedFrom \in Nat /\ messages <= messages' /\ profileTold.owedFrom <= profileTold.owedFrom'
    BY <1>1, ProfileAssumption DEF DeleteConversation, ToldRecord, Mark
  <2>7. \A p \in Pass : PassInv(pass'[p], messages, gone, profileTold.owedFrom)
    BY <1>1 DEF DeleteConversation
  <2> QED
    BY <2>1, <2>2, <2>3, <2>4, <2>5, <2>6, <2>7, MarkStep
<1>2. CASE PushReconsider(m)
  <2> DEFINE all == <<m>> \o reconsider
             k == IF Len(all) < MaxReconsider THEN Len(all) ELSE MaxReconsider
             fallen == {all[i] : i \in (MaxReconsider + 1)..Len(all)}
  <2>1. all \in Seq(Message) /\ Len(all) = Len(reconsider) + 1
    OBVIOUS
  <2>2. \A i \in 1..Len(all) : all[i] \in gone /\ all[i] \in Message
    BY <1>2 DEF PushReconsider, Entries
  <2>3. k \in Nat /\ k <= Len(all) /\ k <= MaxReconsider
    BY <2>1, ProfileAssumption
  <2>4. reconsider' = SubSeq(all, 1, k)
    BY <1>2 DEF PushReconsider
  <2> HIDE DEF all, k
  <2>5. /\ reconsider' \in Seq(Message) /\ Len(reconsider') = k
        /\ \A i \in 1..k : reconsider'[i] = all[i]
    BY <2>1, <2>3, <2>4
  <2>6. Entries' \subseteq gone
    BY <2>1, <2>2, <2>3, <2>5 DEF Entries
  <2>7. profileTold' = [profileTold EXCEPT !.trimmed = @ \cup fallen]
    BY <1>2 DEF PushReconsider, all
  <2>8. fallen \in SUBSET Message
    BY <2>1, <2>2, ProfileAssumption
  <2> HIDE DEF fallen
  <2>9. /\ profileTold' \in ToldRecord /\ profileTold'.owedFrom = profileTold.owedFrom
        /\ profileTold'.leftover = profileTold.leftover
    BY <2>7, <2>8 DEF ToldRecord
  <2>10. deletion' \in [Message -> Deletions] /\ \A n \in Message : deletion'[n] # "none" => n \in gone
    BY <1>2 DEF PushReconsider, Deletions
  <2> QED
    BY <1>2, <2>3, <2>5, <2>6, <2>9, <2>10, RowStays DEF PushReconsider
<1>3. CASE EnqueueReconsider(m)
  <2>1. deletion' \in [Message -> Deletions] /\ \A n \in Message : deletion'[n] # "none" => n \in gone
    BY <1>3 DEF EnqueueReconsider, Deletions
  <2>2. pass' \in [Pass -> PassRecord] /\ \A q \in Pass : PassInv(pass'[q], messages, gone, profileTold.owedFrom)
    BY <1>3, WithNewJobInv DEF EnqueueReconsider
  <2>3. Entries' = Entries
    BY <1>3 DEF EnqueueReconsider, Entries
  <2> QED
    BY <1>3, <2>1, <2>2, <2>3, RowStays DEF EnqueueReconsider
<1>4. CASE ReconsiderLost(m)
  <2>1. deletion' \in [Message -> Deletions] /\ \A n \in Message : deletion'[n] # "none" => n \in gone
    BY <1>4 DEF ReconsiderLost, Deletions
  <2>2. /\ profileTold' \in ToldRecord /\ profileTold'.owedFrom = profileTold.owedFrom
        /\ profileTold'.leftover = profileTold.leftover
    BY <1>4, FaultTold DEF ReconsiderLost
  <2>3. Entries' = Entries
    BY <1>4 DEF ReconsiderLost, Entries
  <2> QED
    BY <1>4, <2>1, <2>2, <2>3, RowStays DEF ReconsiderLost
<1> QED
  BY <1>1, <1>2, <1>3, <1>4

LEMMA MessageMarks == ASSUME MarkInv, MessageArrives PROVE MarkInv'
<1> USE ProfileTyped
<1>1. messages' \in Mark /\ messages' \in Nat /\ messages <= messages' /\ gone' \subseteq 1..messages'
  BY ProfileAssumption DEF MessageArrives, Mark
<1>2. ProfileTypeOK'
  BY <1>1 DEF MessageArrives, MarkInv, ProfileTypeOK
<1>3. OnlyGone'
  BY DEF MessageArrives, MarkInv, OnlyGone, Entries
<1>4. MarksReached'
  BY <1>1, ProfileAssumption DEF MessageArrives, MarkInv, MarksReached, ToldRecord,
     ProfileRow, Mark
<1>5. SummedUpTo(profile.lastProcessedAt, profile.sections, gone, profileTold.owedFrom)'
  BY DEF MessageArrives, MarkInv, SummedUpTo
<1>6. profileTold.owedFrom \in Nat /\ profileTold.owedFrom <= profileTold.owedFrom' /\ gone \subseteq gone'
  BY ProfileAssumption DEF MessageArrives, ToldRecord, Mark
<1>7. \A p \in Pass : PassInv(pass'[p], messages, gone, profileTold.owedFrom)
  BY DEF MessageArrives
<1> QED
  BY <1>1, <1>2, <1>3, <1>4, <1>5, <1>6, <1>7, MarkStep

\* The row is made up to date with what there is: the rest is written off.
LEMMA WrittenOff ==
  ASSUME MarkInv, UNCHANGED <<messages, gone, reconsider, needsRefresh, followUp, deletion>>,
         profile' \in ProfileRow, profileTold' \in ToldRecord,
         profileTold'.leftover = profileTold.leftover,
         pass' \in [Pass -> PassRecord],
         \A q \in Pass : PassInv(pass'[q], messages, gone, profileTold.owedFrom),
         \/ profile'.lastProcessedAt = messages /\ profileTold'.owedFrom = messages
         \/ /\ profile'.lastProcessedAt = profile.lastProcessedAt
            /\ profile'.sections = profile.sections
            /\ profileTold'.owedFrom = profileTold.owedFrom
  PROVE  MarkInv'
<1> USE ProfileTyped
<1>1. ProfileTypeOK'
  BY DEF MarkInv, ProfileTypeOK, PassRecord, PassPc, ToldRecord, ProfileRow
<1>2. OnlyGone'
  BY DEF MarkInv, OnlyGone, Entries
<1>3. MarksReached'
  BY DEF MarkInv, MarksReached
<1>4. SummedUpTo(profile.lastProcessedAt, profile.sections, gone, profileTold.owedFrom)'
  BY DEF MarkInv, SummedUpTo
<1>5. profileTold.owedFrom \in Nat /\ profileTold.owedFrom <= profileTold'.owedFrom
  BY ProfileAssumption DEF MarkInv, MarksReached, ToldRecord, Mark
<1> QED
  BY <1>1, <1>2, <1>3, <1>4, <1>5, MarkStep

LEMMA ResetMarks == ASSUME MarkInv, ResetProfile PROVE MarkInv'
<1> USE ProfileTyped
<1>1. profile' \in ProfileRow /\ profile'.lastProcessedAt = messages
  BY DEF ResetProfile, ProfileRow
<1>2. /\ profileTold' \in ToldRecord /\ profileTold'.owedFrom = messages
      /\ profileTold'.leftover = profileTold.leftover
  BY DEF ResetProfile, ToldRecord
<1> QED
  BY <1>1, <1>2, WrittenOff DEF ResetProfile

LEMMA RememberMarks == ASSUME MarkInv, NEW p \in Pass, Remember(p) PROVE MarkInv'
<1> USE ProfileTyped
<1> DEFINE r == [pass[p] EXCEPT !.pc = "load", !.tool = TRUE]
           mark == IF profile.exists THEN profile.lastProcessedAt ELSE messages
           owed == IF profile.exists THEN profileTold.owedFrom ELSE messages
<1>1. PassInv([pass[p] EXCEPT !.pc = "load"], messages, gone, profileTold.owedFrom)
  BY PcMoves DEF PassPc, PassWork
<1>2. r = [[pass[p] EXCEPT !.pc = "load"] EXCEPT !.tool = TRUE]
  OBVIOUS
<1>3. PassInv(r, messages, gone, profileTold.owedFrom)
  <2>1. r \in PassRecord
    BY <1>1, <1>2 DEF PassInv, PassRecord
  <2>2. r.pc = "load" /\ r.since = pass[p].since /\ r.delta = pass[p].delta /\ r.read = pass[p].read
    BY DEF PassRecord
  <2> HIDE DEF r
  <2> QED
    BY <2>1, <2>2 DEF PassInv
<1>4. pass' = [pass EXCEPT ![p] = r]
  BY DEF Remember
<1> HIDE DEF r
<1>5. pass' \in [Pass -> PassRecord] /\ \A q \in Pass : PassInv(pass'[q], messages, gone, profileTold.owedFrom)
  BY <1>3, <1>4, PassMoves
<1>6. mark \in Mark /\ owed \in Mark
  BY DEF ProfileRow, ToldRecord
<1>7. profile' = [profile EXCEPT !.exists = TRUE, !.lastProcessedAt = mark]
  BY DEF Remember
<1>8. profileTold' = [profileTold EXCEPT !.owedFrom = owed]
  BY DEF Remember
<1>9. /\ profile.exists => mark = profile.lastProcessedAt /\ owed = profileTold.owedFrom
      /\ ~profile.exists => mark = messages /\ owed = messages
  OBVIOUS
<1> HIDE DEF mark, owed
<1>10. profile' \in ProfileRow /\ profile'.lastProcessedAt = mark /\ profile'.sections = profile.sections
  BY <1>6, <1>7 DEF ProfileRow
<1>11. /\ profileTold' \in ToldRecord /\ profileTold'.owedFrom = owed
       /\ profileTold'.leftover = profileTold.leftover
  BY <1>6, <1>8 DEF ToldRecord
<1> QED
  BY <1>5, <1>9, <1>10, <1>11, WrittenOff DEF Remember

LEMMA RescheduleMarks == ASSUME MarkInv, NEW p \in Pass, Reschedule(p) PROVE MarkInv'
<1> USE ProfileTyped
<1> DEFINE ps == [pass EXCEPT ![p] = Over]
<1>1. PassInv(Over, messages, gone, profileTold.owedFrom) /\ Over \in PassRecord
  BY NewPassInv, NewPasses DEF Over
<1>2. ps \in [Pass -> PassRecord] /\ \A q \in Pass : PassInv(ps[q], messages, gone, profileTold.owedFrom)
  BY <1>1
<1>3. pass' \in WithNewJob(ps)
  BY DEF Reschedule
<1> HIDE DEF ps
<1>4. pass' \in [Pass -> PassRecord] /\ \A q \in Pass : PassInv(pass'[q], messages, gone, profileTold.owedFrom)
  BY <1>2, <1>3, WithNewJobInv
<1> QED
  BY <1>4, OnlyPasses DEF Reschedule

LEMMA ReadReconsiderMarks == ASSUME MarkInv, NEW p \in Pass, ReadReconsider(p) PROVE MarkInv'
<1> USE ProfileTyped
<1> DEFINE r == [pass[p] EXCEPT !.pc = "load", !.read = Entries]
<1>1. Entries \in SUBSET Message /\ Entries \subseteq gone
  OBVIOUS
<1>2. r \in PassRecord /\ r.pc = "load" /\ r.since = pass[p].since /\ r.delta = pass[p].delta /\ r.read = Entries
  <2>1. pass[p] \in PassRecord /\ "load" \in PassPc
    BY DEF PassPc, PassWork
  <2> QED
    BY <1>1, <2>1 DEF PassRecord
<1>3. pass' = [pass EXCEPT ![p] = r]
  BY DEF ReadReconsider, Entries
<1> HIDE DEF r
<1>4. PassInv(r, messages, gone, profileTold.owedFrom)
  BY <1>1, <1>2 DEF PassInv
<1> QED
  BY <1>3, <1>4, PassMoves, OnlyPasses DEF ReadReconsider

LEMMA LoadMarks == ASSUME MarkInv, NEW p \in Pass, LoadProfile(p) PROVE MarkInv'
<1> USE ProfileTyped
<1> DEFINE r == [pass[p] EXCEPT !.pc = "delta", !.since = profile.lastProcessedAt, !.base = profile.sections]
<1>1. /\ r \in PassRecord /\ r.pc = "delta" /\ r.since = profile.lastProcessedAt
      /\ r.base = profile.sections /\ r.delta = pass[p].delta /\ r.read = pass[p].read
  <2>1. pass[p] \in PassRecord /\ "delta" \in PassPc /\ profile.lastProcessedAt \in Mark
        /\ profile.sections \in SUBSET Message
    BY DEF PassPc, PassWork, ProfileRow
  <2> QED
    BY <2>1 DEF PassRecord
<1>2. pass' = [pass EXCEPT ![p] = r]
  BY DEF LoadProfile
<1> HIDE DEF r
<1>3. PassInv(r, messages, gone, profileTold.owedFrom)
  BY <1>1 DEF PassInv, MarkInv, MarksReached
<1> QED
  BY <1>2, <1>3, PassMoves, OnlyPasses DEF LoadProfile

\* What was read follows the mark without a gap.
LEMMA DeltaCovers ==
  ASSUME MarkInv, NEW since \in Mark, since <= messages, NEW base,
         SummedUpTo(since, base, gone, profileTold.owedFrom),
         NEW r, r.since = since, r.delta = DeltaSince(since)
  PROVE  SummedUpTo(MarkOf(r), base \cup r.delta, gone, profileTold.owedFrom)
<1> USE ProfileTyped
<1>1. CASE r.delta = {}
  BY <1>1 DEF MarkOf, SummedUpTo
<1>2. CASE r.delta # {}
  <2>1. ProfileTypeOK /\ since \in Nat
    BY ProfileAssumption DEF MarkInv, Mark
  <2>2. r.delta \subseteq 1..messages
    BY <2>1, DeltaIsLive
  <2>3. MarkOf(r) \in r.delta
    BY <1>2, <2>2, MarkOfDelta
  <2>4. SUFFICES ASSUME NEW m \in 1..MarkOf(r), m \notin gone, m \notin r.delta
                 PROVE  m \in base \/ m <= profileTold.owedFrom
    BY DEF SummedUpTo
  <2>5. MarkOf(r) \in 1..messages /\ m \in 1..messages /\ m <= MarkOf(r)
    BY <2>2, <2>3
  <2>6. CASE m > since
    <3>1. m \in Live(since)
      BY <2>4, <2>5, <2>6 DEF Live
    <3>2. m \in DeltaSince(since)
      BY <2>1, <2>3, <2>5, <3>1, DeltaHasNoGap
    <3> QED
      BY <2>4, <3>2
  <2>7. CASE m <= since
    BY <2>1, <2>4, <2>5, <2>7 DEF SummedUpTo
  <2> QED
    BY <2>1, <2>5, <2>6, <2>7
<1> QED
  BY <1>1, <1>2

LEMMA ReadDeltaMarks == ASSUME MarkInv, NEW p \in Pass, ReadDelta(p) PROVE MarkInv'
<1> USE ProfileTyped
<1> DEFINE d == DeltaSince(pass[p].since)
           a == IF d = {} /\ pass[p].read = {} THEN AfterSummary(p) ELSE "check"
           r == [pass[p] EXCEPT !.delta = d, !.pc = a]
<1>1. pass[p].pc = "delta" /\ pass' = [pass EXCEPT ![p] = r]
  BY DEF ReadDelta
<1>2. d \in SUBSET Message /\ d \subseteq 1..messages
  BY DeltaIsLive DEF MarkInv
<1>3. a \in {"reschedule", "consume", "check"}
  BY DEF AfterSummary
<1> HIDE DEF a, d
<1>4. /\ r \in PassRecord /\ r.pc = a /\ r.since = pass[p].since /\ r.base = pass[p].base
      /\ r.delta = d /\ r.read = pass[p].read
  <2>1. pass[p] \in PassRecord /\ a \in PassPc
    BY <1>3 DEF PassPc, PassWork, ToolWork
  <2> QED
    BY <1>2, <2>1 DEF PassRecord
<1> HIDE DEF r
<1>5. PassInv(pass[p], messages, gone, profileTold.owedFrom) /\ pass[p].since \in Mark
  BY DEF PassRecord
<1>6. SummedUpTo(pass[p].since, pass[p].base, gone, profileTold.owedFrom)
  BY <1>1, <1>5 DEF PassInv
<1>7. SummedUpTo(MarkOf(r), r.base \cup r.delta, gone, profileTold.owedFrom)
  BY <1>4, <1>5, <1>6, DeltaCovers DEF PassInv, d
<1>8. PassInv(r, messages, gone, profileTold.owedFrom)
  BY <1>2, <1>4, <1>5, <1>6, <1>7 DEF PassInv
<1> QED
  BY <1>1, <1>8, PassMoves, OnlyPasses DEF ReadDelta

LEMMA CheckMarks == ASSUME MarkInv, NEW p \in Pass, CheckStale(p) PROVE MarkInv'
<1> USE ProfileTyped
<1>1. pass[p] \in PassRecord /\ PassInv(pass[p], messages, gone, profileTold.owedFrom) /\ pass[p].pc = "check"
  BY DEF CheckStale
<1>2. profileTold' = [profileTold EXCEPT !.considered = @ \cup pass[p].read]
  BY DEF CheckStale
<1>3. /\ profileTold' \in ToldRecord /\ profileTold'.owedFrom = profileTold.owedFrom
      /\ profileTold'.leftover = profileTold.leftover
  <2>1. profileTold.considered \cup pass[p].read \in SUBSET Message
    BY <1>1 DEF PassRecord, ToldRecord
  <2> QED
    BY <1>2, <2>1 DEF ToldRecord
<1>4. CASE SummaryEnds(p)
  <2> DEFINE r == [pass[p] EXCEPT !.pc = AfterSummary(p), !.base = {}]
  <2>1. pass' = [pass EXCEPT ![p] = r]
    BY <1>4 DEF SummaryEnds
  <2>2. AfterSummary(p) \in {"reschedule", "consume"} /\ AfterSummary(p) \in PassPc
    BY DEF AfterSummary, PassPc, PassWork, ToolWork
  <2>3. /\ r \in PassRecord /\ r.pc \in {"reschedule", "consume"} /\ r.since = pass[p].since
        /\ r.delta = pass[p].delta /\ r.read = pass[p].read
    BY <1>1, <2>2 DEF PassRecord
  <2> HIDE DEF r
  <2>4. PassInv(r, messages, gone, profileTold.owedFrom)
    BY <1>1, <2>3 DEF PassInv
  <2> QED
    BY <1>3, <2>1, <2>4, PassMoves, OnlyPasses DEF CheckStale
<1>5. CASE PassAt(p, "write")
  <2> DEFINE r == [pass[p] EXCEPT !.pc = "write"]
  <2>1. pass' = [pass EXCEPT ![p] = r]
    BY <1>5 DEF PassAt
  <2>2. /\ r \in PassRecord /\ r.pc = "write" /\ r.since = pass[p].since /\ r.base = pass[p].base
        /\ r.delta = pass[p].delta /\ r.read = pass[p].read
    <3>1. "write" \in PassPc
      BY DEF PassPc, PassWork
    <3> QED
      BY <1>1, <3>1 DEF PassRecord
  <2> HIDE DEF r
  <2>3. MarkOf(r) = MarkOf(pass[p])
    BY <2>2, SameMark
  <2>4. PassInv(r, messages, gone, profileTold.owedFrom)
    BY <1>1, <2>2, <2>3 DEF PassInv
  <2> QED
    BY <1>3, <2>1, <2>4, PassMoves, OnlyPasses DEF CheckStale
<1> QED
  BY <1>4, <1>5 DEF CheckStale

LEMMA PassMarkIs == ASSUME NEW p \in Pass PROVE PassMark(p) = MarkOf(pass[p])
BY DEF PassMark, MarkOf

LEMMA PassMarkReached ==
  ASSUME MarkInv, NEW p \in Pass
  PROVE  PassMark(p) \in Mark /\ PassMark(p) <= messages
<1> USE ProfileTyped
<1>1. pass[p] \in PassRecord /\ pass[p].since <= messages /\ pass[p].delta \subseteq 1..messages
  BY DEF PassInv
<1>2. CASE pass[p].delta = {}
  BY <1>1, <1>2 DEF PassMark, PassRecord
<1>3. CASE pass[p].delta # {}
  <2>1. MarkOf(pass[p]) \in 1..messages
    BY <1>1, <1>3, MarkOfDelta
  <2>2. MarkOf(pass[p]) \in Mark /\ MarkOf(pass[p]) <= messages
    BY <2>1, ProfileAssumption DEF Mark
  <2> QED
    BY <2>2, PassMarkIs
<1> QED
  BY <1>2, <1>3

\* How a summary ends.
LEMMA EndsInv ==
  ASSUME MarkInv, NEW p \in Pass, SummaryEnds(p)
  PROVE  \E r \in PassRecord :
            /\ pass' = [pass EXCEPT ![p] = r]
            /\ r.pc = AfterSummary(p) /\ r.pc \in {"reschedule", "consume"}
            /\ r.since = pass[p].since /\ r.delta = pass[p].delta /\ r.read = pass[p].read
            /\ r.tool = pass[p].tool
            /\ PassInv(r, messages, gone, profileTold.owedFrom)
<1> USE ProfileTyped
<1> DEFINE r == [pass[p] EXCEPT !.pc = AfterSummary(p), !.base = {}]
<1>1. pass[p] \in PassRecord /\ PassInv(pass[p], messages, gone, profileTold.owedFrom)
  OBVIOUS
<1>2. pass' = [pass EXCEPT ![p] = r]
  BY DEF SummaryEnds
<1>3. AfterSummary(p) \in {"reschedule", "consume"} /\ AfterSummary(p) \in PassPc
  BY DEF AfterSummary, PassPc, PassWork, ToolWork
<1>4. /\ r \in PassRecord /\ r.pc = AfterSummary(p) /\ r.since = pass[p].since
      /\ r.delta = pass[p].delta /\ r.read = pass[p].read /\ r.tool = pass[p].tool
  BY <1>1, <1>3 DEF PassRecord
<1> HIDE DEF r
<1>5. PassInv(r, messages, gone, profileTold.owedFrom)
  BY <1>1, <1>3, <1>4 DEF PassInv
<1> QED
  BY <1>2, <1>3, <1>4, <1>5

LEMMA WriteMarks == ASSUME MarkInv, NEW p \in Pass, WriteProfile(p) PROVE MarkInv'
<1> USE ProfileTyped
<1>1. pass[p] \in PassRecord /\ PassInv(pass[p], messages, gone, profileTold.owedFrom) /\ pass[p].pc = "write"
  BY DEF WriteProfile
<1>2. PICK r \in PassRecord : pass' = [pass EXCEPT ![p] = r] /\ PassInv(r, messages, gone, profileTold.owedFrom)
  BY EndsInv DEF WriteProfile
<1>3. pass' \in [Pass -> PassRecord] /\ \A q \in Pass : PassInv(pass'[q], messages, gone, profileTold.owedFrom)
  BY <1>2, PassMoves
<1> DEFINE sections == (pass[p].base \cup pass[p].delta) \ pass[p].read
           back == profileTold.setBack \/ (pass[p].delta = {} /\ profile.lastProcessedAt > PassMark(p))
<1>4. sections \in SUBSET Message /\ PassMark(p) \in Mark /\ PassMark(p) <= messages /\ back \in BOOLEAN
  BY <1>1, PassMarkReached DEF PassRecord, ToldRecord
<1>5. /\ profile' = [profile EXCEPT !.exists = TRUE, !.sections = sections, !.lastProcessedAt = PassMark(p)]
      /\ profileTold' = [profileTold EXCEPT !.setBack = back]
  BY DEF WriteProfile
<1>6. SummedUpTo(PassMark(p), sections, gone, profileTold.owedFrom)
  BY <1>1, PassMarkIs DEF PassInv, SummedUpTo
<1> HIDE DEF sections, back
<1>7. profile' \in ProfileRow /\ profile'.sections = sections /\ profile'.lastProcessedAt = PassMark(p)
  BY <1>4, <1>5 DEF ProfileRow
<1>8. /\ profileTold' \in ToldRecord /\ profileTold'.owedFrom = profileTold.owedFrom
      /\ profileTold'.leftover = profileTold.leftover
  BY <1>4, <1>5 DEF ToldRecord
<1>9. ProfileTypeOK'
  BY <1>3, <1>7, <1>8 DEF WriteProfile, MarkInv, ProfileTypeOK, PassRecord, PassPc,
     ProfileRow, ToldRecord
<1>10. OnlyGone'
  BY DEF WriteProfile, MarkInv, OnlyGone, Entries
<1>11. MarksReached'
  BY <1>4, <1>7, <1>8 DEF WriteProfile, MarkInv, MarksReached
<1>12. SummedUpTo(profile.lastProcessedAt, profile.sections, gone, profileTold.owedFrom)'
  BY <1>6, <1>7, <1>8 DEF WriteProfile, SummedUpTo
<1>13. /\ messages <= messages' /\ gone \subseteq gone' /\ profileTold.owedFrom <= profileTold.owedFrom'
  <2>1. profileTold.owedFrom \in Nat
    BY ProfileAssumption DEF ToldRecord, Mark
  <2> QED
    BY <1>8, <2>1 DEF WriteProfile
<1> QED
  BY <1>3, <1>9, <1>10, <1>11, <1>12, <1>13, MarkStep

LEMMA RemoveEntryKeeps ==
  ASSUME MarkInv, NEW m, RemoveEntry(m)
  PROVE  /\ reconsider' \in Seq(Message) /\ Len(reconsider') <= MaxReconsider
         /\ Entries' \subseteq Entries
         /\ Entries \ {m} \subseteq Entries'
<1> USE ProfileTyped
<1>1. CASE UNCHANGED reconsider
  BY <1>1 DEF Entries
<1>2. ASSUME NEW i \in DOMAIN reconsider, reconsider[i] = m,
             reconsider' = [j \in 1..(Len(reconsider) - 1) |-> reconsider[IF j < i THEN j ELSE j + 1]]
      PROVE  /\ reconsider' \in Seq(Message) /\ Len(reconsider') <= MaxReconsider
             /\ Entries' \subseteq Entries /\ Entries \ {m} \subseteq Entries'
  <2> DEFINE n == Len(reconsider)
  <2>1. n \in Nat /\ i \in 1..n /\ n <= MaxReconsider /\ MaxReconsider \in Nat
    BY <1>2, ProfileAssumption
  <2>2. \A j \in 1..(n - 1) : (IF j < i THEN j ELSE j + 1) \in 1..n
    BY <2>1
  <2>3. \A j \in 1..n : reconsider[j] \in Message
    OBVIOUS
  <2>4. \A j \in 1..(n - 1) : reconsider[IF j < i THEN j ELSE j + 1] \in Message
    BY <2>2, <2>3
  <2>5. reconsider' \in Seq(Message) /\ Len(reconsider') = n - 1
    BY <1>2, <2>1, <2>4
  <2>6. Entries' \subseteq Entries
    BY <1>2, <2>1, <2>2, <2>5 DEF Entries
  <2>7. ASSUME NEW k \in 1..n, k # i PROVE reconsider[k] \in Entries'
    <3> DEFINE j == IF k < i THEN k ELSE k - 1
    <3>1. j \in 1..(n - 1) /\ (IF j < i THEN j ELSE j + 1) = k
      BY <2>1, <2>7
    <3>2. reconsider'[j] = reconsider[k]
      BY <1>2, <3>1
    <3>3. j \in DOMAIN reconsider'
      BY <2>5, <3>1
    <3> QED
      BY <3>2, <3>3 DEF Entries
  <2>8. Entries \ {m} \subseteq Entries'
    <3> SUFFICES ASSUME NEW k \in 1..n, reconsider[k] # m PROVE reconsider[k] \in Entries'
      BY DEF Entries
    <3> QED
      BY <1>2, <2>7
  <2> QED
    BY <2>1, <2>5, <2>6, <2>8
<1> QED
  BY <1>1, <1>2 DEF RemoveEntry

LEMMA ConsumeMarks == ASSUME MarkInv, NEW p \in Pass, ConsumeReconsider(p) PROVE MarkInv'
<1> USE ProfileTyped
<1>1. pass[p] \in PassRecord /\ PassInv(pass[p], messages, gone, profileTold.owedFrom) /\ pass[p].pc = "consume"
  BY DEF ConsumeReconsider
<1>2. CASE /\ pass' = [pass EXCEPT ![p].pc = "get", ![p].base = {}, ![p].since = 0]
           /\ UNCHANGED reconsider
  <2> DEFINE r == [pass[p] EXCEPT !.pc = "get", !.base = {}, !.since = 0]
  <2>1. pass' = [pass EXCEPT ![p] = r]
    BY <1>2
  <2>2. 0 \in Mark /\ "get" \in PassPc
    BY ProfileAssumption DEF Mark, PassPc, PassWork
  <2>3. r \in PassRecord /\ r.pc = "get" /\ r.since = 0 /\ r.delta = pass[p].delta /\ r.read = pass[p].read
    BY <1>1, <2>2 DEF PassRecord
  <2> HIDE DEF r
  <2>4. PassInv(r, messages, gone, profileTold.owedFrom)
    BY <1>1, <2>3 DEF PassInv
  <2> QED
    BY <1>2, <2>1, <2>4, PassMoves, OnlyPasses DEF ConsumeReconsider
<1>3. ASSUME NEW m \in pass[p].read, pass' = [pass EXCEPT ![p].read = @ \ {m}], RemoveEntry(m)
      PROVE  MarkInv'
  <2> DEFINE r == [pass[p] EXCEPT !.read = @ \ {m}]
  <2>1. pass' = [pass EXCEPT ![p] = r]
    BY <1>3
  <2>2. r \in PassRecord /\ r.pc = "consume" /\ r.since = pass[p].since /\ r.delta = pass[p].delta
        /\ r.read \subseteq pass[p].read
    BY <1>1 DEF PassRecord
  <2> HIDE DEF r
  <2>3. PassInv(r, messages, gone, profileTold.owedFrom)
    BY <1>1, <2>2 DEF PassInv
  <2>4. /\ reconsider' \in Seq(Message) /\ Len(reconsider') <= MaxReconsider /\ Entries' \subseteq gone
    BY <1>3, RemoveEntryKeeps
  <2> QED
    BY <2>1, <2>3, <2>4, PassMoves, RowStays DEF ConsumeReconsider
<1> QED
  BY <1>2, <1>3 DEF ConsumeReconsider

\* A step that moves p on to a, of the pass alone.
LEMMA PcMarks ==
  ASSUME MarkInv, NEW p \in Pass, NEW a \in PassPc \ {"delta", "check", "write"}, PassAt(p, a)
  PROVE  /\ pass' \in [Pass -> PassRecord]
         /\ \A q \in Pass : PassInv(pass'[q], messages, gone, profileTold.owedFrom)
<1> USE ProfileTyped
<1>1. pass' = [pass EXCEPT ![p] = [pass[p] EXCEPT !.pc = a]]
  BY DEF PassAt
<1>2. PassInv([pass[p] EXCEPT !.pc = a], messages, gone, profileTold.owedFrom)
  BY PcMoves
<1> QED
  BY <1>1, <1>2, PassMoves

LEMMA OverMarks ==
  ASSUME MarkInv, NEW p \in Pass, pass' = [pass EXCEPT ![p] = Over]
  PROVE  /\ pass' \in [Pass -> PassRecord]
         /\ \A q \in Pass : PassInv(pass'[q], messages, gone, profileTold.owedFrom)
<1>1. PassInv(Over, messages, gone, profileTold.owedFrom)
  BY ProfileTyped, NewPassInv DEF Over
<1> QED
  BY <1>1, PassMoves

LEMMA FlagMarks ==
  ASSUME MarkInv, NEW p \in Pass, GetFlag(p) \/ DelFlag(p) \/ ReadLeftover(p) \/ SetFlag(p)
  PROVE  MarkInv'
<1> USE ProfileTyped
<1>0. {"del", "leftover", "flag"} \subseteq PassPc \ {"delta", "check", "write"}
  BY DEF PassPc, PassWork
<1>1. CASE GetFlag(p)
  <2>1. PassAt(p, "del") \/ PassAt(p, "leftover") \/ pass' = [pass EXCEPT ![p] = Over]
    BY <1>1 DEF GetFlag, PassEnds
  <2>2. /\ pass' \in [Pass -> PassRecord]
        /\ \A q \in Pass : PassInv(pass'[q], messages, gone, profileTold.owedFrom)
    BY <1>0, <2>1, PcMarks, OverMarks
  <2>3. followUp' \in [Pass -> FollowUps]
    BY <1>1 DEF GetFlag, PassEnds, FollowUps
  <2> QED
    BY <1>1, <2>2, <2>3, OnlyPasses DEF GetFlag
<1>2. CASE DelFlag(p)
  <2>1. /\ pass' \in [Pass -> PassRecord]
        /\ \A q \in Pass : PassInv(pass'[q], messages, gone, profileTold.owedFrom)
    BY <1>0, <1>2, PcMarks DEF DelFlag
  <2> QED
    BY <1>2, <2>1, OnlyPasses DEF DelFlag
<1>3. CASE ReadLeftover(p)
  <2>1. PassAt(p, "flag") \/ pass' = [pass EXCEPT ![p] = Over]
    BY <1>3 DEF ReadLeftover, PassEnds
  <2>2. /\ pass' \in [Pass -> PassRecord]
        /\ \A q \in Pass : PassInv(pass'[q], messages, gone, profileTold.owedFrom)
    BY <1>0, <2>1, PcMarks, OverMarks
  <2>3. followUp' \in [Pass -> FollowUps]
    BY <1>3 DEF ReadLeftover, PassEnds, FollowUps
  <2>4. /\ profileTold' \in ToldRecord /\ profileTold'.owedFrom = profileTold.owedFrom
        /\ profileTold'.leftover \in {profileTold.leftover, messages}
    <3>1. profileTold' = profileTold \/ profileTold' = [profileTold EXCEPT !.leftover = messages]
      BY <1>3 DEF ReadLeftover
    <3> QED
      BY <3>1 DEF ToldRecord
  <2> QED
    BY <1>3, <2>2, <2>3, <2>4, OnlyPasses DEF ReadLeftover
<1>4. CASE SetFlag(p)
  <2>1. /\ pass' \in [Pass -> PassRecord]
        /\ \A q \in Pass : PassInv(pass'[q], messages, gone, profileTold.owedFrom)
    BY <1>4, OverMarks DEF SetFlag, PassEnds
  <2>2. followUp' \in [Pass -> FollowUps]
    BY <1>4 DEF SetFlag, PassEnds, FollowUps
  <2> QED
    BY <1>4, <2>1, <2>2, OnlyPasses DEF SetFlag
<1> QED
  BY <1>1, <1>2, <1>3, <1>4

LEMMA FollowUpMarks ==
  ASSUME MarkInv, NEW p \in Pass,
         FollowUpGets(p) \/ FollowUpDels(p) \/ FollowUpAdds(p) \/ FollowUpLost(p)
  PROVE  MarkInv'
<1> USE ProfileTyped
<1>1. ASSUME NEW a \in FollowUps, FollowUpAt(p, a) PROVE followUp' \in [Pass -> FollowUps]
  BY <1>1 DEF FollowUpAt
<1>2. CASE FollowUpGets(p)
  <2>1. followUp' \in [Pass -> FollowUps]
    BY <1>1, <1>2 DEF FollowUpGets, FollowUps
  <2> QED
    BY <1>2, <2>1, OnlyPasses DEF FollowUpGets
<1>3. CASE FollowUpDels(p)
  <2>1. followUp' \in [Pass -> FollowUps]
    BY <1>1, <1>3 DEF FollowUpDels, FollowUps
  <2> QED
    BY <1>3, <2>1, OnlyPasses DEF FollowUpDels
<1>4. CASE FollowUpAdds(p)
  <2>1. followUp' \in [Pass -> FollowUps]
    BY <1>1, <1>4 DEF FollowUpAdds, FollowUps
  <2>2. /\ pass' \in [Pass -> PassRecord]
        /\ \A q \in Pass : PassInv(pass'[q], messages, gone, profileTold.owedFrom)
    BY <1>4, WithNewJobInv DEF FollowUpAdds
  <2> QED
    BY <1>4, <2>1, <2>2, OnlyPasses DEF FollowUpAdds
<1>5. CASE FollowUpLost(p)
  <2>1. followUp' \in [Pass -> FollowUps]
    BY <1>1, <1>5 DEF FollowUpLost, FollowUps
  <2> QED
    BY <1>5, <2>1, FaultTold, OnlyPasses DEF FollowUpLost
<1> QED
  BY <1>2, <1>3, <1>4, <1>5

LEMMA FaultMarks ==
  ASSUME MarkInv, NEW p \in Pass, PassThrows(p) \/ PassDies(p) \/ ToolThrows(p)
  PROVE  MarkInv'
<1> USE ProfileTyped
<1>1. ASSUME NEW a \in {"queued", "over", "spent"}, pass' = [pass EXCEPT ![p] = [NoPass EXCEPT !.pc = a]]
      PROVE  /\ pass' \in [Pass -> PassRecord]
             /\ \A q \in Pass : PassInv(pass'[q], messages, gone, profileTold.owedFrom)
  BY <1>1, NewPassInv, PassMoves
<1>2. /\ pass' \in [Pass -> PassRecord]
      /\ \A q \in Pass : PassInv(pass'[q], messages, gone, profileTold.owedFrom)
  BY <1>1 DEF PassThrows, PassDies, ToolThrows, Redelivered, Over
<1>3. PICK loses \in BOOLEAN : Fault(loses)
  BY DEF PassThrows, PassDies, ToolThrows, Redelivered
<1>4. followUp' \in [Pass -> FollowUps]
  BY DEF PassThrows, PassDies, ToolThrows, FollowUpAt, FollowUps
<1>5. UNCHANGED <<messages, gone, profile, reconsider, deletion, needsRefresh>>
  BY DEF PassThrows, PassDies, ToolThrows
<1> QED
  BY <1>2, <1>3, <1>4, <1>5, FaultTold, OnlyPasses

LEMMA MarkSteps == MarkInv /\ [ProfileNext]_profileVars => MarkInv'
<1> SUFFICES ASSUME MarkInv, [ProfileNext]_profileVars PROVE MarkInv'
  OBVIOUS
<1>1. CASE UNCHANGED profileVars
  BY <1>1 DEF profileVars, MarkInv, ProfileTypeOK, OnlyGone, Entries, MarksReached, SummedUpTo
<1> QED
  BY <1>1, MessageMarks, ResetMarks, ConversationMarks, RememberMarks, RescheduleMarks,
     ReadReconsiderMarks, LoadMarks, ReadDeltaMarks, CheckMarks, WriteMarks, ConsumeMarks,
     FlagMarks, FollowUpMarks, FaultMarks DEF ProfileNext

LEMMA MarkInit == ProfileInit => MarkInv
<1> SUFFICES ASSUME ProfileInit PROVE MarkInv
  OBVIOUS
<1>1. 0 \in Mark /\ 0 \in 0..MaxProfileFaults /\ MaxReconsider \in Nat
  BY ProfileAssumption DEF Mark
<1>2. ProfileTypeOK
  <2>1. pass \in [Pass -> PassRecord]
    BY NewPasses DEF ProfileInit
  <2>2. profile \in ProfileRow /\ profileTold \in ToldRecord
    BY <1>1 DEF ProfileInit, ProfileRow, ToldRecord
  <2>3. reconsider \in Seq(Message) /\ Len(reconsider) = 0
    BY DEF ProfileInit
  <2>4. followUp \in [Pass -> FollowUps] /\ deletion \in [Message -> Deletions]
    BY DEF ProfileInit, FollowUps, Deletions
  <2>5. messages \in Mark /\ gone \subseteq 1..messages /\ needsRefresh \in BOOLEAN
    BY <1>1 DEF ProfileInit
  <2>6. Len(reconsider) <= MaxReconsider
    BY <1>1, <2>3
  <2> QED
    BY <2>1, <2>2, <2>3, <2>4, <2>5, <2>6
    DEF ProfileTypeOK, PassRecord, PassPc, ProfileRow, ToldRecord, FollowUps, Deletions
<1>3. OnlyGone
  BY DEF ProfileInit, OnlyGone, Entries
<1>4. MarksReached
  BY DEF ProfileInit, MarksReached
<1>5. \A p \in Pass : PassInv(pass[p], messages, gone, profileTold.owedFrom)
  <2>1. PassInv([NoPass EXCEPT !.pc = "none"], messages, gone, profileTold.owedFrom)
    BY NewPassInv DEF ProfileInit
  <2>2. [NoPass EXCEPT !.pc = "none"] = NoPass
    BY DEF NoPass
  <2> QED
    BY <2>1, <2>2 DEF ProfileInit
<1>6. SummedUpTo(profile.lastProcessedAt, profile.sections, gone, profileTold.owedFrom)
  BY DEF ProfileInit, SummedUpTo
<1> QED
  BY <1>2, <1>3, <1>4, <1>5, <1>6 DEF MarkInv

\* The state of the profile has its type.
THEOREM ProfileTypeCorrect == ProfileSpec => []ProfileTypeOK
BY MarkInit, MarkSteps, PTL DEF ProfileSpec, MarkInv

\* No message up to lastProcessedAt is skipped, whichever passes overtake each
\* other, however many messages a pass reads, and whatever is deleted meanwhile.
THEOREM SkippedNone == ProfileSpec => []NoneSkipped
<1>1. MarkInv => NoneSkipped
  BY DEF MarkInv, SummedUpTo, NoneSkipped
<1> QED
  BY <1>1, MarkInit, MarkSteps, PTL DEF ProfileSpec

-----------------------------------------------------------------------------
(* What is owed is carried: by a pass, or by the handler that follows it.    *)

Decided(m) == m \in profileTold.considered \cup profileTold.trimmed

\* An entry leaves the list when it falls off it or a summary took it in.
EntriesKept ==
    /\ \A m \in Message : deletion[m] \in {"enqueue", "queued"} => m \in Entries \/ Decided(m)
    /\ \A p \in Pass :
          pass[p].pc \in {"write", "consume"} => pass[p].read \subseteq profileTold.considered

\* A pass will take in the deletion of m.
WillReconsider(r, m) ==
    \/ r.pc = "queued"
    \/ r.pc \in {"load", "delta", "check"} /\ m \in r.read

DeletionsCarried ==
    ~profileTold.broken =>
        \A m \in Message : deletion[m] = "queued" /\ ~Decided(m) =>
            \E p \in Pass : WillReconsider(pass[p], m)

\* A pass, or its handler if that finds the flag, will see what is after the mark.
WillSummarize(r, handler, flag, mark) ==
    \/ r.pc \in {"queued", "load", "del", "flag", "reschedule"}
    \/ r.pc = "delta" /\ r.since <= mark
    \/ r.pc \in {"check", "write"} /\ r.delta # {}
    \/ r.pc \in {"consume", "get", "leftover"} /\ r.delta # {} /\ MarkOf(r) <= mark
    \/ handler \in {"del", "add"}
    \/ handler = "get" /\ flag

Summarizer(p) == WillSummarize(pass[p], followUp[p], needsRefresh, profile.lastProcessedAt)

Owed == {m \in Live(profile.lastProcessedAt) : m <= profileTold.leftover}

LeftoverCarried ==
    ~profileTold.broken /\ ~profileTold.setBack /\ Owed # {} => \E p \in Pass : Summarizer(p)

\* A handler of a pass is over before the pass starts again.
HandlerFirst ==
    \A p \in Pass : pass[p].pc \in PassWork \cup ToolWork \cup {"none"} => followUp[p] = "none"

\* A tool's pass reads no list, and nobody else reschedules.
ToolPasses ==
    \A p \in Pass :
       /\ pass[p].tool => pass[p].pc \in PassWork \cup ToolWork
       /\ pass[p].tool \/ pass[p].pc = "none" => pass[p].read = {}
       /\ pass[p].pc = "reschedule" => pass[p].tool

CarriedInv == EntriesKept /\ DeletionsCarried /\ LeftoverCarried /\ HandlerFirst /\ ToolPasses

\* The pass p becomes r, and its handler h.
Becomes(p, r, h) == pass' = [pass EXCEPT ![p] = r] /\ followUp' = [followUp EXCEPT ![p] = h]

LEMMA ConversationCarries ==
  ASSUME MarkInv, CarriedInv, NEW m \in Message,
         DeleteConversation(m) \/ PushReconsider(m) \/ ReconsiderLost(m)
  PROVE  CarriedInv'
<1> USE ProfileTyped
<1>1. UNCHANGED <<pass, followUp, needsRefresh, profile, messages>> /\ gone \subseteq gone'
  BY DEF DeleteConversation, PushReconsider, ReconsiderLost
<1>2. HandlerFirst' /\ ToolPasses'
  BY <1>1 DEF CarriedInv, HandlerFirst, ToolPasses
<1>3. /\ profileTold'.broken = profileTold.broken /\ profileTold'.setBack = profileTold.setBack
      /\ profileTold'.leftover = profileTold.leftover /\ profileTold'.considered = profileTold.considered
      /\ profileTold.trimmed \subseteq profileTold'.trimmed
  <2>1. CASE DeleteConversation(m)
    BY <2>1 DEF DeleteConversation
  <2>2. CASE PushReconsider(m)
    BY <2>2 DEF PushReconsider, ToldRecord
  <2>3. CASE ReconsiderLost(m)
    BY <2>3, FaultTold DEF ReconsiderLost, ToldRecord
  <2> QED
    BY <2>1, <2>2, <2>3
<1>4. Owed' \subseteq Owed
  BY <1>1, <1>3 DEF Owed, Live
<1>5. LeftoverCarried'
  BY <1>1, <1>3, <1>4 DEF CarriedInv, LeftoverCarried, Summarizer
<1>6. \A n \in Message : deletion'[n] = "queued" => deletion[n] = "queued"
  BY DEF DeleteConversation, PushReconsider, ReconsiderLost
<1>7. \A n : Decided(n) => Decided(n)'
  BY <1>3 DEF Decided
<1>8. DeletionsCarried'
  BY <1>1, <1>3, <1>6, <1>7 DEF CarriedInv, DeletionsCarried
<1>9. EntriesKept'
  <2>1. \A p \in Pass :
          pass[p].pc \in {"write", "consume"} => pass[p].read \subseteq profileTold.considered
    BY DEF CarriedInv, EntriesKept
  <2>2. ASSUME NEW n \in Message, deletion'[n] \in {"enqueue", "queued"}
        PROVE  n \in Entries' \/ Decided(n)'
    <3>1. CASE DeleteConversation(m) \/ ReconsiderLost(m)
      <4>1. deletion[n] \in {"enqueue", "queued"} /\ Entries' = Entries
        BY <2>2, <3>1 DEF DeleteConversation, ReconsiderLost, Entries
      <4> QED
        BY <4>1, <1>7 DEF CarriedInv, EntriesKept
    <3>2. CASE PushReconsider(m)
      <4> DEFINE all == <<m>> \o reconsider
                 k == IF Len(all) < MaxReconsider THEN Len(all) ELSE MaxReconsider
                 fallen == {all[i] : i \in (MaxReconsider + 1)..Len(all)}
      <4>1. all \in Seq(Message) /\ Len(all) = Len(reconsider) + 1
        OBVIOUS
      <4>2. all[1] = m /\ \A i \in 1..Len(reconsider) : all[i + 1] = reconsider[i]
        OBVIOUS
      <4>3. k \in Nat /\ k <= Len(all) /\ k <= MaxReconsider /\ MaxReconsider \in Nat
            /\ (k = Len(all) \/ k = MaxReconsider)
        BY <4>1, ProfileAssumption
      <4>4. reconsider' = SubSeq(all, 1, k)
        BY <3>2 DEF PushReconsider
      <4>5. profileTold' = [profileTold EXCEPT !.trimmed = @ \cup fallen]
        BY <3>2 DEF PushReconsider
      <4>6. fallen \subseteq profileTold'.trimmed
        BY <4>5 DEF ToldRecord
      <4>7. n = m \/ deletion[n] \in {"enqueue", "queued"}
        BY <2>2, <3>2 DEF PushReconsider
      <4>8. (\E i \in 1..Len(all) : all[i] = n) \/ Decided(n)
        <5>1. CASE n = m
          BY <5>1, <4>1, <4>2
        <5>2. CASE n # m
          <6>1. n \in Entries \/ Decided(n)
            BY <4>7, <5>2 DEF CarriedInv, EntriesKept
          <6>2. ASSUME NEW i \in 1..Len(reconsider), reconsider[i] = n
                PROVE  \E j \in 1..Len(all) : all[j] = n
            <7>1. i + 1 \in 1..Len(all) /\ all[i + 1] = n
              BY <6>2, <4>1, <4>2
            <7> QED
              BY <7>1
          <6> QED
            BY <6>1, <6>2 DEF Entries
        <5> QED
          BY <5>1, <5>2
      <4> HIDE DEF all, k
      <4>9. /\ reconsider' \in Seq(Message) /\ Len(reconsider') = k
            /\ \A i \in 1..k : reconsider'[i] = all[i]
        BY <4>1, <4>3, <4>4
      <4>10. ASSUME NEW i \in 1..Len(all), all[i] = n PROVE n \in Entries' \/ n \in fallen
        <5>1. CASE i \in 1..k
          <6>1. i \in DOMAIN reconsider' /\ reconsider'[i] = n
            BY <5>1, <4>3, <4>9, <4>10
          <6> QED
            BY <6>1 DEF Entries
        <5>2. CASE i \notin 1..k
          BY <5>2, <4>1, <4>3, <4>10
        <5> QED
          BY <5>1, <5>2
      <4> HIDE DEF fallen
      <4> QED
        BY <4>6, <4>8, <4>10, <1>7 DEF Decided
    <3> QED
      BY <3>1, <3>2
  <2> QED
    BY <1>1, <1>3, <2>1, <2>2 DEF EntriesKept
<1> QED
  BY <1>2, <1>5, <1>8, <1>9 DEF CarriedInv

LEMMA MessageCarries == ASSUME MarkInv, CarriedInv, MessageArrives PROVE CarriedInv'
<1> USE ProfileTyped DEF MessageArrives
<1>1. EntriesKept' /\ HandlerFirst' /\ ToolPasses' /\ DeletionsCarried'
  BY DEF CarriedInv, EntriesKept, HandlerFirst, ToolPasses, DeletionsCarried, Entries, Decided
<1>2. Owed' \subseteq Owed
  <2> SUFFICES ASSUME NEW m \in Owed' PROVE m \in Owed
    OBVIOUS
  <2>1. m \in 1..(messages + 1) /\ m <= profileTold.leftover /\ m > profile.lastProcessedAt /\ m \notin gone
    BY DEF Owed, Live
  <2>2. profileTold.leftover <= messages /\ profileTold.leftover \in Nat
    BY ProfileAssumption DEF MarkInv, MarksReached, ToldRecord, Mark
  <2> QED
    BY <2>1, <2>2 DEF Owed, Live
<1>3. LeftoverCarried'
  BY <1>2 DEF CarriedInv, LeftoverCarried, Summarizer
<1> QED
  BY <1>1, <1>3 DEF CarriedInv

LEMMA ResetCarries == ASSUME MarkInv, CarriedInv, ResetProfile PROVE CarriedInv'
<1> USE ProfileTyped
<1>1. /\ profileTold'.considered = profileTold.considered /\ profileTold'.trimmed = profileTold.trimmed
      /\ profileTold'.broken = profileTold.broken
  BY DEF ResetProfile, ToldRecord
<1>2. EntriesKept' /\ HandlerFirst' /\ ToolPasses' /\ DeletionsCarried'
  BY <1>1 DEF ResetProfile, CarriedInv, EntriesKept, HandlerFirst, ToolPasses,
     DeletionsCarried, Entries, Decided
<1>3. profile'.lastProcessedAt = messages /\ messages' = messages
  BY DEF ResetProfile
<1>4. Owed' = {}
  BY <1>3 DEF Owed, Live
<1>5. LeftoverCarried'
  BY <1>4 DEF LeftoverCarried
<1> QED
  BY <1>2, <1>5 DEF CarriedInv

\* A job has been added: it will see to everything.
LEMMA JobCarries ==
  ASSUME MarkInv, CarriedInv, NEW ps \in [Pass -> PassRecord], pass' \in WithNewJob(ps),
         \A q \in Pass : ps[q] = pass[q] \/ ps[q] = Over,
         \A q \in Pass : followUp'[q] \in {followUp[q], "none"},
         EntriesKept'
  PROVE  CarriedInv'
<1> USE ProfileTyped
<1>1. PICK j \in Pass : ps[j].pc = "none" /\ pass' = [ps EXCEPT ![j] = Queued]
  BY NewJob
<1>2. pass'[j] = Queued /\ Queued.pc = "queued" /\ Queued.tool = FALSE
  BY <1>1, NewPasses DEF PassRecord, Queued, NoPass
<1>3. Over.pc = "over" /\ Over.tool = FALSE
  BY DEF Over, NoPass
<1>4. \A q \in Pass : q # j => pass'[q] = pass[q] \/ pass'[q] = Over
  BY <1>1
<1>5. DeletionsCarried' /\ LeftoverCarried'
  BY <1>2 DEF DeletionsCarried, LeftoverCarried, WillReconsider, Summarizer, WillSummarize
<1>6. HandlerFirst' /\ ToolPasses'
  BY <1>2, <1>3, <1>4 DEF CarriedInv, HandlerFirst, ToolPasses, PassWork, ToolWork
<1> QED
  BY <1>5, <1>6 DEF CarriedInv

LEMMA AddingCarries ==
  ASSUME MarkInv, CarriedInv,
         \/ \E m \in Message : EnqueueReconsider(m)
         \/ \E p \in Pass : Reschedule(p) \/ FollowUpAdds(p)
  PROVE  CarriedInv'
<1> USE ProfileTyped
<1>1. Over.pc = "over" /\ Over \in PassRecord /\ Queued.pc = "queued"
  BY NewPasses DEF Over, NoPass, Queued
<1>2. ASSUME NEW ps \in [Pass -> PassRecord], pass' \in WithNewJob(ps),
             \A q \in Pass : ps[q] = pass[q] \/ ps[q] = Over, UNCHANGED <<reconsider, profileTold>>,
             \A n \in Message : deletion'[n] \in {"enqueue", "queued"} => deletion[n] \in {"enqueue", "queued"}
      PROVE  EntriesKept'
  <2>1. PICK j \in Pass : pass' = [ps EXCEPT ![j] = Queued]
    BY <1>2, NewJob
  <2>2. \A q \in Pass : pass'[q] \in {pass[q], Over, Queued}
    BY <1>2, <2>1
  <2> QED
    BY <1>1, <1>2, <2>2 DEF CarriedInv, EntriesKept, Entries, Decided
<1>3. ASSUME NEW m \in Message, EnqueueReconsider(m) PROVE CarriedInv'
  <2>1. EntriesKept'
    BY <1>2, <1>3 DEF EnqueueReconsider
  <2> QED
    BY <1>3, <2>1, JobCarries DEF EnqueueReconsider
<1>4. ASSUME NEW p \in Pass, Reschedule(p) PROVE CarriedInv'
  <2> DEFINE ps == [pass EXCEPT ![p] = Over]
  <2>1. ps \in [Pass -> PassRecord] /\ \A q \in Pass : ps[q] = pass[q] \/ ps[q] = Over
    BY <1>1
  <2>2. pass' \in WithNewJob(ps)
    BY <1>4 DEF Reschedule
  <2> HIDE DEF ps
  <2>3. EntriesKept'
    BY <1>2, <1>4, <2>1, <2>2 DEF Reschedule
  <2> QED
    BY <1>4, <2>1, <2>2, <2>3, JobCarries DEF Reschedule
<1>5. ASSUME NEW p \in Pass, FollowUpAdds(p) PROVE CarriedInv'
  <2>1. EntriesKept'
    BY <1>2, <1>5 DEF FollowUpAdds
  <2>2. \A q \in Pass : followUp'[q] \in {followUp[q], "none"}
    BY <1>5 DEF FollowUpAdds, FollowUpAt
  <2> QED
    BY <1>5, <2>1, <2>2, JobCarries DEF FollowUpAdds
<1> QED
  BY <1>3, <1>4, <1>5

\* What a step of the pass p, or of its handler, has to respect.
LEMMA OneMoves ==
  ASSUME MarkInv, CarriedInv, NEW p \in Pass, NEW r \in PassRecord, NEW h \in FollowUps,
         pass' = [pass EXCEPT ![p] = r], followUp' = [followUp EXCEPT ![p] = h],
         UNCHANGED deletion,
         profileTold.considered \subseteq profileTold'.considered,
         profileTold.trimmed \subseteq profileTold'.trimmed,
         profileTold.broken => profileTold'.broken,
         r.pc \in PassWork \cup ToolWork \cup {"none"} => h = "none",
         r.tool => r.pc \in PassWork \cup ToolWork,
         r.tool \/ r.pc = "none" => r.read = {},
         r.pc = "reschedule" => r.tool,
         r.pc \in {"write", "consume"} => r.read \subseteq profileTold'.considered,
         \A m \in Entries : m \in Entries' \/ Decided(m)',
         ~profileTold'.broken =>
            \A m \in Message : /\ WillReconsider(pass[p], m)
                               /\ m \in Entries \/ Decided(m)
                               => WillReconsider(r, m) \/ Decided(m)',
         LeftoverCarried'
  PROVE  CarriedInv'
<1> USE ProfileTyped
<1>1. pass'[p] = r /\ \A q \in Pass : q # p => pass'[q] = pass[q]
  OBVIOUS
<1>2. followUp'[p] = h /\ \A q \in Pass : q # p => followUp'[q] = followUp[q]
  OBVIOUS
<1>3. HandlerFirst' /\ ToolPasses'
  BY <1>1, <1>2 DEF CarriedInv, HandlerFirst, ToolPasses
<1>4. \A m : Decided(m) => Decided(m)'
  BY DEF Decided
<1>5. EntriesKept'
  BY <1>1, <1>4 DEF CarriedInv, EntriesKept
<1>6. DeletionsCarried'
  <2> SUFFICES ASSUME ~profileTold'.broken, NEW m \in Message, deletion[m] = "queued", ~Decided(m)'
               PROVE  \E q \in Pass : WillReconsider(pass'[q], m)
    BY DEF DeletionsCarried
  <2>1. PICK q \in Pass : WillReconsider(pass[q], m)
    BY <1>4 DEF CarriedInv, DeletionsCarried
  <2>2. m \in Entries \/ Decided(m)
    BY DEF CarriedInv, EntriesKept
  <2> QED
    BY <1>1, <2>1, <2>2
<1> QED
  BY <1>3, <1>5, <1>6 DEF CarriedInv

LEMMA OwedStays ==
  ASSUME MarkInv, CarriedInv, NEW p \in Pass, NEW r \in PassRecord, NEW h \in FollowUps,
         pass' = [pass EXCEPT ![p] = r], followUp' = [followUp EXCEPT ![p] = h],
         profileTold.broken => profileTold'.broken, profileTold.setBack => profileTold'.setBack,
         \/ WillSummarize(r, h, needsRefresh', profile'.lastProcessedAt)
         \/ /\ Owed' \subseteq Owed
            /\ needsRefresh' = needsRefresh
            /\ profile.lastProcessedAt <= profile'.lastProcessedAt
            /\ profile'.lastProcessedAt \in Nat
            /\ Owed # {} => ~Summarizer(p)
         \/ profileTold'.broken
         \/ profileTold'.setBack
  PROVE  LeftoverCarried'
<1> USE ProfileTyped
<1>1. pass'[p] = r /\ \A q \in Pass : q # p => pass'[q] = pass[q]
  OBVIOUS
<1>2. followUp'[p] = h /\ \A q \in Pass : q # p => followUp'[q] = followUp[q]
  OBVIOUS
<1>3. CASE WillSummarize(r, h, needsRefresh', profile'.lastProcessedAt)
  BY <1>1, <1>2, <1>3 DEF LeftoverCarried, Summarizer
<1>4. CASE profileTold'.broken \/ profileTold'.setBack
  BY <1>4 DEF LeftoverCarried
<1>5. CASE /\ Owed' \subseteq Owed
           /\ needsRefresh' = needsRefresh
           /\ profile.lastProcessedAt <= profile'.lastProcessedAt
           /\ profile'.lastProcessedAt \in Nat
           /\ Owed # {} => ~Summarizer(p)
  <2> SUFFICES ASSUME ~profileTold'.broken, ~profileTold'.setBack, Owed' # {}
               PROVE  \E q \in Pass : Summarizer(q)'
    BY DEF LeftoverCarried
  <2>1. PICK q \in Pass : Summarizer(q)
    BY <1>5 DEF CarriedInv, LeftoverCarried
  <2>2. q # p
    BY <1>5, <2>1
  <2>3. pass'[q] = pass[q] /\ followUp'[q] = followUp[q] /\ pass[q] \in PassRecord
    BY <1>1, <1>2, <2>2
  <2>4. pass[q].since \in Nat /\ profile.lastProcessedAt \in Nat
    BY <2>3, ProfileAssumption DEF PassRecord, ProfileRow, Mark
  <2>5. pass[q].delta # {} => MarkOf(pass[q]) \in Nat
    <3>1. pass[q].delta \subseteq 1..messages
      BY DEF PassInv
    <3> QED
      BY <3>1, MarkOfDelta
  <2>6. WillSummarize(pass[q], followUp[q], needsRefresh, profile.lastProcessedAt)
    BY <2>1 DEF Summarizer
  <2>7. WillSummarize(pass[q], followUp[q], needsRefresh, profile'.lastProcessedAt)
    BY <1>5, <2>4, <2>5, <2>6 DEF WillSummarize
  <2> QED
    BY <1>5, <2>3, <2>7 DEF Summarizer
<1> QED
  BY <1>3, <1>4, <1>5

LEMMA IdlePass ==
  ASSUME CarriedInv, NEW p \in Pass, pass[p].pc \in PassWork \cup ToolWork \cup {"none"}
  PROVE  followUp[p] = "none"
BY DEF CarriedInv, HandlerFirst

LEMMA RememberCarries == ASSUME MarkInv, CarriedInv, NEW p \in Pass, Remember(p) PROVE CarriedInv'
<1> USE ProfileTyped
<1> DEFINE r == [pass[p] EXCEPT !.pc = "load", !.tool = TRUE]
<1>1. pass[p].pc = "none" /\ pass[p] \in PassRecord /\ pass[p].read = {} /\ followUp[p] = "none"
  BY IdlePass DEF Remember, CarriedInv, ToolPasses
<1>2. pass' = [pass EXCEPT ![p] = r] /\ followUp' = [followUp EXCEPT ![p] = "none"]
  BY <1>1 DEF Remember
<1>3. r \in PassRecord /\ r.pc = "load" /\ r.tool = TRUE /\ r.read = {}
  <2>1. "load" \in PassPc
    BY DEF PassPc, PassWork
  <2> QED
    BY <1>1, <2>1 DEF PassRecord
<1> HIDE DEF r
<1>4. /\ profileTold'.considered = profileTold.considered /\ profileTold'.trimmed = profileTold.trimmed
      /\ profileTold'.broken = profileTold.broken /\ profileTold'.setBack = profileTold.setBack
  BY DEF Remember, ToldRecord
<1>5. LeftoverCarried'
  BY <1>2, <1>3, <1>4, OwedStays DEF WillSummarize, FollowUps
<1>6. Entries' = Entries
  BY DEF Remember, Entries
<1>7. \A m : ~WillReconsider(pass[p], m)
  BY <1>1 DEF WillReconsider
<1>8. "none" \in FollowUps /\ "load" \in PassWork /\ deletion' = deletion
  BY DEF FollowUps, PassWork, Remember
<1> QED
  BY <1>2, <1>3, <1>4, <1>5, <1>6, <1>7, <1>8, OneMoves

LEMMA ReadReconsiderCarries ==
  ASSUME MarkInv, CarriedInv, NEW p \in Pass, ReadReconsider(p) PROVE CarriedInv'
<1> USE ProfileTyped
<1> DEFINE r == [pass[p] EXCEPT !.pc = "load", !.read = Entries]
<1>1. pass[p].pc = "queued" /\ pass[p] \in PassRecord /\ followUp[p] = "none" /\ pass[p].tool = FALSE
  BY DEF ReadReconsider, CarriedInv, ToolPasses, PassWork, ToolWork, PassRecord
<1>2. pass' = [pass EXCEPT ![p] = r] /\ followUp' = [followUp EXCEPT ![p] = "none"]
  BY <1>1 DEF ReadReconsider, Entries
<1>3. r \in PassRecord /\ r.pc = "load" /\ r.tool = FALSE /\ r.read = Entries
  <2>1. "load" \in PassPc /\ Entries \in SUBSET Message
    BY DEF PassPc, PassWork
  <2> QED
    BY <1>1, <2>1 DEF PassRecord
<1> HIDE DEF r
<1>4. "none" \in FollowUps /\ UNCHANGED <<deletion, profileTold, reconsider>>
  BY DEF FollowUps, ReadReconsider
<1>5. LeftoverCarried'
  BY <1>2, <1>3, <1>4, OwedStays DEF WillSummarize
<1>6. Entries' = Entries
  BY <1>4 DEF Entries
<1>7. \A m : m \in Entries \/ Decided(m) => WillReconsider(r, m) \/ Decided(m)'
  BY <1>3, <1>4 DEF WillReconsider, Decided
<1> QED
  BY <1>2, <1>3, <1>4, <1>5, <1>6, <1>7, OneMoves

LEMMA LoadCarries == ASSUME MarkInv, CarriedInv, NEW p \in Pass, LoadProfile(p) PROVE CarriedInv'
<1> USE ProfileTyped
<1> DEFINE r == [pass[p] EXCEPT !.pc = "delta", !.since = profile.lastProcessedAt, !.base = profile.sections]
<1>1. pass[p].pc = "load" /\ pass[p] \in PassRecord /\ followUp[p] = "none"
  BY IdlePass DEF LoadProfile, PassWork
<1>2. pass' = [pass EXCEPT ![p] = r] /\ followUp' = [followUp EXCEPT ![p] = "none"]
  BY <1>1 DEF LoadProfile
<1>3. profile.lastProcessedAt \in Mark /\ profile.lastProcessedAt \in Nat /\ profile.sections \in SUBSET Message
  BY ProfileAssumption DEF ProfileRow, Mark
<1>4. /\ r \in PassRecord /\ r.pc = "delta" /\ r.tool = pass[p].tool /\ r.read = pass[p].read
      /\ r.since = profile.lastProcessedAt
  <2>1. "delta" \in PassPc
    BY DEF PassPc, PassWork
  <2> QED
    BY <1>1, <1>3, <2>1 DEF PassRecord
<1> HIDE DEF r
<1>5. "none" \in FollowUps /\ "delta" \in PassWork /\ UNCHANGED <<deletion, profileTold, reconsider, profile>>
  BY DEF FollowUps, LoadProfile, PassWork
<1>6. LeftoverCarried'
  <2>1. r.since <= profile'.lastProcessedAt
    BY <1>3, <1>4, <1>5
  <2>2. WillSummarize(r, "none", needsRefresh', profile'.lastProcessedAt)
    BY <1>4, <2>1 DEF WillSummarize
  <2> QED
    BY <1>2, <1>4, <1>5, <2>2, OwedStays
<1>7. Entries' = Entries
  BY <1>5 DEF Entries
<1>8. \A m : WillReconsider(pass[p], m) => WillReconsider(r, m)
  BY <1>1, <1>4 DEF WillReconsider
<1>9. r.tool => r.read = {}
  BY <1>4 DEF CarriedInv, ToolPasses
<1> QED
  BY <1>2, <1>4, <1>5, <1>6, <1>7, <1>8, <1>9, OneMoves

LEMMA ReadDeltaCarries == ASSUME MarkInv, CarriedInv, NEW p \in Pass, ReadDelta(p) PROVE CarriedInv'
<1> USE ProfileTyped
<1> DEFINE d == DeltaSince(pass[p].since)
           a == IF d = {} /\ pass[p].read = {} THEN AfterSummary(p) ELSE "check"
           r == [pass[p] EXCEPT !.delta = d, !.pc = a]
<1>1. /\ pass[p].pc = "delta" /\ pass[p] \in PassRecord /\ followUp[p] = "none"
      /\ pass[p].tool => pass[p].read = {}
  BY IdlePass DEF ReadDelta, PassWork, CarriedInv, ToolPasses
<1>2. pass' = [pass EXCEPT ![p] = r] /\ followUp' = [followUp EXCEPT ![p] = "none"]
  BY <1>1 DEF ReadDelta
<1>3. d \in SUBSET Message
  BY DeltaIsLive DEF MarkInv
<1>4. /\ d = {} /\ pass[p].read = {} =>
            a \in {"reschedule", "consume"} /\ (a = "reschedule" => pass[p].tool)
      /\ d # {} \/ pass[p].read # {} => a = "check"
      /\ a \in {"reschedule", "consume", "check"}
  BY DEF AfterSummary
<1> HIDE DEF a, d
<1>5. /\ r \in PassRecord /\ r.pc = a /\ r.tool = pass[p].tool /\ r.read = pass[p].read
      /\ r.delta = d
  <2>1. a \in PassPc
    BY <1>4 DEF PassPc, PassWork, ToolWork
  <2> QED
    BY <1>1, <1>3, <2>1 DEF PassRecord
<1> HIDE DEF r
<1>6. /\ "none" \in FollowUps /\ a \in PassWork \cup ToolWork
      /\ UNCHANGED <<deletion, profileTold, reconsider, profile, messages, gone, needsRefresh>>
  BY <1>4 DEF FollowUps, ReadDelta, PassWork, ToolWork
<1>7. profile.lastProcessedAt \in Nat /\ pass[p].since \in Nat
  BY <1>1, ProfileAssumption DEF ProfileRow, PassRecord, Mark
<1>8. CASE d # {}
  <2>1. WillSummarize(r, "none", needsRefresh', profile'.lastProcessedAt)
    BY <1>4, <1>5, <1>8 DEF WillSummarize
  <2> QED
    <3>1. LeftoverCarried'
      BY <1>2, <1>5, <1>6, <2>1, OwedStays
    <3>2. Entries' = Entries
      BY <1>6 DEF Entries
    <3>3. \A m : WillReconsider(pass[p], m) => WillReconsider(r, m)
      BY <1>1, <1>4, <1>5, <1>8 DEF WillReconsider
    <3> QED
      BY <1>1, <1>2, <1>4, <1>5, <1>6, <1>8, <3>1, <3>2, <3>3, OneMoves
<1>9. CASE d = {}
  <2>1. Owed # {} => ~Summarizer(p)
    <3> SUFFICES ASSUME Owed # {}, Summarizer(p) PROVE FALSE
      OBVIOUS
    <3>1. pass[p].since <= profile.lastProcessedAt
      BY <1>1 DEF Summarizer, WillSummarize
    <3>2. Live(pass[p].since) # {}
      BY <1>7, <3>1 DEF Owed, Live
    <3> QED
      BY <1>7, <1>9, <3>2, DeltaReads DEF d, MarkInv
  <2>2. Owed' = Owed
    BY <1>6 DEF Owed, Live
  <2>3. LeftoverCarried'
    <3>1. /\ Owed' \subseteq Owed /\ needsRefresh' = needsRefresh
          /\ profile.lastProcessedAt <= profile'.lastProcessedAt /\ profile'.lastProcessedAt \in Nat
          /\ profileTold' = profileTold
      BY <1>6, <1>7, <2>2
    <3> QED
      BY <1>2, <1>5, <1>6, <2>1, <3>1, OwedStays
  <2>4. Entries' = Entries
    BY <1>6 DEF Entries
  <2>5. \A m : WillReconsider(pass[p], m) => WillReconsider(r, m)
    BY <1>1, <1>4, <1>5 DEF WillReconsider
  <2>6. a = "consume" => pass[p].read = {}
    BY <1>4
  <2> QED
    BY <1>1, <1>2, <1>4, <1>5, <1>6, <2>3, <2>4, <2>5, <2>6, OneMoves
<1> QED
  BY <1>8, <1>9

LEMMA CheckCarries == ASSUME MarkInv, CarriedInv, NEW p \in Pass, CheckStale(p) PROVE CarriedInv'
<1> USE ProfileTyped
<1>1. /\ pass[p].pc = "check" /\ pass[p] \in PassRecord /\ followUp[p] = "none"
      /\ pass[p].tool => pass[p].read = {}
  BY IdlePass DEF CheckStale, PassWork, CarriedInv, ToolPasses
<1>2. profileTold' = [profileTold EXCEPT !.considered = @ \cup pass[p].read]
  BY DEF CheckStale
<1>3. /\ profileTold'.considered = profileTold.considered \cup pass[p].read
      /\ profileTold'.trimmed = profileTold.trimmed /\ profileTold'.broken = profileTold.broken
      /\ profileTold'.setBack = profileTold.setBack /\ profileTold'.leftover = profileTold.leftover
  BY <1>2 DEF ToldRecord
<1>4. /\ "none" \in FollowUps /\ followUp' = [followUp EXCEPT ![p] = "none"]
      /\ UNCHANGED <<deletion, reconsider, profile, messages, gone, needsRefresh>>
  BY <1>1 DEF FollowUps, CheckStale
<1>5. profile.lastProcessedAt \in Nat /\ PassMark(p) \in Nat /\ PassMark(p) = MarkOf(pass[p])
  BY <1>1, ProfileAssumption, PassMarkReached, PassMarkIs DEF ProfileRow, Mark
<1>6. Entries' = Entries /\ Owed' = Owed
  BY <1>3, <1>4 DEF Entries, Owed, Live
<1>7. \A m : WillReconsider(pass[p], m) => Decided(m)'
  BY <1>1, <1>3 DEF WillReconsider, Decided
<1>8. Summarizer(p) => pass[p].delta # {}
  BY <1>1 DEF Summarizer, WillSummarize
<1>9. ASSUME NEW r \in PassRecord, pass' = [pass EXCEPT ![p] = r],
             r.delta = pass[p].delta, r.read = pass[p].read, r.tool = pass[p].tool,
             r.pc \in {"write", "consume", "reschedule"}, r.pc = "reschedule" => pass[p].tool,
             r.pc = "consume" => r.since = pass[p].since /\ profile.lastProcessedAt > PassMark(p)
      PROVE  CarriedInv'
  <2>1. r.delta # {} => WillSummarize(r, "none", needsRefresh', profile'.lastProcessedAt)
    <3>1. r.delta # {} => MarkOf(r) = MarkOf(pass[p])
      BY <1>9, SameMark
    <3> QED
      BY <1>4, <1>5, <1>9, <3>1 DEF WillSummarize
  <2>2. LeftoverCarried'
    <3>1. /\ Owed' \subseteq Owed /\ needsRefresh' = needsRefresh
          /\ profile.lastProcessedAt <= profile'.lastProcessedAt /\ profile'.lastProcessedAt \in Nat
      BY <1>4, <1>5, <1>6
    <3>2. WillSummarize(r, "none", needsRefresh', profile'.lastProcessedAt) \/ ~Summarizer(p)
      BY <1>8, <1>9, <2>1
    <3> QED
      BY <1>3, <1>4, <1>9, <3>1, <3>2, OwedStays
  <2>3. r.pc \in PassWork \cup ToolWork /\ r.pc # "none"
    BY <1>9 DEF PassWork, ToolWork
  <2> QED
    BY <1>1, <1>3, <1>4, <1>6, <1>7, <1>9, <2>2, <2>3, OneMoves
<1>10. CASE SummaryEnds(p) /\ profile.lastProcessedAt > PassMark(p)
  <2>1. PICK r \in PassRecord :
            /\ pass' = [pass EXCEPT ![p] = r]
            /\ r.pc = AfterSummary(p) /\ r.pc \in {"reschedule", "consume"}
            /\ r.since = pass[p].since /\ r.delta = pass[p].delta /\ r.read = pass[p].read
            /\ r.tool = pass[p].tool
    BY <1>10, EndsInv
  <2>2. r.pc = "reschedule" => pass[p].tool
    BY <2>1 DEF AfterSummary
  <2> QED
    BY <1>9, <1>10, <2>1, <2>2
<1>11. CASE PassAt(p, "write")
  <2> DEFINE r == [pass[p] EXCEPT !.pc = "write"]
  <2>1. pass' = [pass EXCEPT ![p] = r]
    BY <1>11 DEF PassAt
  <2>2. "write" \in PassPc
    BY DEF PassPc, PassWork
  <2>3. r \in PassRecord /\ r.pc = "write" /\ r.delta = pass[p].delta /\ r.read = pass[p].read /\ r.tool = pass[p].tool
    BY <1>1, <2>2 DEF PassRecord
  <2> HIDE DEF r
  <2> QED
    BY <1>9, <2>1, <2>3
<1> QED
  BY <1>10, <1>11 DEF CheckStale

LEMMA WriteCarries == ASSUME MarkInv, CarriedInv, NEW p \in Pass, WriteProfile(p) PROVE CarriedInv'
<1> USE ProfileTyped
<1>1. /\ pass[p].pc = "write" /\ pass[p] \in PassRecord /\ followUp[p] = "none"
      /\ pass[p].tool => pass[p].read = {}
      /\ pass[p].read \subseteq profileTold.considered
  BY IdlePass DEF WriteProfile, PassWork, CarriedInv, ToolPasses, EntriesKept
<1>2. PICK r \in PassRecord :
            /\ pass' = [pass EXCEPT ![p] = r]
            /\ r.pc = AfterSummary(p) /\ r.pc \in {"reschedule", "consume"}
            /\ r.since = pass[p].since /\ r.delta = pass[p].delta /\ r.read = pass[p].read
            /\ r.tool = pass[p].tool
  BY EndsInv DEF WriteProfile
<1>3. r.pc = "reschedule" => r.tool
  BY <1>2 DEF AfterSummary
<1> DEFINE back == profileTold.setBack \/ (pass[p].delta = {} /\ profile.lastProcessedAt > PassMark(p))
<1>4. profileTold' = [profileTold EXCEPT !.setBack = back]
  BY DEF WriteProfile
<1>5. back <=> profileTold.setBack \/ (pass[p].delta = {} /\ profile.lastProcessedAt > PassMark(p))
  OBVIOUS
<1> HIDE DEF back
<1>6. /\ profileTold'.considered = profileTold.considered /\ profileTold'.trimmed = profileTold.trimmed
      /\ profileTold'.broken = profileTold.broken /\ profileTold'.leftover = profileTold.leftover
      /\ profileTold'.setBack = back
  BY <1>4 DEF ToldRecord
<1>7. /\ "none" \in FollowUps /\ followUp' = [followUp EXCEPT ![p] = "none"]
      /\ UNCHANGED <<deletion, reconsider, messages, gone, needsRefresh>>
      /\ r.pc \in PassWork \cup ToolWork
  BY <1>1, <1>2 DEF FollowUps, WriteProfile, PassWork, ToolWork
<1>8. profile.lastProcessedAt \in Nat /\ PassMark(p) \in Nat /\ PassMark(p) = MarkOf(pass[p])
  BY <1>1, ProfileAssumption, PassMarkReached, PassMarkIs DEF ProfileRow, Mark
<1>9. profile'.lastProcessedAt = PassMark(p)
  BY DEF WriteProfile, ProfileRow
<1>10. LeftoverCarried'
  <2>1. CASE pass[p].delta # {}
    <3>1. MarkOf(r) = PassMark(p)
      BY <1>2, <1>8, SameMark
    <3>2. WillSummarize(r, "none", needsRefresh', profile'.lastProcessedAt)
      BY <1>2, <1>8, <1>9, <2>1, <3>1 DEF WillSummarize
    <3> QED
      BY <1>2, <1>5, <1>6, <1>7, <3>2, OwedStays
  <2>2. CASE pass[p].delta = {} /\ profile.lastProcessedAt <= PassMark(p)
    <3>1. Owed' \subseteq Owed
      BY <1>6, <1>7, <1>8, <1>9, <2>2 DEF Owed, Live
    <3>2. ~Summarizer(p)
      BY <1>1, <2>2 DEF Summarizer, WillSummarize
    <3>3. profile.lastProcessedAt <= profile'.lastProcessedAt /\ profile'.lastProcessedAt \in Nat
      BY <1>8, <1>9, <2>2
    <3> QED
      BY <1>2, <1>5, <1>6, <1>7, <3>1, <3>2, <3>3, OwedStays
  <2>3. CASE pass[p].delta = {} /\ profile.lastProcessedAt > PassMark(p)
    <3>1. profileTold'.setBack
      BY <1>5, <1>6, <2>3
    <3> QED
      BY <3>1 DEF LeftoverCarried
  <2> QED
    BY <1>8, <2>1, <2>2, <2>3
<1>11. Entries' = Entries
  BY <1>7 DEF Entries
<1>12. \A m : ~WillReconsider(pass[p], m)
  BY <1>1 DEF WillReconsider
<1> QED
  BY <1>1, <1>2, <1>3, <1>6, <1>7, <1>10, <1>11, <1>12, OneMoves

LEMMA ConsumeCarries ==
  ASSUME MarkInv, CarriedInv, NEW p \in Pass, ConsumeReconsider(p) PROVE CarriedInv'
<1> USE ProfileTyped
<1>1. /\ pass[p].pc = "consume" /\ pass[p] \in PassRecord /\ followUp[p] = "none"
      /\ pass[p].tool => pass[p].read = {}
      /\ pass[p].read \subseteq profileTold.considered
  BY IdlePass DEF ConsumeReconsider, PassWork, CarriedInv, ToolPasses, EntriesKept
<1>2. /\ "none" \in FollowUps /\ followUp' = [followUp EXCEPT ![p] = "none"]
      /\ UNCHANGED <<deletion, messages, gone, needsRefresh, profile, profileTold>>
  BY <1>1 DEF FollowUps, ConsumeReconsider
<1>3. Owed' = Owed
  BY <1>2 DEF Owed, Live
<1>4. \A m : ~WillReconsider(pass[p], m)
  BY <1>1 DEF WillReconsider
<1>5. profile.lastProcessedAt \in Nat
  BY ProfileAssumption DEF ProfileRow, Mark
<1>6. ASSUME NEW r \in PassRecord, pass' = [pass EXCEPT ![p] = r], r.pc \in {"get", "consume"},
             r.delta = pass[p].delta, r.delta = {} => r.since \in Nat,
             r.tool = pass[p].tool, r.read \subseteq pass[p].read,
             \A m \in Entries : m \in Entries' \/ Decided(m)'
      PROVE  CarriedInv'
  <2>1. Summarizer(p) => WillSummarize(r, "none", needsRefresh', profile'.lastProcessedAt)
    <3>1. r.delta # {} => MarkOf(r) = MarkOf(pass[p])
      BY <1>6, SameMark
    <3> QED
      BY <1>1, <1>2, <1>6, <3>1 DEF Summarizer, WillSummarize
  <2>2. /\ Owed' \subseteq Owed /\ needsRefresh' = needsRefresh
        /\ profile.lastProcessedAt <= profile'.lastProcessedAt /\ profile'.lastProcessedAt \in Nat
    BY <1>2, <1>3, <1>5
  <2>3. LeftoverCarried'
    BY <1>2, <1>6, <2>1, <2>2, OwedStays
  <2>4. r.pc \in PassWork \cup ToolWork
    BY <1>6 DEF PassWork
  <2> QED
    BY <1>1, <1>2, <1>4, <1>6, <2>3, <2>4, OneMoves
<1>7. CASE /\ pass' = [pass EXCEPT ![p].pc = "get", ![p].base = {}, ![p].since = 0]
           /\ UNCHANGED reconsider
  <2> DEFINE r == [pass[p] EXCEPT !.pc = "get", !.base = {}, !.since = 0]
  <2>1. pass' = [pass EXCEPT ![p] = r]
    BY <1>7
  <2>2. 0 \in Mark /\ "get" \in PassPc
    BY ProfileAssumption DEF Mark, PassPc, PassWork
  <2>3. r \in PassRecord /\ r.pc = "get" /\ r.since = 0 /\ r.delta = pass[p].delta
        /\ r.read = pass[p].read /\ r.tool = pass[p].tool
    BY <1>1, <2>2 DEF PassRecord
  <2>4. \A n \in Entries : n \in Entries'
    BY <1>7 DEF Entries
  <2> HIDE DEF r
  <2>5. r.pc \in {"get", "consume"} /\ r.since \in Nat /\ r.read \subseteq pass[p].read
    BY <2>3
  <2> QED
    BY <1>6, <2>1, <2>3, <2>4, <2>5
<1>8. ASSUME NEW m \in pass[p].read, pass' = [pass EXCEPT ![p].read = @ \ {m}], RemoveEntry(m)
      PROVE  CarriedInv'
  <2> DEFINE r == [pass[p] EXCEPT !.read = @ \ {m}]
  <2>1. pass' = [pass EXCEPT ![p] = r]
    BY <1>8
  <2>2. r \in PassRecord /\ r.pc = "consume" /\ r.since = pass[p].since /\ r.delta = pass[p].delta
        /\ r.read \subseteq pass[p].read /\ r.tool = pass[p].tool
    BY <1>1 DEF PassRecord
  <2> HIDE DEF r
  <2>3. Entries \ {m} \subseteq Entries'
    BY <1>8, RemoveEntryKeeps
  <2>4. Decided(m)'
    BY <1>1, <1>2, <1>8 DEF Decided
  <2>5. \A n \in Entries : n \in Entries' \/ Decided(n)'
    BY <2>3, <2>4
  <2>6. r.since \in Nat
    BY <1>1, <2>2, ProfileAssumption DEF PassRecord, Mark
  <2> QED
    BY <1>6, <2>1, <2>2, <2>5, <2>6
<1> QED
  BY <1>7, <1>8 DEF ConsumeReconsider

\* The steps after the summary: they read and set flags, and let the pass end.
LEMMA FlagStep ==
  ASSUME MarkInv, CarriedInv, NEW p \in Pass, NEW r \in PassRecord, NEW h \in FollowUps,
         pass' = [pass EXCEPT ![p] = r], followUp' = [followUp EXCEPT ![p] = h],
         pass[p].pc \in {"get", "del", "leftover", "flag"},
         UNCHANGED <<deletion, reconsider, messages, gone, profile>>,
         profileTold'.considered = profileTold.considered, profileTold'.trimmed = profileTold.trimmed,
         profileTold'.broken = profileTold.broken,
         \/ r.pc \in {"del", "leftover", "flag"} /\ r.tool = pass[p].tool /\ r.read = pass[p].read /\ h = "none"
         \/ r = Over,
         LeftoverCarried'
  PROVE  CarriedInv'
<1> USE ProfileTyped
<1>1. \A m : ~WillReconsider(pass[p], m)
  BY DEF WillReconsider
<1>2. Entries' = Entries
  BY DEF Entries
<1>3. Over.pc = "over" /\ Over.tool = FALSE
  BY DEF Over, NoPass
<1>4. pass[p].tool => pass[p].read = {}
  BY DEF CarriedInv, ToolPasses
<1>5. r.pc \in {"del", "leftover", "flag", "over"} /\ (r.tool => r.pc # "over")
  BY <1>3
<1>6. /\ r.pc \in PassWork \cup ToolWork \cup {"none"} => h = "none"
      /\ r.tool => r.pc \in PassWork \cup ToolWork
      /\ r.tool \/ r.pc = "none" => r.read = {}
      /\ r.pc = "reschedule" => r.tool
      /\ ~(r.pc \in {"write", "consume"})
  BY <1>3, <1>4, <1>5 DEF PassWork, ToolWork
<1> QED
  BY <1>1, <1>2, <1>6, OneMoves

LEMMA FlagCarries ==
  ASSUME MarkInv, CarriedInv, NEW p \in Pass,
         GetFlag(p) \/ DelFlag(p) \/ ReadLeftover(p) \/ SetFlag(p)
  PROVE  CarriedInv'
<1> USE ProfileTyped
<1>1. /\ pass[p].pc \in {"get", "del", "leftover", "flag"} /\ pass[p] \in PassRecord
      /\ followUp[p] = "none" /\ followUp[p] \in FollowUps
      /\ UNCHANGED <<deletion, reconsider, messages, gone, profile>>
  BY IdlePass DEF GetFlag, DelFlag, ReadLeftover, SetFlag, PassWork
<1>2. /\ profileTold'.considered = profileTold.considered /\ profileTold'.trimmed = profileTold.trimmed
      /\ profileTold'.broken = profileTold.broken /\ profileTold'.setBack = profileTold.setBack
      /\ profileTold'.leftover \in {profileTold.leftover, messages}
  BY DEF GetFlag, DelFlag, ReadLeftover, SetFlag, ToldRecord
<1>3. /\ profile.lastProcessedAt \in Nat /\ profile.lastProcessedAt <= profile'.lastProcessedAt
      /\ profile'.lastProcessedAt \in Nat
  BY <1>1, ProfileAssumption DEF ProfileRow, Mark
<1>4. {"none", "get"} \subseteq FollowUps /\ Over \in PassRecord
  BY NewPasses DEF FollowUps
<1>5. ASSUME NEW a \in {"del", "leftover", "flag"}, PassAt(p, a), UNCHANGED followUp,
             a = "leftover" => /\ pass[p].pc = "get" /\ pass[p].delta # {}
                               /\ UNCHANGED <<needsRefresh, profileTold>>
      PROVE  CarriedInv'
  <2> DEFINE r == [pass[p] EXCEPT !.pc = a]
  <2>1. pass' = [pass EXCEPT ![p] = r] /\ followUp' = [followUp EXCEPT ![p] = "none"]
    BY <1>1, <1>5 DEF PassAt
  <2>2. a \in PassPc
    BY DEF PassPc, PassWork
  <2>3. r \in PassRecord /\ r.pc = a /\ r.delta = pass[p].delta /\ r.read = pass[p].read /\ r.tool = pass[p].tool
        /\ r.since = pass[p].since
    BY <1>1, <2>2 DEF PassRecord
  <2> HIDE DEF r
  <2>4. LeftoverCarried'
    <3>1. CASE a # "leftover"
      <4>1. WillSummarize(r, "none", needsRefresh', profile'.lastProcessedAt)
        BY <2>3, <3>1 DEF WillSummarize
      <4> QED
        BY <1>2, <1>4, <2>1, <2>3, <4>1, OwedStays
    <3>2. CASE a = "leftover"
      <4>1. Owed' = Owed
        BY <1>1, <1>5, <3>2 DEF Owed, Live
      <4>2. MarkOf(r) = MarkOf(pass[p])
        BY <2>3, SameMark
      <4>3. Summarizer(p) => WillSummarize(r, "none", needsRefresh', profile'.lastProcessedAt)
        BY <1>1, <1>5, <2>3, <3>2, <4>2 DEF Summarizer, WillSummarize
      <4> QED
        BY <1>2, <1>3, <1>4, <1>5, <2>1, <2>3, <3>2, <4>1, <4>3, OwedStays, ZenonT(60)
    <3> QED
      BY <3>1, <3>2
  <2> QED
    BY <1>1, <1>2, <1>4, <2>1, <2>3, <2>4, FlagStep
<1>6. ASSUME PassEnds(p),
             \/ needsRefresh' = TRUE
             \/ UNCHANGED <<needsRefresh, profileTold>> /\ (Owed # {} => ~Summarizer(p))
      PROVE  CarriedInv'
  <2>1. pass' = [pass EXCEPT ![p] = Over] /\ followUp' = [followUp EXCEPT ![p] = "get"]
    BY <1>6 DEF PassEnds
  <2>2. LeftoverCarried'
    <3>1. CASE needsRefresh' = TRUE
      <4>1. WillSummarize(Over, "get", needsRefresh', profile'.lastProcessedAt)
        BY <3>1 DEF WillSummarize
      <4> QED
        BY <1>2, <1>4, <2>1, <4>1, OwedStays
    <3>2. CASE UNCHANGED <<needsRefresh, profileTold>> /\ (Owed # {} => ~Summarizer(p))
      <4>1. Owed' = Owed
        BY <1>1, <3>2 DEF Owed, Live
      <4> QED
        BY <1>2, <1>3, <1>4, <2>1, <3>2, <4>1, OwedStays
    <3> QED
      BY <1>6, <3>1, <3>2
  <2> QED
    BY <1>1, <1>2, <1>4, <2>1, <2>2, FlagStep
<1>7. CASE GetFlag(p)
  <2>1. pass[p].pc = "get" /\ UNCHANGED <<needsRefresh, profileTold>>
    BY <1>7 DEF GetFlag
  <2>2. CASE PassAt(p, "del") /\ UNCHANGED followUp
    BY <1>5, <2>2
  <2>3. CASE pass[p].delta # {} /\ PassAt(p, "leftover") /\ UNCHANGED followUp
    BY <1>5, <2>1, <2>3
  <2>4. CASE pass[p].delta = {} /\ PassEnds(p)
    <3>1. ~Summarizer(p)
      BY <1>1, <2>1, <2>4 DEF Summarizer, WillSummarize
    <3> QED
      BY <1>6, <2>1, <2>4, <3>1
  <2> QED
    BY <1>7, <2>2, <2>3, <2>4 DEF GetFlag
<1>8. CASE DelFlag(p)
  BY <1>5, <1>8 DEF DelFlag
<1>9. CASE ReadLeftover(p)
  <2>1. pass[p].pc = "leftover" /\ UNCHANGED needsRefresh
    BY <1>9 DEF ReadLeftover
  <2>2. CASE PassAt(p, "flag") /\ UNCHANGED followUp
    BY <1>5, <2>2
  <2>3. CASE Live(PassMark(p)) = {} /\ PassEnds(p) /\ UNCHANGED profileTold
    <3>1. Owed # {} => ~Summarizer(p)
      <4> SUFFICES ASSUME Owed # {}, Summarizer(p) PROVE FALSE
        OBVIOUS
      <4>1. MarkOf(pass[p]) <= profile.lastProcessedAt
        BY <1>1, <2>1 DEF Summarizer, WillSummarize
      <4>2. PassMark(p) \in Nat /\ PassMark(p) <= profile.lastProcessedAt
        BY <4>1, PassMarkIs, PassMarkReached, ProfileAssumption DEF Mark
      <4>3. Owed \subseteq Live(PassMark(p))
        BY <1>3, <4>2 DEF Owed, Live
      <4> QED
        BY <2>3, <4>3
    <3> QED
      BY <1>6, <2>1, <2>3, <3>1
  <2> QED
    BY <1>9, <2>2, <2>3 DEF ReadLeftover
<1>10. CASE SetFlag(p)
  BY <1>6, <1>10 DEF SetFlag
<1> QED
  BY <1>7, <1>8, <1>9, <1>10

LEMMA FollowUpCarries ==
  ASSUME MarkInv, CarriedInv, NEW p \in Pass, FollowUpGets(p) \/ FollowUpDels(p) \/ FollowUpLost(p)
  PROVE  CarriedInv'
<1> USE ProfileTyped
<1>1. /\ pass' = [pass EXCEPT ![p] = pass[p]] /\ pass[p] \in PassRecord /\ followUp[p] # "none"
      /\ UNCHANGED <<deletion, reconsider, messages, gone, profile>>
  BY DEF FollowUpGets, FollowUpDels, FollowUpLost
<1>2. ~(pass[p].pc \in PassWork \cup ToolWork \cup {"none"})
  BY <1>1, IdlePass
<1>3. profile.lastProcessedAt \in Nat
  BY ProfileAssumption DEF ProfileRow, Mark
<1>4. ASSUME NEW h \in FollowUps, FollowUpAt(p, h),
             profileTold'.considered = profileTold.considered, profileTold'.trimmed = profileTold.trimmed,
             profileTold.broken => profileTold'.broken, LeftoverCarried'
      PROVE  CarriedInv'
  <2>1. followUp' = [followUp EXCEPT ![p] = h]
    BY <1>4 DEF FollowUpAt
  <2>2. Entries' = Entries
    BY <1>1 DEF Entries
  <2>3. \A m : WillReconsider(pass[p], m) => WillReconsider(pass[p], m)
    OBVIOUS
  <2>4. /\ pass[p].tool => pass[p].pc \in PassWork \cup ToolWork
        /\ pass[p].tool \/ pass[p].pc = "none" => pass[p].read = {}
        /\ pass[p].pc = "reschedule" => pass[p].tool
        /\ pass[p].pc \in {"write", "consume"} => pass[p].read \subseteq profileTold'.considered
    BY <1>4 DEF CarriedInv, ToolPasses, EntriesKept
  <2>5. profileTold.considered \subseteq profileTold'.considered /\ profileTold.trimmed \subseteq profileTold'.trimmed
    BY <1>4
  <2> QED
    BY <1>1, <1>2, <1>4, <2>1, <2>2, <2>4, <2>5, OneMoves
<1>5. CASE FollowUpGets(p)
  <2>1. UNCHANGED <<needsRefresh, profileTold>> /\ followUp[p] = "get"
    BY <1>5 DEF FollowUpGets
  <2>2. CASE needsRefresh
    <3>1. FollowUpAt(p, "del") /\ "del" \in FollowUps
      BY <1>5, <2>2 DEF FollowUpGets, FollowUps
    <3>2. WillSummarize(pass[p], "del", needsRefresh', profile'.lastProcessedAt)
      BY DEF WillSummarize
    <3>3. LeftoverCarried'
      BY <1>1, <2>1, <3>1, <3>2, OwedStays DEF FollowUpAt
    <3> QED
      BY <1>4, <2>1, <3>1, <3>3
  <2>3. CASE ~needsRefresh
    <3>1. FollowUpAt(p, "none") /\ "none" \in FollowUps
      BY <1>5, <2>3 DEF FollowUpGets, FollowUps
    <3>2. Summarizer(p) => WillSummarize(pass[p], "none", needsRefresh', profile'.lastProcessedAt)
      BY <1>1, <2>1, <2>3 DEF Summarizer, WillSummarize
    <3>3. Owed' = Owed
      BY <1>1, <2>1 DEF Owed, Live
    <3>4. profile.lastProcessedAt <= profile'.lastProcessedAt /\ profile'.lastProcessedAt \in Nat
      BY <1>1, <1>3
    <3>5. LeftoverCarried'
      BY <1>1, <2>1, <3>1, <3>2, <3>3, <3>4, OwedStays DEF FollowUpAt
    <3> QED
      BY <1>4, <2>1, <3>1, <3>5
  <2> QED
    BY <2>2, <2>3
<1>6. CASE FollowUpDels(p)
  <2>1. UNCHANGED profileTold /\ FollowUpAt(p, "add") /\ "add" \in FollowUps
    BY <1>6 DEF FollowUpDels, FollowUps
  <2>2. WillSummarize(pass[p], "add", needsRefresh', profile'.lastProcessedAt)
    BY DEF WillSummarize
  <2>3. LeftoverCarried'
    BY <1>1, <2>1, <2>2, OwedStays DEF FollowUpAt
  <2> QED
    BY <1>4, <2>1, <2>3
<1>7. CASE FollowUpLost(p)
  <2>1. FollowUpAt(p, "none") /\ "none" \in FollowUps
    BY <1>7 DEF FollowUpLost, FollowUps
  <2>2. /\ profileTold'.considered = profileTold.considered /\ profileTold'.trimmed = profileTold.trimmed
        /\ profileTold'.broken
    BY <1>7, FaultTold DEF FollowUpLost
  <2>3. LeftoverCarried'
    BY <2>2 DEF LeftoverCarried
  <2> QED
    BY <1>4, <2>1, <2>2, <2>3
<1> QED
  BY <1>5, <1>6, <1>7

LEMMA FaultCarries ==
  ASSUME MarkInv, CarriedInv, NEW p \in Pass, PassThrows(p) \/ PassDies(p) \/ ToolThrows(p)
  PROVE  CarriedInv'
<1> USE ProfileTyped
<1> DEFINE New(a) == [NoPass EXCEPT !.pc = a]
<1>1. pass[p] \in PassRecord /\ pass[p].pc \in PassWork \cup ToolWork /\ followUp[p] = "none"
      /\ UNCHANGED <<deletion, reconsider, messages, gone, profile, needsRefresh>>
  BY IdlePass DEF PassThrows, PassDies, ToolThrows
<1>2. PICK h \in FollowUps : followUp' = [followUp EXCEPT ![p] = h]
  <2>1. followUp' = [followUp EXCEPT ![p] = "get"] \/ followUp' = [followUp EXCEPT ![p] = "none"]
    BY <1>1 DEF PassThrows, PassDies, ToolThrows, FollowUpAt
  <2> QED
    BY <2>1 DEF FollowUps
<1>3. \A a \in {"queued", "spent", "over"} : /\ New(a) \in PassRecord /\ New(a).pc = a
                                             /\ New(a).tool = FALSE /\ New(a).read = {}
  <2>1. NoPass \in PassRecord /\ NoPass.tool = FALSE /\ NoPass.read = {}
    BY NewPasses
  <2> QED
    BY <2>1 DEF PassRecord, PassPc
<1>4. Entries' = Entries
  BY <1>1 DEF Entries
<1>5. ASSUME NEW a \in {"queued", "spent", "over"}, pass' = [pass EXCEPT ![p] = New(a)],
             NEW loses \in BOOLEAN, Fault(loses), a # "queued" => loses = TRUE
      PROVE  CarriedInv'
  <2> DEFINE r == New(a)
  <2>1. r \in PassRecord /\ r.pc = a /\ r.tool = FALSE /\ r.read = {} /\ pass' = [pass EXCEPT ![p] = r]
    BY <1>3, <1>5
  <2> HIDE DEF r, New
  <2>2. /\ profileTold'.considered = profileTold.considered /\ profileTold'.trimmed = profileTold.trimmed
        /\ profileTold'.broken = (profileTold.broken \/ loses) /\ profileTold'.setBack = profileTold.setBack
    BY <1>5, FaultTold
  <2>3. a = "queued" \/ profileTold'.broken
    BY <1>5, <2>2
  <2>4. a = "queued" => WillSummarize(r, h, needsRefresh', profile'.lastProcessedAt)
    BY <2>1 DEF WillSummarize
  <2>5. LeftoverCarried'
    BY <1>2, <2>1, <2>2, <2>3, <2>4, OwedStays
  <2>6. ~profileTold'.broken => \A m : WillReconsider(r, m)
    BY <2>1, <2>3 DEF WillReconsider
  <2>7. r.pc \notin PassWork \cup ToolWork \cup {"none", "write", "consume", "reschedule"}
    BY <2>1 DEF PassWork, ToolWork
  <2> QED
    BY <1>1, <1>2, <1>4, <2>1, <2>2, <2>5, <2>6, <2>7, OneMoves
<1>6. CASE PassThrows(p) \/ PassDies(p)
  <2>1. Redelivered(p)
    BY <1>6 DEF PassThrows, PassDies
  <2>2. \/ pass' = [pass EXCEPT ![p] = New("queued")] /\ Fault(FALSE)
        \/ pass' = [pass EXCEPT ![p] = New("spent")] /\ Fault(TRUE)
    BY <2>1 DEF Redelivered
  <2> QED
    BY <1>5, <2>2
<1>7. CASE ToolThrows(p)
  <2>1. pass' = [pass EXCEPT ![p] = New("over")] /\ Fault(TRUE)
    BY <1>7 DEF ToolThrows, Over
  <2> QED
    BY <1>5, <2>1
<1> QED
  BY <1>6, <1>7

LEMMA CarriedSteps == MarkInv /\ CarriedInv /\ [ProfileNext]_profileVars => CarriedInv'
<1> SUFFICES ASSUME MarkInv, CarriedInv, [ProfileNext]_profileVars PROVE CarriedInv'
  OBVIOUS
<1>1. CASE UNCHANGED profileVars
  BY <1>1 DEF profileVars, CarriedInv, EntriesKept, DeletionsCarried, LeftoverCarried,
     HandlerFirst,
     ToolPasses, Entries, Decided, Owed, Live, Summarizer
<1> QED
  BY <1>1, MessageCarries, ResetCarries, ConversationCarries, AddingCarries, RememberCarries,
     ReadReconsiderCarries, LoadCarries, ReadDeltaCarries, CheckCarries, WriteCarries,
     ConsumeCarries, FlagCarries, FollowUpCarries, FaultCarries DEF ProfileNext

\* When no pass is queued or under way, every queued deletion has been reconsidered
\* or fell off the list, and what a pass left behind has been summarized, unless a
\* request was lost or a pass that only reconsidered overtook another: for any
\* number of passes, handlers, messages and faults.
THEOREM QuietAndDone == ProfileSpec => []QuietMeansDone
<1>1. ProfileInit => CarriedInv
  <2> SUFFICES ASSUME ProfileInit PROVE CarriedInv
    OBVIOUS
  <2>1. /\ \A p \in Pass : pass[p] = NoPass /\ followUp[p] = "none"
        /\ \A m \in Message : deletion[m] = "none"
        /\ messages = 0
    BY DEF ProfileInit
  <2>2. Owed = {}
    BY <2>1 DEF Owed, Live
  <2> QED
    BY <2>1, <2>2, NewPasses DEF CarriedInv, EntriesKept, DeletionsCarried, LeftoverCarried,
       HandlerFirst, ToolPasses
<1>2. MarkInv /\ CarriedInv => QuietMeansDone
  <2> SUFFICES ASSUME MarkInv, CarriedInv, ProfileQuiet, ~profileTold.broken, ~profileTold.setBack
               PROVE  /\ \A m \in Message : deletion[m] = "queued" =>
                                 m \in profileTold.considered \cup profileTold.trimmed
                      /\ \A m \in Live(profile.lastProcessedAt) : m > profileTold.leftover
    BY DEF QuietMeansDone
  <2>1. \A p \in Pass : ~Summarizer(p) /\ \A m : ~WillReconsider(pass[p], m)
    BY DEF ProfileQuiet, Summarizer, WillSummarize, WillReconsider
  <2>2. \A m \in Message : deletion[m] = "queued" => Decided(m)
    BY <2>1 DEF CarriedInv, DeletionsCarried
  <2>3. Owed = {}
    BY <2>1 DEF CarriedInv, LeftoverCarried
  <2>4. profileTold.leftover \in Nat /\ messages \in Nat
    BY ProfileTyped, ProfileAssumption DEF ToldRecord, Mark
  <2>5. \A m \in Live(profile.lastProcessedAt) : m > profileTold.leftover
    BY <2>3, <2>4 DEF Owed, Live
  <2> QED
    BY <2>2, <2>5 DEF Decided
<1> QED
  BY <1>1, <1>2, MarkInit, MarkSteps, CarriedSteps, PTL DEF ProfileSpec
=============================================================================
