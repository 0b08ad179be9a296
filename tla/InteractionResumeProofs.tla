----------------------- MODULE InteractionResumeProofs -----------------------
(***************************************************************************)
(* Theorems about InteractionResume for any requests and any number of       *)
(* resent calls: the types, that an interaction is answered once, that a      *)
(* settled one stays settled, that what is consumed or followed was queued,   *)
(* and that the session's lock is never left behind.                         *)
(***************************************************************************)
EXTENDS InteractionResume, TLAPS

-----------------------------------------------------------------------------
(* The inductive invariant.  A request that got through the claim, or whose   *)
(* job is stored, is engaged.  As long as no claim went back behind a stored  *)
(* job, an engaged request is bound to the record: the record is its own or   *)
(* nobody's any more, and so nobody else can claim and engage as well.        *)

Engaged(r) == pc[r] \in {"confirm", "add"} \/ added[r] > 0

Bound(r) ==
    \/ state \in {"absent", "expired"}
    \/ state \in {"claimed", "consumed"} /\ owner = r

Binding == ~reopened =>
    /\ \A r \in Request : Engaged(r) => Bound(r)
    /\ \A r, q \in Request : Engaged(r) /\ Engaged(q) => r = q

\* A record moves with its tombstone, which it may leave behind.
Marked ==
    /\ state # "absent" => tomb = state
    /\ tomb = "absent" => \A r \in Request : ~Engaged(r)

\* How far a request got tells what it may have left behind.
Progress(r) ==
    /\ done[r] <= added[r]
    /\ pc[r] \in {"look", "lock", "open", "read", "claim", "confirm", "busy"} => added[r] = 0
    /\ pc[r] \in {"consume", "streaming"} => added[r] > 0
    /\ pc[r] \in {"look", "lock", "busy"} => stream[r] = "absent"
    /\ lock = r => done[r] = 0

Consumed == state = "consumed" => added[owner] > 0

IInv == TypeOK /\ Marked /\ Consumed /\ Binding /\ LockHasUser
        /\ \A r \in Request : Progress(r)

LEMMA InitInv == Init => IInv
<1> SUFFICES ASSUME Init PROVE IInv
  OBVIOUS
<1>1. TypeOK
  <2>1. resends \in 0..MaxResends
    BY ResumeAssumption DEF Init
  <2>2. pc \in [Request -> Working \cup Ended] /\ added \in [Request -> Nat] /\ done \in [Request -> Nat]
    BY DEF Init, Working
  <2> QED
    BY <2>1, <2>2 DEF Init, TypeOK, State
<1>2. Marked /\ Consumed /\ Binding
  BY DEF Init, Marked, Consumed, Binding, Engaged
<1>3. LockHasUser /\ \A r \in Request : Progress(r)
  BY ResumeAssumption DEF Init, LockHasUser, Progress, Working
<1> QED
  BY <1>1, <1>2, <1>3 DEF IInv

-----------------------------------------------------------------------------
(* Types.                                                                  *)

\* Where a rejected call leads.
LEMMA ErrorTarget ==
  ASSUME NEW r \in Request, TypeOK, Rejected(r)
  PROVE  \/ pc[r] \in {"look", "lock"} /\ pc' = [pc EXCEPT ![r] = "refused"]
         \/ pc[r] \in {"open", "close"} /\ pc' = [pc EXCEPT ![r] = "unlock"]
         \/ /\ pc[r] \in {"read", "claim", "confirm", "release"}
            /\ pc' = [pc EXCEPT ![r] = "close"]
         \/ pc[r] = "add" /\ pc' = [pc EXCEPT ![r] = "release"]
         \/ pc[r] = "consume" /\ pc' = [pc EXCEPT ![r] = "streaming"]
<1>1. pc[r] \in {"look", "lock", "open", "read", "claim", "confirm", "add", "consume",
                "release", "close"}
  BY DEF Rejected, OnError
<1>2. pc' = [pc EXCEPT ![r] = OnError[pc[r]]]
  BY DEF Rejected, Goto
<1>3. /\ OnError["look"] = "refused" /\ OnError["lock"] = "refused"
      /\ OnError["open"] = "unlock" /\ OnError["close"] = "unlock"
      /\ OnError["read"] = "close" /\ OnError["claim"] = "close"
      /\ OnError["confirm"] = "close" /\ OnError["release"] = "close"
      /\ OnError["add"] = "release" /\ OnError["consume"] = "streaming"
  BY DEF OnError
<1> QED
  BY <1>1, <1>2, <1>3

LEMMA TypeStep ==
  ASSUME TypeOK, [Next]_vars
  PROVE  TypeOK'
<1> USE ResumeAssumption DEF TypeOK, State, Working, Ended
<1>1. CASE Put
  BY <1>1 DEF Put, SetRecord, jobs
<1>2. CASE SourceEnds
  BY <1>2 DEF SourceEnds, record, jobs
<1>3. CASE LeaseEnds
  BY <1>3 DEF LeaseEnds, jobs
<1>4. CASE TtlEnds
  BY <1>4 DEF TtlEnds, record, jobs
<1>5. CASE Vanish
  BY <1>5 DEF Vanish, jobs
<1>6. CASE LockExpires
  BY <1>6 DEF LockExpires, record, jobs
<1>7. ASSUME NEW r \in Request, Look(r) PROVE TypeOK'
  BY <1>7 DEF Look, MarkExpired, Overdue, SetRecord, Goto, record, jobs
<1>8. ASSUME NEW r \in Request, Acquire(r) PROVE TypeOK'
  BY <1>8 DEF Acquire, Goto, Replied, record, jobs
<1>9. ASSUME NEW r \in Request, Open(r) PROVE TypeOK'
  BY <1>9 DEF Open, Goto, Replied, record, jobs
<1>10. ASSUME NEW r \in Request, Read(r) PROVE TypeOK'
  BY <1>10 DEF Read, MarkExpired, Overdue, SetRecord, Goto, record, jobs
<1>11. ASSUME NEW r \in Request, ClaimPending(r) PROVE TypeOK'
  <2>1. resends' \in 0..MaxResends /\ pc' \in [Request -> Working \cup Ended]
    BY <1>11 DEF ClaimPending, Goto, Replied
  <2> QED
    BY <1>11, <2>1 DEF ClaimPending, SetRecord, jobs
<1>12. ASSUME NEW r \in Request, ClaimAgain(r) PROVE TypeOK'
  BY <1>12 DEF ClaimAgain, Mine, Goto, Replied, record, jobs
<1>13. ASSUME NEW r \in Request, ClaimRefused(r) PROVE TypeOK'
  BY <1>13 DEF ClaimRefused, MarkExpired, Overdue, SetRecord, Goto, record, jobs
<1>14. ASSUME NEW r \in Request, Confirm(r) PROVE TypeOK'
  BY <1>14 DEF Confirm, MarkExpired, Overdue, SetRecord, Goto, record, jobs
<1>15. ASSUME NEW r \in Request, Add(r) PROVE TypeOK'
  BY <1>15 DEF Add, Goto, Replied, record
<1>16. ASSUME NEW r \in Request, Consume(r) PROVE TypeOK'
  <2>1. reopened' \in BOOLEAN
    BY <1>16 DEF Consume, Reopen
  <2>2. resends' \in 0..MaxResends /\ pc' \in [Request -> Working \cup Ended]
    BY <1>16 DEF Consume, Goto, Replied
  <2>3. UNCHANGED <<ttlOver, lock, stream, added, done>>
    BY <1>16 DEF Consume, jobs
  <2>4. UNCHANGED record \/ SetRecord("pending", NoOne)
        \/ SetRecord("consumed", r) \/ SetRecord("expired", NoOne)
    BY <1>16 DEF Consume, Reopen, MarkExpired
  <2> QED
    BY <2>1, <2>2, <2>3, <2>4 DEF SetRecord, record
<1>17. ASSUME NEW r \in Request, Release(r) PROVE TypeOK'
  <2>1. reopened' \in BOOLEAN
    BY <1>17 DEF Release, Reopen
  <2>2. resends' \in 0..MaxResends /\ pc' \in [Request -> Working \cup Ended]
    BY <1>17 DEF Release, Goto, Replied
  <2>3. UNCHANGED <<ttlOver, lock, stream, added, done>>
    BY <1>17 DEF Release, jobs
  <2>4. UNCHANGED record \/ SetRecord("pending", NoOne)
        \/ SetRecord("consumed", r) \/ SetRecord("expired", NoOne)
    BY <1>17 DEF Release, Reopen, MarkExpired
  <2> QED
    BY <2>1, <2>2, <2>3, <2>4 DEF SetRecord, record
<1>18. ASSUME NEW r \in Request, Close(r) PROVE TypeOK'
  BY <1>18 DEF Close, Goto, record, jobs
<1>19. ASSUME NEW r \in Request, Unlock(r) PROVE TypeOK'
  BY <1>19 DEF Unlock, Goto, record, jobs
<1>20. ASSUME NEW r \in Request, Rejected(r) PROVE TypeOK'
  BY <1>20, ErrorTarget, ZenonT(60) DEF Rejected, Goto, record, jobs
<1>21. ASSUME NEW r \in Request, Crash(r) PROVE TypeOK'
  BY <1>21 DEF Crash, Goto, record, jobs
<1>22. ASSUME NEW r \in Request, Work(r) PROVE TypeOK'
  BY <1>22 DEF Work, record
<1>23. CASE UNCHANGED vars
  BY <1>23 DEF vars
<1> QED
  BY <1>1, <1>2, <1>3, <1>4, <1>5, <1>6, <1>7, <1>8, <1>9, <1>10, <1>11, <1>12, <1>13,
     <1>14, <1>15, <1>16, <1>17, <1>18, <1>19, <1>20, <1>21, <1>22, <1>23
  DEF Next, Clock, Serve, Claim

-----------------------------------------------------------------------------
(* Progress, and the lock.                                                 *)

LEMMA ProgressStep ==
  ASSUME TypeOK, \A r \in Request : Progress(r), [Next]_vars
  PROVE  \A q \in Request : Progress(q)'
<1> USE ResumeAssumption DEF TypeOK, Progress
<1>1. CASE Put
  BY <1>1 DEF Put, SetRecord, jobs
<1>2. CASE SourceEnds
  BY <1>2 DEF SourceEnds, record, jobs
<1>3. CASE LeaseEnds
  BY <1>3 DEF LeaseEnds, jobs
<1>4. CASE TtlEnds
  BY <1>4 DEF TtlEnds, record, jobs
<1>5. CASE Vanish
  BY <1>5 DEF Vanish, jobs
<1>6. CASE LockExpires
  BY <1>6 DEF LockExpires, record, jobs
<1>7. ASSUME NEW r \in Request, Look(r) PROVE \A q \in Request : Progress(q)'
  BY <1>7 DEF Look, MarkExpired, Overdue, SetRecord, Goto, record, jobs
<1>8. ASSUME NEW r \in Request, Acquire(r) PROVE \A q \in Request : Progress(q)'
  BY <1>8 DEF Acquire, Goto, Replied, record, jobs
<1>9. ASSUME NEW r \in Request, Open(r) PROVE \A q \in Request : Progress(q)'
  BY <1>9 DEF Open, Goto, Replied, record, jobs
<1>10. ASSUME NEW r \in Request, Read(r) PROVE \A q \in Request : Progress(q)'
  BY <1>10 DEF Read, MarkExpired, Overdue, SetRecord, Goto, record, jobs
<1>11. ASSUME NEW r \in Request, ClaimPending(r) PROVE \A q \in Request : Progress(q)'
  BY <1>11 DEF ClaimPending, SetRecord, Goto, Replied, jobs
<1>12. ASSUME NEW r \in Request, ClaimAgain(r) PROVE \A q \in Request : Progress(q)'
  BY <1>12 DEF ClaimAgain, Mine, Goto, Replied, record, jobs
<1>13. ASSUME NEW r \in Request, ClaimRefused(r) PROVE \A q \in Request : Progress(q)'
  BY <1>13 DEF ClaimRefused, MarkExpired, Overdue, SetRecord, Goto, record, jobs
<1>14. ASSUME NEW r \in Request, Confirm(r) PROVE \A q \in Request : Progress(q)'
  BY <1>14 DEF Confirm, MarkExpired, Overdue, SetRecord, Goto, record, jobs
<1>15. ASSUME NEW r \in Request, Add(r) PROVE \A q \in Request : Progress(q)'
  BY <1>15 DEF Add, Goto, Replied, record
<1>16. ASSUME NEW r \in Request, Consume(r) PROVE \A q \in Request : Progress(q)'
  BY <1>16 DEF Consume, Mine, Reopen, MarkExpired, Overdue, SetRecord, Goto, Replied, record, jobs
<1>17. ASSUME NEW r \in Request, Release(r) PROVE \A q \in Request : Progress(q)'
  BY <1>17 DEF Release, Mine, Reopen, SetRecord, Goto, Replied, record, jobs
<1>18. ASSUME NEW r \in Request, Close(r) PROVE \A q \in Request : Progress(q)'
  BY <1>18 DEF Close, Goto, record, jobs
<1>19. ASSUME NEW r \in Request, Unlock(r) PROVE \A q \in Request : Progress(q)'
  BY <1>19 DEF Unlock, Goto, record, jobs
<1>20. ASSUME NEW r \in Request, Rejected(r) PROVE \A q \in Request : Progress(q)'
  <2>1. UNCHANGED <<lock, stream, added, done>>
    BY <1>20 DEF Rejected, jobs
  <2>2. ASSUME NEW q \in Request, q # r PROVE Progress(q)'
    <3>1. pc'[q] = pc[q]
      BY <1>20, <2>2 DEF Rejected, Goto
    <3> QED
      BY <2>1, <3>1
  <2>3. Progress(r)'
    <3>1. \/ pc[r] \in {"look", "lock"} /\ pc'[r] = "refused"
          \/ pc'[r] \in {"unlock", "close", "release"}
          \/ pc[r] = "consume" /\ pc'[r] = "streaming"
      BY <1>20, ErrorTarget
    <3> QED
      BY <2>1, <3>1
  <2> QED
    BY <2>2, <2>3
<1>21. ASSUME NEW r \in Request, Crash(r) PROVE \A q \in Request : Progress(q)'
  BY <1>21 DEF Crash, Goto, record, jobs
<1>22. ASSUME NEW r \in Request, Work(r) PROVE \A q \in Request : Progress(q)'
  BY <1>22 DEF Work, record
<1>23. CASE UNCHANGED vars
  BY <1>23 DEF vars
<1> QED
  BY <1>1, <1>2, <1>3, <1>4, <1>5, <1>6, <1>7, <1>8, <1>9, <1>10, <1>11, <1>12, <1>13,
     <1>14, <1>15, <1>16, <1>17, <1>18, <1>19, <1>20, <1>21, <1>22, <1>23
  DEF Next, Clock, Serve, Claim

LEMMA LockStep ==
  ASSUME TypeOK, LockHasUser, \A r \in Request : Progress(r), [Next]_vars
  PROVE  LockHasUser'
<1> USE ResumeAssumption DEF TypeOK, LockHasUser, Progress, Working
<1>1. CASE Put
  BY <1>1 DEF Put, SetRecord, jobs
<1>2. CASE SourceEnds
  BY <1>2 DEF SourceEnds, record, jobs
<1>3. CASE LeaseEnds
  BY <1>3 DEF LeaseEnds, jobs
<1>4. CASE TtlEnds
  BY <1>4 DEF TtlEnds, record, jobs
<1>5. CASE Vanish
  BY <1>5 DEF Vanish, jobs
<1>6. CASE LockExpires
  BY <1>6 DEF LockExpires, record, jobs
<1>7. ASSUME NEW r \in Request, Look(r) PROVE LockHasUser'
  BY <1>7 DEF Look, MarkExpired, Overdue, SetRecord, Goto, record, jobs
<1>8. ASSUME NEW r \in Request, Acquire(r) PROVE LockHasUser'
  BY <1>8 DEF Acquire, Goto, Replied, record, jobs
<1>9. ASSUME NEW r \in Request, Open(r) PROVE LockHasUser'
  BY <1>9 DEF Open, Goto, Replied, record, jobs
<1>10. ASSUME NEW r \in Request, Read(r) PROVE LockHasUser'
  BY <1>10 DEF Read, MarkExpired, Overdue, SetRecord, Goto, record, jobs
<1>11. ASSUME NEW r \in Request, ClaimPending(r) PROVE LockHasUser'
  BY <1>11 DEF ClaimPending, SetRecord, Goto, Replied, jobs
<1>12. ASSUME NEW r \in Request, ClaimAgain(r) PROVE LockHasUser'
  BY <1>12 DEF ClaimAgain, Mine, Goto, Replied, record, jobs
<1>13. ASSUME NEW r \in Request, ClaimRefused(r) PROVE LockHasUser'
  BY <1>13 DEF ClaimRefused, MarkExpired, Overdue, SetRecord, Goto, record, jobs
<1>14. ASSUME NEW r \in Request, Confirm(r) PROVE LockHasUser'
  BY <1>14 DEF Confirm, MarkExpired, Overdue, SetRecord, Goto, record, jobs
<1>15. ASSUME NEW r \in Request, Add(r) PROVE LockHasUser'
  BY <1>15 DEF Add, Goto, Replied, record
<1>16. ASSUME NEW r \in Request, Consume(r) PROVE LockHasUser'
  BY <1>16 DEF Consume, Mine, Reopen, MarkExpired, Overdue, SetRecord, Goto, Replied, record, jobs
<1>17. ASSUME NEW r \in Request, Release(r) PROVE LockHasUser'
  BY <1>17 DEF Release, Mine, Reopen, SetRecord, Goto, Replied, record, jobs
<1>18. ASSUME NEW r \in Request, Close(r) PROVE LockHasUser'
  BY <1>18 DEF Close, Goto, record, jobs
<1>19. ASSUME NEW r \in Request, Unlock(r) PROVE LockHasUser'
  BY <1>19 DEF Unlock, Goto, record, jobs
<1>20. ASSUME NEW r \in Request, Rejected(r) PROVE LockHasUser'
  BY <1>20, ErrorTarget, ZenonT(60) DEF Rejected, Goto, record, jobs
<1>21. ASSUME NEW r \in Request, Crash(r) PROVE LockHasUser'
  BY <1>21 DEF Crash, Goto, record, jobs
<1>22. ASSUME NEW r \in Request, Work(r) PROVE LockHasUser'
  BY <1>22 DEF Work, record
<1>23. CASE UNCHANGED vars
  BY <1>23 DEF vars
<1> QED
  BY <1>1, <1>2, <1>3, <1>4, <1>5, <1>6, <1>7, <1>8, <1>9, <1>10, <1>11, <1>12, <1>13,
     <1>14, <1>15, <1>16, <1>17, <1>18, <1>19, <1>20, <1>21, <1>22, <1>23
  DEF Next, Clock, Serve, Claim

-----------------------------------------------------------------------------
(* The record and the requests that are engaged.                           *)

LEMMA MarkedStep ==
  ASSUME TypeOK, Marked, Consumed, \A r \in Request : Progress(r), [Next]_vars
  PROVE  Marked' /\ Consumed'
<1> USE ResumeAssumption DEF TypeOK, State, Marked, Consumed, Engaged, Progress
<1>1. CASE Put
  BY <1>1 DEF Put, SetRecord, jobs
<1>2. CASE SourceEnds
  BY <1>2 DEF SourceEnds, record, jobs
<1>3. CASE LeaseEnds
  BY <1>3 DEF LeaseEnds, jobs
<1>4. CASE TtlEnds
  BY <1>4 DEF TtlEnds, record, jobs
<1>5. CASE Vanish
  BY <1>5 DEF Vanish, jobs
<1>6. CASE LockExpires
  BY <1>6 DEF LockExpires, record, jobs
<1>7. ASSUME NEW r \in Request, Look(r) PROVE Marked' /\ Consumed'
  BY <1>7 DEF Look, MarkExpired, Overdue, SetRecord, Goto, record, jobs
<1>8. ASSUME NEW r \in Request, Acquire(r) PROVE Marked' /\ Consumed'
  BY <1>8 DEF Acquire, Goto, Replied, record, jobs
<1>9. ASSUME NEW r \in Request, Open(r) PROVE Marked' /\ Consumed'
  BY <1>9 DEF Open, Goto, Replied, record, jobs
<1>10. ASSUME NEW r \in Request, Read(r) PROVE Marked' /\ Consumed'
  BY <1>10 DEF Read, MarkExpired, Overdue, SetRecord, Goto, record, jobs
<1>11. ASSUME NEW r \in Request, ClaimPending(r) PROVE Marked' /\ Consumed'
  BY <1>11 DEF ClaimPending, SetRecord, Goto, Replied, jobs
<1>12. ASSUME NEW r \in Request, ClaimAgain(r) PROVE Marked' /\ Consumed'
  BY <1>12 DEF ClaimAgain, Mine, Goto, Replied, record, jobs
<1>13. ASSUME NEW r \in Request, ClaimRefused(r) PROVE Marked' /\ Consumed'
  BY <1>13 DEF ClaimRefused, MarkExpired, Overdue, SetRecord, Goto, record, jobs
<1>14. ASSUME NEW r \in Request, Confirm(r) PROVE Marked' /\ Consumed'
  BY <1>14 DEF Confirm, MarkExpired, Overdue, SetRecord, Goto, record, jobs
<1>15. ASSUME NEW r \in Request, Add(r) PROVE Marked' /\ Consumed'
  BY <1>15 DEF Add, Goto, Replied, record
<1>16. ASSUME NEW r \in Request, Consume(r) PROVE Marked' /\ Consumed'
  BY <1>16 DEF Consume, Mine, Reopen, MarkExpired, Overdue, SetRecord, Goto, Replied, record, jobs
<1>17. ASSUME NEW r \in Request, Release(r) PROVE Marked' /\ Consumed'
  BY <1>17 DEF Release, Mine, Reopen, SetRecord, Goto, Replied, record, jobs
<1>18. ASSUME NEW r \in Request, Close(r) PROVE Marked' /\ Consumed'
  BY <1>18 DEF Close, Goto, record, jobs
<1>19. ASSUME NEW r \in Request, Unlock(r) PROVE Marked' /\ Consumed'
  BY <1>19 DEF Unlock, Goto, record, jobs
<1>20. ASSUME NEW r \in Request, Rejected(r) PROVE Marked' /\ Consumed'
  BY <1>20, ErrorTarget, ZenonT(60) DEF Rejected, Goto, record, jobs
<1>21. ASSUME NEW r \in Request, Crash(r) PROVE Marked' /\ Consumed'
  BY <1>21 DEF Crash, Goto, record, jobs
<1>22. ASSUME NEW r \in Request, Work(r) PROVE Marked' /\ Consumed'
  BY <1>22 DEF Work, record
<1>23. CASE UNCHANGED vars
  BY <1>23 DEF vars
<1> QED
  BY <1>1, <1>2, <1>3, <1>4, <1>5, <1>6, <1>7, <1>8, <1>9, <1>10, <1>11, <1>12, <1>13,
     <1>14, <1>15, <1>16, <1>17, <1>18, <1>19, <1>20, <1>21, <1>22, <1>23
  DEF Next, Clock, Serve, Claim

LEMMA BindingStep ==
  ASSUME TypeOK, Marked, Consumed, Binding, \A r \in Request : Progress(r), [Next]_vars
  PROVE  Binding'
<1> USE ResumeAssumption DEF TypeOK, State, Marked, Binding, Bound, Engaged, Progress
<1>1. CASE Put
  BY <1>1 DEF Put, SetRecord, jobs
<1>2. CASE SourceEnds
  BY <1>2 DEF SourceEnds, record, jobs
<1>3. CASE LeaseEnds
  BY <1>3 DEF LeaseEnds, jobs
<1>4. CASE TtlEnds
  BY <1>4 DEF TtlEnds, record, jobs
<1>5. CASE Vanish
  BY <1>5 DEF Vanish, jobs
<1>6. CASE LockExpires
  BY <1>6 DEF LockExpires, record, jobs
<1>7. ASSUME NEW r \in Request, Look(r) PROVE Binding'
  BY <1>7 DEF Look, MarkExpired, Overdue, SetRecord, Goto, record, jobs
<1>8. ASSUME NEW r \in Request, Acquire(r) PROVE Binding'
  BY <1>8 DEF Acquire, Goto, Replied, record, jobs
<1>9. ASSUME NEW r \in Request, Open(r) PROVE Binding'
  BY <1>9 DEF Open, Goto, Replied, record, jobs
<1>10. ASSUME NEW r \in Request, Read(r) PROVE Binding'
  BY <1>10 DEF Read, MarkExpired, Overdue, SetRecord, Goto, record, jobs
<1>11. ASSUME NEW r \in Request, ClaimPending(r) PROVE Binding'
  BY <1>11 DEF ClaimPending, SetRecord, Goto, Replied, jobs
<1>12. ASSUME NEW r \in Request, ClaimAgain(r) PROVE Binding'
  BY <1>12 DEF ClaimAgain, Mine, Goto, Replied, record, jobs
<1>13. ASSUME NEW r \in Request, ClaimRefused(r) PROVE Binding'
  BY <1>13 DEF ClaimRefused, MarkExpired, Overdue, SetRecord, Goto, record, jobs
<1>14. ASSUME NEW r \in Request, Confirm(r) PROVE Binding'
  BY <1>14 DEF Confirm, MarkExpired, Overdue, SetRecord, Goto, record, jobs
<1>15. ASSUME NEW r \in Request, Add(r) PROVE Binding'
  BY <1>15 DEF Add, Goto, Replied, record
<1>16. ASSUME NEW r \in Request, Consume(r) PROVE Binding'
  BY <1>16 DEF Consume, Mine, Reopen, MarkExpired, Overdue, SetRecord, Goto, Replied, record, jobs
<1>17. ASSUME NEW r \in Request, Release(r) PROVE Binding'
  <2>1. UNCHANGED added /\ \A q \in Request : Engaged(q)' => Engaged(q)
    BY <1>17 DEF Release, Goto, Replied, jobs
  <2>2. CASE UNCHANGED reopened /\ UNCHANGED record
    BY <2>1, <2>2 DEF record
  <2>3. CASE UNCHANGED reopened /\ state' = "expired"
    BY <2>1, <2>3
  <2>4. CASE Mine(r) /\ Reopen(r)
    <3> SUFFICES ASSUME ~reopened' PROVE Binding'
      OBVIOUS
    <3>1. ~reopened /\ ~(added[r] > 0)
      BY <2>4 DEF Reopen
    <3>2. ~Engaged(r)'
      BY <2>1, <3>1, <1>17 DEF Release, Goto, Replied
    <3>3. \A q \in Request : q # r => ~Engaged(q)
      BY <2>4, <3>1 DEF Mine
    <3> QED
      BY <2>1, <3>2, <3>3
  <2> QED
    BY <1>17, <2>2, <2>3, <2>4 DEF Release, SetRecord
<1>18. ASSUME NEW r \in Request, Close(r) PROVE Binding'
  BY <1>18 DEF Close, Goto, record, jobs
<1>19. ASSUME NEW r \in Request, Unlock(r) PROVE Binding'
  BY <1>19 DEF Unlock, Goto, record, jobs
<1>20. ASSUME NEW r \in Request, Rejected(r) PROVE Binding'
  <2>1. UNCHANGED <<state, owner, reopened, added>>
    BY <1>20 DEF Rejected, record, jobs
  <2>2. \A q \in Request : Engaged(q)' => Engaged(q)
    <3> SUFFICES ASSUME NEW q \in Request, Engaged(q)' PROVE Engaged(q)
      OBVIOUS
    <3>1. q = r => pc'[q] \notin {"confirm", "add"}
      BY <1>20, ErrorTarget
    <3>2. q # r => pc'[q] = pc[q]
      BY <1>20 DEF Rejected, Goto
    <3> QED
      BY <2>1, <3>1, <3>2
  <2> QED
    BY <2>1, <2>2
<1>21. ASSUME NEW r \in Request, Crash(r) PROVE Binding'
  BY <1>21 DEF Crash, Goto, record, jobs
<1>22. ASSUME NEW r \in Request, Work(r) PROVE Binding'
  BY <1>22 DEF Work, record
<1>23. CASE UNCHANGED vars
  BY <1>23 DEF vars
<1> QED
  BY <1>1, <1>2, <1>3, <1>4, <1>5, <1>6, <1>7, <1>8, <1>9, <1>10, <1>11, <1>12, <1>13,
     <1>14, <1>15, <1>16, <1>17, <1>18, <1>19, <1>20, <1>21, <1>22, <1>23
  DEF Next, Clock, Serve, Claim

-----------------------------------------------------------------------------
(* What holds of every behavior.                                           *)

LEMMA InvStep == ASSUME IInv, [Next]_vars PROVE IInv'
  BY TypeStep, ProgressStep, LockStep, MarkedStep, BindingStep DEF IInv

\* The inductive invariant holds of every reachable state.
THEOREM Invariance == Spec => []IInv
<1>1. IInv /\ [Next]_vars => IInv'
  BY InvStep
<1> QED
  BY InitInv, <1>1, PTL DEF Spec

(* Every step of every request, of the worker and of the clock keeps every   *)
(* variable in its type, and the record with the fields of its state.        *)
THEOREM TypeCorrect == Spec => []TypeOK
<1>1. IInv => TypeOK
  BY DEF IInv
<1> QED
  BY Invariance, <1>1, PTL

(* Two requests never both enqueue the continuation, unless a claim went back *)
(* behind a stored job.                                                      *)
THEOREM OneAnswer == Spec => []AnsweredOnce
<1>1. IInv => AnsweredOnce
  BY DEF IInv, Binding, Engaged, AnsweredOnce
<1> QED
  BY Invariance, <1>1, PTL

(* What is consumed, and what a client follows, BullMQ has stored.           *)
THEOREM Queued == Spec => []AnswerWasQueued
<1>1. IInv => AnswerWasQueued
  BY DEF IInv, TypeOK, Consumed, Progress, AnswerWasQueued
<1> QED
  BY Invariance, <1>1, PTL

(* No request ends with the session's lock, but by dying or by losing the     *)
(* reply of its SET.                                                         *)
THEOREM LockUsed == Spec => []LockHasUser
<1>1. IInv => LockHasUser
  BY DEF IInv
<1> QED
  BY Invariance, <1>1, PTL

-----------------------------------------------------------------------------
(* A settled interaction.                                                  *)

Settled == tomb \in {"consumed", "expired"}
Stays   == tomb' = tomb /\ (UNCHANGED <<state, owner>> \/ state' = "absent")

LEMMA SettledStep ==
  ASSUME TypeOK, Marked, Settled, [Next]_vars
  PROVE  Stays
<1> USE DEF TypeOK, Marked, Settled, Stays
<1>1. CASE Put
  BY <1>1 DEF Put, SetRecord, jobs
<1>2. CASE SourceEnds
  BY <1>2 DEF SourceEnds, record, jobs
<1>3. CASE LeaseEnds
  BY <1>3 DEF LeaseEnds, jobs
<1>4. CASE TtlEnds
  BY <1>4 DEF TtlEnds, record, jobs
<1>5. CASE Vanish
  BY <1>5 DEF Vanish, jobs
<1>6. CASE LockExpires
  BY <1>6 DEF LockExpires, record, jobs
<1>7. ASSUME NEW r \in Request, Look(r) PROVE Stays
  BY <1>7 DEF Look, MarkExpired, Overdue, SetRecord, Goto, record, jobs
<1>8. ASSUME NEW r \in Request, Acquire(r) PROVE Stays
  BY <1>8 DEF Acquire, Goto, Replied, record, jobs
<1>9. ASSUME NEW r \in Request, Open(r) PROVE Stays
  BY <1>9 DEF Open, Goto, Replied, record, jobs
<1>10. ASSUME NEW r \in Request, Read(r) PROVE Stays
  BY <1>10 DEF Read, MarkExpired, Overdue, SetRecord, Goto, record, jobs
<1>11. ASSUME NEW r \in Request, ClaimPending(r) PROVE Stays
  BY <1>11 DEF ClaimPending, SetRecord, Goto, Replied, jobs
<1>12. ASSUME NEW r \in Request, ClaimAgain(r) PROVE Stays
  BY <1>12 DEF ClaimAgain, Mine, Goto, Replied, record, jobs
<1>13. ASSUME NEW r \in Request, ClaimRefused(r) PROVE Stays
  BY <1>13 DEF ClaimRefused, MarkExpired, Overdue, SetRecord, Goto, record, jobs
<1>14. ASSUME NEW r \in Request, Confirm(r) PROVE Stays
  BY <1>14 DEF Confirm, MarkExpired, Overdue, SetRecord, Goto, record, jobs
<1>15. ASSUME NEW r \in Request, Add(r) PROVE Stays
  BY <1>15 DEF Add, Goto, Replied, record
<1>16. ASSUME NEW r \in Request, Consume(r) PROVE Stays
  BY <1>16 DEF Consume, Mine, Reopen, MarkExpired, Overdue, SetRecord, Goto, Replied, record, jobs
<1>17. ASSUME NEW r \in Request, Release(r) PROVE Stays
  BY <1>17 DEF Release, Mine, Reopen, SetRecord, Goto, Replied, record, jobs
<1>18. ASSUME NEW r \in Request, Close(r) PROVE Stays
  BY <1>18 DEF Close, Goto, record, jobs
<1>19. ASSUME NEW r \in Request, Unlock(r) PROVE Stays
  BY <1>19 DEF Unlock, Goto, record, jobs
<1>20. ASSUME NEW r \in Request, Rejected(r) PROVE Stays
  BY <1>20 DEF Rejected, record
<1>21. ASSUME NEW r \in Request, Crash(r) PROVE Stays
  BY <1>21 DEF Crash, Goto, record, jobs
<1>22. ASSUME NEW r \in Request, Work(r) PROVE Stays
  BY <1>22 DEF Work, record
<1>23. CASE UNCHANGED vars
  BY <1>23 DEF vars
<1> QED
  BY <1>1, <1>2, <1>3, <1>4, <1>5, <1>6, <1>7, <1>8, <1>9, <1>10, <1>11, <1>12, <1>13,
     <1>14, <1>15, <1>16, <1>17, <1>18, <1>19, <1>20, <1>21, <1>22, <1>23
  DEF Next, Clock, Serve, Claim

(* No request, however late, and no script, however often it is sent, moves   *)
(* a consumed or expired interaction or its tombstone.                       *)
THEOREM SettledForGood == Spec => SettledStays
<1>1. IInv /\ [Next]_vars => (Settled => Stays)
  BY SettledStep DEF IInv
<1>2. ASSUME IInv, [Next]_vars
      PROVE  [(tomb \in {"consumed", "expired"}) =>
              tomb' = tomb /\ (UNCHANGED <<state, owner>> \/ state' = "absent")]_vars
  BY <1>1, <1>2 DEF Settled, Stays
<1> QED
  BY Invariance, <1>2, PTL DEF Spec, SettledStays
=============================================================================
