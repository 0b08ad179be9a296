---------------------------- MODULE ChatRunProofs ----------------------------
(***************************************************************************)
(* Theorems about ChatRun for any sessions, runs, slots and bounds: its     *)
(* type invariant; that an open run holds its session's lock, so that two   *)
(* are never open together unless one was evicted; that a closed stream     *)
(* never changes; that the system implements SessionRuns; that an open run  *)
(* has somebody who will close it; and that a run ends once in its log.     *)
(***************************************************************************)
EXTENDS ChatRun, TLAPS

-----------------------------------------------------------------------------
(* The inductive invariant.  HoldsLock alone is not inductive: a process    *)
(* between its GET and its DEL frees the lock whatever the stream's status,  *)
(* so it matters that none gets there before the stream is closed.          *)

\* A run that needs its lock no more: nothing it does is lost by a DEL.
Over(s) == stream[s] \in Final \/ s \in Evicted

\* From SET NX until its stream closes, a run holds the lock or was evicted.
Claimed == \A s \in Stream :
    req[s] = "open" \/ IsRunning(s) => s \in Evicted \/ lock[SessionOf[s]] = s

\* A request that has not opened its stream finds it missing.
Unopened == \A s \in Stream : req[s] \in {"idle", "acquire", "open"} => stream[s] = "missing"

\* Whoever works on a run works on one that was opened.
Opened ==
    /\ \A s \in Stream : (req[s] \in {"enqueue", "accepted"} \/ job[s] # "none"
                           \/ listener[s] # "idle") => stream[s] # "missing"
    /\ \A w \in Worker : wpc[w] # "idle" => stream[wrun[w]] # "missing"
    /\ sweep \notin {"idle", "status"} => stream[sweepRun] # "missing"

\* Nobody releases the lock of an open run.
Releasing ==
    /\ \A s \in Stream : req[s] \in {"get", "del"} => stream[s] = "missing" \/ Over(s)
    /\ \A s \in Stream : listener[s] \in {"get", "del"} => Over(s)
    /\ \A w \in Worker : wpc[w] \in {"get", "del"} => Over(wrun[w])
    /\ sweep \in {"get", "del"} => Over(sweepRun)

IInv == TypeOK /\ Claimed /\ Unopened /\ Opened /\ Releasing


-----------------------------------------------------------------------------
(* Type correctness.                                                        *)

LEMMA TypeInit == Init => TypeOK
  BY RunAssumption DEF Init, TypeOK, Causes, Final, ReqPC, WorkPC, ListenerPC,
     SweepPC, DelPC, Budget

LEMMA TypeStep == ASSUME TypeOK, [Next]_vars PROVE TypeOK'
<1> USE RunAssumption DEF TypeOK, Causes, Final, ReqPC, WorkPC, ListenerPC,
        SweepPC, DelPC
<1>1. ASSUME NEW s \in Stream, Request(s) PROVE TypeOK'
  <2>1. CASE Acquire(s)
    BY <2>1 DEF Acquire, LockFree, logVars, jobVars, ownVars, workVars,
       dogVars, delVars
  <2>2. CASE Open(s)
    BY <2>2 DEF Open, sessVars, jobVars, ownVars, workVars, dogVars, delVars
  <2>3. CASE Enqueue(s)
    BY <2>3 DEF Enqueue, sessVars, logVars, ownVars, workVars, dogVars,
       delVars
  <2>4. CASE CleanupClose(s)
    BY <2>4 DEF CleanupClose, CloseStream, sessVars, jobVars, ownVars,
       workVars, dogVars, delVars
  <2>5. CASE CleanupGet(s)
    BY <2>5 DEF CleanupGet, sessVars, logVars, jobVars, ownVars, workVars,
       dogVars, delVars
  <2>6. CASE CleanupDel(s)
    BY <2>6 DEF CleanupDel, DelLock, Rob, logVars, jobVars, ownVars, workVars,
       dogVars, delVars
  <2> QED
    BY <1>1, <2>1, <2>2, <2>3, <2>4, <2>5, <2>6 DEF Request
<1>2. ASSUME NEW s \in Stream, Submit(s) PROVE TypeOK'
  BY <1>2 DEF Submit, Spend, Budget, logVars, jobVars, ownVars, workVars, dogVars, delVars
<1>3. ASSUME NEW s \in Stream, Stop(s) PROVE TypeOK'
  BY <1>3 DEF Stop, Spend, Budget, sessVars, logVars, jobVars, ownVars, workVars,
     dogVars, delVars
<1>4. ASSUME NEW s \in Stream, Stall(s) PROVE TypeOK'
  BY <1>4 DEF Stall, Spend, Budget, sessVars, logVars, ownVars, workVars, dogVars,
     delVars
<1>5. ASSUME NEW s \in Stream, WalExpires(s) PROVE TypeOK'
  BY <1>5 DEF WalExpires, Registered, Owning, Spend, Budget, sessVars, logVars,
     jobVars, workVars, dogVars, delVars
<1>6. ASSUME NEW s \in Stream, MarkerAges(s) PROVE TypeOK'
  BY <1>6 DEF MarkerAges, sessVars, logVars, jobVars, workVars, dogVars,
     delVars
<1>7. ASSUME NEW s \in Stream, Listener(s) PROVE TypeOK'
  <2>1. CASE ListenerCheck(s)
    BY <2>1 DEF ListenerCheck, ListenerStep, sessVars, logVars, jobVars,
       ownVars, workVars, dogVars, delVars
  <2>2. CASE ListenerAppend(s)
    BY <2>2 DEF ListenerAppend, ListenerStep, sessVars, jobVars, ownVars,
       workVars, dogVars, delVars
  <2>3. CASE ListenerClose(s)
    BY <2>3 DEF ListenerClose, ListenerStep, CloseStream, sessVars, jobVars,
       ownVars, workVars, dogVars, delVars
  <2>4. CASE ListenerGet(s)
    BY <2>4 DEF ListenerGet, ListenerStep, sessVars, logVars, jobVars,
       ownVars, workVars, dogVars, delVars
  <2>5. CASE ListenerDel(s)
    BY <2>5 DEF ListenerDel, ListenerStep, DelLock, Rob, logVars, jobVars,
       ownVars, workVars, dogVars, delVars
  <2> QED
    BY <1>7, <2>1, <2>2, <2>3, <2>4, <2>5 DEF Listener
<1>8. ASSUME NEW w \in Worker, Slot(w) PROVE TypeOK'
  <2>1. CASE CheckOpen(w)
    BY <2>1 DEF CheckOpen, IsOpen, Goto, Ends, sessVars, logVars, jobVars,
       ownVars, dogVars, delVars
  <2>2. CASE CheckSession(w)
    BY <2>2 DEF CheckSession, Goto, Ends, sessVars, logVars, jobVars, ownVars,
       dogVars, delVars
  <2>3. CASE Register(w)
    BY <2>3, SMTT(30) DEF Register, Stopped, Goto, Ends, Spend, Budget, ownVars,
       sessVars, logVars, jobVars, dogVars, delVars
  <2>4. CASE Prepare(w)
    BY <2>4, SMTT(30) DEF Prepare, Goto, Ends, sessVars, logVars, jobVars,
       ownVars, dogVars, delVars
  <2>5. CASE RecheckSession(w)
    BY <2>5 DEF RecheckSession, Goto, Ends, sessVars, logVars, jobVars,
       ownVars, dogVars, delVars
  <2>6. CASE RecheckOpen(w)
    BY <2>6 DEF RecheckOpen, IsOpen, Goto, Ends, sessVars, logVars, jobVars,
       ownVars, dogVars, delVars
  <2>7. CASE AgentEnds(w)
    BY <2>7 DEF AgentEnds, IsOpen, Goto, Ends, sessVars, jobVars, ownVars,
       dogVars, delVars
  <2>8. CASE AppendRejected(w)
    BY <2>8 DEF AppendRejected, IsOpen, Goto, Ends, sessVars, logVars,
       jobVars, ownVars, dogVars, delVars
  <2>9. CASE CloseOwn(w)
    BY <2>9 DEF CloseOwn, CloseStream, Goto, Ends, sessVars, jobVars, ownVars,
       dogVars, delVars
  <2>10. CASE Catch(w)
    BY <2>10 DEF Catch, Goto, IsOpen, sessVars, logVars, jobVars, ownVars,
       dogVars, delVars
  <2>11. CASE AppendTerminal(w)
    BY <2>11 DEF AppendTerminal, IsOpen, Goto, sessVars, jobVars, ownVars,
       dogVars, delVars
  <2>12. CASE CloseFailed(w)
    BY <2>12 DEF CloseFailed, CloseStream, Goto, sessVars, jobVars, ownVars,
       dogVars, delVars
  <2>13. CASE ReleaseGet(w)
    BY <2>13 DEF ReleaseGet, Goto, sessVars, logVars, jobVars, ownVars,
       dogVars, delVars
  <2>14. CASE ReleaseDel(w)
    BY <2>14 DEF ReleaseDel, DelLock, Rob, Goto, logVars, jobVars, ownVars,
       dogVars, delVars
  <2>15. CASE Finish(w)
    BY <2>15 DEF Finish, Goto, Ends, sessVars, logVars, dogVars, delVars
  <2> QED
    BY <1>8, <2>1, <2>2, <2>3, <2>4, <2>5, <2>6, <2>7, <2>8, <2>9, <2>10,
       <2>11, <2>12, <2>13, <2>14, <2>15 DEF Slot
<1>9. ASSUME NEW w \in Worker, StopSeen(w) PROVE TypeOK'
  BY <1>9 DEF StopSeen, Stopped, sessVars, logVars, jobVars, ownVars, dogVars,
     delVars
<1>10. ASSUME NEW w \in Worker, Beat(w) PROVE TypeOK'
  BY <1>10 DEF Beat, Registered, Owning, sessVars, logVars, jobVars, workVars,
     dogVars, delVars
<1>11. ASSUME NEW w \in Worker, NEW s \in Stream, Take(w, s) PROVE TypeOK'
  BY <1>11 DEF Take, sessVars, logVars, ownVars, dogVars, delVars
<1>12. ASSUME NEW x \in Session, Deletion(x) PROVE TypeOK'
  <2>1. CASE DelLockRead(x)
    BY <2>1, SMTT(30) DEF DelLockRead, DelGoto, sessVars, logVars, jobVars, ownVars,
       workVars, dogVars
  <2>2. CASE DelStatus(x)
    BY <2>2 DEF DelStatus, DelGoto, sessVars, logVars, jobVars, ownVars,
       workVars, dogVars
  <2>3. CASE DelDrop(x)
    BY <2>3 DEF DelDrop, Rob, DelGoto, logVars, jobVars, ownVars, workVars,
       dogVars
  <2>4. CASE DelFind(x)
    BY <2>4 DEF DelFind, DelGoto, Live, sessVars, logVars, jobVars, ownVars,
       workVars, dogVars
  <2>5. CASE DelJobState(x)
    BY <2>5 DEF DelJobState, DelGoto, Settled, sessVars, logVars, jobVars,
       ownVars, workVars, dogVars
  <2>6. CASE DelSetStop(x)
    BY <2>6 DEF DelSetStop, DelGoto, sessVars, logVars, jobVars, ownVars,
       workVars, dogVars
  <2>7. CASE DelRemove(x)
    BY <2>7 DEF DelRemove, DelGoto, sessVars, logVars, ownVars, workVars,
       dogVars
  <2>8. CASE DelPollJob(x)
    BY <2>8 DEF DelPollJob, Live, DelGoto, sessVars, logVars, jobVars,
       ownVars, workVars, dogVars
  <2>9. CASE DelTimeout(x)
    BY <2>9 DEF DelTimeout, DelGoto, sessVars, logVars, jobVars, ownVars,
       workVars, dogVars
  <2>10. CASE DelClose(x)
    BY <2>10 DEF DelClose, CloseStream, DelGoto, sessVars, jobVars, ownVars,
       workVars, dogVars
  <2>11. CASE DelGet(x)
    BY <2>11 DEF DelGet, DelGoto, Done, sessVars, logVars, jobVars, ownVars,
       workVars, dogVars
  <2>12. CASE DelDel(x)
    BY <2>12 DEF DelDel, Rob, DelGoto, Done, logVars, jobVars, ownVars,
       workVars, dogVars
  <2>13. CASE DelRelock(x)
    BY <2>13 DEF DelRelock, DelGoto, sessVars, logVars, jobVars, ownVars,
       workVars, dogVars
  <2>14. CASE DelUnqueue(x)
    BY <2>14 DEF DelUnqueue, DelGoto, sessVars, logVars, ownVars, workVars,
       dogVars
  <2>15. CASE HardDelete(x)
    BY <2>15 DEF HardDelete, DelReset, DelGoto, sessVars, logVars, jobVars,
       ownVars, workVars, dogVars
  <2> QED
    BY <1>12, <2>1, <2>2, <2>3, <2>4, <2>5, <2>6, <2>7, <2>8, <2>9, <2>10,
       <2>11, <2>12, <2>13, <2>14, <2>15 DEF Deletion
<1>13. ASSUME NEW x \in Session, LockExpires(x) PROVE TypeOK'
  BY <1>13 DEF LockExpires, Spend, Budget, Rob, logVars, jobVars, ownVars, workVars,
     dogVars, delVars
<1>14. ASSUME NEW x \in Session, DeleteSession(x) PROVE TypeOK'
  BY <1>14 DEF DeleteSession, Spend, Budget, DelGoto, sessVars, logVars, jobVars,
     ownVars, workVars, dogVars
<1>15. ASSUME NEW x \in Session, DelPoll(x) PROVE TypeOK'
  BY <1>15 DEF DelPoll, DelGoto, sessVars, logVars, jobVars, ownVars,
     workVars, dogVars
<1>16. ASSUME Watchdog PROVE TypeOK'
  <2>1. ASSUME NEW x \in Session, SweepPick(x) PROVE TypeOK'
    BY <2>1 DEF SweepPick, sessVars, logVars, jobVars, ownVars, workVars,
       delVars
  <2>2. CASE SweepStatus
    BY <2>2 DEF SweepStatus, sessVars, logVars, jobVars, ownVars, workVars,
       delVars
  <2>3. CASE SweepAppend
    BY <2>3 DEF SweepAppend, sessVars, jobVars, ownVars, workVars, delVars
  <2>4. CASE SweepClose
    BY <2>4 DEF SweepClose, CloseStream, sessVars, jobVars, ownVars, workVars,
       delVars
  <2>5. CASE SweepGet
    BY <2>5 DEF SweepGet, sessVars, logVars, jobVars, ownVars, workVars,
       delVars
  <2>6. CASE SweepDel
    BY <2>6 DEF SweepDel, DelLock, Rob, logVars, jobVars, ownVars, workVars,
       delVars
  <2> QED
    BY <1>16, <2>1, <2>2, <2>3, <2>4, <2>5, <2>6 DEF Watchdog
<1>17. ASSUME Crash PROVE TypeOK'
  BY <1>17 DEF Crash, Spend, Budget, sessVars, logVars, ownVars, dogVars, delVars
<1>18. ASSUME Shutdown PROVE TypeOK'
  <2>1. cancelled' \subseteq Worker
    BY <1>18, Zenon DEF Shutdown
  <2>2. accepting' \in BOOLEAN
    BY <1>18, Zenon DEF Shutdown
  <2>3. spent' \in [Budget -> Nat]
    BY <1>18 DEF Shutdown, Spend, Budget
  <2> QED
    BY <1>18, <2>1, <2>2, <2>3 DEF Shutdown, sessVars, logVars, jobVars, ownVars,
       dogVars, delVars
<1>19. ASSUME Restart PROVE TypeOK'
  BY <1>19 DEF Restart, sessVars, logVars, jobVars, ownVars, workVars,
     dogVars, delVars
<1>20. ASSUME ApiCrash PROVE TypeOK'
  BY <1>20 DEF ApiCrash, Spend, Budget, InFlight, sessVars, logVars, jobVars, ownVars,
     workVars
<1>21. ASSUME CallFails PROVE TypeOK'
  <2>1. ASSUME NEW s \in Stream, OpenFails(s) PROVE TypeOK'
    BY <2>1 DEF OpenFails, Spend, Budget, Rob, jobVars, ownVars, workVars, dogVars,
       delVars
  <2>2. ASSUME NEW s \in Stream, EnqueueFails(s) PROVE TypeOK'
    BY <2>2 DEF EnqueueFails, Spend, Budget, sessVars, logVars, ownVars, workVars,
       dogVars, delVars
  <2>3. ASSUME NEW s \in Stream, RequestFails(s) PROVE TypeOK'
    <3>1. spent' \in [Budget -> Nat]
      BY <2>3 DEF RequestFails, Spend, Budget
    <3>2. req' \in [Stream -> ReqPC]
      BY <2>3 DEF RequestFails
    <3>3. /\ lock' \in [Session -> Stream \cup {NoStream}]
          /\ \A x \in Session : lock'[x] # NoStream => SessionOf[lock'[x]] = x
      BY <2>3 DEF RequestFails, LockFree, sessVars
    <3>4. robbed' \subseteq Stream \X Causes
      BY <2>3 DEF RequestFails, Rob, sessVars
    <3> QED
      BY <2>3, <3>1, <3>2, <3>3, <3>4 DEF RequestFails, logVars, jobVars, ownVars,
         workVars, dogVars, delVars
  <2>4. ASSUME NEW s \in Stream, ListenerFails(s) PROVE TypeOK'
    BY <2>4 DEF ListenerFails, Spend, Budget, Rob, logVars, jobVars, ownVars,
       workVars, dogVars, delVars
  <2>5. ASSUME NEW w \in Worker, SlotFails(w) PROVE TypeOK'
    BY <2>5 DEF SlotFails, Spend, Budget, Goto, Ends, Rob, logVars, jobVars, ownVars,
       dogVars, delVars
  <2>6. ASSUME NEW x \in Session, DelFails(x) PROVE TypeOK'
    <3>1. spent' \in [Budget -> Nat]
      BY <2>6 DEF DelFails, Spend, Budget
    <3>2. UNCHANGED <<lock, exists, logVars, stopFlag, jobVars, ownVars, req, workVars,
                      listener, accepting, dogVars>>
      BY <2>6 DEF DelFails
    <3>3. CASE dpc[x] = "close"
      <4>1. robbed' \subseteq Stream \X Causes
        BY <2>6, <3>3 DEF DelFails, Rob
      <4> QED
        BY <2>6, <3>1, <3>2, <3>3, <4>1 DEF DelFails, DelGoto, logVars, jobVars, ownVars,
           workVars, dogVars
    <3>4. CASE dpc[x] # "close"
      <4>1. DelReset(x) /\ UNCHANGED robbed
        BY <2>6, <3>4 DEF DelFails
      <4> QED
        BY <3>1, <3>2, <4>1 DEF DelReset, DelGoto, logVars, jobVars, ownVars, workVars,
           dogVars
    <3> QED
      BY <3>3, <3>4
  <2>7. CASE SweepFails
    BY <2>7 DEF SweepFails, Spend, Budget, Rob, logVars, jobVars, ownVars, workVars,
       delVars
  <2> QED
    BY <1>21, <2>1, <2>2, <2>3, <2>4, <2>5, <2>6, <2>7 DEF CallFails
<1>0. CASE UNCHANGED vars
  BY <1>0 DEF vars
<1> QED
  BY <1>0, <1>1, <1>2, <1>3, <1>4, <1>5, <1>6, <1>7, <1>8, <1>9, <1>10, <1>11,
     <1>12, <1>13, <1>14, <1>15, <1>16, <1>17, <1>18, <1>19, <1>20, <1>21 DEF
     Next

(* Every reachable state is well typed: the lock of a session is free or    *)
(* held by a run of that session, a busy slot has a run, a deletion works   *)
(* on a run of its session, and a slot closes its stream only with a final  *)
(* status.                                                                  *)
THEOREM TypeCorrect == Spec => []TypeOK
<1>1. Init => TypeOK
  BY TypeInit
<1>2. TypeOK /\ [Next]_vars => TypeOK'
  BY TypeStep
<1> QED
  BY <1>1, <1>2, PTL DEF Spec

-----------------------------------------------------------------------------
(* The lock.                                                                *)

\* What losing a claim adds to the evicted runs.
LEMMA RobEvicts ==
    ASSUME TypeOK, NEW t \in Stream \cup {NoStream}, NEW c \in Causes, Rob(t, c)
    PROVE  Evicted' = Evicted \cup (IF t = NoStream \/ stream[t] \in Final THEN {} ELSE {t})
  BY RunAssumption, ZenonT(60) DEF Rob, Evicted, TypeOK

LEMMA SameEvicted == ASSUME UNCHANGED robbed PROVE Evicted' = Evicted
  BY DEF Evicted

LEMMA InvInit == Init => IInv
<1> SUFFICES ASSUME Init PROVE IInv
  OBVIOUS
<1>1. TypeOK
  BY TypeInit
<1>2. Claimed /\ Unopened
  BY DEF Init, Claimed, Unopened, IsRunning
<1>3. Opened /\ Releasing
  BY DEF Init, Opened, Releasing
<1> QED
  BY <1>1, <1>2, <1>3 DEF IInv

LEMMA InvAction == ASSUME IInv, TypeOK', [Next]_vars PROVE IInv'
<1> USE RunAssumption DEF IInv, Claimed, Unopened, Opened, Releasing, Over, IsRunning,
        Final, TypeOK
<1>1. ASSUME NEW s \in Stream, Request(s) PROVE IInv'
  <2>1. CASE Acquire(s)
    BY <2>1, SameEvicted DEF Acquire, LockFree, logVars, jobVars, ownVars,
       workVars, dogVars, delVars
  <2>2. CASE Open(s)
    BY <2>2, SameEvicted DEF Open, sessVars, jobVars, ownVars, workVars,
       dogVars, delVars
  <2>3. CASE Enqueue(s)
    BY <2>3, SameEvicted DEF Enqueue, sessVars, logVars, ownVars, workVars,
       dogVars, delVars
  <2>4. CASE CleanupClose(s)
    BY <2>4, SameEvicted DEF CleanupClose, CloseStream, sessVars, jobVars,
       ownVars, workVars, dogVars, delVars
  <2>5. CASE CleanupGet(s)
    BY <2>5, SameEvicted DEF CleanupGet, sessVars, logVars, jobVars, ownVars,
       workVars, dogVars, delVars
  <2>6. CASE CleanupDel(s)
    BY <2>6, SameEvicted, RobEvicts DEF CleanupDel, DelLock, logVars, jobVars,
       ownVars, workVars, dogVars, delVars, Causes
  <2> QED
    BY <1>1, <2>1, <2>2, <2>3, <2>4, <2>5, <2>6 DEF Request
<1>2. ASSUME NEW s \in Stream, Submit(s) PROVE IInv'
  BY <1>2, SameEvicted DEF Submit, Spend, logVars, jobVars, ownVars, workVars,
     dogVars, delVars
<1>3. ASSUME NEW s \in Stream, Stop(s) PROVE IInv'
  BY <1>3, SameEvicted DEF Stop, Spend, sessVars, logVars, jobVars, ownVars,
     workVars, dogVars, delVars
<1>4. ASSUME NEW s \in Stream, Stall(s) PROVE IInv'
  BY <1>4, SameEvicted DEF Stall, Spend, sessVars, logVars, ownVars, workVars,
     dogVars, delVars
<1>5. ASSUME NEW s \in Stream, WalExpires(s) PROVE IInv'
  BY <1>5, SameEvicted DEF WalExpires, Registered, Owning, Spend, sessVars,
     logVars, jobVars, workVars, dogVars, delVars
<1>6. ASSUME NEW s \in Stream, MarkerAges(s) PROVE IInv'
  BY <1>6, SameEvicted DEF MarkerAges, sessVars, logVars, jobVars, workVars,
     dogVars, delVars
<1>7. ASSUME NEW s \in Stream, Listener(s) PROVE IInv'
  <2>1. CASE ListenerCheck(s)
    BY <2>1, SameEvicted DEF ListenerCheck, ListenerStep, sessVars, logVars,
       jobVars, ownVars, workVars, dogVars, delVars
  <2>2. CASE ListenerAppend(s)
    BY <2>2, SameEvicted DEF ListenerAppend, ListenerStep, sessVars, jobVars,
       ownVars, workVars, dogVars, delVars
  <2>3. CASE ListenerClose(s)
    BY <2>3, SameEvicted DEF ListenerClose, ListenerStep, CloseStream,
       sessVars, jobVars, ownVars, workVars, dogVars, delVars
  <2>4. CASE ListenerGet(s)
    BY <2>4, SameEvicted DEF ListenerGet, ListenerStep, sessVars, logVars,
       jobVars, ownVars, workVars, dogVars, delVars
  <2>5. CASE ListenerDel(s)
    BY <2>5, SameEvicted, RobEvicts DEF ListenerDel, ListenerStep, DelLock,
       logVars, jobVars, ownVars, workVars, dogVars, delVars, Causes
  <2> QED
    BY <1>7, <2>1, <2>2, <2>3, <2>4, <2>5 DEF Listener
<1>8. ASSUME NEW w \in Worker, Slot(w) PROVE IInv'
  <2>1. CASE CheckOpen(w)
    BY <2>1, SameEvicted DEF CheckOpen, IsOpen, Goto, Ends, sessVars, logVars,
       jobVars, ownVars, dogVars, delVars
  <2>2. CASE CheckSession(w)
    BY <2>2, SameEvicted DEF CheckSession, Goto, Ends, sessVars, logVars,
       jobVars, ownVars, dogVars, delVars
  <2>3. CASE Register(w)
    BY <2>3, SameEvicted DEF Register, Stopped, Goto, Ends, Spend, ownVars,
       sessVars, logVars, jobVars, dogVars, delVars
  <2>4. CASE Prepare(w)
    BY <2>4, SameEvicted DEF Prepare, Goto, Ends, sessVars, logVars, jobVars,
       ownVars, dogVars, delVars
  <2>5. CASE RecheckSession(w)
    BY <2>5, SameEvicted DEF RecheckSession, Goto, Ends, sessVars, logVars,
       jobVars, ownVars, dogVars, delVars
  <2>6. CASE RecheckOpen(w)
    BY <2>6, SameEvicted DEF RecheckOpen, IsOpen, Goto, Ends, sessVars,
       logVars, jobVars, ownVars, dogVars, delVars
  <2>7. CASE AgentEnds(w)
    BY <2>7, SameEvicted DEF AgentEnds, IsOpen, Goto, Ends, sessVars, jobVars,
       ownVars, dogVars, delVars
  <2>8. CASE AppendRejected(w)
    BY <2>8, SameEvicted DEF AppendRejected, IsOpen, Goto, Ends, sessVars,
       logVars, jobVars, ownVars, dogVars, delVars
  <2>9. CASE CloseOwn(w)
    BY <2>9, SameEvicted DEF CloseOwn, CloseStream, Goto, Ends, sessVars,
       jobVars, ownVars, dogVars, delVars
  <2>10. CASE Catch(w)
    BY <2>10, SameEvicted DEF Catch, Goto, IsOpen, sessVars, logVars, jobVars,
       ownVars, dogVars, delVars
  <2>11. CASE AppendTerminal(w)
    BY <2>11, SameEvicted DEF AppendTerminal, IsOpen, Goto, sessVars, jobVars,
       ownVars, dogVars, delVars
  <2>12. CASE CloseFailed(w)
    BY <2>12, SameEvicted DEF CloseFailed, CloseStream, Goto, sessVars,
       jobVars, ownVars, dogVars, delVars
  <2>13. CASE ReleaseGet(w)
    BY <2>13, SameEvicted DEF ReleaseGet, Goto, sessVars, logVars, jobVars,
       ownVars, dogVars, delVars
  <2>14. CASE ReleaseDel(w)
    BY <2>14, SameEvicted, RobEvicts DEF ReleaseDel, DelLock, Goto, logVars,
       jobVars, ownVars, dogVars, delVars, Causes
  <2>15. CASE Finish(w)
    BY <2>15, SameEvicted DEF Finish, Goto, Ends, sessVars, logVars, dogVars,
       delVars
  <2> QED
    BY <1>8, <2>1, <2>2, <2>3, <2>4, <2>5, <2>6, <2>7, <2>8, <2>9, <2>10,
       <2>11, <2>12, <2>13, <2>14, <2>15 DEF Slot
<1>9. ASSUME NEW w \in Worker, StopSeen(w) PROVE IInv'
  BY <1>9, SameEvicted DEF StopSeen, Stopped, sessVars, logVars, jobVars,
     ownVars, dogVars, delVars
<1>10. ASSUME NEW w \in Worker, Beat(w) PROVE IInv'
  BY <1>10, SameEvicted DEF Beat, Registered, Owning, sessVars, logVars,
     jobVars, workVars, dogVars, delVars
<1>11. ASSUME NEW w \in Worker, NEW s \in Stream, Take(w, s) PROVE IInv'
  BY <1>11, SameEvicted DEF Take, sessVars, logVars, ownVars, dogVars, delVars
<1>12. ASSUME NEW x \in Session, Deletion(x) PROVE IInv'
  <2>1. CASE DelLockRead(x)
    BY <2>1, SameEvicted DEF DelLockRead, DelGoto, sessVars, logVars, jobVars,
       ownVars, workVars, dogVars
  <2>2. CASE DelStatus(x)
    BY <2>2, SameEvicted DEF DelStatus, DelGoto, sessVars, logVars, jobVars,
       ownVars, workVars, dogVars
  <2>3. CASE DelDrop(x)
    BY <2>3, SameEvicted, RobEvicts DEF DelDrop, DelGoto, logVars, jobVars,
       ownVars, workVars, dogVars, Causes
  <2>4. CASE DelFind(x)
    BY <2>4, SameEvicted DEF DelFind, DelGoto, Live, sessVars, logVars,
       jobVars, ownVars, workVars, dogVars
  <2>5. CASE DelJobState(x)
    BY <2>5, SameEvicted DEF DelJobState, DelGoto, Settled, sessVars, logVars,
       jobVars, ownVars, workVars, dogVars
  <2>6. CASE DelSetStop(x)
    BY <2>6, SameEvicted DEF DelSetStop, DelGoto, sessVars, logVars, jobVars,
       ownVars, workVars, dogVars
  <2>7. CASE DelRemove(x)
    BY <2>7, SameEvicted DEF DelRemove, DelGoto, sessVars, logVars, ownVars,
       workVars, dogVars
  <2>8. CASE DelPollJob(x)
    BY <2>8, SameEvicted DEF DelPollJob, Live, DelGoto, sessVars, logVars,
       jobVars, ownVars, workVars, dogVars
  <2>9. CASE DelTimeout(x)
    BY <2>9, SameEvicted DEF DelTimeout, DelGoto, sessVars, logVars, jobVars,
       ownVars, workVars, dogVars
  <2>10. CASE DelClose(x)
    BY <2>10, SameEvicted DEF DelClose, CloseStream, DelGoto, sessVars,
       jobVars, ownVars, workVars, dogVars
  <2>11. CASE DelGet(x)
    BY <2>11, SameEvicted DEF DelGet, DelGoto, Done, sessVars, logVars,
       jobVars, ownVars, workVars, dogVars
  <2>12. CASE DelDel(x)
    BY <2>12, SameEvicted, RobEvicts DEF DelDel, DelGoto, Done, logVars,
       jobVars, ownVars, workVars, dogVars, Causes
  <2>13. CASE DelRelock(x)
    BY <2>13, SameEvicted DEF DelRelock, DelGoto, sessVars, logVars, jobVars,
       ownVars, workVars, dogVars
  <2>14. CASE DelUnqueue(x)
    BY <2>14, SameEvicted DEF DelUnqueue, DelGoto, sessVars, logVars, ownVars,
       workVars, dogVars
  <2>15. CASE HardDelete(x)
    BY <2>15, SameEvicted DEF HardDelete, DelReset, DelGoto, sessVars,
       logVars, jobVars, ownVars, workVars, dogVars
  <2> QED
    BY <1>12, <2>1, <2>2, <2>3, <2>4, <2>5, <2>6, <2>7, <2>8, <2>9, <2>10,
       <2>11, <2>12, <2>13, <2>14, <2>15 DEF Deletion
<1>13. ASSUME NEW x \in Session, LockExpires(x) PROVE IInv'
  BY <1>13, SameEvicted, RobEvicts DEF LockExpires, Spend, logVars, jobVars,
     ownVars, workVars, dogVars, delVars, Causes
<1>14. ASSUME NEW x \in Session, DeleteSession(x) PROVE IInv'
  BY <1>14, SameEvicted DEF DeleteSession, Spend, DelGoto, sessVars, logVars,
     jobVars, ownVars, workVars, dogVars
<1>15. ASSUME NEW x \in Session, DelPoll(x) PROVE IInv'
  BY <1>15, SameEvicted DEF DelPoll, DelGoto, sessVars, logVars, jobVars,
     ownVars, workVars, dogVars
<1>16. ASSUME Watchdog PROVE IInv'
  <2>1. ASSUME NEW x \in Session, SweepPick(x) PROVE IInv'
    BY <2>1, SameEvicted DEF SweepPick, sessVars, logVars, jobVars, ownVars,
       workVars, delVars
  <2>2. CASE SweepStatus
    BY <2>2, SameEvicted DEF SweepStatus, sessVars, logVars, jobVars, ownVars,
       workVars, delVars
  <2>3. CASE SweepAppend
    BY <2>3, SameEvicted DEF SweepAppend, sessVars, jobVars, ownVars,
       workVars, delVars
  <2>4. CASE SweepClose
    BY <2>4, SameEvicted DEF SweepClose, CloseStream, sessVars, jobVars,
       ownVars, workVars, delVars
  <2>5. CASE SweepGet
    BY <2>5, SameEvicted DEF SweepGet, sessVars, logVars, jobVars, ownVars,
       workVars, delVars
  <2>6. CASE SweepDel
    BY <2>6, SameEvicted, RobEvicts DEF SweepDel, DelLock, logVars, jobVars,
       ownVars, workVars, delVars, Causes
  <2> QED
    BY <1>16, <2>1, <2>2, <2>3, <2>4, <2>5, <2>6 DEF Watchdog
<1>17. ASSUME Crash PROVE IInv'
  BY <1>17, SameEvicted DEF Crash, Spend, sessVars, logVars, ownVars, dogVars,
     delVars
<1>18. ASSUME Shutdown PROVE IInv'
  BY <1>18, SameEvicted DEF Shutdown, Spend, Registered, Owning, sessVars,
     logVars, jobVars, ownVars, dogVars, delVars
<1>19. ASSUME Restart PROVE IInv'
  BY <1>19, SameEvicted DEF Restart, sessVars, logVars, jobVars, ownVars,
     workVars, dogVars, delVars
<1>20. ASSUME ApiCrash PROVE IInv'
  BY <1>20, SameEvicted DEF ApiCrash, Spend, InFlight, sessVars, logVars,
     jobVars, ownVars, workVars
<1>21. ASSUME CallFails PROVE IInv'
  <2>1. ASSUME NEW s \in Stream, OpenFails(s) PROVE IInv'
    BY <2>1, SameEvicted, RobEvicts DEF OpenFails, Spend, jobVars, ownVars,
       workVars, dogVars, delVars, Causes
  <2>2. ASSUME NEW s \in Stream, EnqueueFails(s) PROVE IInv'
    BY <2>2, SameEvicted DEF EnqueueFails, Spend, sessVars, logVars, ownVars,
       workVars, dogVars, delVars
  <2>3. ASSUME NEW s \in Stream, RequestFails(s) PROVE IInv'
    BY <2>3, SameEvicted, RobEvicts DEF RequestFails, Spend, LockFree,
       sessVars, logVars, jobVars, ownVars, workVars, dogVars, delVars, Causes
  <2>4. ASSUME NEW s \in Stream, ListenerFails(s) PROVE IInv'
    BY <2>4, SameEvicted, RobEvicts DEF ListenerFails, Spend, logVars,
       jobVars, ownVars, workVars, dogVars, delVars, Causes
  <2>5. ASSUME NEW w \in Worker, SlotFails(w) PROVE IInv'
    BY <2>5, SameEvicted, RobEvicts DEF SlotFails, Spend, Goto, Ends, logVars,
       jobVars, ownVars, dogVars, delVars, Causes
  <2>6. ASSUME NEW x \in Session, DelFails(x) PROVE IInv'
    BY <2>6, SameEvicted, RobEvicts DEF DelFails, Spend, DelGoto, DelReset,
       logVars, jobVars, ownVars, workVars, dogVars, Causes
  <2>7. CASE SweepFails
    BY <2>7, SameEvicted, RobEvicts DEF SweepFails, Spend, logVars, jobVars,
       ownVars, workVars, delVars, Causes
  <2> QED
    BY <1>21, <2>1, <2>2, <2>3, <2>4, <2>5, <2>6, <2>7 DEF CallFails
<1>u. CASE UNCHANGED vars
  BY <1>u, SameEvicted DEF vars
<1> QED
  BY <1>u, <1>1, <1>2, <1>3, <1>4, <1>5, <1>6, <1>7, <1>8, <1>9, <1>10, <1>11,
     <1>12, <1>13, <1>14, <1>15, <1>16, <1>17, <1>18, <1>19, <1>20, <1>21 DEF
     Next

LEMMA InvStep == ASSUME IInv, [Next]_vars PROVE IInv'
<1>1. TypeOK'
  BY TypeStep DEF IInv
<1> QED
  BY <1>1, InvAction

(* The invariant behind the lock, of every reachable state.                 *)
THEOREM Invariant == Spec => []IInv
<1>1. Init => IInv
  BY InvInit
<1>2. IInv /\ [Next]_vars => IInv'
  BY InvStep
<1> QED
  BY <1>1, <1>2, PTL DEF Spec

(* An open run that was not evicted holds its session's lock: for any       *)
(* number of sessions, runs, slots and faults, no request, slot, listener,  *)
(* sweep or deletion frees a lock before closing the stream behind it.      *)
THEOREM LockHeld == Spec => []HoldsLock
<1>1. IInv => HoldsLock
  BY DEF IInv, Claimed, HoldsLock
<1> QED
  BY <1>1, Invariant, PTL

(* Two runs of a session are open together only if one was evicted.         *)
THEOREM RunsExclude == Spec => []Exclusive
<1>1. HoldsLock => Exclusive
  BY DEF HoldsLock, Exclusive
<1> QED
  BY <1>1, LockHeld, PTL

-----------------------------------------------------------------------------
(* The streams.                                                             *)

\* The ways a step changes a stream, its log or the claims.
Opens(s)   == /\ req[s] = "open"
              /\ stream' = [stream EXCEPT ![s] = "running"]
              /\ Evicted' \in {Evicted, Evicted \cup {s}}
              /\ UNCHANGED terms
Closes(s)  == /\ \E status \in Final : CloseStream(s, status)
              /\ UNCHANGED <<terms, Evicted>>
Appends(s) == /\ IsRunning(s)
              /\ terms' = [terms EXCEPT ![s] = @ + 1]
              /\ UNCHANGED <<stream, Evicted>>
Evicts(s)  == /\ stream[s] \notin Final
              /\ Evicted' = Evicted \cup {s}
              /\ UNCHANGED logVars

Effect == \/ UNCHANGED <<stream, terms, Evicted>>
          \/ \E s \in Stream : Opens(s) \/ Closes(s) \/ Appends(s) \/ Evicts(s)

LEMMA RobEffect ==
    ASSUME TypeOK, NEW t \in Stream \cup {NoStream}, NEW c \in Causes, Rob(t, c), UNCHANGED logVars
    PROVE  Effect
<1>1. CASE t = NoStream \/ stream[t] \in Final
  BY <1>1, RobEvicts DEF Effect, logVars
<1>2. CASE ~(t = NoStream \/ stream[t] \in Final)
  <2>1. t \in Stream /\ Evicts(t)
    BY <1>2, RobEvicts DEF Evicts
  <2> QED
    BY <2>1 DEF Effect
<1> QED
  BY <1>1, <1>2

LEMMA DelLockEffect ==
    ASSUME TypeOK, NEW s \in Stream, DelLock(s), UNCHANGED logVars
    PROVE  Effect
<1>1. lock[SessionOf[s]] \in Stream \cup {NoStream}
  BY RunAssumption DEF TypeOK
<1>2. CASE UNCHANGED robbed
  BY <1>2, SameEvicted DEF Effect, logVars
<1>3. CASE Rob(lock[SessionOf[s]], "release")
  BY <1>1, <1>3, RobEffect DEF Causes
<1> QED
  BY <1>2, <1>3 DEF DelLock

LEMMA StepEffect == ASSUME TypeOK, [Next]_vars PROVE Effect
<1> USE RunAssumption DEF TypeOK, logVars
<1>1. ASSUME NEW s \in Stream, Request(s) PROVE Effect
  <2>1. CASE Acquire(s)
    BY <2>1, SameEvicted DEF Acquire, Effect
  <2>2. CASE Open(s)
    BY <2>2, SameEvicted DEF Open, sessVars, Opens, Effect
  <2>3. CASE Enqueue(s)
    BY <2>3, SameEvicted DEF Enqueue, sessVars, Effect
  <2>4. CASE CleanupClose(s)
    BY <2>4, SameEvicted DEF CleanupClose, CloseStream, sessVars, Closes,
       Final, Effect
  <2>5. CASE CleanupGet(s)
    BY <2>5, SameEvicted DEF CleanupGet, sessVars, Effect
  <2>6. CASE CleanupDel(s)
    BY <2>6, DelLockEffect DEF CleanupDel
  <2> QED
    BY <1>1, <2>1, <2>2, <2>3, <2>4, <2>5, <2>6 DEF Request
<1>2. ASSUME NEW s \in Stream, Submit(s) PROVE Effect
  BY <1>2, SameEvicted DEF Submit, Spend, Effect
<1>3. ASSUME NEW s \in Stream, Stop(s) PROVE Effect
  BY <1>3, SameEvicted DEF Stop, sessVars, Effect
<1>4. ASSUME NEW s \in Stream, Stall(s) PROVE Effect
  BY <1>4, SameEvicted DEF Stall, sessVars, Effect
<1>5. ASSUME NEW s \in Stream, WalExpires(s) PROVE Effect
  BY <1>5, SameEvicted DEF WalExpires, sessVars, Effect
<1>6. ASSUME NEW s \in Stream, MarkerAges(s) PROVE Effect
  BY <1>6, SameEvicted DEF MarkerAges, sessVars, Effect
<1>7. ASSUME NEW s \in Stream, Listener(s) PROVE Effect
  <2>1. CASE ListenerCheck(s)
    BY <2>1, SameEvicted DEF ListenerCheck, sessVars, Effect
  <2>2. CASE ListenerAppend(s)
    BY <2>2, SameEvicted DEF ListenerAppend, sessVars, Appends, IsRunning,
       Effect
  <2>3. CASE ListenerClose(s)
    BY <2>3, SameEvicted DEF ListenerClose, CloseStream, sessVars, Closes,
       Final, Effect
  <2>4. CASE ListenerGet(s)
    BY <2>4, SameEvicted DEF ListenerGet, sessVars, Effect
  <2>5. CASE ListenerDel(s)
    BY <2>5, DelLockEffect DEF ListenerDel
  <2> QED
    BY <1>7, <2>1, <2>2, <2>3, <2>4, <2>5 DEF Listener
<1>8. ASSUME NEW w \in Worker, Slot(w) PROVE Effect
  <2>1. CASE CheckOpen(w)
    BY <2>1, SameEvicted DEF CheckOpen, IsOpen, sessVars, Effect
  <2>2. CASE CheckSession(w)
    BY <2>2, SameEvicted DEF CheckSession, sessVars, Effect
  <2>3. CASE Register(w)
    BY <2>3, SameEvicted DEF Register, sessVars, Effect
  <2>4. CASE Prepare(w)
    BY <2>4, SameEvicted DEF Prepare, sessVars, Effect
  <2>5. CASE RecheckSession(w)
    BY <2>5, SameEvicted DEF RecheckSession, sessVars, Effect
  <2>6. CASE RecheckOpen(w)
    BY <2>6, SameEvicted DEF RecheckOpen, IsOpen, sessVars, Effect
  <2>7. CASE AgentEnds(w)
    BY <2>7, SameEvicted DEF AgentEnds, IsOpen, sessVars, Appends, IsRunning,
       Effect
  <2>8. CASE AppendRejected(w)
    BY <2>8, SameEvicted DEF AppendRejected, IsOpen, sessVars, Effect
  <2>9. CASE CloseOwn(w)
    BY <2>9, SameEvicted DEF CloseOwn, CloseStream, sessVars, Closes, Final,
       Effect
  <2>10. CASE Catch(w)
    BY <2>10, SameEvicted DEF Catch, IsOpen, sessVars, Effect
  <2>11. CASE AppendTerminal(w)
    BY <2>11, SameEvicted DEF AppendTerminal, IsOpen, sessVars, Appends,
       IsRunning, Effect
  <2>12. CASE CloseFailed(w)
    BY <2>12, SameEvicted DEF CloseFailed, CloseStream, sessVars, Closes,
       Final, Effect
  <2>13. CASE ReleaseGet(w)
    BY <2>13, SameEvicted DEF ReleaseGet, sessVars, Effect
  <2>14. CASE ReleaseDel(w)
    BY <2>14, DelLockEffect DEF ReleaseDel
  <2>15. CASE Finish(w)
    BY <2>15, SameEvicted DEF Finish, sessVars, Effect
  <2> QED
    BY <1>8, <2>1, <2>2, <2>3, <2>4, <2>5, <2>6, <2>7, <2>8, <2>9, <2>10,
       <2>11, <2>12, <2>13, <2>14, <2>15 DEF Slot
<1>9. ASSUME NEW w \in Worker, StopSeen(w) PROVE Effect
  BY <1>9, SameEvicted DEF StopSeen, sessVars, Effect
<1>10. ASSUME NEW w \in Worker, Beat(w) PROVE Effect
  BY <1>10, SameEvicted DEF Beat, sessVars, Effect
<1>11. ASSUME NEW w \in Worker, NEW s \in Stream, Take(w, s) PROVE Effect
  BY <1>11, SameEvicted DEF Take, sessVars, Effect
<1>12. ASSUME NEW x \in Session, Deletion(x) PROVE Effect
  <2>1. CASE DelLockRead(x)
    BY <2>1, SameEvicted DEF DelLockRead, sessVars, Effect
  <2>2. CASE DelStatus(x)
    BY <2>2, SameEvicted DEF DelStatus, sessVars, Effect
  <2>3. CASE DelDrop(x)
    BY <2>3, RobEffect DEF DelDrop, Causes
  <2>4. CASE DelFind(x)
    BY <2>4, SameEvicted DEF DelFind, sessVars, Effect
  <2>5. CASE DelJobState(x)
    BY <2>5, SameEvicted DEF DelJobState, sessVars, Effect
  <2>6. CASE DelSetStop(x)
    BY <2>6, SameEvicted DEF DelSetStop, sessVars, Effect
  <2>7. CASE DelRemove(x)
    BY <2>7, SameEvicted DEF DelRemove, sessVars, Effect
  <2>8. CASE DelPollJob(x)
    BY <2>8, SameEvicted DEF DelPollJob, sessVars, Effect
  <2>9. CASE DelTimeout(x)
    BY <2>9, SameEvicted DEF DelTimeout, sessVars, Effect
  <2>10. CASE DelClose(x)
    BY <2>10, SameEvicted DEF DelClose, CloseStream, sessVars, Closes, Final,
       Effect
  <2>11. CASE DelGet(x)
    BY <2>11, SameEvicted DEF DelGet, sessVars, Effect
  <2>12. CASE DelDel(x)
    BY <2>12, RobEffect DEF DelDel, Causes
  <2>13. CASE DelRelock(x)
    BY <2>13, SameEvicted DEF DelRelock, sessVars, Effect
  <2>14. CASE DelUnqueue(x)
    BY <2>14, SameEvicted DEF DelUnqueue, sessVars, Effect
  <2>15. CASE HardDelete(x)
    BY <2>15, SameEvicted DEF HardDelete, sessVars, Effect
  <2> QED
    BY <1>12, <2>1, <2>2, <2>3, <2>4, <2>5, <2>6, <2>7, <2>8, <2>9, <2>10,
       <2>11, <2>12, <2>13, <2>14, <2>15 DEF Deletion
<1>13. ASSUME NEW x \in Session, LockExpires(x) PROVE Effect
  BY <1>13, RobEffect DEF LockExpires, Causes
<1>14. ASSUME NEW x \in Session, DeleteSession(x) PROVE Effect
  BY <1>14, SameEvicted DEF DeleteSession, sessVars, Effect
<1>15. ASSUME NEW x \in Session, DelPoll(x) PROVE Effect
  BY <1>15, SameEvicted DEF DelPoll, sessVars, Effect
<1>16. ASSUME Watchdog PROVE Effect
  <2>1. ASSUME NEW x \in Session, SweepPick(x) PROVE Effect
    BY <2>1, SameEvicted DEF SweepPick, sessVars, Effect
  <2>2. CASE SweepStatus
    BY <2>2, SameEvicted DEF SweepStatus, sessVars, Effect
  <2>3. CASE SweepAppend
    BY <2>3, SameEvicted DEF SweepAppend, sessVars, Appends, IsRunning, Effect
  <2>4. CASE SweepClose
    BY <2>4, SameEvicted DEF SweepClose, CloseStream, sessVars, Closes, Final,
       Effect
  <2>5. CASE SweepGet
    BY <2>5, SameEvicted DEF SweepGet, sessVars, Effect
  <2>6. CASE SweepDel
    BY <2>6, DelLockEffect DEF SweepDel
  <2> QED
    BY <1>16, <2>1, <2>2, <2>3, <2>4, <2>5, <2>6 DEF Watchdog
<1>17. ASSUME Crash PROVE Effect
  BY <1>17, SameEvicted DEF Crash, sessVars, Effect
<1>18. ASSUME Shutdown PROVE Effect
  BY <1>18, SameEvicted DEF Shutdown, sessVars, Effect
<1>19. ASSUME Restart PROVE Effect
  BY <1>19, SameEvicted DEF Restart, sessVars, Effect
<1>20. ASSUME ApiCrash PROVE Effect
  BY <1>20, SameEvicted DEF ApiCrash, sessVars, Effect
<1>21. ASSUME CallFails PROVE Effect
  <2>1. ASSUME NEW s \in Stream, OpenFails(s) PROVE Effect
    <3>1. CASE UNCHANGED <<stream, robbed>>
      BY <2>1, <3>1, SameEvicted DEF OpenFails, Effect
    <3>2. CASE stream' = [stream EXCEPT ![s] = "running"] /\ Rob(s, "fail")
      <4>1. Evicted' \in {Evicted, Evicted \cup {s}}
        BY <3>2, RobEvicts, ZenonT(60) DEF Causes
      <4>2. Opens(s)
        BY <2>1, <3>2, <4>1 DEF OpenFails, Opens
      <4> QED
        BY <4>2 DEF Effect
    <3> QED
      BY <2>1, <3>1, <3>2 DEF OpenFails
  <2>2. ASSUME NEW s \in Stream, EnqueueFails(s) PROVE Effect
    BY <2>2, SameEvicted DEF EnqueueFails, sessVars, Effect
  <2>3. ASSUME NEW s \in Stream, RequestFails(s) PROVE Effect
    BY <2>3, SameEvicted, RobEffect DEF RequestFails, Causes, Effect, sessVars
  <2>4. ASSUME NEW s \in Stream, ListenerFails(s) PROVE Effect
    BY <2>4, SameEvicted, RobEffect DEF ListenerFails, Causes, Effect
  <2>5. ASSUME NEW w \in Worker, SlotFails(w) PROVE Effect
    BY <2>5, SameEvicted, RobEffect DEF SlotFails, Causes, Effect
  <2>6. ASSUME NEW x \in Session, DelFails(x) PROVE Effect
    BY <2>6, SameEvicted, RobEffect DEF DelFails, Causes, Effect
  <2>7. CASE SweepFails
    BY <2>7, SameEvicted, RobEffect DEF SweepFails, Causes, Effect
  <2> QED
    BY <1>21, <2>1, <2>2, <2>3, <2>4, <2>5, <2>6, <2>7 DEF CallFails
<1>u. CASE UNCHANGED vars
  BY <1>u, SameEvicted DEF vars, Effect
<1> QED
  BY <1>u, <1>1, <1>2, <1>3, <1>4, <1>5, <1>6, <1>7, <1>8, <1>9, <1>10, <1>11,
     <1>12, <1>13, <1>14, <1>15, <1>16, <1>17, <1>18, <1>19, <1>20, <1>21 DEF
     Next

(* A closed stream never reopens, changes status or gains an event,         *)
(* whichever processes checked its status before it was closed.             *)
THEOREM ClosedStays == Spec => ClosedIsFinal
<1>1. ASSUME IInv, [Next]_vars, NEW s \in Stream, stream[s] \in Final
      PROVE  stream'[s] = stream[s] /\ terms'[s] = terms[s]
  <2>1. TypeOK /\ Unopened
    BY <1>1 DEF IInv
  <2>2. CASE UNCHANGED <<stream, terms, Evicted>>
    BY <2>2
  <2>3. ASSUME NEW t \in Stream, Opens(t)
        PROVE  stream'[s] = stream[s] /\ terms'[s] = terms[s]
    BY <1>1, <2>1, <2>3 DEF Opens, Unopened, TypeOK, Final
  <2>4. ASSUME NEW t \in Stream, Closes(t)
        PROVE  stream'[s] = stream[s] /\ terms'[s] = terms[s]
    BY <1>1, <2>1, <2>4 DEF Closes, CloseStream, TypeOK, Final
  <2>5. ASSUME NEW t \in Stream, Appends(t)
        PROVE  stream'[s] = stream[s] /\ terms'[s] = terms[s]
    BY <1>1, <2>1, <2>5 DEF Appends, IsRunning, TypeOK, Final
  <2>6. ASSUME NEW t \in Stream, Evicts(t)
        PROVE  stream'[s] = stream[s] /\ terms'[s] = terms[s]
    BY <2>6 DEF Evicts, logVars
  <2> QED
    BY <1>1, <2>1, <2>2, <2>3, <2>4, <2>5, <2>6, StepEffect DEF Effect
<1>2. IInv /\ [Next]_vars =>
        [\A s \in Stream : stream[s] \in Final =>
            stream'[s] = stream[s] /\ terms'[s] = terms[s]]_vars
  BY <1>1
<1> QED
  BY <1>2, Invariant, PTL DEF Spec, ClosedIsFinal

(* The detailed system implements SessionRuns: a run opens only when no     *)
(* other run of its session is open and unevicted, and ends once.           *)
THEOREM Implementation == Spec => ImplementsSessionRuns
<1>1. Init => Runs!Init
  BY DEF Init, Runs!Init, Evicted
<1>2. ASSUME IInv, [Next]_vars PROVE [Runs!Next]_(Runs!vars)
  <2>1. TypeOK /\ Unopened /\ Claimed
    BY <1>2 DEF IInv
  <2>2. CASE UNCHANGED <<stream, terms, Evicted>>
    BY <2>2 DEF Runs!vars
  <2>3. ASSUME NEW s \in Stream, Opens(s) PROVE Runs!Start(s)
    <3>1. stream[s] = "missing"
      BY <2>1, <2>3 DEF Opens, Unopened
    <3>2. s \in Evicted \/ Runs!Rivals(s) \subseteq Evicted
      BY <2>1, <2>3 DEF Opens, Claimed, IsRunning, Runs!Rivals
    <3> QED
      BY <2>3, <3>1, <3>2 DEF Opens, Runs!Start
  <2>4. ASSUME NEW s \in Stream, Closes(s) PROVE Runs!End(s) \/ UNCHANGED Runs!vars
    <3>1. CASE stream[s] = "running"
      BY <2>4, <3>1 DEF Closes, CloseStream, Final, Runs!End
    <3>2. CASE stream[s] # "running"
      <4>1. UNCHANGED stream
        BY <2>1, <2>4, <3>2 DEF Closes, CloseStream, TypeOK
      <4> QED
        BY <2>4, <4>1 DEF Closes, Runs!vars
    <3> QED
      BY <3>1, <3>2
  <2>5. ASSUME NEW s \in Stream, Appends(s) PROVE UNCHANGED Runs!vars
    BY <2>5 DEF Appends, Runs!vars
  <2>6. ASSUME NEW s \in Stream, Evicts(s) PROVE Runs!Evict(s)
    BY <2>1, <2>6 DEF Evicts, logVars, TypeOK, Final, Runs!Evict
  <2> QED
    BY <1>2, <2>1, <2>2, <2>3, <2>4, <2>5, <2>6, StepEffect DEF Effect, Runs!Next
<1> QED
  BY <1>1, <1>2, Invariant, PTL DEF Spec, ImplementsSessionRuns, Runs!Spec

-----------------------------------------------------------------------------
(* Custody.  Followed from hand to hand: a job has a history of its own only *)
(* once its request enqueued it, a token only while it is active, a listener *)
(* only when it failed; and a slot that is through with a run, unless it     *)
(* threw before its try block, leaves the run closed or robbed.              *)

Failed(s) == <<s, "fail">> \in robbed
Closed(s) == stream[s] \in Final

\* Nothing stops accepting jobs but a shutdown.
Accepts == ~Exited => accepting

\* A job does not exist before its request enqueues it.
Unqueued == \A s \in Stream : req[s] \in {"idle", "acquire", "open", "enqueue"} => job[s] = "none"

\* Only an active job has a token, only a failed one a listener.
JobState == \A s \in Stream : /\ holder[s] # NoWorker => job[s] = "active"
                              /\ listener[s] # "idle" => job[s] = "failed"

\* A slot past its close step closed the run, or failed to.
Ended == \A w \in Worker :
    wpc[w] \in {"get", "del"} \/ (wpc[w] = "finish" /\ wend[w] # "thrown") =>
        Closed(wrun[w]) \/ Failed(wrun[w])

\* A slot has no outcome until its run ends or throws.
Undecided == \A w \in Worker :
    wpc[w] \in {"idle", "checkOpen", "checkSession", "register", "prepare",
               "recheckSession", "recheckOpen", "run"} => wend[w] = "none"

CInv == Accepts /\ Unqueued /\ JobState /\ Undecided /\ Ended /\ HasCustodian


LEMMA CustodyInit == Init => CInv
  BY RunAssumption DEF Init, CInv, Accepts, Unqueued, JobState, Undecided, Ended,
     HasCustodian, IsRunning

LEMMA CustodyAction ==
    ASSUME IInv, CInv, TypeOK', [Next]_vars
    PROVE  CInv'
<1> USE RunAssumption DEF CInv, Accepts, Unqueued, JobState, Undecided, Ended, HasCustodian, Failed,
        Closed, Exited, Live, Budget, IInv, Unopened, Opened, IsRunning, Final, TypeOK
<1>1. ASSUME NEW s \in Stream, Request(s) PROVE CInv'
  <2>1. CASE Acquire(s)
    BY <2>1 DEF Acquire, LockFree, logVars, jobVars, ownVars,
       workVars, dogVars, delVars
  <2>2. CASE Open(s)
    BY <2>2 DEF Open, sessVars, jobVars, ownVars, workVars,
       dogVars, delVars
  <2>3. CASE Enqueue(s)
    BY <2>3 DEF Enqueue, sessVars, logVars, ownVars, workVars,
       dogVars, delVars
  <2>4. CASE CleanupClose(s)
    BY <2>4 DEF CleanupClose, CloseStream, sessVars, jobVars,
       ownVars, workVars, dogVars, delVars
  <2>5. CASE CleanupGet(s)
    BY <2>5 DEF CleanupGet, sessVars, logVars, jobVars, ownVars,
       workVars, dogVars, delVars
  <2>6. CASE CleanupDel(s)
    BY <2>6 DEF CleanupDel, Rob, DelLock, logVars, jobVars,
       ownVars, workVars, dogVars, delVars, Causes
  <2> QED
    BY <1>1, <2>1, <2>2, <2>3, <2>4, <2>5, <2>6 DEF Request
<1>2. ASSUME NEW s \in Stream, Submit(s) PROVE CInv'
  BY <1>2 DEF Submit, Spend, logVars, jobVars, ownVars, workVars,
     dogVars, delVars
<1>3. ASSUME NEW s \in Stream, Stop(s) PROVE CInv'
  BY <1>3 DEF Stop, Spend, sessVars, logVars, jobVars, ownVars,
     workVars, dogVars, delVars
<1>4. ASSUME NEW s \in Stream, Stall(s) PROVE CInv'
  BY <1>4 DEF Stall, Spend, sessVars, logVars, ownVars, workVars,
     dogVars, delVars
<1>5. ASSUME NEW s \in Stream, WalExpires(s) PROVE CInv'
  BY <1>5 DEF WalExpires, Registered, Owning, Spend, sessVars,
     logVars, jobVars, workVars, dogVars, delVars
<1>6. ASSUME NEW s \in Stream, MarkerAges(s) PROVE CInv'
  BY <1>6 DEF MarkerAges, sessVars, logVars, jobVars, workVars,
     dogVars, delVars
<1>7. ASSUME NEW s \in Stream, Listener(s) PROVE CInv'
  <2>1. CASE ListenerCheck(s)
    BY <2>1 DEF ListenerCheck, ListenerStep, sessVars, logVars,
       jobVars, ownVars, workVars, dogVars, delVars
  <2>2. CASE ListenerAppend(s)
    BY <2>2 DEF ListenerAppend, ListenerStep, sessVars, jobVars,
       ownVars, workVars, dogVars, delVars
  <2>3. CASE ListenerClose(s)
    BY <2>3 DEF ListenerClose, ListenerStep, CloseStream,
       sessVars, jobVars, ownVars, workVars, dogVars, delVars
  <2>4. CASE ListenerGet(s)
    BY <2>4 DEF ListenerGet, ListenerStep, sessVars, logVars,
       jobVars, ownVars, workVars, dogVars, delVars
  <2>5. CASE ListenerDel(s)
    BY <2>5 DEF ListenerDel, Rob, ListenerStep, DelLock,
       logVars, jobVars, ownVars, workVars, dogVars, delVars, Causes
  <2> QED
    BY <1>7, <2>1, <2>2, <2>3, <2>4, <2>5 DEF Listener
<1>8. ASSUME NEW w \in Worker, Slot(w) PROVE CInv'
  <2>1. CASE CheckOpen(w)
    BY <2>1 DEF CheckOpen, IsOpen, Goto, Ends, sessVars, logVars,
       jobVars, ownVars, dogVars, delVars
  <2>2. CASE CheckSession(w)
    BY <2>2 DEF CheckSession, Goto, Ends, sessVars, logVars,
       jobVars, ownVars, dogVars, delVars
  <2>3. CASE Register(w)
    BY <2>3, SMTT(30) DEF Register, Stopped, Goto, Ends, Spend, ownVars,
       sessVars, logVars, jobVars, dogVars, delVars
  <2>4. CASE Prepare(w)
    BY <2>4 DEF Prepare, Goto, Ends, sessVars, logVars, jobVars,
       ownVars, dogVars, delVars
  <2>5. CASE RecheckSession(w)
    BY <2>5 DEF RecheckSession, Goto, Ends, sessVars, logVars,
       jobVars, ownVars, dogVars, delVars
  <2>6. CASE RecheckOpen(w)
    BY <2>6 DEF RecheckOpen, IsOpen, Goto, Ends, sessVars,
       logVars, jobVars, ownVars, dogVars, delVars
  <2>7. CASE AgentEnds(w)
    BY <2>7 DEF AgentEnds, IsOpen, Goto, Ends, sessVars, jobVars,
       ownVars, dogVars, delVars
  <2>8. CASE AppendRejected(w)
    BY <2>8 DEF AppendRejected, IsOpen, Goto, Ends, sessVars,
       logVars, jobVars, ownVars, dogVars, delVars
  <2>9. CASE CloseOwn(w)
    BY <2>9 DEF CloseOwn, CloseStream, Goto, Ends, sessVars,
       jobVars, ownVars, dogVars, delVars
  <2>10. CASE Catch(w)
    BY <2>10 DEF Catch, Goto, IsOpen, sessVars, logVars, jobVars,
       ownVars, dogVars, delVars
  <2>11. CASE AppendTerminal(w)
    BY <2>11 DEF AppendTerminal, IsOpen, Goto, sessVars, jobVars,
       ownVars, dogVars, delVars
  <2>12. CASE CloseFailed(w)
    BY <2>12 DEF CloseFailed, CloseStream, Goto, sessVars,
       jobVars, ownVars, dogVars, delVars
  <2>13. CASE ReleaseGet(w)
    BY <2>13 DEF ReleaseGet, Goto, sessVars, logVars, jobVars,
       ownVars, dogVars, delVars
  <2>14. CASE ReleaseDel(w)
    BY <2>14 DEF ReleaseDel, Rob, DelLock, Goto, logVars,
       jobVars, ownVars, dogVars, delVars, Causes
  <2>15. CASE Finish(w)
    BY <2>15 DEF Finish, Goto, Ends, sessVars, logVars, dogVars,
       delVars
  <2> QED
    BY <1>8, <2>1, <2>2, <2>3, <2>4, <2>5, <2>6, <2>7, <2>8, <2>9, <2>10,
       <2>11, <2>12, <2>13, <2>14, <2>15 DEF Slot
<1>9. ASSUME NEW w \in Worker, StopSeen(w) PROVE CInv'
  BY <1>9 DEF StopSeen, Stopped, sessVars, logVars, jobVars,
     ownVars, dogVars, delVars
<1>10. ASSUME NEW w \in Worker, Beat(w) PROVE CInv'
  BY <1>10 DEF Beat, Registered, Owning, sessVars, logVars,
     jobVars, workVars, dogVars, delVars
<1>11. ASSUME NEW w \in Worker, NEW s \in Stream, Take(w, s) PROVE CInv'
  BY <1>11 DEF Take, sessVars, logVars, ownVars, dogVars, delVars
<1>12. ASSUME NEW x \in Session, Deletion(x) PROVE CInv'
  <2>1. CASE DelLockRead(x)
    BY <2>1 DEF DelLockRead, DelGoto, sessVars, logVars, jobVars,
       ownVars, workVars, dogVars
  <2>2. CASE DelStatus(x)
    BY <2>2 DEF DelStatus, DelGoto, sessVars, logVars, jobVars,
       ownVars, workVars, dogVars
  <2>3. CASE DelDrop(x)
    BY <2>3 DEF DelDrop, Rob, DelGoto, logVars, jobVars,
       ownVars, workVars, dogVars, Causes
  <2>4. CASE DelFind(x)
    BY <2>4 DEF DelFind, DelGoto, sessVars, logVars,
       jobVars, ownVars, workVars, dogVars
  <2>5. CASE DelJobState(x)
    BY <2>5 DEF DelJobState, DelGoto, Settled, sessVars, logVars,
       jobVars, ownVars, workVars, dogVars
  <2>6. CASE DelSetStop(x)
    BY <2>6 DEF DelSetStop, DelGoto, sessVars, logVars, jobVars,
       ownVars, workVars, dogVars
  <2>7. CASE DelRemove(x)
    BY <2>7 DEF DelRemove, DelGoto, sessVars, logVars, ownVars,
       workVars, dogVars
  <2>8. CASE DelPollJob(x)
    BY <2>8 DEF DelPollJob, DelGoto, sessVars, logVars,
       jobVars, ownVars, workVars, dogVars
  <2>9. CASE DelTimeout(x)
    BY <2>9 DEF DelTimeout, DelGoto, sessVars, logVars, jobVars,
       ownVars, workVars, dogVars
  <2>10. CASE DelClose(x)
    BY <2>10 DEF DelClose, CloseStream, DelGoto, sessVars,
       jobVars, ownVars, workVars, dogVars
  <2>11. CASE DelGet(x)
    BY <2>11 DEF DelGet, DelGoto, Done, sessVars, logVars,
       jobVars, ownVars, workVars, dogVars
  <2>12. CASE DelDel(x)
    BY <2>12 DEF DelDel, Rob, DelGoto, Done, logVars,
       jobVars, ownVars, workVars, dogVars, Causes
  <2>13. CASE DelRelock(x)
    BY <2>13 DEF DelRelock, DelGoto, sessVars, logVars, jobVars,
       ownVars, workVars, dogVars
  <2>14. CASE DelUnqueue(x)
    BY <2>14 DEF DelUnqueue, DelGoto, sessVars, logVars, ownVars,
       workVars, dogVars
  <2>15. CASE HardDelete(x)
    BY <2>15 DEF HardDelete, DelReset, DelGoto, sessVars,
       logVars, jobVars, ownVars, workVars, dogVars
  <2> QED
    BY <1>12, <2>1, <2>2, <2>3, <2>4, <2>5, <2>6, <2>7, <2>8, <2>9, <2>10,
       <2>11, <2>12, <2>13, <2>14, <2>15 DEF Deletion
<1>13. ASSUME NEW x \in Session, LockExpires(x) PROVE CInv'
  BY <1>13 DEF LockExpires, Rob, Spend, logVars, jobVars,
     ownVars, workVars, dogVars, delVars, Causes
<1>14. ASSUME NEW x \in Session, DeleteSession(x) PROVE CInv'
  BY <1>14 DEF DeleteSession, Spend, DelGoto, sessVars, logVars,
     jobVars, ownVars, workVars, dogVars
<1>15. ASSUME NEW x \in Session, DelPoll(x) PROVE CInv'
  BY <1>15 DEF DelPoll, DelGoto, sessVars, logVars, jobVars,
     ownVars, workVars, dogVars
<1>16. ASSUME Watchdog PROVE CInv'
  <2>1. ASSUME NEW x \in Session, SweepPick(x) PROVE CInv'
    BY <2>1 DEF SweepPick, sessVars, logVars, jobVars, ownVars,
       workVars, delVars
  <2>2. CASE SweepStatus
    BY <2>2 DEF SweepStatus, sessVars, logVars, jobVars, ownVars,
       workVars, delVars
  <2>3. CASE SweepAppend
    BY <2>3 DEF SweepAppend, sessVars, jobVars, ownVars,
       workVars, delVars
  <2>4. CASE SweepClose
    BY <2>4 DEF SweepClose, CloseStream, sessVars, jobVars,
       ownVars, workVars, delVars
  <2>5. CASE SweepGet
    BY <2>5 DEF SweepGet, sessVars, logVars, jobVars, ownVars,
       workVars, delVars
  <2>6. CASE SweepDel
    BY <2>6 DEF SweepDel, Rob, DelLock, logVars, jobVars,
       ownVars, workVars, delVars, Causes
  <2> QED
    BY <1>16, <2>1, <2>2, <2>3, <2>4, <2>5, <2>6 DEF Watchdog
<1>17. ASSUME Crash PROVE CInv'
  <2>1. spent'["crash"] > 0 /\ (Exited <=> Exited')
    BY <1>17 DEF Crash, Spend
  <2>2. Accepts' /\ Unqueued' /\ JobState' /\ Ended' /\ Undecided'
    BY <1>17 DEF Crash, sessVars, logVars
  <2>3. HasCustodian'
    BY <1>17, <2>1 DEF Crash, sessVars, logVars, delVars
  <2> QED
    BY <2>2, <2>3
<1>18. ASSUME Shutdown PROVE CInv'
  BY <1>18 DEF Shutdown, Spend, Registered, Owning, sessVars,
     logVars, jobVars, ownVars, dogVars, delVars
<1>19. ASSUME Restart PROVE CInv'
  BY <1>19 DEF Restart, sessVars, logVars, jobVars, ownVars,
     workVars, dogVars, delVars
<1>20. ASSUME ApiCrash PROVE CInv'
  BY <1>20 DEF ApiCrash, Spend, InFlight, sessVars, logVars,
     jobVars, ownVars, workVars
<1>21. ASSUME CallFails PROVE CInv'
  <2>1. ASSUME NEW s \in Stream, OpenFails(s) PROVE CInv'
    BY <2>1 DEF OpenFails, Rob, Spend, jobVars, ownVars,
       workVars, dogVars, delVars, Causes
  <2>2. ASSUME NEW s \in Stream, EnqueueFails(s) PROVE CInv'
    BY <2>2 DEF EnqueueFails, Spend, sessVars, logVars, ownVars,
       workVars, dogVars, delVars
  <2>3. ASSUME NEW s \in Stream, RequestFails(s) PROVE CInv'
    BY <2>3 DEF RequestFails, Rob, Spend, LockFree,
       sessVars, logVars, jobVars, ownVars, workVars, dogVars, delVars, Causes
  <2>4. ASSUME NEW s \in Stream, ListenerFails(s) PROVE CInv'
    BY <2>4 DEF ListenerFails, Rob, Spend, logVars,
       jobVars, ownVars, workVars, dogVars, delVars, Causes
  <2>5. ASSUME NEW w \in Worker, SlotFails(w) PROVE CInv'
    BY <2>5 DEF SlotFails, Rob, Spend, Goto, Ends, logVars,
       jobVars, ownVars, dogVars, delVars, Causes
  <2>6. ASSUME NEW x \in Session, DelFails(x) PROVE CInv'
    BY <2>6 DEF DelFails, Rob, Spend, DelGoto, DelReset,
       logVars, jobVars, ownVars, workVars, dogVars, Causes
  <2>7. CASE SweepFails
    BY <2>7 DEF SweepFails, Rob, Spend, logVars, jobVars,
       ownVars, workVars, delVars, Causes
  <2> QED
    BY <1>21, <2>1, <2>2, <2>3, <2>4, <2>5, <2>6, <2>7 DEF CallFails
<1>u. CASE UNCHANGED vars
  BY <1>u DEF vars
<1> QED
  BY <1>u, <1>1, <1>2, <1>3, <1>4, <1>5, <1>6, <1>7, <1>8, <1>9, <1>10, <1>11,
     <1>12, <1>13, <1>14, <1>15, <1>16, <1>17, <1>18, <1>19, <1>20, <1>21 DEF
     Next

LEMMA CustodyStep == ASSUME IInv, CInv, [Next]_vars PROVE CInv'
<1>1. TypeOK'
  BY TypeStep DEF IInv
<1> QED
  BY <1>1, CustodyAction

(* The invariant behind custody: who will close a run that is open.         *)
THEOREM Custody == Spec => []CInv
<1>1. Init => CInv
  BY CustodyInit
<1>2. IInv /\ CInv /\ [Next]_vars => CInv'
  BY CustodyStep
<1> QED
  BY <1>1, <1>2, Invariant, PTL DEF Spec

(* Until a process exits, an open run always has somebody who will close    *)
(* it, whatever is cancelled, removed, redelivered, failed or crashed: for  *)
(* any number of sessions, runs and slots and any mixture of faults.        *)
THEOREM CustodianRemains == Spec => []HasCustodian
<1>1. CInv => HasCustodian
  BY DEF CInv
<1> QED
  BY <1>1, Custody, PTL

-----------------------------------------------------------------------------
(* Terminal events, in behaviours where no worker died or lagged and no call *)
(* failed: then a job is executed once, by the one slot that holds its       *)
(* token, and a run that slot registered is never seen without a heartbeat.  *)

Calm == spent["crash"] + spent["lag"] + spent["fail"] = 0

\* An active job is held; a busy slot holds its job.
Held == /\ \A s \in Stream : job[s] = "active" => holder[s] \in Worker
        /\ \A w \in Worker : wpc[w] # "idle" => holder[wrun[w]] = w

\* A slot past its close step closed the run.
EndedClosed == \A w \in Worker :
    wpc[w] \in {"get", "del"} \/ (wpc[w] = "finish" /\ wend[w] # "thrown") =>
        Closed(wrun[w])

\* A registered run has a heartbeat; a marked one is closed or registered.
Beating ==
    /\ \A w \in Worker : Registered(w) => wrun[w] \in wal
    /\ \A s \in Stream : created[s] # "none" =>
         Closed(s) \/ \E w \in Worker : Registered(w) /\ wrun[w] = s

\* The watchdog looks at closed runs only.
SweepsClosed == sweep # "idle" => Closed(sweepRun)

\* Who appended a terminal to an open run closes it next, or has exited.
Closing(s) == \/ \E w \in Worker : wrun[w] = s /\ wpc[w] \in {"closeOwn", "close"}
              \/ job[s] = "failed" /\ listener[s] \notin {"check", "append"}

Counted == \A s \in Stream :
    /\ stream[s] = "missing" => terms[s] = 0
    /\ IsRunning(s) => terms[s] = 0 \/ Closing(s)
    /\ terms[s] <= 1

TInv == Calm => Held /\ EndedClosed /\ Beating /\ SweepsClosed /\ Counted

LEMMA TerminalsInit == Init => TInv
  BY RunAssumption DEF Init, TInv, Held, EndedClosed, Beating, SweepsClosed, Counted,
     Registered, Owning, IsRunning

LEMMA TerminalsAction ==
    ASSUME IInv, CInv, TInv, TypeOK', [Next]_vars
    PROVE  TInv'
<1> USE RunAssumption DEF TInv, Calm, Held, EndedClosed, Beating, SweepsClosed, Counted, Closing,
        CInv, JobState, Undecided, Closed, Registered, Owning, Budget, IInv, Unopened, Opened,
        IsRunning, Final, TypeOK
<1>1. ASSUME NEW s \in Stream, Request(s) PROVE TInv'
  <2>1. CASE Acquire(s)
    BY <2>1 DEF Acquire, LockFree, logVars, jobVars, ownVars,
       workVars, dogVars, delVars
  <2>2. CASE Open(s)
    BY <2>2 DEF Open, sessVars, jobVars, ownVars, workVars,
       dogVars, delVars
  <2>3. CASE Enqueue(s)
    BY <2>3 DEF Enqueue, Unqueued, sessVars, logVars, ownVars, workVars,
       dogVars, delVars
  <2>4. CASE CleanupClose(s)
    BY <2>4 DEF CleanupClose, CloseStream, sessVars, jobVars,
       ownVars, workVars, dogVars, delVars
  <2>5. CASE CleanupGet(s)
    BY <2>5 DEF CleanupGet, sessVars, logVars, jobVars, ownVars,
       workVars, dogVars, delVars
  <2>6. CASE CleanupDel(s)
    BY <2>6 DEF CleanupDel, Rob, DelLock, logVars, jobVars,
       ownVars, workVars, dogVars, delVars, Causes
  <2> QED
    BY <1>1, <2>1, <2>2, <2>3, <2>4, <2>5, <2>6 DEF Request
<1>2. ASSUME NEW s \in Stream, Submit(s) PROVE TInv'
  BY <1>2 DEF Submit, Spend, logVars, jobVars, ownVars, workVars,
     dogVars, delVars
<1>3. ASSUME NEW s \in Stream, Stop(s) PROVE TInv'
  BY <1>3 DEF Stop, Spend, sessVars, logVars, jobVars, ownVars,
     workVars, dogVars, delVars
<1>4. ASSUME NEW s \in Stream, Stall(s) PROVE TInv'
  BY <1>4 DEF Stall, Spend, sessVars, logVars, ownVars, workVars,
     dogVars, delVars
<1>5. ASSUME NEW s \in Stream, WalExpires(s) PROVE TInv'
  BY <1>5 DEF WalExpires, Registered, Owning, Spend, sessVars,
     logVars, jobVars, workVars, dogVars, delVars
<1>6. ASSUME NEW s \in Stream, MarkerAges(s) PROVE TInv'
  BY <1>6 DEF MarkerAges, sessVars, logVars, jobVars, workVars,
     dogVars, delVars
<1>7. ASSUME NEW s \in Stream, Listener(s) PROVE TInv'
  <2>1. CASE ListenerCheck(s)
    BY <2>1 DEF ListenerCheck, ListenerStep, sessVars, logVars,
       jobVars, ownVars, workVars, dogVars, delVars
  <2>2. CASE ListenerAppend(s)
    BY <2>2 DEF ListenerAppend, ListenerStep, sessVars, jobVars,
       ownVars, workVars, dogVars, delVars
  <2>3. CASE ListenerClose(s)
    BY <2>3 DEF ListenerClose, ListenerStep, CloseStream,
       sessVars, jobVars, ownVars, workVars, dogVars, delVars
  <2>4. CASE ListenerGet(s)
    BY <2>4 DEF ListenerGet, ListenerStep, sessVars, logVars,
       jobVars, ownVars, workVars, dogVars, delVars
  <2>5. CASE ListenerDel(s)
    BY <2>5 DEF ListenerDel, Rob, ListenerStep, DelLock,
       logVars, jobVars, ownVars, workVars, dogVars, delVars, Causes
  <2> QED
    BY <1>7, <2>1, <2>2, <2>3, <2>4, <2>5 DEF Listener
<1>8. ASSUME NEW w \in Worker, Slot(w) PROVE TInv'
  <2>1. CASE CheckOpen(w)
    BY <2>1, SMTT(30) DEF CheckOpen, IsOpen, Goto, Ends, sessVars, logVars,
       jobVars, ownVars, dogVars, delVars
  <2>2. CASE CheckSession(w)
    BY <2>2 DEF CheckSession, Goto, Ends, sessVars, logVars,
       jobVars, ownVars, dogVars, delVars
  <2>3. CASE Register(w)
    <3>1. Calm' => Held'
      BY <2>3 DEF Register, Goto, Ends, Spend, ownVars, jobVars
    <3>2. Calm' => EndedClosed'
      BY <2>3 DEF Register, Goto, Ends, Spend, logVars
    <3>3. Calm' => Beating'
      <4>1. CASE accepting
        <5>1. wal' = wal \cup {wrun[w]} /\ Registered(w)'
          BY <2>3, <4>1 DEF Register, Goto, Ends, ownVars
        <5>2. \A v \in Worker : v # w => (Registered(v)' <=> Registered(v))
          BY <2>3, <4>1 DEF Register, Goto, Ends
        <5> QED
          BY <2>3, <4>1, <5>1, <5>2 DEF Register, Goto, Ends, Spend, logVars
      <4>2. CASE ~accepting
        BY <2>3, <4>2 DEF Register, Goto, Ends, ownVars, logVars
      <4> QED
        BY <4>1, <4>2
    <3>4. Calm' => SweepsClosed'
      BY <2>3 DEF Register, Goto, Ends, Spend, logVars, dogVars
    <3>5. Calm' => Counted'
      BY <2>3, SMTT(30) DEF Register, Goto, Ends, Spend, logVars, jobVars
    <3> QED
      BY <3>1, <3>2, <3>3, <3>4, <3>5
  <2>4. CASE Prepare(w)
    BY <2>4, SMTT(30) DEF Prepare, Goto, Ends, sessVars, logVars, jobVars,
       ownVars, dogVars, delVars
  <2>5. CASE RecheckSession(w)
    BY <2>5 DEF RecheckSession, Goto, Ends, sessVars, logVars,
       jobVars, ownVars, dogVars, delVars
  <2>6. CASE RecheckOpen(w)
    BY <2>6, SMTT(30) DEF RecheckOpen, IsOpen, Goto, Ends, sessVars,
       logVars, jobVars, ownVars, dogVars, delVars
  <2>7. CASE AgentEnds(w)
    BY <2>7 DEF AgentEnds, IsOpen, Goto, Ends, sessVars, jobVars,
       ownVars, dogVars, delVars
  <2>8. CASE AppendRejected(w)
    BY <2>8 DEF AppendRejected, IsOpen, Goto, Ends, sessVars,
       logVars, jobVars, ownVars, dogVars, delVars
  <2>9. CASE CloseOwn(w)
    BY <2>9 DEF CloseOwn, CloseStream, Goto, Ends, sessVars,
       jobVars, ownVars, dogVars, delVars
  <2>10. CASE Catch(w)
    BY <2>10 DEF Catch, Goto, IsOpen, sessVars, logVars, jobVars,
       ownVars, dogVars, delVars
  <2>11. CASE AppendTerminal(w)
    BY <2>11, SMTT(30) DEF AppendTerminal, IsOpen, Goto, sessVars, jobVars,
       ownVars, dogVars, delVars
  <2>12. CASE CloseFailed(w)
    BY <2>12 DEF CloseFailed, CloseStream, Goto, sessVars,
       jobVars, ownVars, dogVars, delVars
  <2>13. CASE ReleaseGet(w)
    BY <2>13 DEF ReleaseGet, Goto, sessVars, logVars, jobVars,
       ownVars, dogVars, delVars
  <2>14. CASE ReleaseDel(w)
    BY <2>14 DEF ReleaseDel, Rob, DelLock, Goto, logVars,
       jobVars, ownVars, dogVars, delVars, Causes
  <2>15. CASE Finish(w)
    BY <2>15 DEF Finish, Goto, Ends, sessVars, logVars, dogVars,
       delVars
  <2> QED
    BY <1>8, <2>1, <2>2, <2>3, <2>4, <2>5, <2>6, <2>7, <2>8, <2>9, <2>10,
       <2>11, <2>12, <2>13, <2>14, <2>15 DEF Slot
<1>9. ASSUME NEW w \in Worker, StopSeen(w) PROVE TInv'
  BY <1>9 DEF StopSeen, Stopped, sessVars, logVars, jobVars,
     ownVars, dogVars, delVars
<1>10. ASSUME NEW w \in Worker, Beat(w) PROVE TInv'
  BY <1>10 DEF Beat, Registered, Owning, sessVars, logVars,
     jobVars, workVars, dogVars, delVars
<1>11. ASSUME NEW w \in Worker, NEW s \in Stream, Take(w, s) PROVE TInv'
  BY <1>11 DEF Take, sessVars, logVars, ownVars, dogVars, delVars
<1>12. ASSUME NEW x \in Session, Deletion(x) PROVE TInv'
  <2>1. CASE DelLockRead(x)
    BY <2>1 DEF DelLockRead, DelGoto, sessVars, logVars, jobVars,
       ownVars, workVars, dogVars
  <2>2. CASE DelStatus(x)
    BY <2>2 DEF DelStatus, DelGoto, sessVars, logVars, jobVars,
       ownVars, workVars, dogVars
  <2>3. CASE DelDrop(x)
    BY <2>3 DEF DelDrop, Rob, DelGoto, logVars, jobVars,
       ownVars, workVars, dogVars, Causes
  <2>4. CASE DelFind(x)
    BY <2>4 DEF DelFind, DelGoto, Live, sessVars, logVars,
       jobVars, ownVars, workVars, dogVars
  <2>5. CASE DelJobState(x)
    BY <2>5 DEF DelJobState, DelGoto, Settled, sessVars, logVars,
       jobVars, ownVars, workVars, dogVars
  <2>6. CASE DelSetStop(x)
    BY <2>6 DEF DelSetStop, DelGoto, sessVars, logVars, jobVars,
       ownVars, workVars, dogVars
  <2>7. CASE DelRemove(x)
    BY <2>7 DEF DelRemove, DelGoto, sessVars, logVars, ownVars,
       workVars, dogVars
  <2>8. CASE DelPollJob(x)
    BY <2>8 DEF DelPollJob, Live, DelGoto, sessVars, logVars,
       jobVars, ownVars, workVars, dogVars
  <2>9. CASE DelTimeout(x)
    BY <2>9 DEF DelTimeout, DelGoto, sessVars, logVars, jobVars,
       ownVars, workVars, dogVars
  <2>10. CASE DelClose(x)
    BY <2>10 DEF DelClose, CloseStream, DelGoto, sessVars,
       jobVars, ownVars, workVars, dogVars
  <2>11. CASE DelGet(x)
    BY <2>11 DEF DelGet, DelGoto, Done, sessVars, logVars,
       jobVars, ownVars, workVars, dogVars
  <2>12. CASE DelDel(x)
    BY <2>12 DEF DelDel, Rob, DelGoto, Done, logVars,
       jobVars, ownVars, workVars, dogVars, Causes
  <2>13. CASE DelRelock(x)
    BY <2>13 DEF DelRelock, DelGoto, sessVars, logVars, jobVars,
       ownVars, workVars, dogVars
  <2>14. CASE DelUnqueue(x)
    BY <2>14 DEF DelUnqueue, DelGoto, sessVars, logVars, ownVars,
       workVars, dogVars
  <2>15. CASE HardDelete(x)
    BY <2>15 DEF HardDelete, DelReset, DelGoto, sessVars,
       logVars, jobVars, ownVars, workVars, dogVars
  <2> QED
    BY <1>12, <2>1, <2>2, <2>3, <2>4, <2>5, <2>6, <2>7, <2>8, <2>9, <2>10,
       <2>11, <2>12, <2>13, <2>14, <2>15 DEF Deletion
<1>13. ASSUME NEW x \in Session, LockExpires(x) PROVE TInv'
  BY <1>13 DEF LockExpires, Rob, Spend, logVars, jobVars,
     ownVars, workVars, dogVars, delVars, Causes
<1>14. ASSUME NEW x \in Session, DeleteSession(x) PROVE TInv'
  BY <1>14 DEF DeleteSession, Spend, DelGoto, sessVars, logVars,
     jobVars, ownVars, workVars, dogVars
<1>15. ASSUME NEW x \in Session, DelPoll(x) PROVE TInv'
  BY <1>15 DEF DelPoll, DelGoto, sessVars, logVars, jobVars,
     ownVars, workVars, dogVars
<1>16. ASSUME Watchdog PROVE TInv'
  <2>1. ASSUME NEW x \in Session, SweepPick(x) PROVE TInv'
    BY <2>1 DEF SweepPick, sessVars, logVars, jobVars, ownVars,
       workVars, delVars
  <2>2. CASE SweepStatus
    BY <2>2 DEF SweepStatus, sessVars, logVars, jobVars, ownVars,
       workVars, delVars
  <2>3. CASE SweepAppend
    BY <2>3 DEF SweepAppend, sessVars, jobVars, ownVars,
       workVars, delVars
  <2>4. CASE SweepClose
    BY <2>4 DEF SweepClose, CloseStream, sessVars, jobVars,
       ownVars, workVars, delVars
  <2>5. CASE SweepGet
    BY <2>5 DEF SweepGet, sessVars, logVars, jobVars, ownVars,
       workVars, delVars
  <2>6. CASE SweepDel
    BY <2>6 DEF SweepDel, Rob, DelLock, logVars, jobVars,
       ownVars, workVars, delVars, Causes
  <2> QED
    BY <1>16, <2>1, <2>2, <2>3, <2>4, <2>5, <2>6 DEF Watchdog
<1>17. ASSUME Crash PROVE TInv'
  BY <1>17 DEF Crash, Spend, sessVars, logVars, ownVars, dogVars,
     delVars
<1>18. ASSUME Shutdown PROVE TInv'
  BY <1>18 DEF Shutdown, Spend, Registered, Owning, sessVars,
     logVars, jobVars, ownVars, dogVars, delVars
<1>19. ASSUME Restart PROVE TInv'
  BY <1>19 DEF Restart, sessVars, logVars, jobVars, ownVars,
     workVars, dogVars, delVars
<1>20. ASSUME ApiCrash PROVE TInv'
  BY <1>20 DEF ApiCrash, Spend, InFlight, sessVars, logVars,
     jobVars, ownVars, workVars
<1>21. ASSUME CallFails PROVE TInv'
  <2>1. ASSUME NEW s \in Stream, OpenFails(s) PROVE TInv'
    BY <2>1 DEF OpenFails, Rob, Spend, jobVars, ownVars,
       workVars, dogVars, delVars, Causes
  <2>2. ASSUME NEW s \in Stream, EnqueueFails(s) PROVE TInv'
    BY <2>2 DEF EnqueueFails, Unqueued, Spend, sessVars, logVars, ownVars,
       workVars, dogVars, delVars
  <2>3. ASSUME NEW s \in Stream, RequestFails(s) PROVE TInv'
    BY <2>3 DEF RequestFails, Rob, Spend, LockFree,
       sessVars, logVars, jobVars, ownVars, workVars, dogVars, delVars, Causes
  <2>4. ASSUME NEW s \in Stream, ListenerFails(s) PROVE TInv'
    BY <2>4 DEF ListenerFails, Rob, Spend, logVars,
       jobVars, ownVars, workVars, dogVars, delVars, Causes
  <2>5. ASSUME NEW w \in Worker, SlotFails(w) PROVE TInv'
    BY <2>5 DEF SlotFails, Rob, Spend, Goto, Ends, logVars,
       jobVars, ownVars, dogVars, delVars, Causes
  <2>6. ASSUME NEW x \in Session, DelFails(x) PROVE TInv'
    BY <2>6 DEF DelFails, Rob, Spend, DelGoto, DelReset,
       logVars, jobVars, ownVars, workVars, dogVars, Causes
  <2>7. CASE SweepFails
    BY <2>7 DEF SweepFails, Rob, Spend, logVars, jobVars,
       ownVars, workVars, delVars, Causes
  <2> QED
    BY <1>21, <2>1, <2>2, <2>3, <2>4, <2>5, <2>6, <2>7 DEF CallFails
<1>u. CASE UNCHANGED vars
  BY <1>u DEF vars
<1> QED
  BY <1>u, <1>1, <1>2, <1>3, <1>4, <1>5, <1>6, <1>7, <1>8, <1>9, <1>10, <1>11,
     <1>12, <1>13, <1>14, <1>15, <1>16, <1>17, <1>18, <1>19, <1>20, <1>21 DEF
     Next

LEMMA TerminalsStep == ASSUME IInv, CInv, TInv, [Next]_vars PROVE TInv'
<1>1. TypeOK'
  BY TypeStep DEF IInv
<1> QED
  BY <1>1, TerminalsAction

(* The invariant behind the single terminal: who has yet to write one.      *)
THEOREM Terminals == Spec => []TInv
<1>1. Init => TInv
  BY TerminalsInit
<1>2. IInv /\ CInv /\ TInv /\ [Next]_vars => TInv'
  BY TerminalsStep
<1> QED
  BY <1>1, <1>2, Invariant, Custody, PTL DEF Spec

(* While no worker dies or lags and no call fails, the log of a run has at  *)
(* most one terminal event, however slots, listeners, the watchdog,         *)
(* deletions, stops, shutdowns and API crashes interleave.                  *)
THEOREM TerminalOnce == Spec => []OneTerminal
<1>1. TInv => OneTerminal
  BY DEF TInv, Calm, Counted, OneTerminal
<1> QED
  BY <1>1, Terminals, PTL
=============================================================================
