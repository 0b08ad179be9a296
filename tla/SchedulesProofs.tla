--------------------------- MODULE SchedulesProofs ---------------------------
(***************************************************************************)
(* Theorems about Schedules for any number of jobs and faults: the types,     *)
(* that an active schedule has a job to fire it, and that its prompt is sent   *)
(* at most once for each time it was due and for each fault.                  *)
(***************************************************************************)
EXTENDS Schedules, FiniteSetTheorems, TLAPS

-----------------------------------------------------------------------------
(* The inductive invariant.                                                *)

\* There is no row to cancel before it is created, and no job unless the add
\* succeeded.
Beginning ==
    /\ createPc = "row" => schedule.status = "none" /\ cancelPc = "idle"
    /\ createPc # "created" => \A j \in ScheduleJob : scheduleJob[j] = NoScheduleJob

Known == \A j \in ScheduleJob : scheduleJob[j].for = "none" <=> scheduleJob[j].pc = "none"

\* Nothing makes a row active again.
Retired ==
    schedule.attempts = MaxAttempts \/ cancelPc # "idle" =>
        schedule.status \notin {"none", "active"}

\* ScheduleArmed without the handlers that are about to return: what they leave
\* behind, the next job or a settled row, is there already.
PendingFires(j) == scheduleJob[j].pc \in {"delayed", "spent"} \cup (AtWork \ {"return"})

Armed ==
    schedule.status = "active" =>
        (\E j \in ScheduleJob : PendingFires(j)) \/ createPc \in {"add", "markFailed", "unmarked", "died"}

\* Jobs that may still send the prompt for the time they were queued for.
Charged(job) ==
    {j \in ScheduleJob : job[j].pc \in {"delayed", "load", "start", "offer", "failure", "addRetry"}}

DueJobs(job) == {j \in ScheduleJob : job[j].for = "due"}

\* A prompt that may still be sent is counted as one that was.
Counted ==
    prompts + Cardinality(Charged(scheduleJob)) <= Cardinality(DueJobs(scheduleJob)) + scheduleFaults

Shape == ScheduleTypeOK /\ Beginning /\ Known /\ Retired

IInv == Shape /\ Armed /\ Counted

LEMMA FiniteJobs ==
  ASSUME NEW S \in SUBSET ScheduleJob
  PROVE  IsFiniteSet(S) /\ Cardinality(S) \in Nat
<1>1. IsFiniteSet(ScheduleJob)
  BY FS_Interval, ScheduleAssumption DEF ScheduleJob
<1> QED
  BY <1>1, FS_Subset, FS_CardinalityType

JobType == [for : {"none", "due", "retry"},
            pc : {"none", "delayed", "gone", "spent"} \cup AtWork,
            read : 0..MaxAttempts - 1]

Moved(j, p) == [for |-> scheduleJob[j].for, pc |-> p, read |-> scheduleJob[j].read]

LEMMA Moves ==
  ASSUME ScheduleTypeOK, NEW j \in ScheduleJob, NEW p, HandlerAt(j, p)
  PROVE  scheduleJob' = [scheduleJob EXCEPT ![j] = Moved(j, p)]
<1>1. scheduleJob[j] \in JobType
  BY DEF ScheduleTypeOK, JobType
<1>2. [scheduleJob[j] EXCEPT !.pc = p] = Moved(j, p)
  BY <1>1 DEF JobType, Moved
<1>3. scheduleJob' = [scheduleJob EXCEPT ![j] = [scheduleJob[j] EXCEPT !.pc = p]]
  BY DEF HandlerAt
<1> QED
  BY <1>2, <1>3

LEMMA NewJobs ==
  ASSUME NEW use \in {"due", "retry"}
  PROVE  Delayed(use) = [for |-> use, pc |-> "delayed", read |-> 0]
<1>1. [NoScheduleJob EXCEPT !.for = use] = [for |-> use, pc |-> "none", read |-> 0]
  BY DEF NoScheduleJob
<1>2. [[for |-> use, pc |-> "none", read |-> 0] EXCEPT !.pc = "delayed"]
        = [for |-> use, pc |-> "delayed", read |-> 0]
  OBVIOUS
<1> QED
  BY <1>1, <1>2 DEF Delayed

LEMMA Failure ==
  ASSUME ScheduleTypeOK, NEW j \in ScheduleJob, RunFailed(j)
  PROVE  LET attempts == scheduleJob[j].read + 1
             out == attempts >= MaxAttempts
         IN  /\ scheduleJob[j].pc = "failure" /\ UNCHANGED <<createPc, cancelPc, prompts, scheduleFaults>>
             /\ attempts \in 1..MaxAttempts
             /\ schedule' = [status |-> IF out THEN "failed" ELSE schedule.status,
                             freq |-> schedule.freq, attempts |-> attempts]
             /\ scheduleJob' = [scheduleJob EXCEPT
                                  ![j] = Moved(j, IF out THEN "return" ELSE "addRetry")]
<1> DEFINE attempts == scheduleJob[j].read + 1
<1>1. attempts \in 1..MaxAttempts
  BY DEF ScheduleTypeOK, MaxAttempts
<1>2. CASE attempts >= MaxAttempts
  <2>1. HandlerAt(j, "return") /\ schedule' = [schedule EXCEPT !.attempts = attempts, !.status = "failed"]
    BY <1>2 DEF RunFailed
  <2>2. schedule' = [status |-> "failed", freq |-> schedule.freq, attempts |-> attempts]
    BY <2>1 DEF ScheduleTypeOK
  <2> QED
    BY <1>1, <1>2, <2>1, <2>2, Moves DEF RunFailed
<1>3. CASE ~(attempts >= MaxAttempts)
  <2>1. HandlerAt(j, "addRetry") /\ schedule' = [schedule EXCEPT !.attempts = attempts]
    BY <1>3 DEF RunFailed
  <2>2. schedule' = [status |-> schedule.status, freq |-> schedule.freq, attempts |-> attempts]
    BY <2>1 DEF ScheduleTypeOK
  <2> QED
    BY <1>1, <1>3, <2>1, <2>2, Moves DEF RunFailed
<1> QED
  BY <1>2, <1>3

LEMMA Success ==
  ASSUME ScheduleTypeOK, NEW j \in ScheduleJob, RunStarted(j)
  PROVE  LET once == schedule.freq = "once"
         IN  /\ scheduleJob[j].pc = "success" /\ UNCHANGED <<createPc, cancelPc, prompts, scheduleFaults>>
             /\ schedule' = [status |-> IF once THEN "done" ELSE schedule.status,
                             freq |-> schedule.freq, attempts |-> 0]
             /\ scheduleJob' = [scheduleJob EXCEPT
                                  ![j] = Moved(j, IF once THEN "return" ELSE "addNext")]
<1>1. CASE schedule.freq = "once"
  <2>1. HandlerAt(j, "return") /\ schedule' = [schedule EXCEPT !.attempts = 0, !.status = "done"]
    BY <1>1 DEF RunStarted
  <2>2. schedule' = [status |-> "done", freq |-> schedule.freq, attempts |-> 0]
    BY <2>1 DEF ScheduleTypeOK
  <2> QED
    BY <1>1, <2>1, <2>2, Moves DEF RunStarted
<1>2. CASE schedule.freq # "once"
  <2>1. HandlerAt(j, "addNext") /\ schedule' = [schedule EXCEPT !.attempts = 0]
    BY <1>2 DEF RunStarted
  <2>2. schedule' = [status |-> schedule.status, freq |-> schedule.freq, attempts |-> 0]
    BY <2>1 DEF ScheduleTypeOK
  <2> QED
    BY <1>2, <2>1, <2>2, Moves DEF RunStarted
<1> QED
  BY <1>1, <1>2

NewJob(use) == [for |-> use, pc |-> "delayed", read |-> 0]

LEMMA Addition ==
  ASSUME ScheduleTypeOK, Known, NEW j \in ScheduleJob, AddJobAfter(j)
  PROVE  /\ scheduleJob[j].pc \in {"addRetry", "addNext"}
         /\ UNCHANGED <<schedule, createPc, cancelPc, prompts, scheduleFaults>>
         /\ \E k \in ScheduleJob :
            /\ k # j /\ scheduleJob[k].for = "none"
            /\ scheduleJob' = [scheduleJob EXCEPT
                  ![j] = Moved(j, "return"),
                  ![k] = NewJob(IF scheduleJob[j].pc = "addRetry" THEN "retry" ELSE "due")]
<1> DEFINE use == IF scheduleJob[j].pc = "addRetry" THEN "retry" ELSE "due"
<1>1. PICK k \in ScheduleJob :
         /\ scheduleJob[k].for = "none"
         /\ scheduleJob' = [scheduleJob EXCEPT ![j].pc = "return", ![k] = Delayed(use)]
  BY DEF AddJobAfter
<1>2. k # j
  BY <1>1 DEF AddJobAfter, Known
<1>3. scheduleJob[j] \in JobType
  BY DEF ScheduleTypeOK, JobType
<1>4. [scheduleJob[j] EXCEPT !.pc = "return"] = Moved(j, "return")
  BY <1>3 DEF JobType, Moved
<1>5. Delayed(use) = NewJob(use)
  BY NewJobs DEF NewJob
<1>6. scheduleJob' = [scheduleJob EXCEPT ![j] = Moved(j, "return"), ![k] = NewJob(use)]
  BY <1>1, <1>4, <1>5
<1> QED
  BY <1>1, <1>2, <1>6 DEF AddJobAfter

LEMMA InitSchedule == ScheduleInit => IInv
<1> SUFFICES ASSUME ScheduleInit PROVE IInv
  OBVIOUS
<1> USE ScheduleAssumption DEF ScheduleInit, NoScheduleJob
<1>1. Shape
  BY DEF Shape, ScheduleTypeOK, Beginning, Known, Retired, MaxAttempts
<1>2. Armed
  BY DEF Armed
<1>3. Charged(scheduleJob) = {} /\ DueJobs(scheduleJob) = {}
  BY DEF Charged, DueJobs
<1>4. Counted
  BY <1>3, FS_EmptySet DEF Counted
<1> QED
  BY <1>1, <1>2, <1>4 DEF IInv

-----------------------------------------------------------------------------
(* Types.                                                                  *)

LEMMA ScheduleTypeStep ==
  ASSUME Shape, [ScheduleNext]_scheduleVars
  PROVE  ScheduleTypeOK'
<1> USE ScheduleAssumption DEF Shape, ScheduleTypeOK, Retired, MaxAttempts, ScheduleJob, AtWork
<1>1. CASE CreateRow
  BY <1>1 DEF CreateRow
<1>2. CASE CreateJob
  BY <1>2, NewJobs DEF CreateJob
<1>3. CASE CreateMarksFailed
  BY <1>3 DEF CreateMarksFailed
<1>4. CASE CreateDies
  BY <1>4 DEF CreateDies
<1>5. CASE Cancel
  BY <1>5 DEF Cancel
<1>6. CASE CancelRemovesJob
  BY <1>6 DEF CancelRemovesJob
<1>7. ASSUME NEW j \in ScheduleJob, Due(j) PROVE ScheduleTypeOK'
  BY <1>7, Moves DEF Due, Moved
<1>8. ASSUME NEW j \in ScheduleJob, LoadSchedule(j) PROVE ScheduleTypeOK'
  BY <1>8, Moves DEF LoadSchedule, Moved
<1>9. ASSUME NEW j \in ScheduleJob, StartRun(j) PROVE ScheduleTypeOK'
  BY <1>9, Moves DEF StartRun, Moved
<1>10. ASSUME NEW j \in ScheduleJob, OfferRun(j) PROVE ScheduleTypeOK'
  BY <1>10, Moves DEF OfferRun, Moved
<1>11. ASSUME NEW j \in ScheduleJob, RunFailed(j) PROVE ScheduleTypeOK'
  BY <1>11, Failure DEF Moved
<1>12. ASSUME NEW j \in ScheduleJob, RunStarted(j) PROVE ScheduleTypeOK'
  BY <1>12, Success DEF Moved
<1>13. ASSUME NEW j \in ScheduleJob, AddJobAfter(j) PROVE ScheduleTypeOK'
  BY <1>13, Addition, SMTT(30) DEF Moved, NewJob
<1>14. ASSUME NEW j \in ScheduleJob, HandlerReturns(j) PROVE ScheduleTypeOK'
  BY <1>14, Moves DEF HandlerReturns, Moved
<1>15. ASSUME NEW j \in ScheduleJob, HandlerFails(j) PROVE ScheduleTypeOK'
  BY <1>15, Moves DEF HandlerFails, Moved
<1>16. CASE UNCHANGED scheduleVars
  BY <1>16 DEF scheduleVars
<1> QED
  BY <1>1, <1>2, <1>3, <1>4, <1>5, <1>6, <1>7, <1>8, <1>9,
     <1>10, <1>11, <1>12, <1>13, <1>14, <1>15, <1>16
  DEF ScheduleNext

LEMMA BeginningStep ==
  ASSUME Shape, [ScheduleNext]_scheduleVars
  PROVE  Beginning'
<1> USE ScheduleAssumption DEF Shape, ScheduleTypeOK, Beginning, NoScheduleJob, AtWork
<1>1. CASE CreateRow
  BY <1>1 DEF CreateRow
<1>2. CASE CreateJob
  BY <1>2, NewJobs DEF CreateJob
<1>3. CASE CreateMarksFailed
  BY <1>3 DEF CreateMarksFailed
<1>4. CASE CreateDies
  BY <1>4 DEF CreateDies
<1>5. CASE Cancel
  BY <1>5 DEF Cancel
<1>6. CASE CancelRemovesJob
  BY <1>6 DEF CancelRemovesJob
<1>7. ASSUME NEW j \in ScheduleJob, Due(j) PROVE Beginning'
  BY <1>7, Moves DEF Due, Moved
<1>8. ASSUME NEW j \in ScheduleJob, LoadSchedule(j) PROVE Beginning'
  BY <1>8, Moves DEF LoadSchedule, Moved
<1>9. ASSUME NEW j \in ScheduleJob, StartRun(j) PROVE Beginning'
  BY <1>9, Moves DEF StartRun, Moved
<1>10. ASSUME NEW j \in ScheduleJob, OfferRun(j) PROVE Beginning'
  BY <1>10, Moves DEF OfferRun, Moved
<1>11. ASSUME NEW j \in ScheduleJob, RunFailed(j) PROVE Beginning'
  BY <1>11, Failure DEF Moved
<1>12. ASSUME NEW j \in ScheduleJob, RunStarted(j) PROVE Beginning'
  BY <1>12, Success DEF Moved
<1>13. ASSUME NEW j \in ScheduleJob, AddJobAfter(j) PROVE Beginning'
  BY <1>13, Addition DEF Moved, NewJob
<1>14. ASSUME NEW j \in ScheduleJob, HandlerReturns(j) PROVE Beginning'
  BY <1>14, Moves DEF HandlerReturns, Moved
<1>15. ASSUME NEW j \in ScheduleJob, HandlerFails(j) PROVE Beginning'
  BY <1>15, Moves DEF HandlerFails, Moved
<1>16. CASE UNCHANGED scheduleVars
  BY <1>16 DEF scheduleVars
<1> QED
  BY <1>1, <1>2, <1>3, <1>4, <1>5, <1>6, <1>7, <1>8, <1>9,
     <1>10, <1>11, <1>12, <1>13, <1>14, <1>15, <1>16
  DEF ScheduleNext

LEMMA KnownStep ==
  ASSUME Shape, [ScheduleNext]_scheduleVars
  PROVE  Known'
<1> USE ScheduleAssumption DEF Shape, ScheduleTypeOK, Known, AtWork
<1>1. CASE CreateRow
  BY <1>1 DEF CreateRow
<1>2. CASE CreateJob
  BY <1>2, NewJobs DEF CreateJob
<1>3. CASE CreateMarksFailed
  BY <1>3 DEF CreateMarksFailed
<1>4. CASE CreateDies
  BY <1>4 DEF CreateDies
<1>5. CASE Cancel
  BY <1>5 DEF Cancel
<1>6. CASE CancelRemovesJob
  BY <1>6 DEF CancelRemovesJob
<1>7. ASSUME NEW j \in ScheduleJob, Due(j) PROVE Known'
  BY <1>7, Moves DEF Due, Moved
<1>8. ASSUME NEW j \in ScheduleJob, LoadSchedule(j) PROVE Known'
  BY <1>8, Moves DEF LoadSchedule, Moved
<1>9. ASSUME NEW j \in ScheduleJob, StartRun(j) PROVE Known'
  BY <1>9, Moves DEF StartRun, Moved
<1>10. ASSUME NEW j \in ScheduleJob, OfferRun(j) PROVE Known'
  BY <1>10, Moves DEF OfferRun, Moved
<1>11. ASSUME NEW j \in ScheduleJob, RunFailed(j) PROVE Known'
  BY <1>11, Failure DEF Moved
<1>12. ASSUME NEW j \in ScheduleJob, RunStarted(j) PROVE Known'
  BY <1>12, Success DEF Moved
<1>13. ASSUME NEW j \in ScheduleJob, AddJobAfter(j) PROVE Known'
  BY <1>13, Addition DEF Moved, NewJob
<1>14. ASSUME NEW j \in ScheduleJob, HandlerReturns(j) PROVE Known'
  BY <1>14, Moves DEF HandlerReturns, Moved
<1>15. ASSUME NEW j \in ScheduleJob, HandlerFails(j) PROVE Known'
  BY <1>15, Moves DEF HandlerFails, Moved
<1>16. CASE UNCHANGED scheduleVars
  BY <1>16 DEF scheduleVars
<1> QED
  BY <1>1, <1>2, <1>3, <1>4, <1>5, <1>6, <1>7, <1>8, <1>9,
     <1>10, <1>11, <1>12, <1>13, <1>14, <1>15, <1>16
  DEF ScheduleNext

LEMMA RetiredStep ==
  ASSUME Shape, [ScheduleNext]_scheduleVars
  PROVE  Retired'
<1> USE ScheduleAssumption DEF Shape, ScheduleTypeOK, Beginning, Retired, MaxAttempts
<1>1. CASE CreateRow
  BY <1>1 DEF CreateRow
<1>2. CASE CreateJob
  BY <1>2, NewJobs DEF CreateJob
<1>3. CASE CreateMarksFailed
  BY <1>3 DEF CreateMarksFailed
<1>4. CASE CreateDies
  BY <1>4 DEF CreateDies
<1>5. CASE Cancel
  BY <1>5 DEF Cancel
<1>6. CASE CancelRemovesJob
  BY <1>6 DEF CancelRemovesJob
<1>7. ASSUME NEW j \in ScheduleJob, Due(j) PROVE Retired'
  BY <1>7, Moves DEF Due, Moved
<1>8. ASSUME NEW j \in ScheduleJob, LoadSchedule(j) PROVE Retired'
  BY <1>8, Moves DEF LoadSchedule, Moved
<1>9. ASSUME NEW j \in ScheduleJob, StartRun(j) PROVE Retired'
  BY <1>9, Moves DEF StartRun, Moved
<1>10. ASSUME NEW j \in ScheduleJob, OfferRun(j) PROVE Retired'
  BY <1>10, Moves DEF OfferRun, Moved
<1>11. ASSUME NEW j \in ScheduleJob, RunFailed(j) PROVE Retired'
  BY <1>11, Failure DEF Moved
<1>12. ASSUME NEW j \in ScheduleJob, RunStarted(j) PROVE Retired'
  BY <1>12, Success DEF Moved
<1>13. ASSUME NEW j \in ScheduleJob, AddJobAfter(j) PROVE Retired'
  BY <1>13, Addition DEF Moved, NewJob
<1>14. ASSUME NEW j \in ScheduleJob, HandlerReturns(j) PROVE Retired'
  BY <1>14, Moves DEF HandlerReturns, Moved
<1>15. ASSUME NEW j \in ScheduleJob, HandlerFails(j) PROVE Retired'
  BY <1>15, Moves DEF HandlerFails, Moved
<1>16. CASE UNCHANGED scheduleVars
  BY <1>16 DEF scheduleVars
<1> QED
  BY <1>1, <1>2, <1>3, <1>4, <1>5, <1>6, <1>7, <1>8, <1>9,
     <1>10, <1>11, <1>12, <1>13, <1>14, <1>15, <1>16
  DEF ScheduleNext

LEMMA ShapeStep == Shape /\ [ScheduleNext]_scheduleVars => Shape'
  BY ScheduleTypeStep, BeginningStep, KnownStep, RetiredStep DEF Shape

-----------------------------------------------------------------------------
(* Arming.                                                                 *)

LEMMA ArmedStep ==
  ASSUME Shape, [ScheduleNext]_scheduleVars, Armed
  PROVE  Armed'
<1> USE ScheduleAssumption DEF Shape, ScheduleTypeOK, Beginning, Retired, Armed, PendingFires,
    AtWork
<1>1. CASE CreateRow
  BY <1>1 DEF CreateRow
<1>2. CASE CreateJob
  <2>1. 1 \in ScheduleJob
    BY DEF ScheduleJob
  <2> QED
    BY <1>2, <2>1, NewJobs DEF CreateJob
<1>3. CASE CreateMarksFailed
  BY <1>3 DEF CreateMarksFailed
<1>4. CASE CreateDies
  BY <1>4 DEF CreateDies
<1>5. CASE Cancel
  BY <1>5 DEF Cancel
<1>6. CASE CancelRemovesJob
  BY <1>6 DEF CancelRemovesJob
<1>7. ASSUME NEW j \in ScheduleJob, Due(j) PROVE Armed'
  BY <1>7, Moves DEF Due, Moved
<1>8. ASSUME NEW j \in ScheduleJob, LoadSchedule(j) PROVE Armed'
  BY <1>8, Moves DEF LoadSchedule, Moved
<1>9. ASSUME NEW j \in ScheduleJob, StartRun(j) PROVE Armed'
  BY <1>9, Moves DEF StartRun, Moved
<1>10. ASSUME NEW j \in ScheduleJob, OfferRun(j) PROVE Armed'
  BY <1>10, Moves DEF OfferRun, Moved
<1>11. ASSUME NEW j \in ScheduleJob, RunFailed(j) PROVE Armed'
  BY <1>11, Failure DEF Moved
<1>12. ASSUME NEW j \in ScheduleJob, RunStarted(j) PROVE Armed'
  BY <1>12, Success DEF Moved
<1>13. ASSUME NEW j \in ScheduleJob, AddJobAfter(j) PROVE Armed'
  BY <1>13, Addition DEF Moved, NewJob
<1>14. ASSUME NEW j \in ScheduleJob, HandlerReturns(j) PROVE Armed'
  BY <1>14, Moves DEF HandlerReturns, Moved
<1>15. ASSUME NEW j \in ScheduleJob, HandlerFails(j) PROVE Armed'
  BY <1>15, Moves DEF HandlerFails, Moved
<1>16. CASE UNCHANGED scheduleVars
  BY <1>16 DEF scheduleVars
<1> QED
  BY <1>1, <1>2, <1>3, <1>4, <1>5, <1>6, <1>7, <1>8, <1>9,
     <1>10, <1>11, <1>12, <1>13, <1>14, <1>15, <1>16
  DEF ScheduleNext

-----------------------------------------------------------------------------
(* Counting.                                                               *)

LEMMA Sizes ==
  ASSUME NEW S \in SUBSET ScheduleJob, NEW T \in SUBSET ScheduleJob,
         NEW j \in ScheduleJob, NEW k \in ScheduleJob
  PROVE  /\ T \subseteq S => Cardinality(T) <= Cardinality(S)
         /\ T \subseteq S \cup {k} => Cardinality(T) <= Cardinality(S) + 1
         /\ j \in S /\ T \subseteq S \ {j} => Cardinality(T) <= Cardinality(S) - 1
         /\ j \in S /\ T \subseteq (S \ {j}) \cup {k} => Cardinality(T) <= Cardinality(S)
         /\ k \notin S /\ T = S \cup {k} => Cardinality(T) = Cardinality(S) + 1
<1>1. IsFiniteSet(S) /\ Cardinality(S) \in Nat /\ Cardinality(T) \in Nat
  BY FiniteJobs
<1>2. /\ IsFiniteSet(S \cup {k})
      /\ Cardinality(S \cup {k}) = IF k \in S THEN Cardinality(S) ELSE Cardinality(S) + 1
  BY <1>1, FS_AddElement
<1>3. /\ IsFiniteSet(S \ {j})
      /\ Cardinality(S \ {j}) = IF j \in S THEN Cardinality(S) - 1 ELSE Cardinality(S)
  BY <1>1, FS_RemoveElement
<1>4. /\ IsFiniteSet((S \ {j}) \cup {k})
      /\ Cardinality((S \ {j}) \cup {k}) <= Cardinality(S \ {j}) + 1
  <2>1. Cardinality(S \ {j}) \in Nat
    BY <1>3, FiniteJobs
  <2> QED
    BY <1>3, <2>1, FS_AddElement
<1>5. \A A \in SUBSET ScheduleJob : IsFiniteSet(A) /\ T \subseteq A => Cardinality(T) <= Cardinality(A)
  BY FS_Subset
<1>6. /\ S \cup {k} \in SUBSET ScheduleJob
      /\ S \ {j} \in SUBSET ScheduleJob
      /\ (S \ {j}) \cup {k} \in SUBSET ScheduleJob
  OBVIOUS
<1>7. T \subseteq S => Cardinality(T) <= Cardinality(S)
  BY <1>1, <1>5
<1>8. T \subseteq S \cup {k} => Cardinality(T) <= Cardinality(S) + 1
  BY <1>1, <1>2, <1>5, <1>6
<1>9. j \in S /\ T \subseteq S \ {j} => Cardinality(T) <= Cardinality(S) - 1
  BY <1>1, <1>3, <1>5, <1>6
<1>10. j \in S /\ T \subseteq (S \ {j}) \cup {k} => Cardinality(T) <= Cardinality(S)
  <2>1. SUFFICES ASSUME j \in S, T \subseteq (S \ {j}) \cup {k}
                 PROVE  Cardinality(T) <= Cardinality(S)
    OBVIOUS
  <2>2. Cardinality(T) <= Cardinality((S \ {j}) \cup {k})
    BY <2>1, <1>4, <1>5, <1>6
  <2>3. Cardinality((S \ {j}) \cup {k}) \in Nat
    BY <1>6, FiniteJobs
  <2>4. Cardinality(S \ {j}) = Cardinality(S) - 1
    BY <2>1, <1>3
  <2> QED
    BY <2>2, <2>3, <2>4, <1>1, <1>4
<1> QED
  BY <1>2, <1>7, <1>8, <1>9, <1>10

\* What a step does to the two sets and the counters, and the sum it leaves.
LEMMA Balance ==
  ASSUME Shape, Shape', Counted,
         LET before == Charged(scheduleJob)
             after  == Charged(scheduleJob')
             due    == DueJobs(scheduleJob)
             due2   == DueJobs(scheduleJob')
         IN  \/ /\ after \subseteq before /\ due2 = due
                /\ prompts' = prompts /\ scheduleFaults' = scheduleFaults
             \/ /\ due2 = due /\ scheduleFaults' = scheduleFaults
                /\ prompts' \in {prompts, prompts + 1}
                /\ \E j \in before : after \subseteq before \ {j}
             \/ /\ due2 = due /\ scheduleFaults' = scheduleFaults + 1
                /\ prompts' = prompts
                /\ \E k \in ScheduleJob : after \subseteq before \cup {k}
             \/ /\ due2 = due /\ scheduleFaults' = scheduleFaults
                /\ prompts' = prompts
                /\ \E j \in before, k \in ScheduleJob : after \subseteq (before \ {j}) \cup {k}
             \/ /\ scheduleFaults' = scheduleFaults /\ prompts' = prompts
                /\ \E k \in ScheduleJob \ due :
                      due2 = due \cup {k} /\ after \subseteq before \cup {k}
  PROVE  Counted'
<1> DEFINE before == Charged(scheduleJob)
           after  == Charged(scheduleJob')
           due    == DueJobs(scheduleJob)
           due2   == DueJobs(scheduleJob')
<1>1. /\ before \in SUBSET ScheduleJob /\ after \in SUBSET ScheduleJob
      /\ due \in SUBSET ScheduleJob /\ due2 \in SUBSET ScheduleJob
  BY DEF Charged, DueJobs
<1>2. /\ Cardinality(before) \in Nat /\ Cardinality(after) \in Nat
      /\ Cardinality(due) \in Nat /\ Cardinality(due2) \in Nat
  BY <1>1, FiniteJobs
<1>3. prompts \in Nat /\ scheduleFaults \in Nat
  BY ScheduleAssumption DEF Shape, ScheduleTypeOK
<1>4. prompts + Cardinality(before) <= Cardinality(due) + scheduleFaults
  BY DEF Counted
<1>5. 1 \in ScheduleJob
  BY ScheduleAssumption DEF ScheduleJob
<1>6. SUFFICES prompts' + Cardinality(after) <= Cardinality(due2) + scheduleFaults'
  BY DEF Counted
<1> HIDE DEF before, after, due, due2
<1>7. CASE /\ after \subseteq before /\ due2 = due
           /\ prompts' = prompts /\ scheduleFaults' = scheduleFaults
  <2>1. Cardinality(after) <= Cardinality(before)
    BY <1>7, <1>1, <1>5, Sizes
  <2> QED
    BY <2>1, <1>7, <1>2, <1>3, <1>4
<1>8. CASE /\ due2 = due /\ scheduleFaults' = scheduleFaults
           /\ prompts' \in {prompts, prompts + 1}
           /\ \E j \in before : after \subseteq before \ {j}
  <2>1. PICK j \in before : after \subseteq before \ {j}
    BY <1>8
  <2>2. Cardinality(after) <= Cardinality(before) - 1
    BY <2>1, <1>1, Sizes
  <2> QED
    BY <2>2, <1>8, <1>2, <1>3, <1>4
<1>9. CASE /\ due2 = due /\ scheduleFaults' = scheduleFaults + 1
           /\ prompts' = prompts
           /\ \E k \in ScheduleJob : after \subseteq before \cup {k}
  <2>1. PICK k \in ScheduleJob : after \subseteq before \cup {k}
    BY <1>9
  <2>2. Cardinality(after) <= Cardinality(before) + 1
    BY <2>1, <1>1, Sizes
  <2> QED
    BY <2>2, <1>9, <1>2, <1>3, <1>4
<1>10. CASE /\ due2 = due /\ scheduleFaults' = scheduleFaults
            /\ prompts' = prompts
            /\ \E j \in before, k \in ScheduleJob : after \subseteq (before \ {j}) \cup {k}
  <2>1. PICK j \in before, k \in ScheduleJob : after \subseteq (before \ {j}) \cup {k}
    BY <1>10
  <2>2. Cardinality(after) <= Cardinality(before)
    BY <2>1, <1>1, Sizes
  <2> QED
    BY <2>2, <1>10, <1>2, <1>3, <1>4
<1>11. CASE /\ scheduleFaults' = scheduleFaults /\ prompts' = prompts
            /\ \E k \in ScheduleJob \ due :
                  due2 = due \cup {k} /\ after \subseteq before \cup {k}
  <2>1. PICK k \in ScheduleJob \ due : due2 = due \cup {k} /\ after \subseteq before \cup {k}
    BY <1>11
  <2>2. Cardinality(after) <= Cardinality(before) + 1
    BY <2>1, <1>1, Sizes
  <2>3. Cardinality(due2) = Cardinality(due) + 1
    BY <2>1, <1>1, Sizes
  <2> QED
    BY <2>2, <2>3, <1>11, <1>2, <1>3, <1>4
<1> QED
  BY <1>7, <1>8, <1>9, <1>10, <1>11 DEF before, after, due, due2

LEMMA CountedStep ==
  ASSUME Shape, [ScheduleNext]_scheduleVars, Counted
  PROVE  Counted'
<1>0. Shape'
  BY ShapeStep
<1> USE ScheduleAssumption DEF Shape, ScheduleTypeOK, Beginning, Known, NoScheduleJob,
    Charged, DueJobs
<1>1. CASE CreateRow
  <2>1. /\ Charged(scheduleJob') \subseteq Charged(scheduleJob) /\ DueJobs(scheduleJob') = DueJobs(scheduleJob)
        /\ prompts' = prompts /\ scheduleFaults' = scheduleFaults
    BY <1>1 DEF CreateRow
  <2> QED
    BY <2>1, <1>0, Balance
<1>2. CASE CreateJob
  <2>1. 1 \in ScheduleJob /\ 1 \notin DueJobs(scheduleJob)
    BY <1>2 DEF CreateJob, ScheduleJob
  <2>2. \/ Charged(scheduleJob') \subseteq Charged(scheduleJob) /\ DueJobs(scheduleJob') = DueJobs(scheduleJob)
        \/ DueJobs(scheduleJob') = DueJobs(scheduleJob) \cup {1} /\ Charged(scheduleJob') \subseteq Charged(scheduleJob) \cup {1}
    BY <1>2, <2>1, NewJobs DEF CreateJob
  <2>3. prompts' = prompts /\ scheduleFaults' = scheduleFaults
    BY <1>2 DEF CreateJob
  <2> QED
    BY <2>1, <2>2, <2>3, <1>0, Balance
<1>3. CASE CreateMarksFailed
  <2>1. /\ Charged(scheduleJob') \subseteq Charged(scheduleJob) /\ DueJobs(scheduleJob') = DueJobs(scheduleJob)
        /\ prompts' = prompts /\ scheduleFaults' = scheduleFaults
    BY <1>3 DEF CreateMarksFailed
  <2> QED
    BY <2>1, <1>0, Balance
<1>4. CASE CreateDies
  <2>1. /\ Charged(scheduleJob') \subseteq Charged(scheduleJob) /\ DueJobs(scheduleJob') = DueJobs(scheduleJob)
        /\ prompts' = prompts /\ scheduleFaults' = scheduleFaults
    BY <1>4 DEF CreateDies
  <2> QED
    BY <2>1, <1>0, Balance
<1>5. CASE Cancel
  <2>1. /\ Charged(scheduleJob') \subseteq Charged(scheduleJob) /\ DueJobs(scheduleJob') = DueJobs(scheduleJob)
        /\ prompts' = prompts /\ scheduleFaults' = scheduleFaults
    BY <1>5 DEF Cancel
  <2> QED
    BY <2>1, <1>0, Balance
<1>6. CASE CancelRemovesJob
  <2>1. /\ Charged(scheduleJob') \subseteq Charged(scheduleJob) /\ DueJobs(scheduleJob') = DueJobs(scheduleJob)
        /\ prompts' = prompts /\ scheduleFaults' = scheduleFaults
    BY <1>6 DEF CancelRemovesJob
  <2> QED
    BY <2>1, <1>0, Balance
<1>7. ASSUME NEW j \in ScheduleJob, Due(j) PROVE Counted'
  <2>1. /\ Charged(scheduleJob') \subseteq Charged(scheduleJob) /\ DueJobs(scheduleJob') = DueJobs(scheduleJob)
        /\ prompts' = prompts /\ scheduleFaults' = scheduleFaults
    BY <1>7, Moves DEF Due, Moved
  <2> QED
    BY <2>1, <1>0, Balance
<1>8. ASSUME NEW j \in ScheduleJob, LoadSchedule(j) PROVE Counted'
  <2>1. /\ Charged(scheduleJob') \subseteq Charged(scheduleJob) /\ DueJobs(scheduleJob') = DueJobs(scheduleJob)
        /\ prompts' = prompts /\ scheduleFaults' = scheduleFaults
    BY <1>8, Moves DEF LoadSchedule, Moved
  <2> QED
    BY <2>1, <1>0, Balance
<1>9. ASSUME NEW j \in ScheduleJob, StartRun(j) PROVE Counted'
  <2>1. /\ Charged(scheduleJob') \subseteq Charged(scheduleJob) /\ DueJobs(scheduleJob') = DueJobs(scheduleJob)
        /\ prompts' = prompts /\ scheduleFaults' = scheduleFaults
    BY <1>9, Moves DEF StartRun, Moved
  <2> QED
    BY <2>1, <1>0, Balance
<1>10. ASSUME NEW j \in ScheduleJob, OfferRun(j) PROVE Counted'
  <2>1. j \in Charged(scheduleJob) /\ DueJobs(scheduleJob') = DueJobs(scheduleJob) /\ scheduleFaults' = scheduleFaults
    BY <1>10, Moves DEF OfferRun, Moved
  <2>2. \/ Charged(scheduleJob') \subseteq Charged(scheduleJob) \ {j} /\ prompts' \in {prompts, prompts + 1}
        \/ Charged(scheduleJob') \subseteq Charged(scheduleJob) /\ prompts' = prompts
    BY <1>10, Moves DEF OfferRun, Moved
  <2> QED
    BY <2>1, <2>2, <1>0, Balance
<1>11. ASSUME NEW j \in ScheduleJob, RunFailed(j) PROVE Counted'
  <2>1. /\ Charged(scheduleJob') \subseteq Charged(scheduleJob) /\ DueJobs(scheduleJob') = DueJobs(scheduleJob)
        /\ prompts' = prompts /\ scheduleFaults' = scheduleFaults
    BY <1>11, Failure DEF Moved
  <2> QED
    BY <2>1, <1>0, Balance
<1>12. ASSUME NEW j \in ScheduleJob, RunStarted(j) PROVE Counted'
  <2>1. /\ Charged(scheduleJob') \subseteq Charged(scheduleJob) /\ DueJobs(scheduleJob') = DueJobs(scheduleJob)
        /\ prompts' = prompts /\ scheduleFaults' = scheduleFaults
    BY <1>12, Success DEF Moved
  <2> QED
    BY <2>1, <1>0, Balance
<1>13. ASSUME NEW j \in ScheduleJob, AddJobAfter(j) PROVE Counted'
  <2>1. /\ scheduleJob[j].pc \in {"addRetry", "addNext"}
        /\ UNCHANGED <<prompts, scheduleFaults>>
    BY <1>13, Addition
  <2>2. PICK k \in ScheduleJob :
          /\ k # j /\ scheduleJob[k].for = "none"
          /\ scheduleJob' = [scheduleJob EXCEPT
                ![j] = Moved(j, "return"),
                ![k] = NewJob(IF scheduleJob[j].pc = "addRetry" THEN "retry" ELSE "due")]
    BY <1>13, Addition
  <2>3. CASE scheduleJob[j].pc = "addRetry"
    <3>1. /\ j \in Charged(scheduleJob) /\ DueJobs(scheduleJob') = DueJobs(scheduleJob)
          /\ Charged(scheduleJob') \subseteq (Charged(scheduleJob) \ {j}) \cup {k}
      BY <2>2, <2>3 DEF Moved, NewJob
    <3> QED
      BY <2>1, <3>1, <1>0, Balance
  <2>4. CASE scheduleJob[j].pc = "addNext"
    <3>1. /\ k \in ScheduleJob \ DueJobs(scheduleJob) /\ DueJobs(scheduleJob') = DueJobs(scheduleJob) \cup {k}
          /\ Charged(scheduleJob') \subseteq Charged(scheduleJob) \cup {k}
      BY <2>2, <2>4 DEF Moved, NewJob
    <3> QED
      BY <2>1, <3>1, <1>0, Balance
  <2> QED
    BY <2>1, <2>3, <2>4
<1>14. ASSUME NEW j \in ScheduleJob, HandlerReturns(j) PROVE Counted'
  <2>1. /\ Charged(scheduleJob') \subseteq Charged(scheduleJob) /\ DueJobs(scheduleJob') = DueJobs(scheduleJob)
        /\ prompts' = prompts /\ scheduleFaults' = scheduleFaults
    BY <1>14, Moves DEF HandlerReturns, Moved
  <2> QED
    BY <2>1, <1>0, Balance
<1>15. ASSUME NEW j \in ScheduleJob, HandlerFails(j) PROVE Counted'
  <2>1. /\ DueJobs(scheduleJob') = DueJobs(scheduleJob) /\ scheduleFaults' = scheduleFaults + 1 /\ prompts' = prompts
        /\ Charged(scheduleJob') \subseteq Charged(scheduleJob) \cup {j}
    BY <1>15, Moves DEF HandlerFails, Moved
  <2> QED
    BY <2>1, <1>0, Balance
<1>16. CASE UNCHANGED scheduleVars
  <2>1. /\ Charged(scheduleJob') \subseteq Charged(scheduleJob) /\ DueJobs(scheduleJob') = DueJobs(scheduleJob)
        /\ prompts' = prompts /\ scheduleFaults' = scheduleFaults
    BY <1>16 DEF scheduleVars
  <2> QED
    BY <2>1, <1>0, Balance
<1> QED
  BY <1>1, <1>2, <1>3, <1>4, <1>5, <1>6, <1>7, <1>8, <1>9,
     <1>10, <1>11, <1>12, <1>13, <1>14, <1>15, <1>16
  DEF ScheduleNext

-----------------------------------------------------------------------------
LEMMA ScheduleInvariance == ScheduleSpec => []IInv
<1>1. IInv /\ [ScheduleNext]_scheduleVars => IInv'
  BY ShapeStep, ArmedStep, CountedStep DEF IInv
<1> QED
  BY <1>1, InitSchedule, PTL DEF ScheduleSpec

\* Every step of the API and of every handler keeps every variable in its type.
THEOREM ScheduleTypeCorrect == ScheduleSpec => []ScheduleTypeOK
  BY ScheduleInvariance, PTL DEF IInv, Shape

\* A schedule that looks active has a job that will fire it, unless the API
\* failed to create it and to say so.
THEOREM ActiveFires == ScheduleSpec => []ScheduleArmed
<1>1. IInv => ScheduleArmed
  BY DEF IInv, Armed, PendingFires, ScheduleArmed
<1> QED
  BY <1>1, ScheduleInvariance, PTL

\* The prompt is sent at most once for each time it was due and for each fault.
THEOREM PromptsBounded == ScheduleSpec => []PromptOncePerDue
<1>1. IInv => PromptOncePerDue
  <2> SUFFICES ASSUME IInv PROVE PromptOncePerDue
    OBVIOUS
  <2>1. /\ Charged(scheduleJob) \in SUBSET ScheduleJob
        /\ DueJobs(scheduleJob) \in SUBSET ScheduleJob
    BY DEF Charged, DueJobs
  <2>2. Cardinality(Charged(scheduleJob)) \in Nat /\ Cardinality(DueJobs(scheduleJob)) \in Nat
    BY <2>1, FiniteJobs
  <2>3. prompts \in Nat /\ scheduleFaults \in Nat
    BY ScheduleAssumption DEF IInv, Shape, ScheduleTypeOK
  <2>4. prompts <= Cardinality(DueJobs(scheduleJob)) + scheduleFaults
    BY <2>2, <2>3 DEF IInv, Counted
  <2> QED
    BY <2>4 DEF PromptOncePerDue, DueJobs
<1> QED
  BY <1>1, ScheduleInvariance, PTL
=============================================================================
