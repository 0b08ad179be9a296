------------------------------ MODULE Schedules ------------------------------
(***************************************************************************)
(* One scheduled prompt: its row in Postgres and its jobs in the BullMQ queue *)
(* workspace-schedule.  The API creates and cancels it; schedule workers      *)
(* handle a due job by starting a chat run in the schedule's session and then *)
(* queueing the next job.  A handler stops at every await: the steps of       *)
(* handlers, of the API and of dying processes interleave.  Time is left out: *)
(* a delayed job may become due at any moment, and no two job ids collide.    *)
(***************************************************************************)
EXTENDS Naturals, FiniteSets

CONSTANTS
    MaxScheduleJobs,    \* bound: jobs the schedule ever gets
    MaxScheduleFaults   \* bound: calls that throw and processes that die

MaxAttempts == 3    \* MAX_ATTEMPTS

ASSUME ScheduleAssumption == MaxScheduleJobs \in Nat \ {0} /\ MaxScheduleFaults \in Nat

VARIABLES
    schedule,       \* the row: status, freq, attempts
    createPc,       \* POST /schedules
    cancelPc,       \* DELETE /schedules/:id
    scheduleJob,    \* each job: what it is for, where it is, what its handler read
    prompts,        \* history: chat runs whose job BullMQ took
    scheduleFaults  \* history: throws and deaths so far

scheduleVars == <<schedule, createPc, cancelPc, scheduleJob, prompts, scheduleFaults>>

ScheduleJob == 1..MaxScheduleJobs

AtWork == {"load", "start", "offer", "failure", "success", "addRetry", "addNext", "return"}

ScheduleTypeOK ==
    /\ schedule \in [status : {"none", "active", "done", "failed", "cancelled"},
                     freq : {"once", "daily"}, attempts : 0..MaxAttempts]
    /\ createPc \in {"row", "add", "markFailed", "created", "refused", "unmarked", "died"}
    /\ cancelPc \in {"idle", "remove", "done"}
    /\ scheduleJob \in [ScheduleJob -> [for : {"none", "due", "retry"},
                                        pc : {"none", "delayed", "gone", "spent"} \cup AtWork,
                                        read : 0..MaxAttempts - 1]]
    /\ prompts \in Nat
    /\ scheduleFaults \in 0..MaxScheduleFaults

NoScheduleJob == [for |-> "none", pc |-> "none", read |-> 0]
Delayed(use)  == [NoScheduleJob EXCEPT !.for = use, !.pc = "delayed"]

ScheduleInit ==
    /\ schedule \in [status : {"none"}, freq : {"once", "daily"}, attempts : {0}]
    /\ createPc = "row"
    /\ cancelPc = "idle"
    /\ scheduleJob = [j \in ScheduleJob |-> NoScheduleJob]
    /\ prompts = 0
    /\ scheduleFaults = 0

-----------------------------------------------------------------------------
(* The API.  A created row without a job would look active and never fire.  *)

CreateRow ==
    /\ createPc = "row"
    /\ createPc' = "add"
    /\ schedule' = [schedule EXCEPT !.status = "active"]
    /\ UNCHANGED <<cancelPc, scheduleJob, prompts, scheduleFaults>>

\* The first job has the schedule's own id.  A failing add stores no job.
CreateJob ==
    /\ createPc = "add"
    /\ \/ /\ scheduleJob' = [scheduleJob EXCEPT ![1] = Delayed("due")]
          /\ createPc' = "created"
       \/ UNCHANGED scheduleJob /\ createPc' = "markFailed"
    /\ UNCHANGED <<schedule, cancelPc, prompts, scheduleFaults>>

\* An error of this update is swallowed.
CreateMarksFailed ==
    /\ createPc = "markFailed"
    /\ \/ schedule' = [schedule EXCEPT !.status = "failed"] /\ createPc' = "refused"
       \/ UNCHANGED schedule /\ createPc' = "unmarked"
    /\ UNCHANGED <<cancelPc, scheduleJob, prompts, scheduleFaults>>

CreateDies ==
    /\ createPc \in {"add", "markFailed"}
    /\ createPc' = "died"
    /\ UNCHANGED <<schedule, cancelPc, scheduleJob, prompts, scheduleFaults>>

\* The row is cancelled in any status; cancelling again changes nothing.
Cancel ==
    /\ cancelPc = "idle"
    /\ schedule.status # "none"
    /\ cancelPc' = "remove"
    /\ schedule' = [schedule EXCEPT !.status = "cancelled"]
    /\ UNCHANGED <<createPc, scheduleJob, prompts, scheduleFaults>>

\* Only the first job is removed, if it is not being handled; errors are
\* swallowed.  A retry or a follow-up finds the status and does nothing.
CancelRemovesJob ==
    /\ cancelPc = "remove"
    /\ cancelPc' = "done"
    /\ \/ /\ scheduleJob[1].pc = "delayed"
          /\ scheduleJob' = [scheduleJob EXCEPT ![1].pc = "gone"]
       \/ UNCHANGED scheduleJob
    /\ UNCHANGED <<schedule, createPc, prompts, scheduleFaults>>

-----------------------------------------------------------------------------
(* runWorkspaceSchedule.                                                   *)

HandlerAt(j, p) == scheduleJob' = [scheduleJob EXCEPT ![j].pc = p]

Due(j) ==
    /\ scheduleJob[j].pc = "delayed"
    /\ HandlerAt(j, "load")
    /\ UNCHANGED <<schedule, createPc, cancelPc, prompts, scheduleFaults>>

LoadSchedule(j) ==
    /\ scheduleJob[j].pc = "load"
    /\ IF schedule.status = "active"
       THEN scheduleJob' = [scheduleJob EXCEPT ![j].pc = "start",
                                               ![j].read = schedule.attempts]
       ELSE HandlerAt(j, "gone")
    /\ UNCHANGED <<schedule, createPc, cancelPc, prompts, scheduleFaults>>

\* The session, the recipe or opening the stream fails, or another run owns
\* the session: a busy session is retried without counting an attempt.
StartRun(j) ==
    /\ scheduleJob[j].pc = "start"
    /\ \E p \in {"failure", "addRetry", "offer"} : HandlerAt(j, p)
    /\ UNCHANGED <<schedule, createPc, cancelPc, prompts, scheduleFaults>>

\* Mutant of OfferRun: a job whose fate is unknown counts as refused.
UnknownIsRefused(j) ==
    /\ scheduleJob[j].pc = "offer"
    /\ \/ prompts' = prompts + 1 /\ HandlerAt(j, "success")
       \/ prompts' \in {prompts, prompts + 1} /\ HandlerAt(j, "failure")
    /\ UNCHANGED <<schedule, createPc, cancelPc, scheduleFaults>>

\* enqueueChatRun: the queue took the run's job or verifiably did not.  When
\* the call failed and the job cannot be looked up, the run counts as started.
OfferRun(j) ==
    /\ scheduleJob[j].pc = "offer"
    /\ \/ prompts' \in {prompts, prompts + 1} /\ HandlerAt(j, "success")
       \/ UNCHANGED prompts /\ HandlerAt(j, "failure")
    /\ UNCHANGED <<schedule, createPc, cancelPc, scheduleFaults>>

\* fail: the attempt counts from the row as it was loaded.  The third one
\* ends the schedule, also one that was cancelled since.
RunFailed(j) ==
    /\ scheduleJob[j].pc = "failure"
    /\ LET attempts == scheduleJob[j].read + 1
       IN  IF attempts >= MaxAttempts
           THEN /\ schedule' = [schedule EXCEPT !.attempts = attempts, !.status = "failed"]
                /\ HandlerAt(j, "return")
           ELSE /\ schedule' = [schedule EXCEPT !.attempts = attempts]
                /\ HandlerAt(j, "addRetry")
    /\ UNCHANGED <<createPc, cancelPc, prompts, scheduleFaults>>

RunStarted(j) ==
    /\ scheduleJob[j].pc = "success"
    /\ IF schedule.freq = "once"
       THEN /\ schedule' = [schedule EXCEPT !.attempts = 0, !.status = "done"]
            /\ HandlerAt(j, "return")
       ELSE /\ schedule' = [schedule EXCEPT !.attempts = 0]
            /\ HandlerAt(j, "addNext")
    /\ UNCHANGED <<createPc, cancelPc, prompts, scheduleFaults>>

\* Mutant of AddJobAfter: an add that fails is swallowed.
AddSwallowed(j) ==
    /\ scheduleJob[j].pc \in {"addRetry", "addNext"}
    /\ \/ /\ \E k \in ScheduleJob :
                /\ scheduleJob[k].for = "none"
                /\ scheduleJob' = [scheduleJob EXCEPT
                      ![j].pc = "return",
                      ![k] = Delayed(IF scheduleJob[j].pc = "addRetry" THEN "retry" ELSE "due")]
       \/ HandlerAt(j, "return")
    /\ UNCHANGED <<schedule, createPc, cancelPc, prompts, scheduleFaults>>

\* The row's next time is written just before, and no one reads it to fire.
AddJobAfter(j) ==
    /\ scheduleJob[j].pc \in {"addRetry", "addNext"}
    /\ \E k \in ScheduleJob :
          /\ scheduleJob[k].for = "none"
          /\ scheduleJob' = [scheduleJob EXCEPT
                ![j].pc = "return",
                ![k] = Delayed(IF scheduleJob[j].pc = "addRetry" THEN "retry" ELSE "due")]
    /\ UNCHANGED <<schedule, createPc, cancelPc, prompts, scheduleFaults>>

HandlerReturns(j) ==
    /\ scheduleJob[j].pc = "return"
    /\ HandlerAt(j, "gone")
    /\ UNCHANGED <<schedule, createPc, cancelPc, prompts, scheduleFaults>>

\* A call throws, before or after it took effect, or the worker dies.  BullMQ
\* runs the job again, three times in all after a throw and once after a death:
\* any delivery may have been the last.
HandlerFails(j) ==
    /\ scheduleJob[j].pc \in AtWork
    /\ scheduleFaults < MaxScheduleFaults
    /\ scheduleFaults' = scheduleFaults + 1
    /\ \E p \in {"delayed", "spent"} : HandlerAt(j, p)
    /\ UNCHANGED <<schedule, createPc, cancelPc, prompts>>

ScheduleNext ==
    \/ CreateRow \/ CreateJob \/ CreateMarksFailed \/ CreateDies
    \/ Cancel \/ CancelRemovesJob
    \/ \E j \in ScheduleJob :
          \/ Due(j) \/ LoadSchedule(j) \/ StartRun(j) \/ OfferRun(j)
          \/ RunFailed(j) \/ RunStarted(j) \/ AddJobAfter(j) \/ HandlerReturns(j)
          \/ HandlerFails(j)

ScheduleSpec == ScheduleInit /\ [][ScheduleNext]_scheduleVars

-----------------------------------------------------------------------------
(* Properties.                                                             *)

\* A schedule that looks active will fire: a job of it is queued or being
\* handled.  What defeats it is the API failing to create the job and to say
\* so (router.ts:71 swallows the update), or a job that used up its deliveries.
ScheduleArmed ==
    schedule.status = "active" =>
        \/ \E j \in ScheduleJob : scheduleJob[j].pc \in {"delayed", "spent"} \cup AtWork
        \/ createPc \in {"add", "markFailed", "unmarked", "died"}

\* The prompt is sent at most once for each time it was due and once more for
\* each throw or death, which BullMQ answers with the whole handler again: the
\* retries of busy sessions and failed starts, and a run whose acceptance is
\* unknown, never send it twice.
PromptOncePerDue ==
    prompts <= Cardinality({j \in ScheduleJob : scheduleJob[j].for = "due"}) + scheduleFaults
=============================================================================
