------------------------------ MODULE ToolWaits ------------------------------
(***************************************************************************)
(* The tool calls of a run that outlive one wait: InFlightToolRegistry.  The  *)
(* agent gets still_running after a slice and may wait again, cancel, or call *)
(* again under the same id; the run cancels what is left when it ends or is   *)
(* stopped.  Time passes in slices of the shortest wait; what a tool returns  *)
(* and which stage it is in are left out.                                     *)
(***************************************************************************)
EXTENDS Naturals, Sequences

CONSTANTS
    MaxToolCalls,   \* bound: calls under one id
    MaxSlice,       \* MAX_WAIT_SLICE_MS, in slices of BASE_WAIT_SLICE_MS
    MaxWall         \* MAX_JOB_WALL_MS, in slices of BASE_WAIT_SLICE_MS

ASSUME ToolAssumption ==
    /\ MaxToolCalls \in Nat \ {0}
    /\ MaxSlice \in Nat \ {0}
    /\ MaxWall \in Nat \ {0}

Call == 1..MaxToolCalls

VARIABLES
    job,        \* what the registry keeps of each call
    current,    \* the call that its map has under the id, 0 for none
    work,       \* whether the tool is at work, how its promise settled, aborted
    waiter,     \* the wait of the agent: its call and the time it has left
    runAborted, \* the run's own signal, which every call is linked to
    told        \* what the agent was told of each call so far

toolVars == <<job, current, work, waiter, runAborted, told>>

NoWait == [call |-> 0, left |-> 0]

ToolTypeOK ==
    /\ job \in [Call -> [status : {"none", "running", "completed", "cancelled", "failed"},
                         age : 0..MaxWall, waits : Nat]]
    /\ current \in 0..MaxToolCalls
    /\ work \in [Call -> [at : {"none", "busy", "resolved", "rejected"}, aborted : BOOLEAN]]
    /\ waiter \in [call : 0..MaxToolCalls, left : 0..MaxWall]
    /\ runAborted \in BOOLEAN
    /\ told \in [Call -> [stopped : BOOLEAN, output : BOOLEAN]]

ToolInit ==
    /\ job = [c \in Call |-> [status |-> "none", age |-> 0, waits |-> 0]]
    /\ current = 0
    /\ work = [c \in Call |-> [at |-> "none", aborted |-> FALSE]]
    /\ waiter = NoWait
    /\ runAborted = FALSE
    /\ told = [c \in Call |-> [stopped |-> FALSE, output |-> FALSE]]

-----------------------------------------------------------------------------
(* waitSlice.                                                               *)

AtMost(a, b) == IF a <= b THEN a ELSE b

\* 2 ** step, for the steps from 0 to 16 that the cap of the shift leaves.
Power == <<1, 2, 4, 8, 16, 32, 64, 128, 256, 512, 1024, 2048, 4096, 8192, 16384,
           32768, 65536>>

\* escalateWaitSlice, from a base of one slice.
EscalatedSlice(waits) == AtMost(Power[AtMost(waits, 16) + 1], MaxSlice)

\* Mutant of WaitBudget: every wait takes one slice.
FlatBudget(age, waits) == AtMost(1, MaxWall - age)

WaitBudget(age, waits) == AtMost(EscalatedSlice(waits), MaxWall - age)

Telling(c, status) == [told EXCEPT ![c].output = @ \/ status = "completed"]

-----------------------------------------------------------------------------
(* What the agent calls; it makes one wait at a time, cancels beside it.    *)

\* registerAndWait: a running call keeps its id, one that is over is replaced.
RegisterAndWait ==
    /\ waiter = NoWait
    /\ current < MaxToolCalls
    /\ current # 0 => job[current].status # "running"
    /\ job' = [job EXCEPT ![current + 1].status = "running"]
    /\ work' = [work EXCEPT ![current + 1] = [at |-> "busy", aborted |-> runAborted]]
    /\ current' = current + 1
    /\ waiter' = [call |-> current + 1, left |-> WaitBudget(0, 0)]
    /\ UNCHANGED <<runAborted, told>>

\* awaitSlice of a job that is over answers at once.
AwaitOver ==
    /\ waiter = NoWait
    /\ current # 0 /\ job[current].status # "running"
    /\ told' = Telling(current, job[current].status)
    /\ UNCHANGED <<job, current, work, waiter, runAborted>>

\* A job past its wall-clock budget fails and is aborted.
AwaitPastWall ==
    /\ waiter = NoWait
    /\ current # 0 /\ job[current].status = "running"
    /\ job[current].age >= MaxWall
    /\ job' = [job EXCEPT ![current].status = "failed"]
    /\ work' = [work EXCEPT ![current].aborted = TRUE]
    /\ UNCHANGED <<current, waiter, runAborted, told>>

AwaitSlice ==
    /\ waiter = NoWait
    /\ current # 0 /\ job[current].status = "running"
    /\ job[current].age < MaxWall
    /\ waiter' = [call |-> current, left |-> WaitBudget(job[current].age, job[current].waits)]
    /\ UNCHANGED <<job, current, work, runAborted, told>>

\* cancel answers cancelled whatever the job was; only a running one is.
CancelCall ==
    /\ current # 0 /\ job[current].status = "running"
    /\ job' = [job EXCEPT ![current].status = "cancelled"]
    /\ work' = [work EXCEPT ![current].aborted = TRUE]
    /\ told' = [told EXCEPT ![current].stopped = TRUE]
    /\ UNCHANGED <<current, waiter, runAborted>>

-----------------------------------------------------------------------------
(* What happens meanwhile.                                                  *)

\* abortAll: the attempt was stopped, or the run ended.
AbortAll ==
    /\ current # 0 /\ job[current].status = "running"
    /\ job' = [job EXCEPT ![current].status = "cancelled"]
    /\ work' = [work EXCEPT ![current].aborted = TRUE]
    /\ UNCHANGED <<current, waiter, runAborted, told>>

\* linkAbort: the signal reaches the tool, the registry keeps the status.
AbortRun ==
    /\ ~runAborted
    /\ runAborted' = TRUE
    /\ work' = [c \in Call |-> [work[c] EXCEPT !.aborted = @ \/ work[c].at = "busy"]]
    /\ UNCHANGED <<job, current, waiter, told>>

\* Mutant of Settled: the outcome of the tool wins over a cancel.
SettledAnyway(status, resolved, aborted) ==
    IF resolved THEN "completed" ELSE IF aborted THEN "cancelled" ELSE "failed"

Settled(status, resolved, aborted) ==
    IF status = "cancelled" THEN "cancelled"
    ELSE IF resolved THEN "completed"
    ELSE IF aborted THEN "cancelled" ELSE "failed"

\* A tool may ignore its signal: it resolves or rejects at any time, after its
\* job was cancelled, ran out of time or was replaced.  Who waits is answered.
WorkSettles(c, resolved) ==
    LET status == Settled(job[c].status, resolved, work[c].aborted) IN
    /\ work[c].at = "busy"
    /\ work' = [work EXCEPT ![c].at = IF resolved THEN "resolved" ELSE "rejected"]
    /\ job' = [job EXCEPT ![c].status = status]
    /\ IF waiter.call = c
       THEN waiter' = NoWait /\ told' = Telling(c, status)
       ELSE UNCHANGED <<waiter, told>>
    /\ UNCHANGED <<current, runAborted>>

\* The slice is over first: still_running, whatever happened to the job.
SliceEnds ==
    /\ waiter # NoWait /\ waiter.left = 0
    /\ job' = [job EXCEPT ![waiter.call].waits = @ + 1]
    /\ waiter' = NoWait
    /\ UNCHANGED <<current, work, runAborted, told>>

TimePasses ==
    /\ waiter # NoWait => waiter.left > 0
    /\ \/ waiter # NoWait
       \/ \E c \in Call : job[c].status = "running" /\ job[c].age < MaxWall
    /\ job' = [c \in Call |-> IF job[c].status = "running"
                             THEN [job[c] EXCEPT !.age = AtMost(@ + 1, MaxWall)] ELSE job[c]]
    /\ waiter' = IF waiter = NoWait THEN waiter ELSE [waiter EXCEPT !.left = @ - 1]
    /\ UNCHANGED <<current, work, runAborted, told>>

ToolNext ==
    \/ RegisterAndWait \/ AwaitOver \/ AwaitPastWall \/ AwaitSlice \/ CancelCall
    \/ AbortAll \/ AbortRun
    \/ \E c \in Call, resolved \in BOOLEAN : WorkSettles(c, resolved)
    \/ SliceEnds \/ TimePasses

ToolSpec == ToolInit /\ [][ToolNext]_toolVars

-----------------------------------------------------------------------------
(* Properties.                                                              *)

\* Once the agent was told that it stopped a call that was at work, no wait
\* hands it the output of that call, though the tool may ignore its signal,
\* finish under a wait that began before, or after its job ran out of time.
StoppedHasNoOutput == \A c \in Call : ~(told[c].stopped /\ told[c].output)

\* How long a slice gets, and after how many doublings.
LongestSlice == AtMost(Power[17], MaxSlice)
Doublings == CHOOSE d \in 0..16 : /\ Power[d + 1] >= LongestSlice
                                  /\ d > 0 => Power[d] < LongestSlice

\* However long a tool takes, waiting for it costs the agent few turns: the
\* slices double up to the longest one, and the wall-clock budget ends them.
FewWaits == \A c \in Call : job[c].waits <= Doublings + MaxWall \div LongestSlice + 1
=============================================================================
