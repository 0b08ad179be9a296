--------------------------- MODULE ProfileRefresh ---------------------------
(***************************************************************************)
(* The profile of one scope (a user or a project): its row in Postgres, the   *)
(* jobs of the BullMQ queue profile-summary, and two keys in Redis: the       *)
(* needs-refresh flag and the list of deleted conversations to reconsider.    *)
(* Passes of the profile worker and of the remember_user_profile tool run at   *)
(* the same time: a job's id is given as its name (queue.ts:83), so that no    *)
(* lookup by id ever finds a job, every request adds one, and the tool never   *)
(* waits.  Messages are known by their number, which is also their time.      *)
(***************************************************************************)
EXTENDS Naturals, Sequences, FiniteSets

CONSTANTS
    Pass,               \* passes over the profile: of a job, or of the tool
    MaxMessages,        \* bound: user messages in the scope's conversations
    MaxDelta,           \* messages one pass reads at most (2000 in the code)
    MaxReconsider,      \* RECONSIDER_MAX_PENDING
    MaxProfileFaults    \* bound: calls that throw and processes that die

ASSUME ProfileAssumption ==
    /\ MaxMessages \in Nat /\ MaxProfileFaults \in Nat
    /\ MaxDelta \in Nat \ {0} /\ MaxReconsider \in Nat \ {0}

VARIABLES
    messages,       \* how many messages there have been
    gone,           \* messages whose conversation was deleted
    profile,        \* the row: exists, summarized sections, lastProcessedAt
    reconsider,     \* the list, newest first
    needsRefresh,   \* the flag
    pass,           \* each pass: where it is, what it read
    followUp,       \* each pass's completed or failed handler
    deletion,       \* each conversation's deletion
    profileTold     \* history: see ProfileTypeOK

profileVars == <<messages, gone, profile, reconsider, needsRefresh, pass, followUp,
                 deletion, profileTold>>

Message == 1..MaxMessages
Mark    == 0..MaxMessages

PassWork == {"load", "delta", "check", "write", "consume", "get", "del",
             "leftover", "flag"}
ToolWork == {"reschedule"}

ProfileTypeOK ==
    /\ messages \in Mark
    /\ gone \subseteq 1..messages
    /\ profile \in [exists : BOOLEAN, sections : SUBSET Message,
                    lastProcessedAt : Mark]
    /\ reconsider \in Seq(Message) /\ Len(reconsider) <= MaxReconsider
    /\ needsRefresh \in BOOLEAN
    /\ pass \in [Pass -> [pc : {"none", "queued", "over", "spent"} \cup PassWork \cup ToolWork,
                          tool : BOOLEAN, since : Mark,
                          base : SUBSET Message, delta : SUBSET Message,
                          read : SUBSET Message]]
    /\ followUp \in [Pass -> {"none", "get", "del", "add"}]
    /\ deletion \in [Message -> {"none", "push", "enqueue", "queued", "lost"}]
    /\ profileTold \in [
          owedFrom   : Mark,            \* messages up to here were written off
          considered : SUBSET Message,  \* deletions a summary took in
          trimmed    : SUBSET Message,  \* deletions that fell off the list
          leftover   : Mark,            \* the last message a pass left for later
          setBack    : BOOLEAN,         \* a pass without messages lowered the mark
          broken     : BOOLEAN,         \* a follow-up or a request was lost
          faults     : 0..MaxProfileFaults]

NoPass == [pc |-> "none", tool |-> FALSE, since |-> 0, base |-> {},
           delta |-> {}, read |-> {}]
Over   == [NoPass EXCEPT !.pc = "over"]

ProfileInit ==
    /\ messages = 0
    /\ gone = {}
    /\ profile = [exists |-> FALSE, sections |-> {}, lastProcessedAt |-> 0]
    /\ reconsider = <<>>
    /\ needsRefresh = FALSE
    /\ pass = [p \in Pass |-> NoPass]
    /\ followUp = [p \in Pass |-> "none"]
    /\ deletion = [m \in Message |-> "none"]
    /\ profileTold = [owedFrom |-> 0, considered |-> {}, trimmed |-> {}, leftover |-> 0,
                      setBack |-> FALSE, broken |-> FALSE, faults |-> 0]

-----------------------------------------------------------------------------
(* Jobs.                                                                   *)

PassAt(p, a) == pass' = [pass EXCEPT ![p].pc = a]

\* The passes with one more job among them.
WithNewJob(ps) ==
    {[ps EXCEPT ![n] = [NoPass EXCEPT !.pc = "queued"]] : n \in {q \in Pass : ps[q].pc = "none"}}

Live(from) == {m \in 1..messages : m > from /\ m \notin gone}

\* The first MaxDelta of them.
DeltaSince(from) ==
    {m \in Live(from) : Cardinality({n \in Live(from) : n <= m}) <= MaxDelta}

PassMark(p) ==
    IF pass[p].delta = {} THEN pass[p].since
    ELSE CHOOSE m \in pass[p].delta : \A n \in pass[p].delta : n <= m

-----------------------------------------------------------------------------
(* Conversations.                                                          *)

\* A finished chat asks for no refresh: nothing calls tapProfileRefresh.
MessageArrives ==
    /\ messages < MaxMessages
    /\ messages' = messages + 1
    /\ UNCHANGED <<gone, profile, reconsider, needsRefresh, pass, followUp, deletion, profileTold>>

DeleteConversation(m) ==
    /\ m <= messages
    /\ m \notin gone
    /\ gone' = gone \cup {m}
    /\ deletion' = [deletion EXCEPT ![m] = "push"]
    /\ UNCHANGED <<messages, profile, reconsider, needsRefresh, pass, followUp, profileTold>>

\* Mutant of PushReconsider: the list is not trimmed.
PushUntrimmed(m) ==
    /\ deletion[m] = "push"
    /\ deletion' = [deletion EXCEPT ![m] = "enqueue"]
    /\ reconsider' = <<m>> \o reconsider
    /\ UNCHANGED <<messages, gone, profile, needsRefresh, pass, followUp, profileTold>>

\* enqueueProfileReconsideration: push, trim, and then a job.
PushReconsider(m) ==
    /\ deletion[m] = "push"
    /\ deletion' = [deletion EXCEPT ![m] = "enqueue"]
    /\ LET all == <<m>> \o reconsider
       IN  /\ reconsider' = SubSeq(all, 1, IF Len(all) < MaxReconsider THEN Len(all)
                                           ELSE MaxReconsider)
           /\ profileTold' = [profileTold EXCEPT
                 !.trimmed = @ \cup {all[i] : i \in (MaxReconsider + 1)..Len(all)}]
    /\ UNCHANGED <<messages, gone, profile, needsRefresh, pass, followUp>>

EnqueueReconsider(m) ==
    /\ deletion[m] = "enqueue"
    /\ deletion' = [deletion EXCEPT ![m] = "queued"]
    /\ pass' \in WithNewJob(pass)
    /\ UNCHANGED <<messages, gone, profile, reconsider, needsRefresh, followUp, profileTold>>

\* The sections are emptied; what was said so far is not owed any more.
ResetProfile ==
    /\ profile' = [exists |-> TRUE, sections |-> {}, lastProcessedAt |-> messages]
    /\ profileTold' = [profileTold EXCEPT !.owedFrom = messages]
    /\ UNCHANGED <<messages, gone, reconsider, needsRefresh, pass, followUp, deletion>>

-----------------------------------------------------------------------------
(* remember_user_profile: the fact, a pass of its own, and a job.           *)

\* Of the facts only the row they are kept in matters here.  A row created for
\* them gets the schema's default mark, the present: earlier messages will never
\* be summarized.
Remember(p) ==
    /\ pass[p].pc = "none"
    /\ pass' = [pass EXCEPT ![p].pc = "load", ![p].tool = TRUE]
    /\ profile' = [profile EXCEPT !.exists = TRUE,
                                  !.lastProcessedAt = IF profile.exists THEN @ ELSE messages]
    /\ profileTold' = [profileTold EXCEPT !.owedFrom = IF profile.exists THEN @ ELSE messages]
    /\ UNCHANGED <<messages, gone, reconsider, needsRefresh, followUp, deletion>>

Reschedule(p) ==
    /\ pass[p].pc = "reschedule"
    /\ pass' \in WithNewJob([pass EXCEPT ![p] = Over])
    /\ UNCHANGED <<messages, gone, profile, reconsider, needsRefresh, followUp, deletion,
                   profileTold>>

-----------------------------------------------------------------------------
(* processProfileJob and summarizeProfileForScope.                         *)

\* A job starts with the list.  A failed attempt's handler is over before its
\* retry starts: it backs off.
ReadReconsider(p) ==
    /\ pass[p].pc = "queued"
    /\ followUp[p] = "none"
    /\ pass' = [pass EXCEPT ![p].pc = "load",
                            ![p].read = {reconsider[i] : i \in DOMAIN reconsider}]
    /\ UNCHANGED <<messages, gone, profile, reconsider, needsRefresh, followUp, deletion,
                   profileTold>>

LoadProfile(p) ==
    /\ pass[p].pc = "load"
    /\ pass' = [pass EXCEPT ![p].pc = "delta", ![p].since = profile.lastProcessedAt,
                            ![p].base = profile.sections]
    /\ UNCHANGED <<messages, gone, profile, reconsider, needsRefresh, followUp, deletion,
                   profileTold>>

AfterSummary(p) == IF pass[p].tool THEN "reschedule" ELSE "consume"

SummaryEnds(p) == pass' = [pass EXCEPT ![p].pc = AfterSummary(p), ![p].base = {}]

\* The model is asked when there is something to read or to reconsider.
ReadDelta(p) ==
    /\ pass[p].pc = "delta"
    /\ LET delta == DeltaSince(pass[p].since)
       IN  pass' = [pass EXCEPT ![p].delta = delta,
                                ![p].pc = IF delta = {} /\ pass[p].read = {}
                                          THEN AfterSummary(p) ELSE "check"]
    /\ UNCHANGED <<messages, gone, profile, reconsider, needsRefresh, followUp, deletion,
                   profileTold>>

\* saveProfileResult skips a result older than the row.
CheckStale(p) ==
    /\ pass[p].pc = "check"
    /\ IF profile.exists /\ profile.lastProcessedAt > PassMark(p)
       THEN SummaryEnds(p) ELSE PassAt(p, "write")
    /\ profileTold' = [profileTold EXCEPT !.considered = @ \cup pass[p].read]
    /\ UNCHANGED <<messages, gone, profile, reconsider, needsRefresh, followUp, deletion>>

\* Mutant of WriteProfile: the mark is the time of the write.
WriteMarksNow(p) ==
    /\ pass[p].pc = "write"
    /\ SummaryEnds(p)
    /\ profile' = [profile EXCEPT !.exists = TRUE,
                     !.sections = (pass[p].base \cup pass[p].delta) \ pass[p].read,
                     !.lastProcessedAt = messages]
    /\ UNCHANGED <<messages, gone, reconsider, needsRefresh, followUp, deletion, profileTold>>

\* The row may have moved on since it was checked.
WriteProfile(p) ==
    /\ pass[p].pc = "write"
    /\ SummaryEnds(p)
    /\ profile' = [profile EXCEPT !.exists = TRUE,
                     !.sections = (pass[p].base \cup pass[p].delta) \ pass[p].read,
                     !.lastProcessedAt = PassMark(p)]
    /\ profileTold' = [profileTold EXCEPT !.setBack =
                         @ \/ (pass[p].delta = {} /\ profile.lastProcessedAt > PassMark(p))]
    /\ UNCHANGED <<messages, gone, reconsider, needsRefresh, followUp, deletion>>

\* LREM of an entry; no conversation is in the list twice.
RemoveEntry(m) ==
    \/ m \notin {reconsider[i] : i \in DOMAIN reconsider} /\ UNCHANGED reconsider
    \/ \E i \in DOMAIN reconsider :
          /\ reconsider[i] = m
          /\ reconsider' = [j \in 1..(Len(reconsider) - 1) |-> reconsider[IF j < i THEN j ELSE j + 1]]

\* Exactly the entries that were read, one by one and also when the result was
\* skipped.  Their order does not matter.
ConsumeReconsider(p) ==
    /\ pass[p].pc = "consume"
    /\ \/ /\ pass[p].read = {}
          /\ pass' = [pass EXCEPT ![p].pc = "get", ![p].base = {}, ![p].since = 0]
          /\ UNCHANGED reconsider
       \/ \E m \in pass[p].read :
             /\ pass' = [pass EXCEPT ![p].read = @ \ {m}]
             /\ RemoveEntry(m)
    /\ UNCHANGED <<messages, gone, profile, needsRefresh, followUp, deletion, profileTold>>

\* The job is done; its completed handler runs.
PassEnds(p) ==
    /\ pass' = [pass EXCEPT ![p] = Over]
    /\ followUp' = [followUp EXCEPT ![p] = "get"]

\* takeNeedsProfileRefresh: GET and then DEL.
GetFlag(p) ==
    /\ pass[p].pc = "get"
    /\ \/ needsRefresh /\ PassAt(p, "del") /\ UNCHANGED followUp
       \/ ~needsRefresh /\ pass[p].delta # {} /\ PassAt(p, "leftover") /\ UNCHANGED followUp
       \/ ~needsRefresh /\ pass[p].delta = {} /\ PassEnds(p)
    /\ UNCHANGED <<messages, gone, profile, reconsider, needsRefresh, deletion, profileTold>>

DelFlag(p) ==
    /\ pass[p].pc = "del"
    /\ PassAt(p, "flag")
    /\ needsRefresh' = FALSE
    /\ UNCHANGED <<messages, gone, profile, reconsider, followUp, deletion, profileTold>>

ReadLeftover(p) ==
    /\ pass[p].pc = "leftover"
    /\ IF Live(PassMark(p)) = {}
       THEN PassEnds(p) /\ UNCHANGED profileTold
       ELSE /\ PassAt(p, "flag")
            /\ profileTold' = [profileTold EXCEPT !.leftover = messages]
            /\ UNCHANGED followUp
    /\ UNCHANGED <<messages, gone, profile, reconsider, needsRefresh, deletion>>

\* Mutant of SetFlag: the flag taken for this pass is not set again.
FlagStaysTaken(p) ==
    /\ pass[p].pc = "flag"
    /\ PassEnds(p)
    /\ UNCHANGED <<messages, gone, profile, reconsider, needsRefresh, deletion, profileTold>>

SetFlag(p) ==
    /\ pass[p].pc = "flag"
    /\ PassEnds(p)
    /\ needsRefresh' = TRUE
    /\ UNCHANGED <<messages, gone, profile, reconsider, deletion, profileTold>>

-----------------------------------------------------------------------------
(* The worker's completed and failed handlers.                             *)

FollowUpAt(p, a) == followUp' = [followUp EXCEPT ![p] = a]

FollowUpGets(p) ==
    /\ followUp[p] = "get"
    /\ FollowUpAt(p, IF needsRefresh THEN "del" ELSE "none")
    /\ UNCHANGED <<messages, gone, profile, reconsider, needsRefresh, pass, deletion, profileTold>>

FollowUpDels(p) ==
    /\ followUp[p] = "del"
    /\ FollowUpAt(p, "add")
    /\ needsRefresh' = FALSE
    /\ UNCHANGED <<messages, gone, profile, reconsider, pass, deletion, profileTold>>

FollowUpAdds(p) ==
    /\ followUp[p] = "add"
    /\ FollowUpAt(p, "none")
    /\ pass' \in WithNewJob(pass)
    /\ UNCHANGED <<messages, gone, profile, reconsider, needsRefresh, deletion, profileTold>>

-----------------------------------------------------------------------------
(* Faults.                                                                 *)

Fault(loses) ==
    /\ profileTold.faults < MaxProfileFaults
    /\ profileTold' = [profileTold EXCEPT !.faults = @ + 1, !.broken = @ \/ loses]

\* BullMQ delivers a job again after a throw, three times in all, and once
\* after its worker died: any delivery may have been the last.
Redelivered(p) ==
    \/ /\ pass' = [pass EXCEPT ![p] = [NoPass EXCEPT !.pc = "queued"]]
       /\ Fault(FALSE)
    \/ /\ pass' = [pass EXCEPT ![p] = [NoPass EXCEPT !.pc = "spent"]]
       /\ Fault(TRUE)

PassThrows(p) ==
    /\ pass[p].pc \in PassWork
    /\ ~pass[p].tool
    /\ Redelivered(p)
    /\ FollowUpAt(p, "get")
    /\ UNCHANGED <<messages, gone, profile, reconsider, needsRefresh, deletion>>

PassDies(p) ==
    /\ pass[p].pc \in PassWork
    /\ ~pass[p].tool
    /\ Redelivered(p)
    /\ UNCHANGED <<messages, gone, profile, reconsider, needsRefresh, followUp, deletion>>

\* The tool answers with the error: no job comes after it.
ToolThrows(p) ==
    /\ pass[p].pc \in PassWork \cup ToolWork
    /\ pass[p].tool
    /\ pass' = [pass EXCEPT ![p] = Over]
    /\ Fault(TRUE)
    /\ UNCHANGED <<messages, gone, profile, reconsider, needsRefresh, followUp, deletion>>

FollowUpLost(p) ==
    /\ followUp[p] # "none"
    /\ FollowUpAt(p, "none")
    /\ Fault(TRUE)
    /\ UNCHANGED <<messages, gone, profile, reconsider, needsRefresh, pass, deletion>>

\* Deleting a conversation reconsiders it as well as it goes.
ReconsiderLost(m) ==
    /\ deletion[m] \in {"push", "enqueue"}
    /\ deletion' = [deletion EXCEPT ![m] = "lost"]
    /\ Fault(FALSE)
    /\ UNCHANGED <<messages, gone, profile, reconsider, needsRefresh, pass, followUp>>

ProfileNext ==
    \/ MessageArrives \/ ResetProfile
    \/ \E m \in Message :
          DeleteConversation(m) \/ PushReconsider(m) \/ EnqueueReconsider(m) \/ ReconsiderLost(m)
    \/ \E p \in Pass :
          \/ Remember(p) \/ Reschedule(p)
          \/ ReadReconsider(p) \/ LoadProfile(p) \/ ReadDelta(p)
          \/ CheckStale(p) \/ WriteProfile(p) \/ ConsumeReconsider(p)
          \/ GetFlag(p) \/ DelFlag(p) \/ ReadLeftover(p) \/ SetFlag(p)
          \/ FollowUpGets(p) \/ FollowUpDels(p) \/ FollowUpAdds(p)
          \/ PassThrows(p) \/ PassDies(p) \/ ToolThrows(p) \/ FollowUpLost(p)

ProfileSpec == ProfileInit /\ [][ProfileNext]_profileVars

-----------------------------------------------------------------------------
(* Properties.                                                             *)

\* The mark skips no message: one up to lastProcessedAt is in the sections,
\* unless its conversation is deleted or it was written off, by a reset or by
\* the row's default mark.  Passes that overtake each other between the check
\* and the write may take the mark back but then take its sections along.
NoneSkipped ==
    \A m \in 1..profile.lastProcessedAt :
        m \in profile.sections \cup gone \/ m <= profileTold.owedFrom

ProfileQuiet ==
    /\ \A p \in Pass : pass[p].pc \in {"none", "over", "spent"} /\ followUp[p] = "none"
    /\ \A m \in Message : deletion[m] \notin {"push", "enqueue"}

\* When no pass is queued or under way, every conversation whose deletion was
\* queued has been reconsidered or fell off the list, and what a pass saw it
\* left behind has been summarized: the flag that two handlers read and clear in
\* two calls (queue.ts:125 calls it atomic) is never lost.  It takes a job that
\* used up its attempts, a lost handler, a tool that failed half way, or a pass
\* that only reconsidered and overtook another.
QuietMeansDone ==
    ProfileQuiet /\ ~profileTold.broken /\ ~profileTold.setBack =>
        /\ \A m \in Message : deletion[m] = "queued" =>
                                 m \in profileTold.considered \cup profileTold.trimmed
        /\ \A m \in Live(profile.lastProcessedAt) : m > profileTold.leftover
=============================================================================
