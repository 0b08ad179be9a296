-------------------------- MODULE InteractionPolicy --------------------------
(***************************************************************************)
(* What a user attaches to an approval: a grant of the tool for the session,  *)
(* or edited arguments for this one call.  POST .../stage stores it as a      *)
(* policy in Redis; the delivery of the resume job claims it under a lease,   *)
(* with a token of its own, and consumes it before the tool may use it.  A    *)
(* job can be delivered again while the first delivery is still at work, the  *)
(* lease and the policy can run out at any time, a reply of Redis can be lost *)
(* and the worker can die between any two calls.                              *)
(***************************************************************************)
CONSTANTS
    Stager,     \* requests that stage a policy for the interaction
    Delivery,   \* deliveries of the job that resumes the run
    Edit,       \* edited arguments
    NoEdit,
    NoDelivery

ASSUME PolicyAssumption ==
    /\ NoEdit \notin Edit
    /\ NoDelivery \notin Delivery

VARIABLES
    policy,         \* the hash of the policy
    policyLeaseOver,\* claimExpiresAt has passed
    policyTtlOver,  \* expiresAt has passed
    asked,          \* the grant and the edit each staging request carries
    stagePc,        \* where each staging request is
    answer,         \* "open", then the response the run is resumed with
    sessionGrant,   \* chat-tool-grant:<session, tool>
    deliveryPc,     \* where each delivery is
    copy,           \* the result of its claim, the run-local resumePolicy
    taken,          \* resumeOverrideTaken
    policyConsumed, \* the delivery's flag of that name
    retried,        \* the transient retry has been used
    handed          \* history: deliveries whose tool got the edited arguments

policyRecord == <<policy, policyLeaseOver>>
deliveryVars == <<copy, taken, policyConsumed, retried>>
policyVars == <<policy, policyLeaseOver, policyTtlOver, asked, stagePc, answer,
                sessionGrant, deliveryPc, copy, taken, policyConsumed, retried, handed>>

Content  == [grant : BOOLEAN, edit : Edit \cup {NoEdit}]
NoContent == [grant |-> FALSE, edit |-> NoEdit]
Absent   == [state |-> "absent", token |-> NoDelivery, body |-> NoContent]
Final    == {"consumed", "expired"}
DeliveryAt == {"waiting", "stopCheck", "claim", "grant", "giveBack", "prepare",
               "consume", "running", "terminal", "ended", "failed", "crashed"}

\* validatePolicy calls a hash with fields of another state corrupt: a token
\* exists exactly while claimed, and a settled policy has nothing executable.
PolicyTypeOK ==
    /\ policy \in [state : {"absent", "staged", "claimed"} \cup Final,
                   token : Delivery \cup {NoDelivery}, body : Content]
    /\ (policy.token # NoDelivery) <=> (policy.state = "claimed")
    /\ policy.state \in Final \cup {"absent"} => policy.body = NoContent
    /\ policyLeaseOver \in BOOLEAN
    /\ policyTtlOver \in BOOLEAN
    /\ asked \in [Stager -> Content]
    /\ stagePc \in [Stager -> {"look", "stage", "stored", "refused"}]
    /\ answer \in {"open", "approved", "denied"}
    /\ sessionGrant \in BOOLEAN
    /\ deliveryPc \in [Delivery -> DeliveryAt]
    /\ copy \in [Delivery -> [held : BOOLEAN, body : Content]]
    /\ taken \in [Delivery -> BOOLEAN]
    /\ policyConsumed \in [Delivery -> BOOLEAN]
    /\ retried \in [Delivery -> BOOLEAN]
    /\ handed \subseteq Delivery

PolicyInit ==
    /\ policy = Absent
    /\ policyLeaseOver = FALSE
    /\ policyTtlOver = FALSE
    /\ asked \in [Stager -> Content]
    /\ stagePc = [r \in Stager |-> "look"]
    /\ answer = "open"
    /\ sessionGrant = FALSE
    /\ deliveryPc = [d \in Delivery |-> "waiting"]
    /\ copy = [d \in Delivery |-> [held |-> FALSE, body |-> NoContent]]
    /\ taken = [d \in Delivery |-> FALSE]
    /\ policyConsumed = [d \in Delivery |-> FALSE]
    /\ retried = [d \in Delivery |-> FALSE]
    /\ handed = {}

-----------------------------------------------------------------------------
(* The scripts of the policy store.                                        *)

SetPolicy(s, d, body) == policy' = [state |-> s, token |-> d, body |-> body]

\* Mutant of Settle: consuming clears the token and keeps what was staged.
SettleKeepsBody(s) == SetPolicy(s, NoDelivery, policy.body)

\* A settled policy keeps no token, grant or arguments.
Settle(s) == SetPolicy(s, NoDelivery, NoContent)

Overran == policyTtlOver /\ policy.state \in {"staged", "claimed"}

\* STAGE_SCRIPT: the first to stage decides; a claimed policy is a conflict
\* whoever asks, and so is a different body.
StageScript(body) ==
    IF policy.state = "absent"
    THEN /\ SetPolicy("staged", NoDelivery, body)
         /\ policyTtlOver' = FALSE
    ELSE /\ IF policy.state = "staged" /\ policyTtlOver
            THEN Settle("expired")
            ELSE UNCHANGED policy
         /\ UNCHANGED policyTtlOver

StageSucceeds(body) ==
    \/ policy.state = "absent"
    \/ policy.state = "staged" /\ ~policyTtlOver /\ policy.body = body

\* Mutant of Claimable: a lease protects nothing, so two deliveries claim.
ClaimableAnyway(d) == policy.state \in {"staged", "claimed", "consumed"}

\* CLAIM_SCRIPT for a response with the staged fingerprint.
Claimable(d) ==
    \/ policy.state = "staged"
    \/ policy.state = "claimed" /\ (policyLeaseOver \/ policy.token = d)

\* CONSUME_SCRIPT looks at the state and the token, not at the lease or TTL.
Consumable(d) == policy.state = "claimed" /\ policy.token = d

\* RELEASE_SCRIPT: only the holder's claim goes back to staged.
ReleaseScript(d) ==
    IF policy.state = "claimed" /\ policy.token = d
    THEN SetPolicy("staged", NoDelivery, policy.body)
    ELSE UNCHANGED policy

-----------------------------------------------------------------------------
(* The staging requests and the resume.                                    *)

\* getForUser reads the interaction; staging comes after, in another call.
StageLook(r) ==
    /\ stagePc[r] = "look"
    /\ stagePc' = [stagePc EXCEPT ![r] = IF answer = "open" THEN "stage" ELSE "refused"]
    /\ UNCHANGED <<policyRecord, policyTtlOver, asked, answer, sessionGrant,
                   deliveryPc, deliveryVars, handed>>

StagePolicy(r) ==
    /\ stagePc[r] = "stage"
    /\ StageScript(asked[r])
    /\ stagePc' = [stagePc EXCEPT ![r] =
                     IF StageSucceeds(asked[r]) THEN "stored" ELSE "refused"]
    /\ UNCHANGED <<policyLeaseOver, asked, answer, sessionGrant, deliveryPc,
                   deliveryVars, handed>>

\* POST /chat accepts an answer once; the staged body need not agree with it.
ResumeAccepted(response) ==
    /\ answer = "open"
    /\ answer' = response
    /\ UNCHANGED <<policyRecord, policyTtlOver, asked, stagePc, sessionGrant,
                   deliveryPc, deliveryVars, handed>>

-----------------------------------------------------------------------------
(* A delivery of the resume job, up to the agent's stream.                 *)

GoOn(d, p) == deliveryPc' = [deliveryPc EXCEPT ![d] = p]

\* BullMQ delivers a job once, and again when it takes the worker for stalled;
\* not after a delivery has reported its end.
Deliver(d) ==
    /\ deliveryPc[d] = "waiting"
    /\ answer # "open"
    /\ \A e \in Delivery : deliveryPc[e] \notin {"ended", "failed"}
    /\ GoOn(d, "stopCheck")
    /\ UNCHANGED <<policyRecord, policyTtlOver, asked, stagePc, answer,
                   sessionGrant, deliveryVars, handed>>

\* A stop seen before the reconstruction ends the run without a claim.
StopCheck(d) ==
    /\ deliveryPc[d] = "stopCheck"
    /\ \/ GoOn(d, "claim")
       \/ GoOn(d, "ended")
    /\ UNCHANGED <<policyRecord, policyTtlOver, asked, stagePc, answer,
                   sessionGrant, deliveryVars, handed>>

ClaimedBy(d) ==
    /\ SetPolicy("claimed", d, policy.body)
    /\ policyLeaseOver' = FALSE
    /\ copy' = [copy EXCEPT ![d] = [held |-> TRUE, body |-> policy.body]]
    /\ GoOn(d, IF policy.body.grant THEN "grant" ELSE "prepare")

\* No policy is the common case.  A denial has another fingerprint than the
\* staged approval, and every other refusal throws as well.  A claim whose
\* reply is lost is sent again with its own token and finds itself.
ClaimPolicy(d) ==
    /\ deliveryPc[d] = "claim"
    /\ \/ /\ policy.state = "absent"
          /\ GoOn(d, "prepare")
          /\ UNCHANGED <<policyRecord, copy>>
       \/ /\ policy.state # "absent"
          /\ answer = "approved" /\ ~Overran /\ Claimable(d)
          /\ ClaimedBy(d)
       \/ /\ policy.state # "absent"
          /\ answer = "denied" \/ Overran \/ ~Claimable(d)
          /\ IF answer = "approved" /\ Overran THEN Settle("expired") ELSE UNCHANGED policy
          /\ GoOn(d, "ended")
          /\ UNCHANGED <<policyLeaseOver, copy>>
    /\ UNCHANGED <<policyTtlOver, asked, stagePc, answer, sessionGrant, taken,
                   policyConsumed, retried, handed>>

\* The session grant is stored, or the claim given back.
GrantTool(d) ==
    /\ deliveryPc[d] = "grant"
    /\ \/ sessionGrant' = TRUE /\ GoOn(d, "prepare")
       \/ UNCHANGED sessionGrant /\ GoOn(d, "giveBack")
    /\ UNCHANGED <<policyRecord, policyTtlOver, asked, stagePc, answer,
                   deliveryVars, handed>>

\* Mutant of GiveBackOrEnd: a delivery that fails early forgets its claim.
EndWithoutRelease(d) == GoOn(d, "ended")

\* The catch block releases a claim that no stream has been made under.
GiveBackOrEnd(d) ==
    GoOn(d, IF copy[d].held /\ ~policyConsumed[d] THEN "giveBack" ELSE "ended")

\* Reconstruction fails, the session is gone or the run is cancelled.
FailEarly(d) ==
    /\ deliveryPc[d] = "prepare"
    /\ GiveBackOrEnd(d)
    /\ UNCHANGED <<policyRecord, policyTtlOver, asked, stagePc, answer,
                   sessionGrant, deliveryVars, handed>>

\* An error of the release itself is swallowed.
GiveBack(d) ==
    /\ deliveryPc[d] = "giveBack"
    /\ \/ ReleaseScript(d) /\ GoOn(d, "ended")
       \/ UNCHANGED policy /\ GoOn(d, "failed")
    /\ UNCHANGED <<policyLeaseOver, policyTtlOver, asked, stagePc, answer,
                   sessionGrant, deliveryVars, handed>>

\* Mutant of StartStream: the run is accepted without consuming its policy.
StartUnconsumed(d) ==
    /\ deliveryPc[d] = "prepare"
    /\ GoOn(d, "running")
    /\ UNCHANGED <<policyRecord, policyTtlOver, asked, stagePc, answer,
                   sessionGrant, deliveryVars, handed>>

\* agent.stream() returns; a policy without arguments is consumed at once.
StartStream(d) ==
    /\ deliveryPc[d] = "prepare"
    /\ GoOn(d, IF copy[d].held /\ copy[d].body.edit = NoEdit /\ ~policyConsumed[d]
               THEN "consume" ELSE "running")
    /\ UNCHANGED <<policyRecord, policyTtlOver, asked, stagePc, answer,
                   sessionGrant, deliveryVars, handed>>

-----------------------------------------------------------------------------
(* The run under the policy.                                               *)

\* consume() of the store returns only for the reply "consumed".  The reply
\* can get lost: the call that is sent again then reads "replayed".
ConsumeCall(d) ==
    IF Consumable(d)
    THEN /\ Settle("consumed")
         /\ policyConsumed' \in {policyConsumed, [policyConsumed EXCEPT ![d] = TRUE]}
    ELSE UNCHANGED <<policy, policyConsumed>>

Accepted(d) == policyConsumed'[d]

\* A consume that fails now ends the run; the claim is left to its lease.
ConsumeAtStart(d) ==
    /\ deliveryPc[d] = "consume"
    /\ ConsumeCall(d)
    /\ GoOn(d, IF Accepted(d) THEN "running" ELSE "failed")
    /\ UNCHANGED <<policyLeaseOver, policyTtlOver, asked, stagePc, answer,
                   sessionGrant, copy, taken, retried, handed>>

\* The first attempt failed before anything was visible: the stream is dropped.
RetryAttempt(d) ==
    /\ deliveryPc[d] = "running"
    /\ ~taken[d] /\ ~retried[d]
    /\ retried' = [retried EXCEPT ![d] = TRUE]
    /\ GoOn(d, "prepare")
    /\ UNCHANGED <<policyRecord, policyTtlOver, asked, stagePc, answer,
                   sessionGrant, copy, taken, policyConsumed, handed>>

Overridden(d) == copy[d].held /\ copy[d].body.edit # NoEdit

\* Mutant of TakeOverride: the arguments are handed out first, consumed later.
TakeBeforeConsume(d) ==
    /\ deliveryPc[d] = "running"
    /\ Overridden(d) /\ ~taken[d]
    /\ taken' = [taken EXCEPT ![d] = TRUE]
    /\ handed' = handed \cup {d}
    /\ UNCHANGED <<policyRecord, policyTtlOver, asked, stagePc, answer,
                   sessionGrant, deliveryPc, copy, policyConsumed, retried>>

\* takeToolOverride consumes, then returns the arguments; if consume throws,
\* the tool call fails and a later one may try again.
TakeOverride(d) ==
    /\ deliveryPc[d] = "running"
    /\ Overridden(d) /\ ~taken[d]
    /\ ConsumeCall(d)
    /\ taken' = [taken EXCEPT ![d] = Accepted(d)]
    /\ handed' = IF Accepted(d) THEN handed \cup {d} ELSE handed
    /\ UNCHANGED <<policyLeaseOver, policyTtlOver, asked, stagePc, answer,
                   sessionGrant, deliveryPc, copy, retried>>

\* The run ends, and what it did not ask for is consumed; or it throws.
RunEnds(d) ==
    /\ deliveryPc[d] = "running"
    /\ GoOn(d, IF Overridden(d) /\ ~policyConsumed[d] THEN "terminal" ELSE "ended")
    /\ UNCHANGED <<policyRecord, policyTtlOver, asked, stagePc, answer,
                   sessionGrant, deliveryVars, handed>>

RunThrows(d) ==
    /\ deliveryPc[d] = "running"
    /\ GoOn(d, "failed")
    /\ UNCHANGED <<policyRecord, policyTtlOver, asked, stagePc, answer,
                   sessionGrant, deliveryVars, handed>>

ConsumeUnused(d) ==
    /\ deliveryPc[d] = "terminal"
    /\ ConsumeCall(d)
    /\ GoOn(d, IF Accepted(d) THEN "ended" ELSE "failed")
    /\ UNCHANGED <<policyLeaseOver, policyTtlOver, asked, stagePc, answer,
                   sessionGrant, copy, taken, retried, handed>>

-----------------------------------------------------------------------------
(* Faults and time.                                                        *)

DeliveryDies(d) ==
    /\ deliveryPc[d] \notin {"waiting", "ended", "failed", "crashed"}
    /\ GoOn(d, "crashed")
    /\ UNCHANGED <<policyRecord, policyTtlOver, asked, stagePc, answer,
                   sessionGrant, deliveryVars, handed>>

PolicyLeaseLapses ==
    /\ policy.state = "claimed" /\ ~policyLeaseOver
    /\ policyLeaseOver' = TRUE
    /\ UNCHANGED <<policy, policyTtlOver, asked, stagePc, answer, sessionGrant,
                   deliveryPc, deliveryVars, handed>>

PolicyTtlLapses ==
    /\ policy.state \in {"staged", "claimed"} /\ ~policyTtlOver
    /\ policyTtlOver' = TRUE
    /\ UNCHANGED <<policyRecord, asked, stagePc, answer, sessionGrant,
                   deliveryPc, deliveryVars, handed>>

DeliveryStep(d) ==
    \/ Deliver(d) \/ StopCheck(d) \/ ClaimPolicy(d) \/ GrantTool(d)
    \/ FailEarly(d) \/ GiveBack(d) \/ StartStream(d) \/ ConsumeAtStart(d)
    \/ RetryAttempt(d) \/ TakeOverride(d) \/ RunEnds(d) \/ RunThrows(d)
    \/ ConsumeUnused(d) \/ DeliveryDies(d)

PolicyNext ==
    \/ \E r \in Stager : StageLook(r) \/ StagePolicy(r)
    \/ \E response \in {"approved", "denied"} : ResumeAccepted(response)
    \/ \E d \in Delivery : DeliveryStep(d)
    \/ PolicyLeaseLapses
    \/ PolicyTtlLapses

PolicySpec == PolicyInit /\ [][PolicyNext]_policyVars

-----------------------------------------------------------------------------
(* Properties.                                                             *)

\* The edited arguments reach the tool of at most one delivery, and by then the
\* policy is consumed: "Consuming before returning prevents a crash from
\* exposing it to a later session/tool invocation" (run-worker.ts:705).
EditHandedOnce ==
    /\ \A d, e \in handed : d = e
    /\ handed # {} => policy.state = "consumed"

\* A run whose policy carries no arguments is under way only after it consumed
\* the policy itself, and no two deliveries ever consume: a stolen lease or a
\* second delivery cannot make one approval run two tools.
RunsAfterOwnConsume ==
    /\ \A d \in Delivery :
          deliveryPc[d] = "running" /\ copy[d].held /\ copy[d].body.edit = NoEdit
             => policyConsumed[d]
    /\ \A d, e \in Delivery : policyConsumed[d] /\ policyConsumed[e] => d = e

\* A delivery that ended in order left no claim behind: it consumed the policy
\* or gave it back, so that only a crash, a failed call or a run that threw
\* makes the next delivery wait for the lease.
OrderlyEndHoldsNoClaim ==
    policy.state = "claimed" => deliveryPc[policy.token] \notin {"waiting", "ended"}

\* A settled policy never changes again, whatever is staged, claimed, consumed
\* or released late.
SettledPolicyIsFinal ==
    [][policy.state \in Final => policy' = policy]_policyVars
=============================================================================
