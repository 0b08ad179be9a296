----------------------- MODULE InteractionPolicyProofs -----------------------
(***************************************************************************)
(* Proofs about approval policies, for any number of staging requests, edits *)
(* and deliveries of the resume job.  The argument rests on who may hold the *)
(* claim: only a delivery that claimed it and has not ended in order, so that *)
(* consuming with one's own token happens once, to a policy nobody settled.  *)
(***************************************************************************)
EXTENDS InteractionPolicy, TLAPS

Holds(d) == policy.state = "claimed" /\ policy.token = d

\* A delivery that consumed the policy left it consumed, so there is only one.
OneConsumer ==
    \A d \in Delivery :
        policyConsumed[d] =>
            /\ policy.state = "consumed"
            /\ \A e \in Delivery : policyConsumed[e] => d = e

\* Arguments are handed out by a delivery that consumed.
HandedConsumed == \A d \in handed : policyConsumed[d]

\* A run without arguments of its policy has consumed it.
AcceptedConsumed ==
    \A d \in Delivery :
        deliveryPc[d] = "running" /\ copy[d].held /\ copy[d].body.edit = NoEdit
            => policyConsumed[d]

\* The holder of the claim knows it, and is past the claim and not at its end.
HolderAtWork ==
    \A d \in Delivery :
        Holds(d) => /\ copy[d].held
                    /\ deliveryPc[d] \notin {"waiting", "stopCheck", "claim", "ended"}

PolicyInv == PolicyTypeOK /\ OneConsumer /\ HandedConsumed /\ AcceptedConsumed /\ HolderAtWork

-----------------------------------------------------------------------------
(* The hash of the policy and the rest of the state, typed apart.          *)

HashOK ==
    /\ policy \in [state : {"absent", "staged", "claimed"} \cup Final,
                   token : Delivery \cup {NoDelivery}, body : Content]
    /\ (policy.token # NoDelivery) <=> (policy.state = "claimed")
    /\ policy.state \in Final \cup {"absent"} => policy.body = NoContent

OthersOK ==
    /\ policyLeaseOver \in BOOLEAN
    /\ policyTtlOver \in BOOLEAN
    /\ asked \in [Stager -> Content]
    /\ stagePc \in [Stager -> {"look", "stage", "stored", "refused"}]
    /\ answer \in {"open", "approved", "denied"}
    /\ sessionGrant \in BOOLEAN
    /\ deliveryPc \in [Delivery -> DeliveryAt]
    /\ copy \in [Delivery -> [held : BOOLEAN, body : Content]]
    /\ taken \in [Delivery -> BOOLEAN]
    /\ policyConsumed \in [Delivery -> BOOLEAN]
    /\ retried \in [Delivery -> BOOLEAN]
    /\ handed \subseteq Delivery

LEMMA Parts == PolicyTypeOK <=> HashOK /\ OthersOK
  BY DEF PolicyTypeOK, HashOK, OthersOK

LEMMA PartsAfter == PolicyTypeOK' <=> HashOK' /\ OthersOK'
  BY DEF PolicyTypeOK, HashOK, OthersOK

LEMMA NoContentIsContent == NoContent \in Content
  BY DEF NoContent, Content

LEMMA HashSet ==
  ASSUME NEW s \in {"absent", "staged", "claimed"} \cup Final,
         NEW d \in Delivery \cup {NoDelivery}, NEW b \in Content,
         (d # NoDelivery) <=> (s = "claimed"),
         s \in Final \cup {"absent"} => b = NoContent,
         SetPolicy(s, d, b)
  PROVE  HashOK'
  BY DEF HashOK, SetPolicy

LEMMA SettledPolicy ==
  ASSUME NEW s \in Final, Settle(s)
  PROVE  HashOK' /\ policy'.state = s
<1>1. SetPolicy(s, NoDelivery, NoContent)
  BY DEF Settle
<1>2. s # "claimed"
  BY DEF Final
<1> QED
  BY <1>1, <1>2, HashSet, NoContentIsContent DEF SetPolicy

LEMMA InitPolicy == PolicyInit => PolicyInv
<1> SUFFICES ASSUME PolicyInit PROVE PolicyInv
  OBVIOUS
<1>1. HashOK
  BY NoContentIsContent DEF PolicyInit, HashOK, Absent, Final
<1>2. OthersOK
  BY NoContentIsContent DEF PolicyInit, OthersOK, DeliveryAt
<1>3. OneConsumer /\ HandedConsumed /\ AcceptedConsumed
  BY DEF PolicyInit, OneConsumer, HandedConsumed, AcceptedConsumed
<1>4. HolderAtWork
  BY DEF PolicyInit, HolderAtWork, Holds, Absent
<1> QED
  BY <1>1, <1>2, <1>3, <1>4, Parts DEF PolicyInv

-----------------------------------------------------------------------------
(* Every step keeps every part of the invariant.                           *)

LEMMA HashStep ==
  ASSUME PolicyTypeOK, [PolicyNext]_policyVars
  PROVE  HashOK'
<1> HashOK /\ OthersOK
  BY Parts
<1> policy.body \in Content
  BY DEF HashOK
<1>1. ASSUME UNCHANGED policy PROVE HashOK'
  BY <1>1 DEF HashOK
<1>2. ASSUME NEW r \in Stager, StagePolicy(r) PROVE HashOK'
  <2>1. CASE policy.state = "absent"
    <3>1. SetPolicy("staged", NoDelivery, asked[r])
      BY <1>2, <2>1 DEF StagePolicy, StageScript
    <3>2. asked[r] \in Content
      BY DEF OthersOK
    <3> QED
      BY <3>1, <3>2, HashSet DEF Final
  <2>2. CASE policy.state # "absent"
    BY <1>1, <1>2, <2>2, SettledPolicy DEF StagePolicy, StageScript, Final
  <2> QED
    BY <2>1, <2>2
<1>3. ASSUME NEW d \in Delivery, ClaimPolicy(d) PROVE HashOK'
  <2>1. CASE ClaimedBy(d)
    <3>1. SetPolicy("claimed", d, policy.body)
      BY <2>1 DEF ClaimedBy
    <3>2. d # NoDelivery
      BY PolicyAssumption
    <3> QED
      BY <3>1, <3>2, HashSet DEF Final
  <2>2. CASE ~ClaimedBy(d)
    BY <1>1, <1>3, <2>2, SettledPolicy DEF ClaimPolicy, policyRecord, Final
  <2> QED
    BY <2>1, <2>2
<1>4. ASSUME NEW d \in Delivery, GiveBack(d) PROVE HashOK'
  <2>1. CASE SetPolicy("staged", NoDelivery, policy.body)
    BY <2>1, HashSet DEF Final
  <2>2. CASE ~SetPolicy("staged", NoDelivery, policy.body)
    BY <1>1, <1>4, <2>2 DEF GiveBack, ReleaseScript
  <2> QED
    BY <2>1, <2>2
<1>5. ASSUME NEW d \in Delivery, ConsumeCall(d) PROVE HashOK'
  BY <1>1, <1>5, SettledPolicy DEF ConsumeCall, Final
<1>6. ASSUME NEW r \in Stager, StageLook(r) PROVE HashOK'
  BY <1>1, <1>6 DEF StageLook, policyRecord
<1>7. ASSUME NEW x \in {"approved", "denied"}, ResumeAccepted(x) PROVE HashOK'
  BY <1>1, <1>7 DEF ResumeAccepted, policyRecord
<1>8. ASSUME NEW d \in Delivery, DeliveryStep(d) PROVE HashOK'
  <2>1. CASE Deliver(d) \/ StopCheck(d) \/ GrantTool(d) \/ FailEarly(d)
    BY <1>1, <2>1 DEF Deliver, StopCheck, GrantTool, FailEarly, policyRecord
  <2>2. CASE StartStream(d) \/ RetryAttempt(d) \/ RunEnds(d) \/ RunThrows(d) \/ DeliveryDies(d)
    BY <1>1, <2>2 DEF StartStream, RetryAttempt, RunEnds, RunThrows, DeliveryDies, policyRecord
  <2>3. CASE ConsumeAtStart(d) \/ TakeOverride(d) \/ ConsumeUnused(d)
    BY <1>5, <2>3 DEF ConsumeAtStart, TakeOverride, ConsumeUnused
  <2> QED
    BY <1>3, <1>4, <1>8, <2>1, <2>2, <2>3 DEF DeliveryStep
<1>9. ASSUME PolicyLeaseLapses \/ PolicyTtlLapses \/ UNCHANGED policyVars PROVE HashOK'
  BY <1>1, <1>9 DEF PolicyLeaseLapses, PolicyTtlLapses, policyVars, policyRecord
<1> QED
  BY <1>2, <1>6, <1>7, <1>8, <1>9 DEF PolicyNext

LEMMA OthersStep ==
  ASSUME PolicyTypeOK, [PolicyNext]_policyVars
  PROVE  OthersOK'
<1> HashOK /\ OthersOK
  BY Parts
<1> policy.body \in Content
  BY DEF HashOK

<1>1. ASSUME NEW r \in Stager, StageLook(r) PROVE OthersOK'
  BY <1>1 DEF StageLook, OthersOK, DeliveryAt, policyRecord, deliveryVars
<1>2. ASSUME NEW r \in Stager, StagePolicy(r) PROVE OthersOK'
  BY <1>2 DEF StagePolicy, StageScript, StageSucceeds, OthersOK, DeliveryAt,
      policyRecord, deliveryVars
<1>3. ASSUME NEW x \in {"approved", "denied"}, ResumeAccepted(x) PROVE OthersOK'
  BY <1>3 DEF ResumeAccepted, OthersOK, DeliveryAt, policyRecord, deliveryVars
<1>4. ASSUME NEW d \in Delivery, Deliver(d) PROVE OthersOK'
  BY <1>4 DEF Deliver, GoOn, OthersOK, DeliveryAt, policyRecord, deliveryVars
<1>5. ASSUME NEW d \in Delivery, StopCheck(d) PROVE OthersOK'
  BY <1>5 DEF StopCheck, GoOn, OthersOK, DeliveryAt, policyRecord, deliveryVars
<1>6. ASSUME NEW d \in Delivery, ClaimPolicy(d) PROVE OthersOK'
  <2>1. CASE ClaimedBy(d)
    <3>1. [held |-> TRUE, body |-> policy.body] \in [held : BOOLEAN, body : Content]
      OBVIOUS
    <3>2. copy' \in [Delivery -> [held : BOOLEAN, body : Content]]
      BY <3>1, <2>1 DEF ClaimedBy, OthersOK
    <3>3. deliveryPc' \in [Delivery -> DeliveryAt]
      BY <2>1 DEF ClaimedBy, GoOn, OthersOK, DeliveryAt
    <3> QED
      BY <1>6, <2>1, <3>2, <3>3 DEF ClaimPolicy, ClaimedBy, OthersOK
  <2>2. CASE ~ClaimedBy(d)
    BY <1>6, <2>2 DEF ClaimPolicy, GoOn, OthersOK, DeliveryAt, policyRecord
  <2> QED
    BY <2>1, <2>2
<1>7. ASSUME NEW d \in Delivery, GrantTool(d) PROVE OthersOK'
  BY <1>7 DEF GrantTool, GoOn, OthersOK, DeliveryAt, policyRecord, deliveryVars
<1>8. ASSUME NEW d \in Delivery, FailEarly(d) PROVE OthersOK'
  BY <1>8 DEF FailEarly, GoOn, GiveBackOrEnd, OthersOK, DeliveryAt, policyRecord,
      deliveryVars
<1>9. ASSUME NEW d \in Delivery, GiveBack(d) PROVE OthersOK'
  BY <1>9 DEF GiveBack, GoOn, ReleaseScript, OthersOK, DeliveryAt, policyRecord,
      deliveryVars
<1>10. ASSUME NEW d \in Delivery, StartStream(d) PROVE OthersOK'
  BY <1>10 DEF StartStream, GoOn, OthersOK, DeliveryAt, policyRecord, deliveryVars
<1>11. ASSUME NEW d \in Delivery, ConsumeAtStart(d) PROVE OthersOK'
  BY <1>11 DEF ConsumeAtStart, GoOn, ConsumeCall, Consumable, Accepted, OthersOK,
      DeliveryAt, policyRecord, deliveryVars
<1>12. ASSUME NEW d \in Delivery, RetryAttempt(d) PROVE OthersOK'
  BY <1>12 DEF RetryAttempt, GoOn, OthersOK, DeliveryAt, policyRecord, deliveryVars
<1>13. ASSUME NEW d \in Delivery, TakeOverride(d) PROVE OthersOK'
  BY <1>13 DEF TakeOverride, ConsumeCall, Consumable, Accepted, Overridden, OthersOK,
      DeliveryAt, policyRecord, deliveryVars
<1>14. ASSUME NEW d \in Delivery, RunEnds(d) PROVE OthersOK'
  BY <1>14 DEF RunEnds, GoOn, Overridden, OthersOK, DeliveryAt, policyRecord,
      deliveryVars
<1>15. ASSUME NEW d \in Delivery, RunThrows(d) PROVE OthersOK'
  BY <1>15 DEF RunThrows, GoOn, OthersOK, DeliveryAt, policyRecord, deliveryVars
<1>16. ASSUME NEW d \in Delivery, ConsumeUnused(d) PROVE OthersOK'
  BY <1>16 DEF ConsumeUnused, GoOn, ConsumeCall, Consumable, Accepted, Overridden,
      OthersOK, DeliveryAt, policyRecord, deliveryVars
<1>17. ASSUME NEW d \in Delivery, DeliveryDies(d) PROVE OthersOK'
  BY <1>17 DEF DeliveryDies, GoOn, OthersOK, DeliveryAt, policyRecord, deliveryVars
<1>18. ASSUME PolicyLeaseLapses PROVE OthersOK'
  BY <1>18 DEF PolicyLeaseLapses, OthersOK, DeliveryAt, policyRecord, deliveryVars
<1>19. ASSUME PolicyTtlLapses PROVE OthersOK'
  BY <1>19 DEF PolicyTtlLapses, OthersOK, DeliveryAt, policyRecord, deliveryVars
<1>20. ASSUME UNCHANGED policyVars PROVE OthersOK'
  BY <1>20 DEF policyVars, policyRecord, deliveryVars, OthersOK, DeliveryAt
<1> QED
  BY <1>1, <1>2, <1>3, <1>4, <1>5, <1>6, <1>7, <1>8, <1>9, <1>10, <1>11, <1>12, <1>13,
      <1>14, <1>15, <1>16, <1>17, <1>18, <1>19, <1>20
  DEF PolicyNext, DeliveryStep

LEMMA PolicyTypeStep ==
  ASSUME PolicyTypeOK, [PolicyNext]_policyVars
  PROVE  PolicyTypeOK'
  BY HashStep, OthersStep, PartsAfter

LEMMA ConsumerStep ==
  ASSUME PolicyTypeOK, OneConsumer, HandedConsumed, [PolicyNext]_policyVars
  PROVE  OneConsumer' /\ HandedConsumed'
<1>1. ASSUME NEW r \in Stager, StageLook(r) PROVE OneConsumer' /\ HandedConsumed'
  BY <1>1 DEF StageLook, PolicyTypeOK, OneConsumer, HandedConsumed, Final, policyRecord,
      deliveryVars
<1>2. ASSUME NEW r \in Stager, StagePolicy(r) PROVE OneConsumer' /\ HandedConsumed'
  BY <1>2 DEF StagePolicy, StageScript, StageSucceeds, SetPolicy, Settle, NoContent,
      Content, PolicyTypeOK, OneConsumer, HandedConsumed, Final, policyRecord,
      deliveryVars
<1>3. ASSUME NEW x \in {"approved", "denied"}, ResumeAccepted(x) PROVE OneConsumer' /\ HandedConsumed'
  BY <1>3 DEF ResumeAccepted, PolicyTypeOK, OneConsumer, HandedConsumed, Final,
      policyRecord, deliveryVars
<1>4. ASSUME NEW d \in Delivery, Deliver(d) PROVE OneConsumer' /\ HandedConsumed'
  BY <1>4 DEF Deliver, GoOn, PolicyTypeOK, OneConsumer, HandedConsumed, Final,
      policyRecord, deliveryVars
<1>5. ASSUME NEW d \in Delivery, StopCheck(d) PROVE OneConsumer' /\ HandedConsumed'
  BY <1>5 DEF StopCheck, GoOn, PolicyTypeOK, OneConsumer, HandedConsumed, Final,
      policyRecord, deliveryVars
<1>6. ASSUME NEW d \in Delivery, ClaimPolicy(d) PROVE OneConsumer' /\ HandedConsumed'
  BY <1>6 DEF ClaimPolicy, GoOn, ClaimedBy, SetPolicy, Settle, Overran, Claimable,
      NoContent, Content, PolicyTypeOK, OneConsumer, HandedConsumed, Final,
      policyRecord, deliveryVars
<1>7. ASSUME NEW d \in Delivery, GrantTool(d) PROVE OneConsumer' /\ HandedConsumed'
  BY <1>7 DEF GrantTool, GoOn, PolicyTypeOK, OneConsumer, HandedConsumed, Final,
      policyRecord, deliveryVars
<1>8. ASSUME NEW d \in Delivery, FailEarly(d) PROVE OneConsumer' /\ HandedConsumed'
  BY <1>8 DEF FailEarly, GoOn, GiveBackOrEnd, PolicyTypeOK, OneConsumer, HandedConsumed,
      Final, policyRecord, deliveryVars
<1>9. ASSUME NEW d \in Delivery, GiveBack(d) PROVE OneConsumer' /\ HandedConsumed'
  BY <1>9 DEF GiveBack, GoOn, ReleaseScript, SetPolicy, Content, NoContent,
      PolicyTypeOK, OneConsumer, HandedConsumed, Final, policyRecord, deliveryVars
<1>10. ASSUME NEW d \in Delivery, StartStream(d) PROVE OneConsumer' /\ HandedConsumed'
  BY <1>10 DEF StartStream, GoOn, PolicyTypeOK, OneConsumer, HandedConsumed, Final,
      policyRecord, deliveryVars
<1>11. ASSUME NEW d \in Delivery, ConsumeAtStart(d) PROVE OneConsumer' /\ HandedConsumed'
  BY <1>11 DEF ConsumeAtStart, GoOn, ConsumeCall, Consumable, Settle, SetPolicy,
      Accepted, NoContent, Content, PolicyTypeOK, OneConsumer, HandedConsumed, Final,
      policyRecord, deliveryVars
<1>12. ASSUME NEW d \in Delivery, RetryAttempt(d) PROVE OneConsumer' /\ HandedConsumed'
  BY <1>12 DEF RetryAttempt, GoOn, PolicyTypeOK, OneConsumer, HandedConsumed, Final,
      policyRecord, deliveryVars
<1>13. ASSUME NEW d \in Delivery, TakeOverride(d) PROVE OneConsumer' /\ HandedConsumed'
  <2>1. CASE Consumable(d)
    <3>1. \A e \in Delivery : ~policyConsumed[e]
      BY <2>1 DEF Consumable, OneConsumer
    <3>2. /\ policy'.state = "consumed"
          /\ policyConsumed' \in {policyConsumed, [policyConsumed EXCEPT ![d] = TRUE]}
      BY <1>13, <2>1 DEF TakeOverride, ConsumeCall, Settle, SetPolicy
    <3>3. handed' = IF policyConsumed'[d] THEN handed \cup {d} ELSE handed
      BY <1>13 DEF TakeOverride, Accepted
    <3> QED
      BY <3>1, <3>2, <3>3 DEF PolicyTypeOK, OneConsumer, HandedConsumed
  <2>2. CASE ~Consumable(d)
    <3>1. UNCHANGED <<policy, policyConsumed>>
      BY <1>13, <2>2 DEF TakeOverride, ConsumeCall
    <3>2. handed' = IF policyConsumed'[d] THEN handed \cup {d} ELSE handed
      BY <1>13 DEF TakeOverride, Accepted
    <3> QED
      BY <3>1, <3>2 DEF OneConsumer, HandedConsumed
  <2> QED
    BY <2>1, <2>2
<1>14. ASSUME NEW d \in Delivery, RunEnds(d) PROVE OneConsumer' /\ HandedConsumed'
  BY <1>14 DEF RunEnds, GoOn, Overridden, PolicyTypeOK, OneConsumer, HandedConsumed,
      Final, policyRecord, deliveryVars
<1>15. ASSUME NEW d \in Delivery, RunThrows(d) PROVE OneConsumer' /\ HandedConsumed'
  BY <1>15 DEF RunThrows, GoOn, PolicyTypeOK, OneConsumer, HandedConsumed, Final,
      policyRecord, deliveryVars
<1>16. ASSUME NEW d \in Delivery, ConsumeUnused(d) PROVE OneConsumer' /\ HandedConsumed'
  BY <1>16 DEF ConsumeUnused, GoOn, ConsumeCall, Consumable, Settle, SetPolicy,
      Accepted, NoContent, Content, Overridden, PolicyTypeOK, OneConsumer,
      HandedConsumed, Final, policyRecord, deliveryVars
<1>17. ASSUME NEW d \in Delivery, DeliveryDies(d) PROVE OneConsumer' /\ HandedConsumed'
  BY <1>17 DEF DeliveryDies, GoOn, PolicyTypeOK, OneConsumer, HandedConsumed, Final,
      policyRecord, deliveryVars
<1>18. ASSUME PolicyLeaseLapses PROVE OneConsumer' /\ HandedConsumed'
  BY <1>18 DEF PolicyLeaseLapses, PolicyTypeOK, OneConsumer, HandedConsumed, Final,
      policyRecord, deliveryVars
<1>19. ASSUME PolicyTtlLapses PROVE OneConsumer' /\ HandedConsumed'
  BY <1>19 DEF PolicyTtlLapses, PolicyTypeOK, OneConsumer, HandedConsumed, Final,
      policyRecord, deliveryVars
<1>20. ASSUME UNCHANGED policyVars PROVE OneConsumer' /\ HandedConsumed'
  BY <1>20 DEF policyVars, policyRecord, deliveryVars, PolicyTypeOK, OneConsumer,
      HandedConsumed, Final
<1> QED
  BY <1>1, <1>2, <1>3, <1>4, <1>5, <1>6, <1>7, <1>8, <1>9, <1>10, <1>11, <1>12, <1>13,
      <1>14, <1>15, <1>16, <1>17, <1>18, <1>19, <1>20
  DEF PolicyNext, DeliveryStep

LEMMA RunningStep ==
  ASSUME PolicyTypeOK, AcceptedConsumed, [PolicyNext]_policyVars
  PROVE  AcceptedConsumed'
<1>1. ASSUME NEW r \in Stager, StageLook(r) PROVE AcceptedConsumed'
  BY <1>1 DEF StageLook, PolicyTypeOK, AcceptedConsumed, policyRecord, deliveryVars
<1>2. ASSUME NEW r \in Stager, StagePolicy(r) PROVE AcceptedConsumed'
  BY <1>2 DEF StagePolicy, StageScript, StageSucceeds, SetPolicy, Settle, NoContent,
      Content, PolicyTypeOK, AcceptedConsumed, policyRecord, deliveryVars
<1>3. ASSUME NEW x \in {"approved", "denied"}, ResumeAccepted(x) PROVE AcceptedConsumed'
  BY <1>3 DEF ResumeAccepted, PolicyTypeOK, AcceptedConsumed, policyRecord, deliveryVars
<1>4. ASSUME NEW d \in Delivery, Deliver(d) PROVE AcceptedConsumed'
  BY <1>4 DEF Deliver, GoOn, PolicyTypeOK, AcceptedConsumed, policyRecord, deliveryVars
<1>5. ASSUME NEW d \in Delivery, StopCheck(d) PROVE AcceptedConsumed'
  BY <1>5 DEF StopCheck, GoOn, PolicyTypeOK, AcceptedConsumed, policyRecord,
      deliveryVars
<1>6. ASSUME NEW d \in Delivery, ClaimPolicy(d) PROVE AcceptedConsumed'
  BY <1>6 DEF ClaimPolicy, GoOn, ClaimedBy, SetPolicy, Settle, Overran, Claimable,
      NoContent, Content, PolicyTypeOK, AcceptedConsumed, policyRecord, deliveryVars
<1>7. ASSUME NEW d \in Delivery, GrantTool(d) PROVE AcceptedConsumed'
  BY <1>7 DEF GrantTool, GoOn, PolicyTypeOK, AcceptedConsumed, policyRecord,
      deliveryVars
<1>8. ASSUME NEW d \in Delivery, FailEarly(d) PROVE AcceptedConsumed'
  BY <1>8 DEF FailEarly, GoOn, GiveBackOrEnd, PolicyTypeOK, AcceptedConsumed,
      policyRecord, deliveryVars
<1>9. ASSUME NEW d \in Delivery, GiveBack(d) PROVE AcceptedConsumed'
  BY <1>9 DEF GiveBack, GoOn, ReleaseScript, SetPolicy, Content, NoContent,
      PolicyTypeOK, AcceptedConsumed, policyRecord, deliveryVars
<1>10. ASSUME NEW d \in Delivery, StartStream(d) PROVE AcceptedConsumed'
  BY <1>10 DEF StartStream, GoOn, PolicyTypeOK, AcceptedConsumed, policyRecord,
      deliveryVars
<1>11. ASSUME NEW d \in Delivery, ConsumeAtStart(d) PROVE AcceptedConsumed'
  BY <1>11 DEF ConsumeAtStart, GoOn, ConsumeCall, Consumable, Settle, SetPolicy,
      Accepted, NoContent, Content, PolicyTypeOK, AcceptedConsumed, policyRecord,
      deliveryVars
<1>12. ASSUME NEW d \in Delivery, RetryAttempt(d) PROVE AcceptedConsumed'
  BY <1>12 DEF RetryAttempt, GoOn, PolicyTypeOK, AcceptedConsumed, policyRecord,
      deliveryVars
<1>13. ASSUME NEW d \in Delivery, TakeOverride(d) PROVE AcceptedConsumed'
  BY <1>13 DEF TakeOverride, ConsumeCall, Consumable, Settle, SetPolicy, Accepted,
      NoContent, Content, Overridden, PolicyTypeOK, AcceptedConsumed, policyRecord,
      deliveryVars
<1>14. ASSUME NEW d \in Delivery, RunEnds(d) PROVE AcceptedConsumed'
  BY <1>14 DEF RunEnds, GoOn, Overridden, PolicyTypeOK, AcceptedConsumed, policyRecord,
      deliveryVars
<1>15. ASSUME NEW d \in Delivery, RunThrows(d) PROVE AcceptedConsumed'
  BY <1>15 DEF RunThrows, GoOn, PolicyTypeOK, AcceptedConsumed, policyRecord,
      deliveryVars
<1>16. ASSUME NEW d \in Delivery, ConsumeUnused(d) PROVE AcceptedConsumed'
  BY <1>16 DEF ConsumeUnused, GoOn, ConsumeCall, Consumable, Settle, SetPolicy,
      Accepted, NoContent, Content, Overridden, PolicyTypeOK, AcceptedConsumed,
      policyRecord, deliveryVars
<1>17. ASSUME NEW d \in Delivery, DeliveryDies(d) PROVE AcceptedConsumed'
  BY <1>17 DEF DeliveryDies, GoOn, PolicyTypeOK, AcceptedConsumed, policyRecord,
      deliveryVars
<1>18. ASSUME PolicyLeaseLapses PROVE AcceptedConsumed'
  BY <1>18 DEF PolicyLeaseLapses, PolicyTypeOK, AcceptedConsumed, policyRecord,
      deliveryVars
<1>19. ASSUME PolicyTtlLapses PROVE AcceptedConsumed'
  BY <1>19 DEF PolicyTtlLapses, PolicyTypeOK, AcceptedConsumed, policyRecord,
      deliveryVars
<1>20. ASSUME UNCHANGED policyVars PROVE AcceptedConsumed'
  BY <1>20 DEF policyVars, policyRecord, deliveryVars, PolicyTypeOK, AcceptedConsumed
<1> QED
  BY <1>1, <1>2, <1>3, <1>4, <1>5, <1>6, <1>7, <1>8, <1>9, <1>10, <1>11, <1>12, <1>13,
      <1>14, <1>15, <1>16, <1>17, <1>18, <1>19, <1>20
  DEF PolicyNext, DeliveryStep

LEMMA HolderStep ==
  ASSUME PolicyTypeOK, OneConsumer, AcceptedConsumed, HolderAtWork, [PolicyNext]_policyVars
  PROVE  HolderAtWork'
<1>1. ASSUME NEW r \in Stager, StageLook(r) PROVE HolderAtWork'
  BY <1>1 DEF StageLook, PolicyTypeOK, OneConsumer, AcceptedConsumed, HolderAtWork,
      Holds, Overridden, policyRecord, deliveryVars
<1>2. ASSUME NEW r \in Stager, StagePolicy(r) PROVE HolderAtWork'
  BY <1>2 DEF StagePolicy, StageScript, StageSucceeds, SetPolicy, Settle, NoContent,
      Content, PolicyTypeOK, OneConsumer, AcceptedConsumed, HolderAtWork, Holds,
      Overridden, policyRecord, deliveryVars
<1>3. ASSUME NEW x \in {"approved", "denied"}, ResumeAccepted(x) PROVE HolderAtWork'
  BY <1>3 DEF ResumeAccepted, PolicyTypeOK, OneConsumer, AcceptedConsumed, HolderAtWork,
      Holds, Overridden, policyRecord, deliveryVars
<1>4. ASSUME NEW d \in Delivery, Deliver(d) PROVE HolderAtWork'
  BY <1>4 DEF Deliver, GoOn, PolicyTypeOK, OneConsumer, AcceptedConsumed, HolderAtWork,
      Holds, Overridden, policyRecord, deliveryVars
<1>5. ASSUME NEW d \in Delivery, StopCheck(d) PROVE HolderAtWork'
  BY <1>5 DEF StopCheck, GoOn, PolicyTypeOK, OneConsumer, AcceptedConsumed,
      HolderAtWork, Holds, Overridden, policyRecord, deliveryVars
<1>6. ASSUME NEW d \in Delivery, ClaimPolicy(d) PROVE HolderAtWork'
  BY <1>6 DEF ClaimPolicy, GoOn, ClaimedBy, SetPolicy, Settle, Overran, Claimable,
      NoContent, Content, PolicyTypeOK, OneConsumer, AcceptedConsumed, HolderAtWork,
      Holds, Overridden, policyRecord, deliveryVars
<1>7. ASSUME NEW d \in Delivery, GrantTool(d) PROVE HolderAtWork'
  BY <1>7 DEF GrantTool, GoOn, PolicyTypeOK, OneConsumer, AcceptedConsumed,
      HolderAtWork, Holds, Overridden, policyRecord, deliveryVars
<1>8. ASSUME NEW d \in Delivery, FailEarly(d) PROVE HolderAtWork'
  BY <1>8 DEF FailEarly, GoOn, GiveBackOrEnd, PolicyTypeOK, OneConsumer,
      AcceptedConsumed, HolderAtWork, Holds, Overridden, policyRecord, deliveryVars
<1>9. ASSUME NEW d \in Delivery, GiveBack(d) PROVE HolderAtWork'
  BY <1>9 DEF GiveBack, GoOn, ReleaseScript, SetPolicy, Content, NoContent,
      PolicyTypeOK, OneConsumer, AcceptedConsumed, HolderAtWork, Holds, Overridden,
      policyRecord, deliveryVars
<1>10. ASSUME NEW d \in Delivery, StartStream(d) PROVE HolderAtWork'
  BY <1>10 DEF StartStream, GoOn, PolicyTypeOK, OneConsumer, AcceptedConsumed,
      HolderAtWork, Holds, Overridden, policyRecord, deliveryVars
<1>11. ASSUME NEW d \in Delivery, ConsumeAtStart(d) PROVE HolderAtWork'
  BY <1>11 DEF ConsumeAtStart, GoOn, ConsumeCall, Consumable, Settle, SetPolicy,
      Accepted, NoContent, Content, PolicyTypeOK, OneConsumer, AcceptedConsumed,
      HolderAtWork, Holds, Overridden, policyRecord, deliveryVars
<1>12. ASSUME NEW d \in Delivery, RetryAttempt(d) PROVE HolderAtWork'
  BY <1>12 DEF RetryAttempt, GoOn, PolicyTypeOK, OneConsumer, AcceptedConsumed,
      HolderAtWork, Holds, Overridden, policyRecord, deliveryVars
<1>13. ASSUME NEW d \in Delivery, TakeOverride(d) PROVE HolderAtWork'
  BY <1>13 DEF TakeOverride, ConsumeCall, Consumable, Settle, SetPolicy, Accepted,
      NoContent, Content, Overridden, PolicyTypeOK, OneConsumer, AcceptedConsumed,
      HolderAtWork, Holds, policyRecord, deliveryVars
<1>14. ASSUME NEW d \in Delivery, RunEnds(d) PROVE HolderAtWork'
  BY <1>14 DEF RunEnds, GoOn, Overridden, PolicyTypeOK, OneConsumer, AcceptedConsumed,
      HolderAtWork, Holds, policyRecord, deliveryVars
<1>15. ASSUME NEW d \in Delivery, RunThrows(d) PROVE HolderAtWork'
  BY <1>15 DEF RunThrows, GoOn, PolicyTypeOK, OneConsumer, AcceptedConsumed,
      HolderAtWork, Holds, Overridden, policyRecord, deliveryVars
<1>16. ASSUME NEW d \in Delivery, ConsumeUnused(d) PROVE HolderAtWork'
  BY <1>16 DEF ConsumeUnused, GoOn, ConsumeCall, Consumable, Settle, SetPolicy,
      Accepted, NoContent, Content, Overridden, PolicyTypeOK, OneConsumer,
      AcceptedConsumed, HolderAtWork, Holds, policyRecord, deliveryVars
<1>17. ASSUME NEW d \in Delivery, DeliveryDies(d) PROVE HolderAtWork'
  BY <1>17 DEF DeliveryDies, GoOn, PolicyTypeOK, OneConsumer, AcceptedConsumed,
      HolderAtWork, Holds, Overridden, policyRecord, deliveryVars
<1>18. ASSUME PolicyLeaseLapses PROVE HolderAtWork'
  BY <1>18 DEF PolicyLeaseLapses, PolicyTypeOK, OneConsumer, AcceptedConsumed,
      HolderAtWork, Holds, Overridden, policyRecord, deliveryVars
<1>19. ASSUME PolicyTtlLapses PROVE HolderAtWork'
  BY <1>19 DEF PolicyTtlLapses, PolicyTypeOK, OneConsumer, AcceptedConsumed,
      HolderAtWork, Holds, Overridden, policyRecord, deliveryVars
<1>20. ASSUME UNCHANGED policyVars PROVE HolderAtWork'
  BY <1>20 DEF policyVars, policyRecord, deliveryVars, PolicyTypeOK, OneConsumer,
      AcceptedConsumed, HolderAtWork, Holds, Overridden
<1> QED
  BY <1>1, <1>2, <1>3, <1>4, <1>5, <1>6, <1>7, <1>8, <1>9, <1>10, <1>11, <1>12, <1>13,
      <1>14, <1>15, <1>16, <1>17, <1>18, <1>19, <1>20
  DEF PolicyNext, DeliveryStep

LEMMA SettledStep ==
  ASSUME PolicyTypeOK, [PolicyNext]_policyVars
  PROVE  policy.state \in Final => policy' = policy
<1>1. ASSUME NEW r \in Stager, StageLook(r) PROVE policy.state \in Final => policy' = policy
  BY <1>1 DEF StageLook, PolicyTypeOK, Final, policyRecord, deliveryVars
<1>2. ASSUME NEW r \in Stager, StagePolicy(r) PROVE policy.state \in Final => policy' = policy
  BY <1>2 DEF StagePolicy, StageScript, StageSucceeds, SetPolicy, Settle, NoContent,
      Content, PolicyTypeOK, Final, policyRecord, deliveryVars
<1>3. ASSUME NEW x \in {"approved", "denied"}, ResumeAccepted(x) PROVE policy.state \in Final => policy' = policy
  BY <1>3 DEF ResumeAccepted, PolicyTypeOK, Final, policyRecord, deliveryVars
<1>4. ASSUME NEW d \in Delivery, Deliver(d) PROVE policy.state \in Final => policy' = policy
  BY <1>4 DEF Deliver, GoOn, PolicyTypeOK, Final, policyRecord, deliveryVars
<1>5. ASSUME NEW d \in Delivery, StopCheck(d) PROVE policy.state \in Final => policy' = policy
  BY <1>5 DEF StopCheck, GoOn, PolicyTypeOK, Final, policyRecord, deliveryVars
<1>6. ASSUME NEW d \in Delivery, ClaimPolicy(d) PROVE policy.state \in Final => policy' = policy
  BY <1>6 DEF ClaimPolicy, GoOn, ClaimedBy, SetPolicy, Settle, Overran, Claimable,
      NoContent, Content, PolicyTypeOK, Final, policyRecord, deliveryVars
<1>7. ASSUME NEW d \in Delivery, GrantTool(d) PROVE policy.state \in Final => policy' = policy
  BY <1>7 DEF GrantTool, GoOn, PolicyTypeOK, Final, policyRecord, deliveryVars
<1>8. ASSUME NEW d \in Delivery, FailEarly(d) PROVE policy.state \in Final => policy' = policy
  BY <1>8 DEF FailEarly, GoOn, GiveBackOrEnd, PolicyTypeOK, Final, policyRecord,
      deliveryVars
<1>9. ASSUME NEW d \in Delivery, GiveBack(d) PROVE policy.state \in Final => policy' = policy
  BY <1>9 DEF GiveBack, GoOn, ReleaseScript, SetPolicy, Content, NoContent,
      PolicyTypeOK, Final, policyRecord, deliveryVars
<1>10. ASSUME NEW d \in Delivery, StartStream(d) PROVE policy.state \in Final => policy' = policy
  BY <1>10 DEF StartStream, GoOn, PolicyTypeOK, Final, policyRecord, deliveryVars
<1>11. ASSUME NEW d \in Delivery, ConsumeAtStart(d) PROVE policy.state \in Final => policy' = policy
  BY <1>11 DEF ConsumeAtStart, GoOn, ConsumeCall, Consumable, Settle, SetPolicy,
      Accepted, NoContent, Content, PolicyTypeOK, Final, policyRecord, deliveryVars
<1>12. ASSUME NEW d \in Delivery, RetryAttempt(d) PROVE policy.state \in Final => policy' = policy
  BY <1>12 DEF RetryAttempt, GoOn, PolicyTypeOK, Final, policyRecord, deliveryVars
<1>13. ASSUME NEW d \in Delivery, TakeOverride(d) PROVE policy.state \in Final => policy' = policy
  BY <1>13 DEF TakeOverride, ConsumeCall, Consumable, Settle, SetPolicy, Accepted,
      NoContent, Content, Overridden, PolicyTypeOK, Final, policyRecord, deliveryVars
<1>14. ASSUME NEW d \in Delivery, RunEnds(d) PROVE policy.state \in Final => policy' = policy
  BY <1>14 DEF RunEnds, GoOn, Overridden, PolicyTypeOK, Final, policyRecord,
      deliveryVars
<1>15. ASSUME NEW d \in Delivery, RunThrows(d) PROVE policy.state \in Final => policy' = policy
  BY <1>15 DEF RunThrows, GoOn, PolicyTypeOK, Final, policyRecord, deliveryVars
<1>16. ASSUME NEW d \in Delivery, ConsumeUnused(d) PROVE policy.state \in Final => policy' = policy
  BY <1>16 DEF ConsumeUnused, GoOn, ConsumeCall, Consumable, Settle, SetPolicy,
      Accepted, NoContent, Content, Overridden, PolicyTypeOK, Final, policyRecord,
      deliveryVars
<1>17. ASSUME NEW d \in Delivery, DeliveryDies(d) PROVE policy.state \in Final => policy' = policy
  BY <1>17 DEF DeliveryDies, GoOn, PolicyTypeOK, Final, policyRecord, deliveryVars
<1>18. ASSUME PolicyLeaseLapses PROVE policy.state \in Final => policy' = policy
  BY <1>18 DEF PolicyLeaseLapses, PolicyTypeOK, Final, policyRecord, deliveryVars
<1>19. ASSUME PolicyTtlLapses PROVE policy.state \in Final => policy' = policy
  BY <1>19 DEF PolicyTtlLapses, PolicyTypeOK, Final, policyRecord, deliveryVars
<1>20. ASSUME UNCHANGED policyVars PROVE policy.state \in Final => policy' = policy
  BY <1>20 DEF policyVars, policyRecord, deliveryVars, PolicyTypeOK, Final
<1> QED
  BY <1>1, <1>2, <1>3, <1>4, <1>5, <1>6, <1>7, <1>8, <1>9, <1>10, <1>11, <1>12, <1>13,
      <1>14, <1>15, <1>16, <1>17, <1>18, <1>19, <1>20
  DEF PolicyNext, DeliveryStep

LEMMA PolicyInvariance == PolicySpec => []PolicyInv
<1>1. PolicyInv /\ [PolicyNext]_policyVars => PolicyInv'
  BY PolicyTypeStep, ConsumerStep, RunningStep, HolderStep DEF PolicyInv
<1> QED
  BY <1>1, InitPolicy, PTL DEF PolicySpec

-----------------------------------------------------------------------------
(* The theorems.                                                           *)

\* The scripts of the policy store keep the hash in a state that
\* validatePolicy accepts, and every variable of the model in its type.
THEOREM PolicyTypeCorrect == PolicySpec => []PolicyTypeOK
  BY PolicyInvariance, PTL DEF PolicyInv

\* However many deliveries share the job, and however leases, replies and
\* processes fail, the edited arguments reach one delivery's tool at most, and
\* by then the policy is consumed.
THEOREM EditsHandedOnce == PolicySpec => []EditHandedOnce
<1>1. PolicyInv => EditHandedOnce
  BY DEF PolicyInv, PolicyTypeOK, OneConsumer, HandedConsumed, EditHandedOnce
<1> QED
  BY <1>1, PolicyInvariance, PTL

\* A run without arguments is under way only after its own consume, and one
\* delivery at most ever consumes.
THEOREM OwnConsumeFirst == PolicySpec => []RunsAfterOwnConsume
<1>1. PolicyInv => RunsAfterOwnConsume
  BY DEF PolicyInv, OneConsumer, AcceptedConsumed, RunsAfterOwnConsume
<1> QED
  BY <1>1, PolicyInvariance, PTL

\* A delivery that ended in order holds no claim.
THEOREM OrderlyEndReleases == PolicySpec => []OrderlyEndHoldsNoClaim
<1>1. PolicyInv => OrderlyEndHoldsNoClaim
  BY PolicyAssumption
  DEF PolicyInv, PolicyTypeOK, HolderAtWork, Holds, OrderlyEndHoldsNoClaim
<1> QED
  BY <1>1, PolicyInvariance, PTL

\* Once consumed or expired, a policy stays as it is.
THEOREM SettledStays == PolicySpec => SettledPolicyIsFinal
<1>1. PolicyTypeOK /\ [PolicyNext]_policyVars
         => [policy.state \in Final => policy' = policy]_policyVars
  BY SettledStep
<1> QED
  BY <1>1, PolicyTypeCorrect, PTL DEF PolicySpec, SettledPolicyIsFinal
=============================================================================
