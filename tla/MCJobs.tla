-------------------------------- MODULE MCJobs --------------------------------
(***************************************************************************)
(* The background jobs beside the chat runs: profile summaries, document      *)
(* ingestion and site builds.  They share no state: a behaviour takes the     *)
(* steps of one of them, chosen at its start.                                 *)
(***************************************************************************)
EXTENDS ProfileRefresh, DocumentIngest, SiteBuilds, TLC

VARIABLE focus

jobVars == <<profileVars, documentVars, siteVars, focus>>

Init ==
    /\ focus \in {"profile", "document", "site"}
    /\ ProfileInit /\ DocumentInit /\ SiteInit
    \* What a component that takes no step starts with does not matter.
    /\ focus # "document" => document.kind = "paged"

Next ==
    \/ /\ focus = "profile"
       /\ ProfileNext
       /\ UNCHANGED <<documentVars, siteVars, focus>>
    \/ /\ focus = "document"
       /\ DocumentNext
       /\ UNCHANGED <<profileVars, siteVars, focus>>
    \/ /\ focus = "site"
       /\ SiteNext
       /\ UNCHANGED <<profileVars, documentVars, focus>>

Spec == Init /\ [][Next]_jobVars

\* Passes over the profile differ in nothing but their names.
Passes == Permutations(Pass)

\* Each component's state has its type.
JobsTypeOK == ProfileTypeOK /\ DocumentTypeOK /\ SiteTypeOK
=============================================================================
