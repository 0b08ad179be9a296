----------------------------- MODULE SessionRuns -----------------------------
(***************************************************************************)
(* What the API promises about the runs of a session, without locks, jobs,  *)
(* workers or a watchdog: a run opens at most once and ends at most once,   *)
(* with a status that never changes; and a session opens a run only when it *)
(* has no other, unless the other or the new one was evicted, that is, lost *)
(* its claim on the session.                                                *)
(***************************************************************************)
CONSTANTS Session, Stream, SessionOf

VARIABLES
    phase,      \* each run: "missing", "running", "completed" or "error"
    evicted     \* runs that lost their claim on the session before they ended

vars == <<phase, evicted>>

Init == /\ phase = [s \in Stream |-> "missing"]
        /\ evicted = {}

Rivals(s) == {t \in Stream \ {s} : phase[t] = "running" /\ SessionOf[t] = SessionOf[s]}

Start(s) == /\ phase[s] = "missing"
            /\ evicted' \in {evicted, evicted \cup {s}}
            /\ s \in evicted' \/ Rivals(s) \subseteq evicted
            /\ phase' = [phase EXCEPT ![s] = "running"]

End(s) == /\ phase[s] = "running"
          /\ \E status \in {"completed", "error"} :
                phase' = [phase EXCEPT ![s] = status]
          /\ UNCHANGED evicted

Evict(s) == /\ phase[s] \in {"missing", "running"}
            /\ evicted' = evicted \cup {s}
            /\ UNCHANGED phase

Next == \E s \in Stream : Start(s) \/ End(s) \/ Evict(s)

Spec == Init /\ [][Next]_vars
=============================================================================
