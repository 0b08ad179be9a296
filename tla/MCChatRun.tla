------------------------------ MODULE MCChatRun ------------------------------
(* ChatRun on one session: every run competes for the same lock.            *)
EXTENDS ChatRun, TLC

CONSTANTS x1

OneSession == [s \in Stream |-> x1]

Kinds == Budget \ {"run"}
Used(b) == {k \in Kinds : b[k] > 0}

\* Two runs with one kind of trouble, or one run with two kinds.
Trouble(b) ==
    /\ \A k \in Kinds : b[k] <= 1
    /\ \/ Cardinality(Used(b)) <= 1
       \/ b["run"] <= 1 /\ Cardinality(Used(b)) = 2

\* Two runs with a crash or a lagging worker, or one with enough crashes to
\* exhaust the stall limit, or one whose session is deleted.
LiveTrouble(b) ==
    \/ Used(b) \in {{}, {"crash"}, {"lag"}} /\ \A k \in Kinds : b[k] <= 1
    \/ /\ b["run"] <= 1
       /\ Used(b) \in {{"crash"}, {"delete"}}
       /\ b["crash"] <= 2 /\ b["delete"] <= 1

\* One run, a crash of its worker, and one deletion of its session.
DeleteTrouble(b) ==
    Used(b) \subseteq {"crash", "delete"} /\ b["crash"] <= 1 /\ b["delete"] <= 1

CrashAndFail(b) == Used(b) \subseteq {"crash", "fail"} /\ b["crash"] <= 1 /\ b["fail"] <= 1
OneCrash(b) == Used(b) \subseteq {"crash"} /\ b["crash"] <= 1

Symmetric == Permutations(Stream) \cup Permutations(Worker)
=============================================================================
