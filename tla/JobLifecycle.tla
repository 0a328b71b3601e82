---------------------------- MODULE JobLifecycle ----------------------------
(***************************************************************************)
(* What the coordinator of diagnostics promises for each job, whatever the *)
(* threads, queues and pools behind it: a job is accepted, may be asked to *)
(* stop, ends once, keeps its ending, and is forgotten some time later.    *)
(***************************************************************************)
CONSTANT Jobs

VARIABLE phase

Endings == {"succeeded", "failed", "cancelled"}
Phases  == {"absent", "pending", "cancelling"} \cup Endings

\* The phases a job may be found in after one step, other than the one it is in.
\* A key whose job is forgotten may be accepted again by the same command.
After(p) ==
    CASE p = "absent"     -> {"pending"}
      [] p = "pending"    -> {"cancelling"} \cup Endings
      [] p = "cancelling" -> {"cancelled"}
      [] p \in Endings    -> {"absent", "pending"}

Init == phase = [j \in Jobs |-> "absent"]

\* Several jobs may end or be forgotten at once (a close, a lost pool, a
\* housekeeping pass), but a step accepts at most one, and succeeds at most one.
Enters(j, p) == phase[j] # p /\ phase'[j] = p

AtMostOneEnters(p) == \A i, j \in Jobs : Enters(i, p) /\ Enters(j, p) => i = j

Next ==
    /\ phase' \in [Jobs -> Phases]
    /\ \A j \in Jobs : phase'[j] = phase[j] \/ phase'[j] \in After(phase[j])
    /\ AtMostOneEnters("pending") /\ AtMostOneEnters("succeeded")

Spec == Init /\ [][Next]_phase
=============================================================================
