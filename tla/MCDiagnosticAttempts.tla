------------------------ MODULE MCDiagnosticAttempts ------------------------
(* Small instances of DiagnosticAttempts.                                  *)
EXTENDS DiagnosticAttempts, TLC

\* Tabs are alike, so are the slots of the runs and the scenarios: for the runs that check no
\* liveness.
Alike == Permutations(Tabs) \cup Permutations(Slots) \cup Permutations(Scenarios)
=============================================================================
