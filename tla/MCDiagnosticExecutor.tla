------------------------ MODULE MCDiagnosticExecutor ------------------------
(* Small instances of DiagnosticExecutor.                                   *)
EXTENDS DiagnosticExecutor, TLC

CONSTANTS j1, j2, ana, long

\* A payload of two repetitions.
MCRepetitions   == [p \in Payloads |-> 2]
MCRequestBytes  == [p \in Payloads |-> 1]
MCEnvelopeBytes == [p \in Payloads |-> 2]

\* Every job has one owner here, so the keys are interchangeable.
OneOwner == [j \in Jobs |-> ana]
Symmetric == Permutations(Jobs)
=============================================================================
