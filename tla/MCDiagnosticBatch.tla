------------------------- MODULE MCDiagnosticBatch -------------------------
(* A small instance of DiagnosticBatch.                                    *)
EXTENDS DiagnosticBatch

\* Two combinations, one for each worker.
Two == 1..2
=============================================================================
