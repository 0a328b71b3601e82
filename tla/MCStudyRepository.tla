------------------------- MODULE MCStudyRepository -------------------------
(* Small instances of StudyRepository.                                     *)
EXTENDS StudyRepository, TLC

CONSTANTS s1, s2, s3, base, alt, run, ended, queued, again, success, first, second,
          o1, o2, o3, o4, i1, i2

\* A preview of a scenario that may be removed: its reservation and its terminal.  A
\* diagnostic of the base scenario: two reservations that contend for it and a terminal.
MCAbout ==
    [e \in Executions |->
        [scenario |-> IF e \in {run, ended} THEN alt ELSE base,
         attempt  |-> IF e \in {run, ended} THEN first ELSE second,
         kind     |-> IF e \in {run, ended} THEN "PREVIEW" ELSE "DIAGNOSTIC",
         status   |-> IF e \in {run, queued, again} THEN "OPEN" ELSE "ENDED"]]

NoDemo    == [o \in Installations |-> s1]
NoPackage == <<>>
TwoDemos  == [o \in Installations |-> IF o = i1 THEN s2 ELSE s3]
Package   == <<queued, success>>
Symmetric == Permutations(Operations)
=============================================================================
