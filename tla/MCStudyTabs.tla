---------------------------- MODULE MCStudyTabs ----------------------------
(* Small instances of StudyTabs.                                           *)
EXTENDS StudyTabs

CONSTANTS t1, t2, x1, x2, x3

\* Every command that saves, in both tabs.
Saving == [t \in Tabs |-> {"append", "attach", "detached", "restore"}]

\* One tab that changes what it shows, and one whose storage may fail.
Busy == [t \in Tabs |-> IF t = t1 THEN {"purge", "switch", "demo", "attach", "read"} ELSE {"failure", "compose"}]

Symmetric == Permutations(Tabs) \cup Permutations(Changes \ Evidence)
=============================================================================
