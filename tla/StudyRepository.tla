-------------------------- MODULE StudyRepository --------------------------
(***************************************************************************)
(* The studies of one account in the browser's database,                   *)
(* web/src/storage/indexedDbApplicationRepository.ts: study rows, their    *)
(* execution rows, the catalogue of summaries, the idempotency records and *)
(* the marker of the demonstration.  Several tabs hold the same database;  *)
(* a read-write transaction is one action, and one that aborts, or that    *)
(* answers from an idempotency record, changes nothing.  Callers are not   *)
(* trusted: they may offer any document that passes validation, at any     *)
(* time, with any revision.                                                *)
(*                                                                         *)
(* What an execution id stands for (its scenario, attempt, kind and first  *)
(* status) is a constant: ids are drawn at random, and of a stored         *)
(* execution only the status ever changes, which is what EvidenceKept is   *)
(* about.                                                                  *)
(*                                                                         *)
(* A definition named X_slip is X with a mistake a maintainer could make;  *)
(* nothing uses it.                                                        *)
(***************************************************************************)
EXTENDS Integers, Sequences, FiniteSets

CONSTANTS
    Studies, Scenarios,
    Base,           \* baseScenarioId: a document always keeps it
    Executions, About,      \* execution ids, and what each of them is
    Attempts,
    MaxExecutions,  \* bound: executions in a document that is saved
    Operations,     \* operation ids of saves, appends and restores
    Installations,  \* operation ids of demonstration installs
    DemoStudy,      \* the study id derived from each of those
    DemoPackage,    \* the execution ids of the demonstration, in order
    None

Statuses == {"OPEN", "ENDED", "INTERRUPTED"}

\* OPEN: a reservation (PREPARING, RUNNING or QUEUED).  ENDED: any terminal status.
IsTerminal(status) == status # "OPEN"

ASSUME RepositoryAssumption ==
    /\ Base \in Scenarios
    /\ About \in [Executions -> [scenario : Scenarios, attempt : Attempts,
                                 kind : {"PREVIEW", "DIAGNOSTIC"}, status : {"OPEN", "ENDED"}]]
    /\ MaxExecutions \in Nat
    /\ DemoStudy \in [Installations -> Studies]
    /\ \A o, p \in Installations : DemoStudy[o] = DemoStudy[p] => o = p
    /\ DemoPackage \in Seq(Executions)
    /\ \A i, j \in DOMAIN DemoPackage : DemoPackage[i] = DemoPackage[j] => i = j
    /\ Operations \cap Installations = {}
    /\ None \notin Studies

VARIABLES
    studies,        \* store "studies"
    executions,     \* store "executions", by its key [study_id, execution_id]
    summaries,      \* store "study_summaries"
    operations,     \* store "operations"
    marker,         \* the demonstration marker of store "meta"
    installing      \* installDemoStudy calls in course: their mode, tries and last read

vars == <<studies, executions, summaries, operations, marker, installing>>

StudyRow     == [revision : Nat \ {0}, deleted : BOOLEAN, scenarios : SUBSET Scenarios]
ExecutionRow == [sequence : Nat, status : Statuses]
SummaryRow   == [revision : Nat \ {0}, deleted : BOOLEAN, count : Nat]
OperationRow ==
    [kind : {"study", "restore_study", "diagnostic_append", "demo_install"},
     entity : Studies, revision : Nat \ {0}, executions : Seq(Executions)]
Purged       == [kind |-> "purged"]
Marker       == [status : {"INSTALLED", "REMOVED"}, study : Studies]
Modes        == {"FIRST_EMPTY_SESSION", "EXPLICIT_RESTORE"}
MaxTries     == 3

\* An absent row is no row.
ASSUME NoneAssumption ==
    None \notin StudyRow \cup ExecutionRow \cup SummaryRow \cup OperationRow \cup Marker \cup {Purged}

NoExecutions == [e \in Executions |-> None]

Init ==
    /\ studies = [s \in Studies |-> None]
    /\ executions = [s \in Studies |-> NoExecutions]
    /\ summaries = [s \in Studies |-> None]
    /\ operations = [o \in Operations \cup Installations |-> None]
    /\ marker = None
    /\ installing = [o \in Installations |-> None]

-----------------------------------------------------------------------------
(* Documents *)

RowsOf(s) == {e \in Executions : executions[s][e] # None}

Stored == {s \in Studies : studies[s] # None}

Revision(s) == IF studies[s] = None THEN 0 ELSE studies[s].revision

\* assembleStudy: the execution rows of a study in the order of their sequence.
History(s) ==
    LET Position(e) ==
          Cardinality({f \in RowsOf(s) : executions[s][f].sequence <= executions[s][e].sequence})
        At(i) == CHOOSE e \in RowsOf(s) : Position(e) = i
    IN  [i \in 1..Cardinality(RowsOf(s)) |->
            [id |-> At(i), status |-> executions[s][At(i)].status]]

Assembled(s) == [row |-> studies[s], executions |-> History(s)]

IdsOf(history) == [i \in DOMAIN history |-> history[i].id]

\* A record as it is born, or interrupted after the page that ran it was closed.
Records ==
    {[id |-> e, status |-> About[e].status] : e \in Executions}
      \cup {[id |-> e, status |-> "INTERRUPTED"] :
               e \in {x \in Executions : About[x].kind = "PREVIEW" /\ About[x].status = "OPEN"}}

\* isInterruptionTransition, between two records of one id.
Interrupts(old, new) == old = "OPEN" /\ new = "INTERRUPTED"

OfAttempt(history, a) == {i \in DOMAIN history : About[history[i].id].attempt = a}
Diagnostics(history)  == {i \in DOMAIN history : About[history[i].id].kind = "DIAGNOSTIC"}

\* validateStudyDocument: no repeated id, no execution of a missing scenario, one terminal
\* at most for an attempt, and exactly one reservation in every diagnostic attempt.
Valid(scenarios, history) ==
    /\ Base \in scenarios
    /\ \A i, j \in DOMAIN history : history[i].id = history[j].id => i = j
    /\ \A i \in DOMAIN history : About[history[i].id].scenario \in scenarios
    /\ \A a \in Attempts :
        /\ Cardinality({i \in OfAttempt(history, a) : IsTerminal(history[i].status)}) <= 1
        /\ OfAttempt(history, a) \cap Diagnostics(history) # {} =>
             Cardinality({i \in OfAttempt(history, a) \cap Diagnostics(history) :
                             ~IsTerminal(history[i].status)}) = 1

\* What a caller may offer: the scenarios and the executions of a valid document.
Documents ==
    {d \in [scenarios : SUBSET Scenarios,
            executions : UNION {[1..n -> Records] : n \in 0..MaxExecutions}] :
        Valid(d.scenarios, d.executions)}

\* summaryRow
SummaryOf(row, count) == [revision |-> row.revision, deleted |-> row.deleted, count |-> count]

Recorded(kind, s, revision, ids) ==
    [kind |-> kind, entity |-> s, revision |-> revision, executions |-> ids]

-----------------------------------------------------------------------------
(* saveStudy *)

IdSet(d) == {d.executions[i].id : i \in DOMAIN d.executions}

\* The rows that go with a scenario the document no longer has.
Gone(s, d) == {e \in RowsOf(s) : About[e].scenario \notin d.scenarios /\ e \notin IdSet(d)}

\* A maintainer forgets that what a caller drops from the middle must not vanish.
HistoryKept_slip(s, d) ==
    \A e \in RowsOf(s) \cap IdSet(d), i \in DOMAIN d.executions :
        d.executions[i].id = e =>
            \/ d.executions[i].status = executions[s][e].status
            \/ Interrupts(executions[s][e].status, d.executions[i].status)

\* Every other row is in the document, unchanged or just interrupted, at the place it
\* slides to once the rows before it that go are taken out.
HistoryKept(s, d) ==
    \A e \in RowsOf(s) \ Gone(s, d) :
        LET removedBefore == {f \in Gone(s, d) :
                                 executions[s][f].sequence < executions[s][e].sequence}
            place == executions[s][e].sequence - Cardinality(removedBefore) + 1
        IN  /\ place \in DOMAIN d.executions
            /\ d.executions[place].id = e
            /\ \/ d.executions[place].status = executions[s][e].status
               \/ Interrupts(executions[s][e].status, d.executions[place].status)

PlaceOf(d, e) == CHOOSE i \in DOMAIN d.executions : d.executions[i].id = e

\* Rows that stay keep the sequence they had.
Rewritten_slip(s, d) ==
    [e \in Executions |->
        IF e \in IdSet(d)
        THEN [sequence |-> IF e \in RowsOf(s) THEN executions[s][e].sequence ELSE PlaceOf(d, e) - 1,
              status |-> d.executions[PlaceOf(d, e)].status]
        ELSE IF e \in Gone(s, d) THEN None ELSE executions[s][e]]

\* The execution rows after the save: those that stay slide to their place, the new ones
\* are added.
Rewritten(s, d) ==
    [e \in Executions |->
        IF e \in IdSet(d)
        THEN [sequence |-> PlaceOf(d, e) - 1, status |-> d.executions[PlaceOf(d, e)].status]
        ELSE IF e \in Gone(s, d) THEN None ELSE executions[s][e]]

\* The caller read revision `expected` and offers document d as the next one.
SaveStudy(o, s, expected, deleted, d) ==
    LET row == [revision |-> expected + 1, deleted |-> deleted, scenarios |-> d.scenarios]
    IN  /\ operations[o] = None
        /\ Revision(s) = expected
        /\ HistoryKept(s, d)
        /\ studies' = [studies EXCEPT ![s] = row]
        /\ executions' = [executions EXCEPT ![s] = Rewritten(s, d)]
        /\ summaries' = [summaries EXCEPT ![s] = SummaryOf(row, Len(d.executions))]
        /\ operations' = [operations EXCEPT
                            ![o] = Recorded("study", s, row.revision, IdsOf(d.executions))]
        /\ UNCHANGED <<marker, installing>>

-----------------------------------------------------------------------------
(* appendDiagnosticAttempt *)

\* assertDiagnosticAttemptPair: the reservation of an attempt and its terminal.
IsAttempt(r, t) ==
    /\ About[r].kind = "DIAGNOSTIC" /\ About[t].kind = "DIAGNOSTIC"
    /\ About[r].status = "OPEN" /\ About[t].status = "ENDED"
    /\ About[r].attempt = About[t].attempt /\ About[r].scenario = About[t].scenario

\* Only the two keys are looked up, not the attempt.
AttemptIsNew_slip(s, r, t) == r \notin RowsOf(s) /\ t \notin RowsOf(s)

\* Nothing of the attempt is stored yet.
AttemptIsNew(s, r, t) ==
    /\ r \notin RowsOf(s) /\ t \notin RowsOf(s)
    /\ \A e \in RowsOf(s) : About[e].attempt # About[r].attempt

\* The catalogue is told of one execution, the terminal.
AppendDiagnosticAttempt_slip(o, s, expected, r, t) ==
    LET count == Cardinality(RowsOf(s))
        row == [studies[s] EXCEPT !.revision = @ + 1]
    IN  /\ operations[o] = None
        /\ studies[s] # None
        /\ studies[s].revision = expected
        /\ IsAttempt(r, t)
        /\ ~studies[s].deleted /\ About[r].scenario \in studies[s].scenarios
        /\ AttemptIsNew(s, r, t)
        /\ executions' = [executions EXCEPT
                            ![s][r] = [sequence |-> count, status |-> "OPEN"],
                            ![s][t] = [sequence |-> count + 1, status |-> "ENDED"]]
        /\ studies' = [studies EXCEPT ![s] = row]
        /\ summaries' = [summaries EXCEPT ![s] = SummaryOf(row, summaries[s].count + 1)]
        /\ operations' = [operations EXCEPT
                            ![o] = Recorded("diagnostic_append", s, row.revision, <<r, t>>)]
        /\ UNCHANGED <<marker, installing>>

\* Only the new pair is validated, and it is placed by the count of the summary.
AppendDiagnosticAttempt(o, s, expected, r, t) ==
    LET count == Cardinality(RowsOf(s))
        summary == IF summaries[s] = None THEN SummaryOf(studies[s], count) ELSE summaries[s]
        row == [studies[s] EXCEPT !.revision = @ + 1]
    IN  /\ operations[o] = None
        /\ studies[s] # None
        /\ studies[s].revision = expected
        /\ IsAttempt(r, t)
        /\ ~studies[s].deleted /\ About[r].scenario \in studies[s].scenarios
        /\ AttemptIsNew(s, r, t)
        /\ summary.revision = studies[s].revision /\ summary.count = count
        /\ executions' = [executions EXCEPT
                            ![s][r] = [sequence |-> summary.count, status |-> "OPEN"],
                            ![s][t] = [sequence |-> summary.count + 1, status |-> "ENDED"]]
        /\ studies' = [studies EXCEPT ![s] = row]
        /\ summaries' = [summaries EXCEPT ![s] = SummaryOf(row, count + 2)]
        /\ operations' = [operations EXCEPT
                            ![o] = Recorded("diagnostic_append", s, row.revision, <<r, t>>)]
        /\ UNCHANGED <<marker, installing>>

-----------------------------------------------------------------------------
(* restoreStudy and purgeStudy *)

RestoreStudy(o, s, expected) ==
    LET row == [studies[s] EXCEPT !.revision = @ + 1, !.deleted = FALSE]
    IN  /\ operations[o] = None
        /\ studies[s] # None
        /\ studies[s].revision = expected
        /\ studies' = [studies EXCEPT ![s] = row]
        /\ summaries' = [summaries EXCEPT ![s] = SummaryOf(row, Len(History(s)))]
        /\ operations' = [operations EXCEPT
                            ![o] = Recorded("restore_study", s, row.revision, IdsOf(History(s)))]
        /\ UNCHANGED <<executions, marker, installing>>

\* The records of appends, the last kind that was added, are forgotten.
RecordsOf_slip(s) ==
    {o \in DOMAIN operations : /\ operations[o] \notin {None, Purged}
                               /\ operations[o].entity = s
                               /\ operations[o].kind # "diagnostic_append"}

\* The records that answer for a study, whatever call wrote them.
RecordsOf(s) ==
    {o \in DOMAIN operations : /\ operations[o] \notin {None, Purged}
                               /\ operations[o].entity = s}

\* The marker is left as it is.
PurgeStudy_slip(s) ==
    /\ studies[s] # None
    /\ studies' = [studies EXCEPT ![s] = None]
    /\ executions' = [executions EXCEPT ![s] = NoExecutions]
    /\ summaries' = [summaries EXCEPT ![s] = None]
    /\ operations' = [o \in DOMAIN operations |->
                        IF o \in RecordsOf(s) THEN Purged ELSE operations[o]]
    /\ UNCHANGED <<marker, installing>>

PurgeStudy(s) ==
    /\ studies[s] # None
    /\ studies' = [studies EXCEPT ![s] = None]
    /\ executions' = [executions EXCEPT ![s] = NoExecutions]
    /\ summaries' = [summaries EXCEPT ![s] = None]
    /\ operations' = [o \in DOMAIN operations |->
                        IF o \in RecordsOf(s) THEN Purged ELSE operations[o]]
    /\ marker' = IF marker # None /\ marker.study = s
                 THEN [marker EXCEPT !.status = "REMOVED"] ELSE marker
    /\ UNCHANGED installing

-----------------------------------------------------------------------------
(* installDemoStudy: a read transaction, a validation outside any transaction, and a      *)
(* write transaction that starts over when what was read is no longer there.              *)

Installed == marker # None /\ marker.status = "INSTALLED"

DemoView ==
    [marker |-> marker, document |-> IF Installed THEN Assembled(marker.study) ELSE None]

InstallDemoStudy(o, mode) ==
    /\ installing[o] = None
    /\ installing' = [installing EXCEPT ![o] = [mode |-> mode, tries |-> 0, read |-> None]]
    /\ UNCHANGED <<studies, executions, summaries, operations, marker>>

\* An installed demonstration whose study is absent is an error that ends the call.
InstallReads(o) ==
    /\ installing[o] # None /\ installing[o].read = None
    /\ installing' = [installing EXCEPT
          ![o] = IF Installed /\ studies[marker.study] = None THEN None
                 ELSE [@ EXCEPT !.read = DemoView]]
    /\ UNCHANGED <<studies, executions, summaries, operations, marker>>

Ready(o) == installing[o] # None /\ installing[o].read # None

\* Only the marker is compared under the write lock.
StillTrue_slip(o) == installing[o].read.marker = marker

StillTrue(o) == installing[o].read = DemoView

\* DemoStateChangedError: read again, three times at most.
InstallRetries(o) ==
    /\ Ready(o) /\ ~StillTrue(o)
    /\ installing' = [installing EXCEPT
          ![o] = IF @.tries + 1 = MaxTries THEN None
                 ELSE [mode |-> @.mode, tries |-> @.tries + 1, read |-> None]]
    /\ UNCHANGED <<studies, executions, summaries, operations, marker>>

\* The first session skips an account that has, or had, anything.
Skips(o) == installing[o].mode = "FIRST_EMPTY_SESSION" /\ (marker # None \/ Stored # {})

\* A call that was already answered, or is skipped, leaves no trace.
InstallAnswers(o) ==
    /\ Ready(o) /\ StillTrue(o)
    /\ operations[o] # None \/ Skips(o)
    /\ installing' = [installing EXCEPT ![o] = None]
    /\ UNCHANGED <<studies, executions, summaries, operations, marker>>

\* The demonstration is there: keep its edits, undo its deletion.
InstallRestores(o) ==
    LET document == installing[o].read.document
        row == IF document.row.deleted
               THEN [document.row EXCEPT !.deleted = FALSE, !.revision = @ + 1] ELSE document.row
    IN  /\ Ready(o) /\ StillTrue(o)
        /\ operations[o] = None /\ ~Skips(o)
        /\ Installed
        /\ studies' = [studies EXCEPT ![marker.study] = row]
        /\ summaries' = [summaries EXCEPT
                            ![marker.study] = SummaryOf(row, Len(document.executions))]
        /\ operations' = [operations EXCEPT
             ![o] = Recorded("demo_install", marker.study, row.revision, IdsOf(document.executions))]
        /\ installing' = [installing EXCEPT ![o] = None]
        /\ UNCHANGED <<executions, marker>>

\* The study of the package.
DemoScenarios == {Base} \cup {About[DemoPackage[i]].scenario : i \in DOMAIN DemoPackage}

DemoHistory ==
    [i \in DOMAIN DemoPackage |-> [id |-> DemoPackage[i], status |-> About[DemoPackage[i]].status]]

\* materializeDemoPackage validates the study it makes.
ASSUME PackageAssumption == Valid(DemoScenarios, DemoHistory)

\* It is not: publish the package under the study id derived from the operation.
InstallPublishes(o) ==
    LET s == DemoStudy[o]
        row == [revision |-> 1, deleted |-> FALSE,
                scenarios |-> DemoScenarios]
    IN  /\ Ready(o) /\ StillTrue(o)
        /\ operations[o] = None /\ ~Skips(o)
        /\ ~Installed
        /\ studies' = [studies EXCEPT ![s] = row]
        /\ executions' = [executions EXCEPT ![s] =
             [e \in Executions |->
                IF \E i \in DOMAIN DemoPackage : DemoPackage[i] = e
                THEN [sequence |-> (CHOOSE i \in DOMAIN DemoPackage : DemoPackage[i] = e) - 1,
                      status |-> About[e].status]
                ELSE None]]
        /\ summaries' = [summaries EXCEPT ![s] = SummaryOf(row, Len(DemoPackage))]
        /\ operations' = [operations EXCEPT ![o] = Recorded("demo_install", s, 1, DemoPackage)]
        /\ marker' = [status |-> "INSTALLED", study |-> s]
        /\ installing' = [installing EXCEPT ![o] = None]

-----------------------------------------------------------------------------

\* A study id is drawn at random, or derived from a demonstration's operation: a caller
\* creates no study under an id of the second kind.  What a caller expects is a revision
\* the study has or had.
MayCreate(s) == \A o \in Installations : DemoStudy[o] # s

Saves ==
    \E o \in Operations, s \in Studies, deleted \in BOOLEAN, d \in Documents :
      \E expected \in 0..Revision(s) :
        /\ studies[s] = None => MayCreate(s)
        /\ SaveStudy(o, s, expected, deleted, d)

Appends ==
    \E o \in Operations, s \in Studies, r, t \in Executions :
      \E expected \in 0..Revision(s) :
        AppendDiagnosticAttempt(o, s, expected, r, t)

Restores ==
    \E o \in Operations, s \in Studies : \E expected \in 0..Revision(s) : RestoreStudy(o, s, expected)

Purges == \E s \in Studies : PurgeStudy(s)

Installs ==
    \E o \in Installations :
        \/ \E mode \in Modes : InstallDemoStudy(o, mode)
        \/ InstallReads(o)
        \/ InstallRetries(o)
        \/ InstallAnswers(o)
        \/ InstallRestores(o)
        \/ InstallPublishes(o)

Next == Saves \/ Appends \/ Restores \/ Purges \/ Installs

Spec == Init /\ [][Next]_vars
-----------------------------------------------------------------------------
(* Properties *)

\* Every store holds rows of its shape; an install holds a read of its own.
TypeOK ==
    /\ \A s \in Studies : studies[s] # None => studies[s] \in StudyRow
    /\ \A s \in Studies, e \in Executions : executions[s][e] # None => executions[s][e] \in ExecutionRow
    /\ \A s \in Studies : summaries[s] # None => summaries[s] \in SummaryRow
    /\ \A o \in Operations \cup Installations :
         operations[o] = None \/ operations[o] = Purged \/ operations[o] \in OperationRow
    /\ marker # None => marker \in Marker
    /\ \A o \in Installations : installing[o] # None =>
         installing[o].mode \in Modes /\ installing[o].tries \in 0..MaxTries - 1

\* The sequences of a study's executions are 0, 1, ... with no gap and no repetition, so
\* that `executions[existing.sequence - removedBefore]` of saveStudy and the count that
\* places an appended attempt both mean a position in the document.
SequencesDense ==
    \A s \in Studies :
        /\ \A e \in RowsOf(s) : executions[s][e].sequence \in 0..Cardinality(RowsOf(s)) - 1
        /\ \A e, f \in RowsOf(s) : executions[s][e].sequence = executions[s][f].sequence => e = f

\* The catalogue tells of exactly the stored studies, with their revision, deletion and
\* number of executions; and a study that is not stored has no executions left.  Were it
\* to drift, appendDiagnosticAttempt would refuse every further attempt as corrupt.
SummaryExact ==
    \A s \in Studies :
        IF studies[s] = None THEN summaries[s] = None /\ RowsOf(s) = {}
        ELSE summaries[s] = SummaryOf(studies[s], Cardinality(RowsOf(s)))

\* What is stored is a valid document, though an append validates only its own pair and a
\* save keeps rows it did not write: in particular no attempt ever gets two terminals.
StoredIsValid == \A s \in Stored : Valid(studies[s].scenarios, History(s))

\* Evidence is kept: while a study lives, an execution leaves it only with its scenario,
\* its status changes only from open to interrupted, and those that stay keep their order,
\* whatever document a caller offers.
EvidenceKept ==
    [][\A s \in Stored : studies'[s] # None =>
          /\ \A e \in RowsOf(s) :
               \/ executions'[s][e] = None /\ About[e].scenario \notin studies'[s].scenarios
               \/ /\ executions'[s][e] # None
                  /\ \/ executions'[s][e].status = executions[s][e].status
                     \/ Interrupts(executions[s][e].status, executions'[s][e].status)
          /\ \A e, f \in RowsOf(s) :
               /\ executions'[s][e] # None /\ executions'[s][f] # None
               /\ executions[s][e].sequence < executions[s][f].sequence
               => executions'[s][e].sequence < executions'[s][f].sequence]_vars

\* A revision names one content: whatever changes a study or its executions, an install
\* over edits it read earlier included, takes the next revision.  Every tab's
\* compare-and-swap relies on it.
RevisionsAdvance ==
    [][\A s \in Studies :
          studies'[s] # None /\ (studies'[s] # studies[s] \/ executions'[s] # executions[s])
          => studies'[s].revision = Revision(s) + 1]_vars

\* What a repeated call is answered from: its study is still stored, at that revision or a
\* later one; and while no other revision followed, the ids it recorded are the study's
\* last executions, so the answer is complete.  After a purge no record answers.
RecordsAgree ==
    \A o \in {p \in DOMAIN operations : operations[p] \notin {None, Purged}} :
        LET s == operations[o].entity
            ids == operations[o].executions
            history == IdsOf(History(s))
        IN  /\ studies[s] # None
            /\ operations[o].revision <= studies[s].revision
            /\ operations[o].revision = studies[s].revision =>
                 /\ Len(ids) <= Len(history)
                 /\ ids = SubSeq(history, Len(history) - Len(ids) + 1, Len(history))
                 /\ operations[o].kind # "diagnostic_append" => Len(ids) = Len(history)

\* There is one demonstration: an installed marker names a stored study, no other study of
\* an install is stored, and installing again never makes a second copy.
DemoIsSingle ==
    /\ Installed => studies[marker.study] # None
    /\ \A o \in Installations : studies[DemoStudy[o]] # None =>
         Installed /\ marker.study = DemoStudy[o]

=============================================================================
