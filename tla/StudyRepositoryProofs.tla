----------------------- MODULE StudyRepositoryProofs -----------------------
(***************************************************************************)
(* What holds of the stored studies for any number of studies, scenarios,  *)
(* executions, operations and installations.                               *)
(*                                                                         *)
(* The execution rows of a study are its history laid out: each row at the *)
(* place of its record.  Every transaction lays out a history again, the   *)
(* one it was offered or the one it found with something added, and the    *)
(* rest follows.                                                           *)
(***************************************************************************)
EXTENDS StudyRepository, TLAPS, FiniteSetTheorems, SequenceTheorems

-----------------------------------------------------------------------------
(* Histories and their rows                                                  *)

Items == [id : Executions, status : Statuses]

Histories == {h \in Seq(Items) : \A i, j \in DOMAIN h : h[i].id = h[j].id => i = j}

\* The rows are those of the history.
Lays(rows, h) ==
    /\ rows \in [Executions -> ExecutionRow \cup {None}]
    /\ \A i \in DOMAIN h : rows[h[i].id] = [sequence |-> i - 1, status |-> h[i].status]
    /\ \A e \in Executions : rows[e] # None => \E i \in DOMAIN h : h[i].id = e

\* RowsOf and History, of the rows of one study.
Present(rows) == {e \in Executions : rows[e] # None}

HistoryIn(rows) ==
    LET Position(e) ==
          Cardinality({f \in Present(rows) : rows[f].sequence <= rows[e].sequence})
        At(i) == CHOOSE e \in Present(rows) : Position(e) = i
    IN  [i \in 1..Cardinality(Present(rows)) |-> [id |-> At(i), status |-> rows[At(i)].status]]

LEMMA OfRows ==
  ASSUME NEW s
  PROVE  RowsOf(s) = Present(executions[s]) /\ History(s) = HistoryIn(executions[s])
  BY DEF RowsOf, History, Present, HistoryIn

LEMMA OfRowsNext ==
  ASSUME NEW s
  PROVE  RowsOf(s)' = Present(executions'[s]) /\ History(s)' = HistoryIn(executions'[s])
  BY DEF RowsOf, History, Present, HistoryIn

LEMMA HistoryFacts ==
  ASSUME NEW h \in Histories
  PROVE  /\ h \in Seq(Items) /\ Len(h) \in Nat /\ DOMAIN h = 1..Len(h)
         /\ \A i \in DOMAIN h : h[i] \in Items /\ h[i].id \in Executions /\ h[i].status \in Statuses
         /\ \A i, j \in DOMAIN h : h[i].id = h[j].id => i = j
<1>1. h \in Seq(Items) /\ \A i, j \in DOMAIN h : h[i].id = h[j].id => i = j
  BY DEF Histories
<1>2. Len(h) \in Nat /\ DOMAIN h = 1..Len(h) /\ \A i \in DOMAIN h : h[i] \in Items
  BY <1>1
<1> QED
  BY <1>1, <1>2 DEF Items

\* As many as the first k records of a history.
LEMMA FirstRecords ==
  ASSUME NEW h \in Histories, NEW k \in 0..Len(h)
  PROVE  /\ IsFiniteSet({h[i].id : i \in 1..k})
         /\ Cardinality({h[i].id : i \in 1..k}) = k
<1> DEFINE f == [i \in 1..k |-> h[i].id]
           T == {h[i].id : i \in 1..k}
<1>1. 1..k \subseteq DOMAIN h /\ k \in Nat
  BY HistoryFacts
<1>2. f \in Bijection(1..k, T)
  BY <1>1, HistoryFacts DEF Bijection, Injection, Surjection, IsInjective
<1>3. ExistsBijection(1..k, T)
  BY <1>2 DEF ExistsBijection
<1>4. IsFiniteSet(1..k) /\ Cardinality(1..k) = k
  BY <1>1, FS_Interval
<1> HIDE DEF T
<1>5. IsFiniteSet(T) /\ Cardinality(T) = k
  BY <1>3, <1>4, FS_Bijection
<1> QED
  BY <1>5 DEF T

LEMMA FieldsOf ==
  ASSUME NEW row, NEW place, NEW status, row = [sequence |-> place, status |-> status]
  PROVE  row.sequence = place /\ row.status = status
  OBVIOUS

\* The rows of a history give it back.
LEMMA LaysBack ==
  ASSUME NEW rows, NEW h \in Histories, Lays(rows, h)
  PROVE  /\ Present(rows) = {h[i].id : i \in DOMAIN h}
         /\ IsFiniteSet(Present(rows)) /\ Cardinality(Present(rows)) = Len(h)
         /\ HistoryIn(rows) = h
<1>1. /\ DOMAIN h = 1..Len(h) /\ Len(h) \in Nat
      /\ \A i \in DOMAIN h : h[i] \in Items /\ h[i].id \in Executions /\ h[i].status \in Statuses
      /\ \A i, j \in DOMAIN h : h[i].id = h[j].id => i = j
  BY HistoryFacts
<1>2. \A i \in DOMAIN h : rows[h[i].id] = [sequence |-> i - 1, status |-> h[i].status]
  BY DEF Lays
<1>12. \A i \in DOMAIN h : rows[h[i].id].sequence = i - 1 /\ rows[h[i].id].status = h[i].status
  <2> TAKE i \in DOMAIN h
  <2>1. rows[h[i].id] = [sequence |-> i - 1, status |-> h[i].status]
    BY <1>2
  <2> QED
    BY <2>1, FieldsOf
<1>3. \A i \in DOMAIN h : rows[h[i].id] # None
  <2>1. \A i \in DOMAIN h : [sequence |-> i - 1, status |-> h[i].status] \in ExecutionRow
    BY <1>1 DEF ExecutionRow
  <2> QED
    BY <1>2, <2>1, NoneAssumption
<1>4. Present(rows) = {h[i].id : i \in DOMAIN h}
  <2>1. \A e \in Present(rows) : \E i \in DOMAIN h : h[i].id = e
    BY DEF Present, Lays
  <2>2. \A i \in DOMAIN h : h[i].id \in Present(rows)
    BY <1>1, <1>3 DEF Present
  <2> QED
    BY <2>1, <2>2
<1>5. IsFiniteSet(Present(rows)) /\ Cardinality(Present(rows)) = Len(h)
  <2>1. Len(h) \in 0..Len(h)
    BY <1>1
  <2>2. Present(rows) = {h[i].id : i \in 1..Len(h)}
    BY <1>1, <1>4
  <2> QED
    BY <2>1, <2>2, FirstRecords
<1> DEFINE Position(e) == Cardinality({f \in Present(rows) : rows[f].sequence <= rows[e].sequence})
           At(i) == CHOOSE e \in Present(rows) : Position(e) = i
<1>6. ASSUME NEW i \in DOMAIN h
      PROVE  Position(h[i].id) = i
  <2>1. rows[h[i].id].sequence = i - 1
    BY <1>12
  <2>2. {f \in Present(rows) : rows[f].sequence <= i - 1} = {h[j].id : j \in 1..i}
    <3>1. \A j \in DOMAIN h : rows[h[j].id].sequence = j - 1
      BY <1>12
    <3>2. \A j \in 1..i : j \in DOMAIN h /\ j - 1 <= i - 1
      BY <1>1
    <3>3. \A j \in DOMAIN h : j - 1 <= i - 1 => j \in 1..i
      BY <1>1
    <3>4. \A f \in Present(rows) : rows[f].sequence <= i - 1 => \E j \in 1..i : f = h[j].id
      BY <1>4, <3>1, <3>3
    <3>5. \A j \in 1..i : h[j].id \in Present(rows) /\ rows[h[j].id].sequence <= i - 1
      BY <1>4, <3>1, <3>2
    <3> QED
      BY <3>4, <3>5
  <2>3. i \in 0..Len(h)
    BY <1>1
  <2> QED
    BY <2>1, <2>2, <2>3, FirstRecords
<1>7. ASSUME NEW i \in DOMAIN h
      PROVE  At(i) = h[i].id
  <2>1. h[i].id \in Present(rows)
    BY <1>4
  <2>2. \A e \in Present(rows) : Position(e) = i => e = h[i].id
    BY <1>4, <1>6
  <2> HIDE DEF Position
  <2> QED
    BY <1>6, <2>1, <2>2
<1>8. HistoryIn(rows) = [i \in 1..Len(h) |-> [id |-> At(i), status |-> rows[At(i)].status]]
  BY <1>5 DEF HistoryIn
<1> HIDE DEF At
<1>9. \A i \in 1..Len(h) : [id |-> At(i), status |-> rows[At(i)].status] = h[i]
  <2> TAKE i \in 1..Len(h)
  <2>1. h[i] \in Items /\ At(i) = h[i].id /\ rows[At(i)].status = h[i].status
    BY <1>1, <1>12, <1>7
  <2> QED
    BY <2>1 DEF Items
<1>10. h = [i \in 1..Len(h) |-> h[i]]
  <2>1. h \in Seq(Items)
    BY HistoryFacts
  <2> QED
    BY <2>1
<1> QED
  BY <1>4, <1>5, <1>8, <1>9, <1>10

-----------------------------------------------------------------------------
(* The inductive invariant                                                   *)

Assemblies == [row : StudyRow \cup {None}, executions : Histories]

Views == [marker : Marker \cup {None}, document : Assemblies \cup {None}]

Calls == [mode : Modes, tries : 0..MaxTries - 1, read : Views \cup {None}]

Types ==
    /\ studies \in [Studies -> StudyRow \cup {None}]
    /\ executions \in [Studies -> [Executions -> ExecutionRow \cup {None}]]
    /\ summaries \in [Studies -> SummaryRow \cup {None}]
    /\ operations \in [Operations \cup Installations -> OperationRow \cup {None, Purged}]
    /\ marker \in Marker \cup {None}
    /\ installing \in [Installations -> Calls \cup {None}]

\* Every study's rows are laid out as its history.
Laid ==
    \A s \in Studies :
        /\ History(s) \in Histories /\ Lays(executions[s], History(s))
        /\ studies[s] = None => History(s) = <<>>

\* SummaryExact, told by the history.
CatalogExact ==
    \A s \in Studies :
        IF studies[s] = None THEN summaries[s] = None
        ELSE summaries[s] = SummaryOf(studies[s], Len(History(s)))

StoredValid == \A s \in Studies : studies[s] # None => Valid(studies[s].scenarios, History(s))

\* What a record says of a study at this revision, with this history.
Answers(record, revision, h) ==
    /\ record.revision <= revision
    /\ record.revision = revision =>
         /\ Len(record.executions) <= Len(IdsOf(h))
         /\ record.executions =
              SubSeq(IdsOf(h), Len(IdsOf(h)) - Len(record.executions) + 1, Len(IdsOf(h)))
         /\ record.kind # "diagnostic_append" => Len(record.executions) = Len(IdsOf(h))

RecordsFit ==
    \A o \in Operations \cup Installations : operations[o] \in OperationRow =>
        LET s == operations[o].entity
        IN  studies[s] # None /\ Answers(operations[o], studies[s].revision, History(s))

IInv == Types /\ Laid /\ CatalogExact /\ StoredValid /\ RecordsFit /\ DemoIsSingle

\* A transaction that leaves study s stored, with history h, and a record of itself.
Stores(o, s, h) ==
    /\ s \in Studies /\ o \in Operations \cup Installations /\ h \in Histories
    /\ studies'[s] \in StudyRow /\ studies' = [studies EXCEPT ![s] = studies'[s]]
    /\ Lays(executions'[s], h) /\ executions' = [executions EXCEPT ![s] = executions'[s]]
    /\ summaries' = [summaries EXCEPT ![s] = SummaryOf(studies'[s], Len(h))]
    /\ Valid(studies'[s].scenarios, h)
    /\ operations'[o] \in OperationRow /\ operations' = [operations EXCEPT ![o] = operations'[o]]
    /\ operations'[o].entity = s /\ Answers(operations'[o], studies'[s].revision, h)
    /\ \/ studies'[s].revision = Revision(s) + 1
       \/ studies' = studies /\ executions' = executions /\ studies[s] # None

LEMMA NothingIsNone ==
  /\ \A x \in StudyRow \cup ExecutionRow \cup SummaryRow \cup OperationRow \cup Marker : x # None
  /\ Purged # None /\ Purged \notin OperationRow
<1>1. Purged \notin OperationRow
  BY DEF Purged, OperationRow
<1> QED
  BY <1>1, NoneAssumption

LEMMA HistoriesStay ==
  ASSUME executions' = executions
  PROVE  \A s : RowsOf(s)' = RowsOf(s) /\ History(s)' = History(s)
<1> TAKE s
<1>1. executions'[s] = executions[s]
  OBVIOUS
<1> QED
  BY <1>1, OfRows, OfRowsNext

\* The rows of a history that is laid out.
LEMMA StoredRows ==
  ASSUME Laid, NEW s \in Studies
  PROVE  /\ History(s) \in Histories
         /\ RowsOf(s) = {History(s)[i].id : i \in DOMAIN History(s)}
         /\ IsFiniteSet(RowsOf(s)) /\ Cardinality(RowsOf(s)) = Len(History(s))
         /\ \A i \in DOMAIN History(s) :
               executions[s][History(s)[i].id] = [sequence |-> i - 1, status |-> History(s)[i].status]
<1>1. History(s) \in Histories /\ Lays(executions[s], History(s))
  BY DEF Laid
<1>2. /\ Present(executions[s]) = {History(s)[i].id : i \in DOMAIN History(s)}
      /\ IsFiniteSet(Present(executions[s]))
      /\ Cardinality(Present(executions[s])) = Len(History(s))
  BY <1>1, LaysBack
<1>3. RowsOf(s) = Present(executions[s])
  BY OfRows
<1> QED
  BY <1>1, <1>2, <1>3 DEF Lays

LEMMA StoredHistory ==
  ASSUME Types, Laid, NEW o, NEW s, NEW h, Stores(o, s, h)
  PROVE  /\ Laid'
         /\ studies'[s] # None
         /\ History(s)' = h
         /\ \A p \in Studies \ {s} : /\ History(p)' = History(p) /\ studies'[p] = studies[p]
                                     /\ executions'[p] = executions[p]
<1> USE DEF Stores
<1>1. \A p \in Studies \ {s} : studies'[p] = studies[p] /\ executions'[p] = executions[p]
  <2>1. DOMAIN studies = Studies /\ DOMAIN executions = Studies
    BY DEF Types
  <2> QED
    BY <2>1
<1>2. studies'[s] # None
  BY NothingIsNone
<1>3. History(s)' = h
  BY LaysBack, OfRowsNext
<1>4. \A p \in Studies \ {s} : History(p)' = History(p)
  BY <1>1, OfRows, OfRowsNext
<1>5. ASSUME NEW p \in Studies
      PROVE  /\ History(p)' \in Histories /\ Lays(executions[p]', History(p)')
             /\ studies'[p] = None => History(p)' = <<>>
  <2>1. CASE p = s
    BY <1>2, <1>3, <2>1
  <2>2. CASE p # s
    BY <1>1, <1>4, <2>2 DEF Laid
  <2> QED
    BY <2>1, <2>2
<1>6. Laid'
  BY <1>5 DEF Laid
<1> QED
  BY <1>1, <1>2, <1>3, <1>4, <1>6

LEMMA LaidTypes ==
  ASSUME Laid
  PROVE  \A s \in Studies : executions[s] \in [Executions -> ExecutionRow \cup {None}]
  BY DEF Laid, Lays

LEMMA StoresKeep ==
  ASSUME IInv, NEW o, NEW s, NEW h, Stores(o, s, h)
  PROVE  /\ (Laid /\ CatalogExact /\ StoredValid /\ RecordsFit)'
         /\ studies' \in [Studies -> StudyRow \cup {None}]
         /\ executions' \in [Studies -> [Executions -> ExecutionRow \cup {None}]]
         /\ summaries' \in [Studies -> SummaryRow \cup {None}]
         /\ operations' \in [Operations \cup Installations -> OperationRow \cup {None, Purged}]
<1>1. /\ Laid' /\ studies'[s] # None /\ History(s)' = h
      /\ \A p \in Studies \ {s} : /\ History(p)' = History(p) /\ studies'[p] = studies[p]
                                  /\ executions'[p] = executions[p]
  BY StoredHistory DEF IInv
<1>2. /\ s \in Studies /\ o \in Operations \cup Installations /\ h \in Histories
      /\ summaries' = [summaries EXCEPT ![s] = SummaryOf(studies'[s], Len(h))]
      /\ operations' = [operations EXCEPT ![o] = operations'[o]]
      /\ studies' = [studies EXCEPT ![s] = studies'[s]]
      /\ executions' = [executions EXCEPT ![s] = executions'[s]]
      /\ operations'[o] \in OperationRow /\ studies'[s] \in StudyRow
  BY DEF Stores
<1>3. Types
  BY DEF IInv
<1>4. CatalogExact'
  <2> SUFFICES ASSUME NEW p \in Studies
               PROVE  IF studies'[p] = None THEN summaries'[p] = None
                      ELSE summaries'[p] = SummaryOf(studies'[p], Len(History(p)'))
    BY DEF CatalogExact
  <2>1. CASE p = s
    <3>1. summaries'[s] = SummaryOf(studies'[s], Len(h))
      BY <1>2, <1>3 DEF Types
    <3> QED
      BY <1>1, <2>1, <3>1
  <2>2. CASE p # s
    <3>1. summaries'[p] = summaries[p]
      BY <1>2, <1>3, <2>2 DEF Types
    <3> QED
      BY <1>1, <2>2, <3>1 DEF IInv, CatalogExact
  <2> QED
    BY <2>1, <2>2
<1>5. StoredValid'
  <2> SUFFICES ASSUME NEW p \in Studies, studies'[p] # None
               PROVE  Valid(studies'[p].scenarios, History(p)')
    BY DEF StoredValid, Valid, OfAttempt, Diagnostics
  <2>1. CASE p = s
    BY <1>1, <2>1 DEF Stores
  <2>2. CASE p # s
    BY <1>1, <2>2 DEF IInv, StoredValid
  <2> QED
    BY <2>1, <2>2
<1>6. RecordsFit'
  <2> SUFFICES ASSUME NEW q \in Operations \cup Installations, operations'[q] \in OperationRow,
                      NEW p, p = operations'[q].entity
               PROVE  studies'[p] # None /\ Answers(operations'[q], studies'[p].revision, History(p)')
    BY DEF RecordsFit, Answers, IdsOf
  <2>1. CASE q = o
    BY <1>1, <2>1 DEF Stores
  <2>2. CASE q # o
    <3>1. operations'[q] = operations[q]
      BY <1>2, <1>3, <2>2 DEF Types
    <3>2. /\ operations[q] \in OperationRow /\ p = operations[q].entity
          /\ studies[p] # None /\ Answers(operations[q], studies[p].revision, History(p))
      BY <3>1 DEF IInv, RecordsFit
    <3>3. p \in Studies /\ operations[q].revision \in Nat
      BY <3>2 DEF OperationRow
    <3>4. CASE p # s
      BY <1>1, <3>1, <3>2, <3>3, <3>4
    <3>5. CASE p = s /\ studies' = studies /\ executions' = executions
      <4>1. History(p)' = History(p)
        BY <3>5, HistoriesStay
      <4> QED
        BY <3>1, <3>2, <3>5, <4>1
    <3>6. CASE p = s /\ studies'[s].revision = Revision(s) + 1
      <4>1. studies[s] \in StudyRow /\ Revision(s) = studies[s].revision
        BY <3>2, <3>3, <3>6, <1>3 DEF Types, Revision
      <4>2. operations[q].revision <= studies[s].revision /\ studies[s].revision \in Nat
        BY <3>2, <3>6, <4>1 DEF Answers, StudyRow
      <4>3. operations[q].revision < studies'[s].revision
        BY <3>3, <3>6, <4>1, <4>2
      <4>4. studies'[s].revision \in Nat
        BY <1>2 DEF StudyRow
      <4>5. operations'[q].revision <= studies'[p].revision
        BY <3>1, <3>3, <3>6, <4>3, <4>4
      <4>6. operations'[q].revision # studies'[p].revision
        BY <3>1, <3>3, <3>6, <4>3, <4>4
      <4> QED
        BY <1>1, <3>6, <4>5, <4>6 DEF Answers
    <3> QED
      BY <3>4, <3>5, <3>6 DEF Stores
  <2> QED
    BY <2>1, <2>2
<1>7. studies' \in [Studies -> StudyRow \cup {None}]
  BY <1>2, <1>3 DEF Types
<1>8. executions' \in [Studies -> [Executions -> ExecutionRow \cup {None}]]
  <2>1. executions'[s] \in [Executions -> ExecutionRow \cup {None}]
    BY DEF Stores, Lays
  <2> QED
    BY <1>2, <1>3, <2>1 DEF Types
<1>9. summaries' \in [Studies -> SummaryRow \cup {None}]
  <2>1. SummaryOf(studies'[s], Len(h)) \in SummaryRow
    BY <1>2, HistoryFacts DEF SummaryOf, SummaryRow, StudyRow
  <2> QED
    BY <1>2, <1>3, <2>1 DEF Types
<1>10. operations' \in [Operations \cup Installations -> OperationRow \cup {None, Purged}]
  BY <1>2, <1>3 DEF Types
<1> QED
  BY <1>1, <1>4, <1>5, <1>6, <1>7, <1>8, <1>9, <1>10

-----------------------------------------------------------------------------
(* The transactions that leave a study stored                                *)

LEMMA IdsOfHistory ==
  ASSUME NEW h \in Histories
  PROVE  /\ IdsOf(h) \in Seq(Executions) /\ Len(IdsOf(h)) = Len(h)
         /\ \A i \in 1..Len(h) : IdsOf(h)[i] = h[i].id
<1>1. /\ Len(h) \in Nat /\ DOMAIN h = 1..Len(h)
      /\ \A i \in DOMAIN h : h[i].id \in Executions
  BY HistoryFacts
<1> QED
  BY <1>1 DEF IdsOf

\* A record of all the executions answers completely.
LEMMA CompleteAnswer ==
  ASSUME NEW h \in Histories, NEW record, NEW revision \in Nat,
         record.revision = revision, record.executions = IdsOf(h)
  PROVE  Answers(record, revision, h)
<1>1. IdsOf(h) \in Seq(Executions) /\ Len(IdsOf(h)) \in Nat
  BY IdsOfHistory
<1>2. SubSeq(IdsOf(h), 1, Len(IdsOf(h))) = IdsOf(h)
  BY <1>1, SubSeqFull
<1>3. Len(IdsOf(h)) - Len(IdsOf(h)) + 1 = 1
  BY <1>1
<1> QED
  BY <1>1, <1>2, <1>3 DEF Answers

LEMMA AboutTypes ==
  \A e \in Executions :
      /\ About[e].scenario \in Scenarios /\ About[e].attempt \in Attempts
      /\ About[e].status \in {"OPEN", "ENDED"} /\ About[e].status \in Statuses
  BY RepositoryAssumption DEF Statuses

LEMMA DocumentFacts ==
  ASSUME NEW d \in Documents
  PROVE  /\ d.executions \in Histories /\ d.scenarios \in SUBSET Scenarios
         /\ Valid(d.scenarios, d.executions)
         /\ IdSet(d) = {d.executions[i].id : i \in DOMAIN d.executions}
<1>1. /\ d.executions \in UNION {[1..n -> Records] : n \in 0..MaxExecutions}
      /\ d.scenarios \in SUBSET Scenarios /\ Valid(d.scenarios, d.executions)
  BY DEF Documents
<1>2. PICK n \in 0..MaxExecutions : d.executions \in [1..n -> Records]
  BY <1>1
<1>3. Records \subseteq Items
  <2>1. \A e \in Executions : [id |-> e, status |-> About[e].status] \in Items
    BY AboutTypes DEF Items
  <2>2. \A e \in Executions : [id |-> e, status |-> "INTERRUPTED"] \in Items
    BY DEF Items, Statuses
  <2> QED
    BY <2>1, <2>2 DEF Records
<1>4. n \in Nat
  BY <1>2, RepositoryAssumption
<1>5. d.executions \in Seq(Items)
  BY <1>2, <1>3, <1>4
<1>6. \A i, j \in DOMAIN d.executions : d.executions[i].id = d.executions[j].id => i = j
  BY <1>1 DEF Valid
<1> QED
  BY <1>1, <1>5, <1>6 DEF Histories, IdSet

LEMMA RevisionType ==
  ASSUME Types, NEW s \in Studies
  PROVE  Revision(s) \in Nat /\ (studies[s] # None => Revision(s) = studies[s].revision)
  BY DEF Types, Revision, StudyRow

LEMMA Places ==
  ASSUME NEW d \in Documents, NEW i \in DOMAIN d.executions
  PROVE  PlaceOf(d, d.executions[i].id) = i
<1>1. \A j \in DOMAIN d.executions : d.executions[j].id = d.executions[i].id => j = i
  BY DocumentFacts, HistoryFacts
<1> QED
  BY <1>1 DEF PlaceOf

\* The rows of a save are the document's.
LEMMA SavedRows ==
  ASSUME Laid, NEW s \in Studies, NEW d \in Documents, HistoryKept(s, d)
  PROVE  Lays(Rewritten(s, d), d.executions)
<1> DEFINE h == d.executions
<1>1. /\ h \in Histories /\ IdSet(d) = {h[i].id : i \in DOMAIN h}
      /\ Len(h) \in Nat /\ DOMAIN h = 1..Len(h)
      /\ \A i \in DOMAIN h : h[i].id \in Executions /\ h[i].status \in Statuses
  BY DocumentFacts, HistoryFacts
<1>2. \A e \in Executions \ IdSet(d) : Rewritten(s, d)[e] = None
  <2> SUFFICES ASSUME NEW e \in Executions, e \notin IdSet(d), e \notin Gone(s, d)
               PROVE  executions[s][e] = None
    BY DEF Rewritten
  <2>1. e \notin RowsOf(s)
    <3> SUFFICES ASSUME e \in RowsOf(s)
                 PROVE  e \in IdSet(d)
      OBVIOUS
    <3>1. \E place \in DOMAIN h : h[place].id = e
      BY DEF HistoryKept
    <3> QED
      BY <1>1, <3>1
  <2> QED
    BY <2>1 DEF RowsOf
<1>3. \A i \in DOMAIN h :
         Rewritten(s, d)[h[i].id] = [sequence |-> i - 1, status |-> h[i].status]
  <2> TAKE i \in DOMAIN h
  <2>1. h[i].id \in IdSet(d) /\ h[i].id \in Executions /\ PlaceOf(d, h[i].id) = i
    BY <1>1, Places
  <2> QED
    BY <2>1 DEF Rewritten
<1>4. Rewritten(s, d) \in [Executions -> ExecutionRow \cup {None}]
  <2>1. \A i \in DOMAIN h : [sequence |-> i - 1, status |-> h[i].status] \in ExecutionRow
    BY <1>1 DEF ExecutionRow
  <2>2. ASSUME NEW e \in Executions
        PROVE  Rewritten(s, d)[e] \in ExecutionRow \cup {None}
    <3>1. CASE e \in IdSet(d)
      <4>1. PICK i \in DOMAIN h : e = h[i].id
        BY <1>1, <3>1
      <4>2. Rewritten(s, d)[e] = [sequence |-> i - 1, status |-> h[i].status]
        BY <1>3, <4>1
      <4> HIDE DEF h
      <4> QED
        BY <2>1, <4>2
    <3>2. CASE e \notin IdSet(d)
      BY <1>2, <3>2
    <3> QED
      BY <3>1, <3>2
  <2>3. Rewritten(s, d) = [e \in Executions |-> Rewritten(s, d)[e]]
    BY DEF Rewritten
  <2> HIDE DEF h
  <2> QED
    BY <2>2, <2>3
<1>5. \A e \in Executions : Rewritten(s, d)[e] # None => \E i \in DOMAIN h : h[i].id = e
  BY <1>1, <1>2
<1> QED
  BY <1>3, <1>4, <1>5 DEF Lays

LEMMA SaveStores ==
  ASSUME IInv, NEW o \in Operations, NEW s \in Studies, NEW deleted \in BOOLEAN,
         NEW d \in Documents, NEW expected \in 0..Revision(s),
         SaveStudy(o, s, expected, deleted, d)
  PROVE  Stores(o, s, d.executions)
<1> DEFINE row == [revision |-> expected + 1, deleted |-> deleted, scenarios |-> d.scenarios]
           h == d.executions
<1>1. Types /\ Laid
  BY DEF IInv
<1>2. /\ h \in Histories /\ d.scenarios \in SUBSET Scenarios /\ Valid(d.scenarios, h)
      /\ Len(h) \in Nat
  BY DocumentFacts, HistoryFacts
<1>3. Revision(s) \in Nat /\ expected = Revision(s)
  BY <1>1, RevisionType DEF SaveStudy
<1>4. /\ studies' = [studies EXCEPT ![s] = row]
      /\ executions' = [executions EXCEPT ![s] = Rewritten(s, d)]
      /\ summaries' = [summaries EXCEPT ![s] = SummaryOf(row, Len(h))]
      /\ operations' = [operations EXCEPT ![o] = Recorded("study", s, row.revision, IdsOf(h))]
      /\ HistoryKept(s, d)
  BY DEF SaveStudy
<1>5. /\ row \in StudyRow /\ row.revision = expected + 1 /\ row.scenarios = d.scenarios
      /\ row.revision \in Nat
  BY <1>2, <1>3 DEF StudyRow
<1> HIDE DEF row
<1>6. Lays(Rewritten(s, d), h)
  BY <1>1, <1>4, SavedRows
<1>7. studies'[s] = row /\ executions'[s] = Rewritten(s, d)
  BY <1>1, <1>4 DEF Types
<1> DEFINE record == Recorded("study", s, row.revision, IdsOf(h))
<1>8. operations'[o] = record
  BY <1>1, <1>4 DEF Types
<1>9. /\ record \in OperationRow /\ record.entity = s /\ record.revision = row.revision
      /\ record.executions = IdsOf(h)
  BY <1>2, <1>5, IdsOfHistory DEF Recorded, OperationRow, StudyRow
<1> HIDE DEF record
<1>10. Answers(record, row.revision, h)
  BY <1>2, <1>5, <1>9, CompleteAnswer
<1> HIDE DEF h
<1>11. s \in Studies /\ o \in Operations \cup Installations
  OBVIOUS
<1>12. studies' = [studies EXCEPT ![s] = studies'[s]] /\ executions' = [executions EXCEPT ![s] = executions'[s]]
  BY <1>4, <1>7
<1>13. operations' = [operations EXCEPT ![o] = operations'[o]]
  BY <1>4, <1>8 DEF record
<1>14. summaries' = [summaries EXCEPT ![s] = SummaryOf(studies'[s], Len(h))]
  BY <1>4, <1>7
<1> QED
  BY <1>2, <1>3, <1>5, <1>6, <1>7, <1>8, <1>9, <1>10, <1>11, <1>12, <1>13, <1>14 DEF Stores, h

WithPair(h, r, t) ==
    Append(Append(h, [id |-> r, status |-> "OPEN"]), [id |-> t, status |-> "ENDED"])

LEMMA TwoMore ==
  ASSUME NEW S, NEW h \in Seq(S), NEW x \in S, NEW y \in S
  PROVE  /\ Append(Append(h, x), y) \in Seq(S)
         /\ Len(Append(Append(h, x), y)) = Len(h) + 2
         /\ \A i \in 1..Len(h) : Append(Append(h, x), y)[i] = h[i]
         /\ Append(Append(h, x), y)[Len(h) + 1] = x
         /\ Append(Append(h, x), y)[Len(h) + 2] = y
  OBVIOUS

\* A history with an attempt added.
LEMMA PairFacts ==
  ASSUME NEW h \in Histories, NEW r \in Executions, NEW t \in Executions, r # t,
         \A i \in DOMAIN h : h[i].id # r /\ h[i].id # t
  PROVE  /\ WithPair(h, r, t) \in Histories
         /\ Len(WithPair(h, r, t)) = Len(h) + 2
         /\ DOMAIN WithPair(h, r, t) = 1..Len(h) + 2
         /\ \A i \in 1..Len(h) : WithPair(h, r, t)[i] = h[i]
         /\ WithPair(h, r, t)[Len(h) + 1] = [id |-> r, status |-> "OPEN"]
         /\ WithPair(h, r, t)[Len(h) + 2] = [id |-> t, status |-> "ENDED"]
<1> DEFINE n == Len(h)
           k == WithPair(h, r, t)
           x == [id |-> r, status |-> "OPEN"]
           y == [id |-> t, status |-> "ENDED"]
<1>1. /\ h \in Seq(Items) /\ n \in Nat /\ DOMAIN h = 1..n
      /\ \A i, j \in DOMAIN h : h[i].id = h[j].id => i = j
  BY HistoryFacts
<1>2. x \in Items /\ y \in Items
  BY DEF Items, Statuses
<1>3. x.id = r /\ y.id = t
  OBVIOUS
<1>4. k = Append(Append(h, x), y)
  BY DEF WithPair
<1> HIDE DEF x, y, k
<1>5. /\ k \in Seq(Items) /\ Len(k) = n + 2
      /\ k[n + 1] = x /\ k[n + 2] = y
      /\ \A i \in 1..n : k[i] = h[i]
  BY <1>1, <1>2, <1>4, TwoMore
<1> HIDE DEF n
<1>6. DOMAIN k = 1..n + 2
  BY <1>1, <1>5
<1>8. ASSUME NEW i \in DOMAIN k, NEW j \in DOMAIN k, k[i].id = k[j].id
      PROVE  i = j
  <2>1. /\ i \in 1..n \/ i = n + 1 \/ i = n + 2
        /\ j \in 1..n \/ j = n + 1 \/ j = n + 2
    BY <1>1, <1>6
  <2>2. /\ \A m \in 1..n : k[m].id # r /\ k[m].id # t
        /\ k[n + 1].id = r /\ k[n + 2].id = t
    BY <1>1, <1>3, <1>5
  <2>3. CASE i \in 1..n /\ j \in 1..n
    BY <1>1, <1>5, <1>8, <2>3
  <2> QED
    BY <1>8, <2>1, <2>2, <2>3
<1>9. k \in Histories
  BY <1>5, <1>8 DEF Histories
<1> QED
  BY <1>5, <1>6, <1>9 DEF k, n, x, y

\* An attempt nothing is stored of keeps a document valid.
LEMMA PairValid ==
  ASSUME NEW h \in Histories, NEW r \in Executions, NEW t \in Executions, IsAttempt(r, t),
         \A i \in DOMAIN h : h[i].id # r /\ h[i].id # t,
         \A i \in DOMAIN h : About[h[i].id].attempt # About[r].attempt,
         NEW scenarios, Valid(scenarios, h), About[r].scenario \in scenarios
  PROVE  Valid(scenarios, WithPair(h, r, t))
<1> DEFINE n == Len(h)
           k == WithPair(h, r, t)
<1>1. r # t /\ About[t].scenario \in scenarios /\ About[t].attempt = About[r].attempt
  BY DEF IsAttempt
<1>2. /\ k \in Histories /\ DOMAIN k = 1..n + 2 /\ \A i \in 1..n : k[i] = h[i]
      /\ k[n + 1] = [id |-> r, status |-> "OPEN"] /\ k[n + 2] = [id |-> t, status |-> "ENDED"]
  BY <1>1, PairFacts
<1>3. DOMAIN h = 1..n /\ n \in Nat
  BY HistoryFacts
<1>4. /\ k[n + 1].id = r /\ k[n + 1].status = "OPEN"
      /\ k[n + 2].id = t /\ k[n + 2].status = "ENDED"
  BY <1>2
<1>5. \A i, j \in DOMAIN k : k[i].id = k[j].id => i = j
  BY <1>2, HistoryFacts
<1> HIDE DEF k, n
<1>6. \A i \in DOMAIN k : i \in 1..n \/ i = n + 1 \/ i = n + 2
  BY <1>2, <1>3
<1>7. 1..n \subseteq DOMAIN k /\ n + 1 \in DOMAIN k /\ n + 2 \in DOMAIN k /\ n + 1 # n + 2
  BY <1>2, <1>3
<1>8. \A i \in DOMAIN k : About[k[i].id].scenario \in scenarios
  BY <1>1, <1>2, <1>3, <1>4, <1>6 DEF Valid
<1>9. ASSUME NEW a \in Attempts, a # About[r].attempt
      PROVE  /\ OfAttempt(k, a) = OfAttempt(h, a)
             /\ \A i \in OfAttempt(h, a) : k[i] = h[i] /\ i \in DOMAIN h /\ i \in DOMAIN k
  BY <1>1, <1>2, <1>3, <1>4, <1>6, <1>7, <1>9 DEF OfAttempt
<1>10. OfAttempt(k, About[r].attempt) = {n + 1, n + 2}
  <2>1. \A i \in 1..n : About[k[i].id].attempt # About[r].attempt
    BY <1>2, <1>3
  <2> QED
    BY <1>1, <1>4, <1>6, <1>7, <2>1 DEF OfAttempt
<1>11. ASSUME NEW a \in Attempts
       PROVE  /\ Cardinality({i \in OfAttempt(k, a) : IsTerminal(k[i].status)}) <= 1
              /\ OfAttempt(k, a) \cap Diagnostics(k) # {} =>
                   Cardinality({i \in OfAttempt(k, a) \cap Diagnostics(k) :
                                   ~IsTerminal(k[i].status)}) = 1
  <2>1. CASE a = About[r].attempt
    <3>1. {i \in OfAttempt(k, a) : IsTerminal(k[i].status)} = {n + 2}
      BY <1>4, <1>7, <1>10, <2>1 DEF IsTerminal
    <3>2. OfAttempt(k, a) \cap Diagnostics(k) = {n + 1, n + 2}
      BY <1>4, <1>7, <1>10, <2>1 DEF IsAttempt, Diagnostics
    <3>3. {i \in OfAttempt(k, a) \cap Diagnostics(k) : ~IsTerminal(k[i].status)} = {n + 1}
      BY <1>4, <1>7, <3>2 DEF IsTerminal
    <3>4. Cardinality({n + 1}) = 1 /\ Cardinality({n + 2}) = 1
      BY FS_Singleton
    <3>5. Cardinality({i \in OfAttempt(k, a) : IsTerminal(k[i].status)}) = 1
      BY <3>1, <3>4, Zenon
    <3>6. Cardinality({i \in OfAttempt(k, a) \cap Diagnostics(k) : ~IsTerminal(k[i].status)}) = 1
      BY <3>3, <3>4, Zenon
    <3> QED
      BY <3>5, <3>6
  <2>2. CASE a # About[r].attempt
    <3>1. /\ OfAttempt(k, a) = OfAttempt(h, a)
          /\ \A i \in OfAttempt(h, a) : k[i] = h[i] /\ i \in DOMAIN h /\ i \in DOMAIN k
      BY <1>9, <2>2
    <3>2. {i \in OfAttempt(k, a) : IsTerminal(k[i].status)}
            = {i \in OfAttempt(h, a) : IsTerminal(h[i].status)}
      BY <3>1
    <3>3. OfAttempt(k, a) \cap Diagnostics(k) = OfAttempt(h, a) \cap Diagnostics(h)
      BY <3>1 DEF Diagnostics
    <3>4. {i \in OfAttempt(k, a) \cap Diagnostics(k) : ~IsTerminal(k[i].status)}
            = {i \in OfAttempt(h, a) \cap Diagnostics(h) : ~IsTerminal(h[i].status)}
      BY <3>1, <3>3
    <3> QED
      BY <3>2, <3>3, <3>4 DEF Valid
  <2> QED
    BY <2>1, <2>2
<1>12. Base \in scenarios
  BY DEF Valid
<1> QED
  BY <1>5, <1>8, <1>11, <1>12 DEF Valid, k

LEMMA TwoLong ==
  ASSUME NEW S, NEW x \in S, NEW y \in S, NEW h \in Seq(S), Len(h) = 2, h[1] = x, h[2] = y
  PROVE  h = <<x, y>>
  OBVIOUS

\* A record of the pair answers with the last two executions.
LEMMA PairAnswer ==
  ASSUME NEW h \in Histories, NEW r \in Executions, NEW t \in Executions, r # t,
         \A i \in DOMAIN h : h[i].id # r /\ h[i].id # t,
         NEW record, NEW revision \in Nat, record.revision = revision,
         record.kind = "diagnostic_append", record.executions = <<r, t>>
  PROVE  Answers(record, revision, WithPair(h, r, t))
<1> DEFINE n == Len(h)
           ids == IdsOf(WithPair(h, r, t))
<1>1. /\ WithPair(h, r, t) \in Histories /\ Len(WithPair(h, r, t)) = n + 2
      /\ WithPair(h, r, t)[n + 1].id = r /\ WithPair(h, r, t)[n + 2].id = t
      /\ n \in Nat
  <2>1. /\ WithPair(h, r, t) \in Histories /\ Len(WithPair(h, r, t)) = n + 2
        /\ WithPair(h, r, t)[n + 1] = [id |-> r, status |-> "OPEN"]
        /\ WithPair(h, r, t)[n + 2] = [id |-> t, status |-> "ENDED"]
    BY PairFacts
  <2>2. n \in Nat
    BY HistoryFacts
  <2> HIDE DEF n
  <2> QED
    BY <2>1, <2>2
<1>2. ids \in Seq(Executions) /\ Len(ids) = n + 2 /\ ids[n + 1] = r /\ ids[n + 2] = t
  BY <1>1, IdsOfHistory
<1> HIDE DEF ids, n
<1> DEFINE last == SubSeq(ids, n + 1, n + 2)
<1>3. /\ last \in Seq(Executions) /\ Len(last) = 2
      /\ last[1] = r /\ last[2] = t
  <2>1. \A i \in n + 1..n + 2 : ids[i] \in Executions
    BY <1>1, <1>2
  <2>2. /\ n + 1 \in Int /\ n + 2 \in Int /\ n + 1 <= n + 2 /\ (n + 2) - (n + 1) + 1 = 2
        /\ (n + 1) + 1 - 1 = n + 1 /\ (n + 1) + 2 - 1 = n + 2
    BY <1>1
  <2>3. /\ last \in Seq(Executions)
        /\ Len(last) = IF n + 1 <= n + 2 THEN (n + 2) - (n + 1) + 1 ELSE 0
        /\ \A i \in 1..(n + 2) - (n + 1) + 1 : last[i] = ids[(n + 1) + i - 1]
    BY <2>1, <2>2, SubSeqProperties
  <2>4. 1 \in 1..(n + 2) - (n + 1) + 1 /\ 2 \in 1..(n + 2) - (n + 1) + 1
    BY <2>2
  <2>5. last[1] = ids[(n + 1) + 1 - 1] /\ last[2] = ids[(n + 1) + 2 - 1]
    BY <2>3, <2>4
  <2> HIDE DEF last
  <2> QED
    BY <1>2, <2>2, <2>3, <2>5
<1>4. <<r, t>> \in Seq(Executions) /\ Len(<<r, t>>) = 2
  OBVIOUS
<1>5. last = <<r, t>>
  <2> HIDE DEF last
  <2> QED
    BY <1>3, TwoLong
<1>6. Len(ids) - Len(record.executions) + 1 = n + 1 /\ Len(record.executions) <= Len(ids)
  BY <1>1, <1>2, <1>4
<1> QED
  BY <1>2, <1>5, <1>6 DEF Answers, ids

\* What a transaction writes, put together.
LEMMA MakesStores ==
  ASSUME Types, NEW s \in Studies, NEW o \in Operations \cup Installations, NEW h \in Histories,
         NEW row \in StudyRow, NEW rows, Lays(rows, h), NEW record \in OperationRow,
         studies' = [studies EXCEPT ![s] = row], executions' = [executions EXCEPT ![s] = rows],
         summaries' = [summaries EXCEPT ![s] = SummaryOf(row, Len(h))],
         operations' = [operations EXCEPT ![o] = record],
         Valid(row.scenarios, h), record.entity = s, Answers(record, row.revision, h),
         \/ row.revision = Revision(s) + 1
         \/ row = studies[s] /\ rows = executions[s] /\ studies[s] # None
  PROVE  Stores(o, s, h)
<1>1. studies'[s] = row /\ executions'[s] = rows /\ operations'[o] = record
  BY DEF Types
<1>2. row = studies[s] => studies' = studies
  BY DEF Types
<1>3. rows = executions[s] => executions' = executions
  BY DEF Types
<1> QED
  BY <1>1, <1>2, <1>3 DEF Stores

LEMMA AppendStores ==
  ASSUME IInv, NEW o \in Operations, NEW s \in Studies, NEW r \in Executions, NEW t \in Executions,
         NEW expected \in 0..Revision(s), AppendDiagnosticAttempt(o, s, expected, r, t)
  PROVE  Stores(o, s, WithPair(History(s), r, t))
<1> DEFINE h == History(s)
           k == WithPair(h, r, t)
           count == Cardinality(RowsOf(s))
           row == [studies[s] EXCEPT !.revision = @ + 1]
           record == Recorded("diagnostic_append", s, row.revision, <<r, t>>)
           rows == [executions[s] EXCEPT ![r] = [sequence |-> count, status |-> "OPEN"],
                                         ![t] = [sequence |-> count + 1, status |-> "ENDED"]]
<1>1. Types /\ Laid /\ CatalogExact /\ StoredValid
  BY DEF IInv
<1>2. /\ h \in Histories /\ RowsOf(s) = {h[i].id : i \in DOMAIN h} /\ count = Len(h)
      /\ Lays(executions[s], h)
      /\ Len(h) \in Nat /\ DOMAIN h = 1..Len(h)
  BY <1>1, StoredRows, HistoryFacts DEF Laid
<1>3. /\ studies[s] # None /\ IsAttempt(r, t) /\ AttemptIsNew(s, r, t)
      /\ About[r].scenario \in studies[s].scenarios
      /\ studies' = [studies EXCEPT ![s] = row]
      /\ summaries' = [summaries EXCEPT ![s] = SummaryOf(row, count + 2)]
      /\ operations' = [operations EXCEPT ![o] = record]
  BY DEF AppendDiagnosticAttempt
<1>4. studies[s] \in StudyRow /\ Revision(s) = studies[s].revision
  BY <1>1, <1>3 DEF Types, Revision
<1>5. /\ row \in StudyRow /\ row.revision = Revision(s) + 1 /\ row.scenarios = studies[s].scenarios
      /\ row.revision \in Nat
  BY <1>4 DEF StudyRow
<1>6. r # t /\ \A i \in DOMAIN h : h[i].id # r /\ h[i].id # t
                                  /\ About[h[i].id].attempt # About[r].attempt
  BY <1>2, <1>3 DEF IsAttempt, AttemptIsNew
<1>7. executions' = [executions EXCEPT ![s] = rows]
  <2> DEFINE summary == IF summaries[s] = None THEN SummaryOf(studies[s], count) ELSE summaries[s]
  <2>1. summary.count = count
    BY DEF AppendDiagnosticAttempt
  <2>2. executions' = [executions EXCEPT
                         ![s][r] = [sequence |-> summary.count, status |-> "OPEN"],
                         ![s][t] = [sequence |-> summary.count + 1, status |-> "ENDED"]]
    BY DEF AppendDiagnosticAttempt
  <2> HIDE DEF summary
  <2> QED
    BY <1>1, <2>1, <2>2 DEF Types
<1>8. /\ k \in Histories /\ Len(k) = Len(h) + 2 /\ DOMAIN k = 1..Len(h) + 2
      /\ \A i \in 1..Len(h) : k[i] = h[i]
      /\ k[Len(h) + 1] = [id |-> r, status |-> "OPEN"]
      /\ k[Len(h) + 2] = [id |-> t, status |-> "ENDED"]
  <2>1. h \in Histories /\ r # t /\ \A i \in DOMAIN h : h[i].id # r /\ h[i].id # t
    BY <1>2, <1>6
  <2> HIDE DEF h
  <2> QED
    BY <2>1, PairFacts
<1>9. Lays(rows, k)
  <2>1. /\ executions[s] \in [Executions -> ExecutionRow \cup {None}]
        /\ \A i \in DOMAIN h : executions[s][h[i].id] = [sequence |-> i - 1, status |-> h[i].status]
        /\ \A e \in Executions : executions[s][e] # None => \E i \in DOMAIN h : h[i].id = e
    BY <1>2 DEF Lays
  <2> HIDE DEF k, h
  <2>8. Len(h) \in Nat
    BY <1>2, HistoryFacts
  <2>7. PICK n \in Nat : n = Len(h)
    BY <2>8
  <2>0. /\ DOMAIN h = 1..n /\ DOMAIN k = 1..n + 2 /\ \A i \in 1..n : k[i] = h[i]
        /\ k[n + 1] = [id |-> r, status |-> "OPEN"]
        /\ k[n + 2] = [id |-> t, status |-> "ENDED"]
    BY <1>2, <1>8, <2>7
  <2> DEFINE first == [sequence |-> n, status |-> "OPEN"]
             second == [sequence |-> n + 1, status |-> "ENDED"]
  <2>2. /\ rows[r] = first /\ rows[t] = second
        /\ \A e \in Executions \ {r, t} : rows[e] = executions[s][e]
        /\ rows = [e \in Executions |-> rows[e]]
    BY <1>2, <1>6, <2>7, <2>1
  <2>3. first \in ExecutionRow /\ second \in ExecutionRow
    BY DEF ExecutionRow, Statuses
  <2> HIDE DEF rows
  <2>9. /\ k[n + 1].id = r /\ k[n + 1].status = "OPEN"
        /\ k[n + 2].id = t /\ k[n + 2].status = "ENDED"
    BY <2>0
  <2>4. rows \in [Executions -> ExecutionRow \cup {None}]
    <3>1. \A e \in Executions : rows[e] \in ExecutionRow \cup {None}
      BY <2>1, <2>2, <2>3
    <3> QED
      BY <2>2, <3>1
  <2>5. ASSUME NEW i \in DOMAIN k
        PROVE  rows[k[i].id] = [sequence |-> i - 1, status |-> k[i].status]
    <3>1. i \in 1..n \/ i = n + 1 \/ i = n + 2
      BY <2>0
    <3>2. CASE i \in 1..n
      <4>1. k[i] = h[i] /\ h[i].id \in Executions /\ h[i].id \notin {r, t} /\ i \in DOMAIN h
        BY <1>2, <1>6, <2>0, <3>2, HistoryFacts
      <4> QED
        BY <2>1, <2>2, <4>1
    <3>3. CASE i = n + 1
      <4>1. k[i].id = r /\ k[i].status = "OPEN" /\ i - 1 = n
        BY <2>0, <2>9, <3>3
      <4> QED
        BY <2>2, <4>1
    <3>4. CASE i = n + 2
      <4>1. k[i].id = t /\ k[i].status = "ENDED" /\ i - 1 = n + 1
        BY <2>0, <2>9, <3>4
      <4> QED
        BY <2>2, <4>1
    <3> QED
      BY <3>1, <3>2, <3>3, <3>4
  <2>6. ASSUME NEW e \in Executions, rows[e] # None
        PROVE  \E i \in DOMAIN k : k[i].id = e
    <3>1. CASE e = r
      BY <2>0, <2>9, <3>1
    <3>2. CASE e = t
      BY <2>0, <2>9, <3>2
    <3>3. CASE e \notin {r, t}
      <4>1. PICK i \in DOMAIN h : h[i].id = e
        BY <2>1, <2>2, <2>6, <3>3
      <4> QED
        BY <2>0, <4>1
    <3> QED
      BY <3>1, <3>2, <3>3
  <2> QED
    BY <2>4, <2>5, <2>6 DEF Lays
<1>10. Valid(row.scenarios, k)
  BY <1>1, <1>2, <1>3, <1>5, <1>6, PairValid DEF StoredValid
<1>11. summaries' = [summaries EXCEPT ![s] = SummaryOf(row, Len(k))]
  BY <1>2, <1>3, <1>8
<1>12. /\ record \in OperationRow /\ record.entity = s /\ record.revision = row.revision
       /\ record.kind = "diagnostic_append" /\ record.executions = <<r, t>>
  <2>1. row.revision \in Nat \ {0}
    BY <1>5 DEF StudyRow
  <2> HIDE DEF row
  <2> QED
    BY <2>1 DEF Recorded, OperationRow
<1> HIDE DEF row, record, rows, k
<1>13. Answers(record, row.revision, k)
  BY <1>2, <1>5, <1>6, <1>12, PairAnswer DEF k
<1> QED
  BY <1>1, <1>3, <1>5, <1>7, <1>8, <1>9, <1>10, <1>11, <1>12, <1>13, MakesStores DEF k

\* A row that is restored.
LEMMA Undeleted ==
  ASSUME NEW old \in StudyRow, NEW new,
         \/ new = [old EXCEPT !.revision = @ + 1, !.deleted = FALSE]
         \/ new = [old EXCEPT !.deleted = FALSE, !.revision = @ + 1]
  PROVE  /\ new \in StudyRow /\ new.scenarios = old.scenarios
         /\ new.revision = old.revision + 1 /\ new.revision \in Nat \ {0}
<1>1. /\ old = [revision |-> old.revision, deleted |-> old.deleted, scenarios |-> old.scenarios]
      /\ old.revision \in Nat \ {0} /\ old.scenarios \in SUBSET Scenarios
  BY DEF StudyRow
<1>2. new = [revision |-> old.revision + 1, deleted |-> FALSE, scenarios |-> old.scenarios]
  BY <1>1
<1>3. old.revision + 1 \in Nat \ {0}
  BY <1>1
<1> QED
  BY <1>2, <1>3, <1>1 DEF StudyRow

LEMMA RestoreStores ==
  ASSUME IInv, NEW o \in Operations, NEW s \in Studies, NEW expected \in 0..Revision(s),
         RestoreStudy(o, s, expected)
  PROVE  Stores(o, s, History(s)) /\ executions' = executions
<1> DEFINE h == History(s)
           row == [studies[s] EXCEPT !.revision = @ + 1, !.deleted = FALSE]
           record == Recorded("restore_study", s, row.revision, IdsOf(h))
<1>1. Types /\ Laid /\ StoredValid
  BY DEF IInv
<1>2. h \in Histories /\ Lays(executions[s], h)
  BY <1>1 DEF Laid
<1>3. /\ studies[s] # None /\ executions' = executions
      /\ studies' = [studies EXCEPT ![s] = row]
      /\ summaries' = [summaries EXCEPT ![s] = SummaryOf(row, Len(h))]
      /\ operations' = [operations EXCEPT ![o] = record]
  BY DEF RestoreStudy
<1>4. studies[s] \in StudyRow /\ Revision(s) = studies[s].revision
  BY <1>1, <1>3 DEF Types, Revision
<1>5. /\ row \in StudyRow /\ row.revision = Revision(s) + 1 /\ row.scenarios = studies[s].scenarios
      /\ row.revision \in Nat \ {0}
  BY <1>4, Undeleted
<1>6. executions' = [executions EXCEPT ![s] = executions[s]]
  BY <1>1, <1>3 DEF Types
<1>7. Valid(row.scenarios, h)
  BY <1>1, <1>3, <1>5 DEF StoredValid
<1> HIDE DEF row, h
<1>8. /\ record \in OperationRow /\ record.entity = s /\ record.revision = row.revision
      /\ record.executions = IdsOf(h)
  BY <1>2, <1>5, IdsOfHistory DEF Recorded, OperationRow
<1> HIDE DEF record
<1>9. Answers(record, row.revision, h)
  BY <1>2, <1>5, <1>8, CompleteAnswer
<1> QED
  BY <1>1, <1>2, <1>3, <1>5, <1>6, <1>7, <1>8, <1>9, MakesStores DEF h

\* What an install read is what is there, when it writes.
LEMMA InstallReadIt ==
  ASSUME NEW o, StillTrue(o), Installed
  PROVE  /\ installing[o].read.document.row = studies[marker.study]
         /\ installing[o].read.document.executions = History(marker.study)
<1>1. installing[o].read = [marker |-> marker, document |-> Assembled(marker.study)]
  BY DEF StillTrue, DemoView
<1>2. installing[o].read.document = Assembled(marker.study)
  BY <1>1
<1> QED
  BY <1>2 DEF Assembled

LEMMA InstallRestoresStores ==
  ASSUME IInv, NEW o \in Installations, InstallRestores(o)
  PROVE  /\ marker.study \in Studies /\ Stores(o, marker.study, History(marker.study))
         /\ executions' = executions /\ studies[marker.study] # None
<1> DEFINE s == marker.study
           h == History(s)
           old == studies[s]
           row == IF old.deleted THEN [old EXCEPT !.deleted = FALSE, !.revision = @ + 1] ELSE old
           record == Recorded("demo_install", s, row.revision, IdsOf(h))
<1>1. Types /\ Laid /\ StoredValid /\ DemoIsSingle
  BY DEF IInv
<1>2. Installed /\ StillTrue(o) /\ executions' = executions
  BY DEF InstallRestores
<1>3. s \in Studies /\ studies[s] # None
  BY <1>1, <1>2 DEF DemoIsSingle, Installed, Types, Marker
<1>4. /\ studies' = [studies EXCEPT ![s] = row]
      /\ summaries' = [summaries EXCEPT ![s] = SummaryOf(row, Len(h))]
      /\ operations' = [operations EXCEPT ![o] = record]
  <2> DEFINE document == installing[o].read.document
             written == IF document.row.deleted
                        THEN [document.row EXCEPT !.deleted = FALSE, !.revision = @ + 1]
                        ELSE document.row
  <2>1. document.row = studies[s] /\ document.executions = h
    BY <1>2, InstallReadIt
  <2>2. /\ studies' = [studies EXCEPT ![s] = written]
        /\ summaries' = [summaries EXCEPT ![s] = SummaryOf(written, Len(document.executions))]
        /\ operations' = [operations EXCEPT
             ![o] = Recorded("demo_install", s, written.revision, IdsOf(document.executions))]
    BY DEF InstallRestores
  <2> HIDE DEF document, h
  <2> QED
    BY <2>1, <2>2
<1>5. h \in Histories /\ Lays(executions[s], h)
  BY <1>1, <1>3 DEF Laid
<1>6. old \in StudyRow /\ Revision(s) = old.revision
  BY <1>1, <1>3 DEF Types, Revision
<1>7. /\ row \in StudyRow /\ row.scenarios = old.scenarios
      /\ row.revision \in Nat \ {0}
      /\ row.revision = Revision(s) + 1 \/ row = old
  <2>1. CASE old.deleted
    <3>1. row = [old EXCEPT !.deleted = FALSE, !.revision = @ + 1]
      BY <2>1
    <3> HIDE DEF row, old
    <3> QED
      BY <1>6, <3>1, Undeleted
  <2>2. CASE ~old.deleted
    <3>1. row = old
      BY <2>2
    <3> HIDE DEF row, old
    <3> QED
      BY <1>6, <3>1 DEF StudyRow
  <2> QED
    BY <2>1, <2>2
<1>8. executions' = [executions EXCEPT ![s] = executions[s]]
  BY <1>1, <1>2, <1>3 DEF Types
<1>9. Valid(row.scenarios, h)
  BY <1>1, <1>3, <1>7 DEF StoredValid
<1> HIDE DEF row, h
<1>10. /\ record \in OperationRow /\ record.entity = s /\ record.revision = row.revision
       /\ record.executions = IdsOf(h)
  BY <1>3, <1>5, <1>7, IdsOfHistory DEF Recorded, OperationRow
<1> HIDE DEF record
<1>11. Answers(record, row.revision, h)
  BY <1>5, <1>7, <1>10, CompleteAnswer
<1>12. Stores(o, s, h)
  BY <1>1, <1>3, <1>4, <1>5, <1>7, <1>8, <1>9, <1>10, <1>11, MakesStores
<1> QED
  BY <1>2, <1>3, <1>12 DEF h

LEMMA PackageFacts ==
  /\ DemoHistory \in Histories /\ Len(DemoHistory) = Len(DemoPackage)
  /\ DOMAIN DemoHistory = DOMAIN DemoPackage /\ IdsOf(DemoHistory) = DemoPackage
  /\ \A i \in DOMAIN DemoPackage :
        /\ DemoPackage[i] \in Executions /\ DemoHistory[i].id = DemoPackage[i]
        /\ DemoHistory[i].status = About[DemoPackage[i]].status
  /\ DemoScenarios \in SUBSET Scenarios
<1>1. /\ DemoPackage \in Seq(Executions) /\ DOMAIN DemoPackage = 1..Len(DemoPackage)
      /\ Len(DemoPackage) \in Nat /\ \A i \in DOMAIN DemoPackage : DemoPackage[i] \in Executions
      /\ \A i, j \in DOMAIN DemoPackage : DemoPackage[i] = DemoPackage[j] => i = j
      /\ Base \in Scenarios
  BY RepositoryAssumption
<1>2. \A i \in DOMAIN DemoPackage :
         [id |-> DemoPackage[i], status |-> About[DemoPackage[i]].status] \in Items
  BY <1>1, AboutTypes DEF Items
<1>3. DemoHistory \in Seq(Items) /\ Len(DemoHistory) = Len(DemoPackage)
  BY <1>1, <1>2 DEF DemoHistory
<1>4. /\ DOMAIN DemoHistory = DOMAIN DemoPackage
      /\ \A i \in DOMAIN DemoPackage :
            /\ DemoHistory[i].id = DemoPackage[i]
            /\ DemoHistory[i].status = About[DemoPackage[i]].status
  BY DEF DemoHistory
<1>5. DemoHistory \in Histories
  BY <1>1, <1>3, <1>4 DEF Histories
<1>6. IdsOf(DemoHistory) = DemoPackage
  <2>1. IdsOf(DemoHistory) = [i \in DOMAIN DemoPackage |-> DemoPackage[i]]
    BY <1>4 DEF IdsOf
  <2>2. DemoPackage = [i \in DOMAIN DemoPackage |-> DemoPackage[i]]
    BY <1>1
  <2> QED
    BY <2>1, <2>2
<1>7. DemoScenarios \in SUBSET Scenarios
  BY <1>1, AboutTypes DEF DemoScenarios
<1> QED
  BY <1>1, <1>3, <1>4, <1>5, <1>6, <1>7

LEMMA PublishStores ==
  ASSUME IInv, NEW o \in Installations, InstallPublishes(o)
  PROVE  /\ DemoStudy[o] \in Studies /\ Stores(o, DemoStudy[o], DemoHistory)
         /\ studies[DemoStudy[o]] = None
<1> DEFINE s == DemoStudy[o]
           h == DemoHistory
           row == [revision |-> 1, deleted |-> FALSE, scenarios |-> DemoScenarios]
           record == Recorded("demo_install", s, 1, DemoPackage)
           rows == [e \in Executions |->
                      IF \E i \in DOMAIN DemoPackage : DemoPackage[i] = e
                      THEN [sequence |-> (CHOOSE i \in DOMAIN DemoPackage : DemoPackage[i] = e) - 1,
                            status |-> About[e].status]
                      ELSE None]
<1>1. Types /\ Laid /\ DemoIsSingle
  BY DEF IInv
<1>2. s \in Studies
  BY RepositoryAssumption
<1>3. studies[s] = None
  BY <1>1 DEF DemoIsSingle, InstallPublishes
<1>4. /\ studies' = [studies EXCEPT ![s] = row]
      /\ executions' = [executions EXCEPT ![s] = rows]
      /\ operations' = [operations EXCEPT ![o] = record]
      /\ summaries' = [summaries EXCEPT ![s] = SummaryOf(row, Len(h))]
  BY PackageFacts DEF InstallPublishes
<1>5. Lays(rows, h)
  <2>1. ASSUME NEW i \in DOMAIN DemoPackage
        PROVE  rows[h[i].id] = [sequence |-> i - 1, status |-> h[i].status]
    <3>1. (CHOOSE j \in DOMAIN DemoPackage : DemoPackage[j] = DemoPackage[i]) = i
      BY RepositoryAssumption
    <3> QED
      BY <3>1, PackageFacts
  <2>2. \A e \in Executions : rows[e] # None => \E i \in DOMAIN h : h[i].id = e
    BY PackageFacts
  <2>3. \A i \in DOMAIN h : [sequence |-> i - 1, status |-> h[i].status] \in ExecutionRow
    BY PackageFacts, HistoryFacts DEF ExecutionRow
  <2>4. rows = [e \in Executions |-> rows[e]]
    OBVIOUS
  <2> HIDE DEF rows
  <2>5. \A e \in Executions : rows[e] \in ExecutionRow \cup {None}
    <3> SUFFICES ASSUME NEW e \in Executions, rows[e] # None
                 PROVE  rows[e] \in ExecutionRow
      OBVIOUS
    <3>1. PICK i \in DOMAIN DemoPackage : h[i].id = e
      BY <2>2, PackageFacts
    <3>2. rows[e] = [sequence |-> i - 1, status |-> h[i].status] /\ i \in DOMAIN h
      BY <2>1, <3>1, PackageFacts
    <3> QED
      BY <2>3, <3>2
  <2>6. rows \in [Executions -> ExecutionRow \cup {None}]
    BY <2>4, <2>5
  <2> QED
    BY <2>1, <2>2, <2>6, PackageFacts DEF Lays
<1>6. /\ row \in StudyRow /\ row.scenarios = DemoScenarios /\ row.revision = 1
      /\ row.revision = Revision(s) + 1
  BY <1>3, PackageFacts DEF StudyRow, Revision
<1>7. Valid(row.scenarios, h)
  BY <1>6, PackageAssumption
<1>8. /\ record \in OperationRow /\ record.entity = s /\ record.revision = row.revision
      /\ record.executions = IdsOf(h)
  BY <1>2, PackageFacts, RepositoryAssumption DEF Recorded, OperationRow
<1> HIDE DEF row, rows, record
<1>9. Answers(record, row.revision, h)
  BY <1>6, <1>8, PackageFacts, CompleteAnswer
<1> QED
  BY <1>1, <1>2, <1>3, <1>4, <1>5, <1>6, <1>7, <1>8, <1>9, PackageFacts, MakesStores

-----------------------------------------------------------------------------
(* Every step keeps the invariant                                            *)

LEMMA StoresKeepInv ==
  ASSUME IInv, NEW o, NEW s, NEW h, Stores(o, s, h), DemoIsSingle',
         marker' \in Marker \cup {None}, installing' \in [Installations -> Calls \cup {None}]
  PROVE  IInv'
BY StoresKeep DEF IInv, Types

\* A study that is stored stays so, and one that is not is not an installed one.
LEMMA DemoStays ==
  ASSUME IInv, NEW o, NEW s, NEW h, Stores(o, s, h), marker' = marker,
         studies[s] = None => MayCreate(s)
  PROVE  DemoIsSingle'
<1>1. studies'[s] # None /\ \A p \in Studies \ {s} : studies'[p] = studies[p]
  BY StoredHistory DEF IInv
<1>2. Installed' <=> Installed
  BY DEF Installed
<1>3. ASSUME Installed
      PROVE  studies'[marker.study] # None
  <2>1. marker.study \in Studies /\ studies[marker.study] # None
    BY <1>3 DEF IInv, DemoIsSingle, Types, Installed, Marker
  <2> QED
    BY <1>1, <2>1
<1>4. ASSUME NEW i \in Installations, studies'[DemoStudy[i]] # None
      PROVE  Installed /\ marker.study = DemoStudy[i]
  <2>1. DemoStudy[i] \in Studies
    BY RepositoryAssumption
  <2>2. studies[DemoStudy[i]] # None
    BY <1>1, <1>4, <2>1 DEF MayCreate
  <2> QED
    BY <2>2 DEF IInv, DemoIsSingle
<1> QED
  BY <1>2, <1>3, <1>4 DEF DemoIsSingle

LEMMA SavesKeep ==
  ASSUME IInv, Saves
  PROVE  IInv'
<1>1. PICK o \in Operations, s \in Studies, deleted \in BOOLEAN, d \in Documents :
        \E expected \in 0..Revision(s) :
          /\ studies[s] = None => MayCreate(s)
          /\ SaveStudy(o, s, expected, deleted, d)
  BY DEF Saves
<1>0. PICK expected \in 0..Revision(s) :
        /\ studies[s] = None => MayCreate(s)
        /\ SaveStudy(o, s, expected, deleted, d)
  BY <1>1
<1>2. Stores(o, s, d.executions)
  BY <1>0, SaveStores
<1>3. marker' = marker /\ installing' = installing
  BY <1>0 DEF SaveStudy
<1>4. DemoIsSingle'
  BY <1>0, <1>2, <1>3, DemoStays
<1> QED
  BY <1>2, <1>3, <1>4, StoresKeepInv DEF IInv, Types

LEMMA AppendsKeep ==
  ASSUME IInv, Appends
  PROVE  IInv'
<1>1. PICK o \in Operations, s \in Studies, r \in Executions, t \in Executions :
        \E expected \in 0..Revision(s) : AppendDiagnosticAttempt(o, s, expected, r, t)
  BY DEF Appends
<1>0. PICK expected \in 0..Revision(s) : AppendDiagnosticAttempt(o, s, expected, r, t)
  BY <1>1
<1>2. Stores(o, s, WithPair(History(s), r, t))
  BY <1>0, AppendStores
<1>3. marker' = marker /\ installing' = installing /\ studies[s] # None
  BY <1>0 DEF AppendDiagnosticAttempt
<1>4. DemoIsSingle'
  BY <1>2, <1>3, DemoStays
<1> QED
  BY <1>2, <1>3, <1>4, StoresKeepInv DEF IInv, Types

LEMMA RestoresKeep ==
  ASSUME IInv, Restores
  PROVE  IInv'
<1>1. PICK o \in Operations, s \in Studies :
        \E expected \in 0..Revision(s) : RestoreStudy(o, s, expected)
  BY DEF Restores
<1>0. PICK expected \in 0..Revision(s) : RestoreStudy(o, s, expected)
  BY <1>1
<1>2. Stores(o, s, History(s))
  BY <1>0, RestoreStores
<1>3. marker' = marker /\ installing' = installing /\ studies[s] # None
  BY <1>0 DEF RestoreStudy
<1>4. DemoIsSingle'
  BY <1>2, <1>3, DemoStays
<1> QED
  BY <1>2, <1>3, <1>4, StoresKeepInv DEF IInv, Types

LEMMA NothingLaid ==
  <<>> \in Histories /\ Lays(NoExecutions, <<>>) /\ NoExecutions \in [Executions -> ExecutionRow \cup {None}]
<1>1. <<>> \in Histories
  BY DEF Histories
<1>2. NoExecutions \in [Executions -> ExecutionRow \cup {None}] /\ \A e \in Executions : NoExecutions[e] = None
  BY DEF NoExecutions
<1> QED
  BY <1>1, <1>2 DEF Lays

LEMMA PurgesKeep ==
  ASSUME IInv, Purges
  PROVE  IInv'
<1>1. PICK s \in Studies : PurgeStudy(s)
  BY DEF Purges
<1>2. /\ studies' = [studies EXCEPT ![s] = None]
      /\ executions' = [executions EXCEPT ![s] = NoExecutions]
      /\ summaries' = [summaries EXCEPT ![s] = None]
      /\ operations' = [o \in DOMAIN operations |->
                          IF o \in RecordsOf(s) THEN Purged ELSE operations[o]]
      /\ marker' = IF marker # None /\ marker.study = s
                   THEN [marker EXCEPT !.status = "REMOVED"] ELSE marker
      /\ installing' = installing
  BY <1>1 DEF PurgeStudy
<1>3. Types /\ Laid
  BY DEF IInv
<1>4. /\ studies'[s] = None /\ executions'[s] = NoExecutions /\ summaries'[s] = None
      /\ \A p \in Studies \ {s} : /\ studies'[p] = studies[p] /\ executions'[p] = executions[p]
                                  /\ summaries'[p] = summaries[p]
  BY <1>2, <1>3 DEF Types
<1>5. marker' \in Marker \cup {None}
  BY <1>2, <1>3 DEF Types, Marker
<1>6. Types'
  <2>1. operations' \in [Operations \cup Installations -> OperationRow \cup {None, Purged}]
    BY <1>2, <1>3 DEF Types
  <2>2. /\ studies' \in [Studies -> StudyRow \cup {None}]
        /\ summaries' \in [Studies -> SummaryRow \cup {None}]
    BY <1>2, <1>3 DEF Types
  <2>3. executions' \in [Studies -> [Executions -> ExecutionRow \cup {None}]]
    BY <1>2, <1>3, NothingLaid DEF Types
  <2> QED
    BY <1>2, <1>3, <1>5, <2>1, <2>2, <2>3 DEF Types
<1>7. History(s)' = <<>>
  BY <1>4, NothingLaid, LaysBack, OfRowsNext
<1>8. \A p \in Studies \ {s} : History(p)' = History(p)
  BY <1>4, OfRows, OfRowsNext
<1>9. Laid'
  <2> SUFFICES ASSUME NEW p \in Studies
               PROVE  /\ History(p)' \in Histories /\ Lays(executions'[p], History(p)')
                      /\ studies'[p] = None => History(p)' = <<>>
    BY DEF Laid
  <2>1. CASE p = s
    BY <1>4, <1>7, <2>1, NothingLaid
  <2>2. CASE p # s
    BY <1>3, <1>4, <1>8, <2>2 DEF Laid
  <2> QED
    BY <2>1, <2>2
<1>10. CatalogExact'
  <2> SUFFICES ASSUME NEW p \in Studies
               PROVE  IF studies'[p] = None THEN summaries'[p] = None
                      ELSE summaries'[p] = SummaryOf(studies'[p], Len(History(p)'))
    BY DEF CatalogExact
  <2>1. CASE p = s
    BY <1>4, <2>1
  <2>2. CASE p # s
    BY <1>4, <1>8, <2>2 DEF IInv, CatalogExact
  <2> QED
    BY <2>1, <2>2
<1>11. StoredValid'
  <2> SUFFICES ASSUME NEW p \in Studies, studies'[p] # None
               PROVE  Valid(studies'[p].scenarios, History(p)')
    BY DEF StoredValid, Valid, OfAttempt, Diagnostics
  <2> QED
    BY <1>4, <1>8 DEF IInv, StoredValid
<1>12. RecordsFit'
  <2> SUFFICES ASSUME NEW q \in Operations \cup Installations, operations'[q] \in OperationRow,
                      NEW p, p = operations'[q].entity
               PROVE  studies'[p] # None /\ Answers(operations'[q], studies'[p].revision, History(p)')
    BY DEF RecordsFit, Answers, IdsOf
  <2>1. operations'[q] = operations[q] /\ q \notin RecordsOf(s)
    BY <1>2, <1>3, NothingIsNone DEF Types
  <2>2. operations[q] \in OperationRow /\ operations[q] # None /\ operations[q] # Purged
    BY <2>1, NothingIsNone
  <2>3. q \in DOMAIN operations
    BY <1>3 DEF Types
  <2>4. p # s /\ p \in Studies
    BY <2>1, <2>2, <2>3 DEF RecordsOf, OperationRow
  <2> QED
    BY <1>4, <1>8, <2>1, <2>2, <2>4 DEF IInv, RecordsFit
<1>13. DemoIsSingle'
  <2>1. ASSUME Installed'
        PROVE  studies'[marker'.study] # None
    <3>1. marker' = marker /\ marker # None /\ marker.study # s
      BY <1>2, <1>3, <2>1 DEF Installed, Types, Marker
    <3>2. studies[marker.study] # None /\ marker.study \in Studies
      BY <1>3, <2>1, <3>1 DEF Installed, IInv, DemoIsSingle, Types, Marker
    <3> QED
      BY <1>4, <3>1, <3>2
  <2>2. ASSUME NEW i \in Installations, studies'[DemoStudy[i]] # None
        PROVE  Installed' /\ marker'.study = DemoStudy[i]
    <3>1. DemoStudy[i] \in Studies /\ DemoStudy[i] # s /\ studies[DemoStudy[i]] # None
      BY <1>4, <2>2, RepositoryAssumption
    <3>2. Installed /\ marker.study = DemoStudy[i]
      BY <3>1 DEF IInv, DemoIsSingle
    <3>3. marker' = marker
      BY <1>2, <3>1, <3>2
    <3> QED
      BY <3>2, <3>3 DEF Installed
  <2> QED
    BY <2>1, <2>2 DEF DemoIsSingle
<1> QED
  BY <1>6, <1>9, <1>10, <1>11, <1>12, <1>13 DEF IInv

\* Nothing but the calls in course changes.
LEMMA CallsKeep ==
  ASSUME IInv, UNCHANGED <<studies, executions, summaries, operations, marker>>,
         installing' \in [Installations -> Calls \cup {None}]
  PROVE  IInv'
<1>1. \A s : History(s)' = History(s)
  BY HistoriesStay
<1>2. Types'
  BY DEF IInv, Types
<1>3. Laid' /\ CatalogExact'
  BY <1>1 DEF IInv, Laid, CatalogExact
<1>4. StoredValid'
  <2> SUFFICES ASSUME NEW p \in Studies, studies'[p] # None
               PROVE  Valid(studies'[p].scenarios, History(p)')
    BY DEF StoredValid, Valid, OfAttempt, Diagnostics
  <2> QED
    BY <1>1 DEF IInv, StoredValid
<1>5. RecordsFit'
  <2> SUFFICES ASSUME NEW q \in Operations \cup Installations, operations'[q] \in OperationRow,
                      NEW p, p = operations'[q].entity
               PROVE  studies'[p] # None /\ Answers(operations'[q], studies'[p].revision, History(p)')
    BY DEF RecordsFit, Answers, IdsOf
  <2> QED
    BY <1>1 DEF IInv, RecordsFit
<1>6. DemoIsSingle'
  BY DEF IInv, DemoIsSingle, Installed
<1> QED
  BY <1>2, <1>3, <1>4, <1>5, <1>6 DEF IInv

LEMMA ReadIsView ==
  ASSUME Types, Laid
  PROVE  DemoView \in Views
<1>1. CASE ~Installed
  BY <1>1 DEF DemoView, Views, Types
<1>2. CASE Installed
  <2>1. marker \in Marker /\ marker.study \in Studies
    BY <1>2 DEF Installed, Types, Marker
  <2>2. Assembled(marker.study) \in Assemblies
    BY <2>1 DEF Assembled, Assemblies, Types, Laid
  <2> QED
    BY <1>2, <2>1, <2>2 DEF DemoView, Views
<1> QED
  BY <1>1, <1>2

LEMMA InstallsKeep ==
  ASSUME IInv, NEW o \in Installations,
         \/ \E mode \in Modes : InstallDemoStudy(o, mode)
         \/ InstallReads(o) \/ InstallRetries(o) \/ InstallAnswers(o)
         \/ InstallRestores(o) \/ InstallPublishes(o)
  PROVE  IInv'
<1>1. /\ installing \in [Installations -> Calls \cup {None}] /\ marker \in Marker \cup {None}
      /\ \A c \in Calls : c.mode \in Modes /\ c.tries \in 0..MaxTries - 1
  BY DEF IInv, Types, Calls
<1>2. ASSUME NEW mode \in Modes, InstallDemoStudy(o, mode)
      PROVE  IInv'
  <2>1. [mode |-> mode, tries |-> 0, read |-> None] \in Calls
    BY DEF Calls, MaxTries
  <2>2. installing' \in [Installations -> Calls \cup {None}]
    BY <1>1, <1>2, <2>1 DEF InstallDemoStudy
  <2> QED
    BY <1>2, <2>2, CallsKeep DEF InstallDemoStudy
<1>3. CASE InstallReads(o)
  <2>1. DemoView \in Views
    BY ReadIsView DEF IInv
  <2>2. installing[o] \in Calls
    BY <1>1, <1>3 DEF InstallReads
  <2>3. [installing[o] EXCEPT !.read = DemoView] \in Calls
    BY <2>1, <2>2 DEF Calls
  <2>4. installing' \in [Installations -> Calls \cup {None}]
    BY <1>1, <1>3, <2>3 DEF InstallReads
  <2> QED
    BY <1>3, <2>4, CallsKeep DEF InstallReads
<1>4. CASE InstallRetries(o)
  <2>1. installing[o] \in Calls
    BY <1>1, <1>4 DEF InstallRetries, Ready
  <2>2. installing[o].tries + 1 # MaxTries
          => [mode |-> installing[o].mode, tries |-> installing[o].tries + 1, read |-> None] \in Calls
    <3>1. installing[o].tries + 1 # MaxTries => installing[o].tries + 1 \in 0..MaxTries - 1
      BY <1>1, <2>1 DEF MaxTries
    <3> QED
      BY <1>1, <2>1, <3>1 DEF Calls
  <2>3. installing' \in [Installations -> Calls \cup {None}]
    BY <1>1, <1>4, <2>2 DEF InstallRetries
  <2> QED
    BY <1>4, <2>3, CallsKeep DEF InstallRetries
<1>5. CASE InstallAnswers(o)
  <2>1. installing' \in [Installations -> Calls \cup {None}]
    BY <1>1, <1>5 DEF InstallAnswers
  <2> QED
    BY <1>5, <2>1, CallsKeep DEF InstallAnswers
<1>6. CASE InstallRestores(o)
  <2>1. /\ Stores(o, marker.study, History(marker.study)) /\ studies[marker.study] # None
    BY <1>6, InstallRestoresStores
  <2>2. marker' = marker /\ installing' \in [Installations -> Calls \cup {None}]
    BY <1>1, <1>6 DEF InstallRestores
  <2>3. DemoIsSingle'
    BY <2>1, <2>2, DemoStays
  <2> QED
    BY <1>1, <2>1, <2>2, <2>3, StoresKeepInv
<1>7. CASE InstallPublishes(o)
  <2> DEFINE s == DemoStudy[o]
  <2>1. s \in Studies /\ Stores(o, s, DemoHistory)
    BY <1>7, PublishStores
  <2>2. /\ ~Installed /\ marker' = [status |-> "INSTALLED", study |-> s]
        /\ installing' \in [Installations -> Calls \cup {None}]
    BY <1>1, <1>7 DEF InstallPublishes
  <2>3. marker' \in Marker
    BY <2>1, <2>2 DEF Marker
  <2>4. studies'[s] # None /\ \A p \in Studies \ {s} : studies'[p] = studies[p]
    BY <2>1, StoredHistory DEF IInv
  <2>5. \A i \in Installations : studies[DemoStudy[i]] = None
    BY <2>2 DEF IInv, DemoIsSingle
  <2>6. \A i \in Installations : studies'[DemoStudy[i]] # None => DemoStudy[i] = s
    BY <2>4, <2>5, RepositoryAssumption
  <2>7. marker' # None /\ marker'.status = "INSTALLED" /\ marker'.study = s
    BY <2>2, <2>3, NothingIsNone
  <2>8. DemoIsSingle'
    BY <2>4, <2>6, <2>7 DEF DemoIsSingle, Installed
  <2> QED
    BY <2>1, <2>2, <2>3, <2>8, StoresKeepInv
<1> QED
  BY <1>2, <1>3, <1>4, <1>5, <1>6, <1>7

LEMMA InitHolds == Init => IInv
<1> SUFFICES ASSUME Init PROVE IInv
  OBVIOUS
<1> USE DEF Init
<1>1. Types
  BY NothingLaid DEF Types
<1>2. \A s \in Studies : History(s) = <<>>
  BY NothingLaid, LaysBack, OfRows
<1>3. Laid
  BY <1>2, NothingLaid DEF Laid
<1>4. CatalogExact /\ StoredValid
  BY DEF CatalogExact, StoredValid
<1>5. RecordsFit
  BY NothingIsNone DEF RecordsFit
<1>6. DemoIsSingle
  BY RepositoryAssumption DEF DemoIsSingle, Installed
<1> QED
  BY <1>1, <1>3, <1>4, <1>5, <1>6 DEF IInv

LEMMA NextKeeps == IInv /\ [Next]_vars => IInv'
<1> SUFFICES ASSUME IInv, [Next]_vars PROVE IInv'
  OBVIOUS
<1>1. CASE Saves
  BY <1>1, SavesKeep
<1>2. CASE Appends
  BY <1>2, AppendsKeep
<1>3. CASE Restores
  BY <1>3, RestoresKeep
<1>4. CASE Purges
  BY <1>4, PurgesKeep
<1>5. CASE Installs
  BY <1>5, InstallsKeep DEF Installs
<1>6. CASE UNCHANGED vars
  BY <1>6, CallsKeep DEF vars, IInv, Types
<1> QED
  BY <1>1, <1>2, <1>3, <1>4, <1>5, <1>6 DEF Next

\* The invariant that the others follow from: the rows are laid out as histories, and the
\* catalogue, the records and the marker tell the truth of them.
THEOREM InvariantHolds == Spec => []IInv
<1>1. Init => IInv
  BY InitHolds
<1>2. IInv /\ [Next]_vars => IInv'
  BY NextKeeps
<1> QED
  BY <1>1, <1>2, PTL DEF Spec

\* Every store holds rows of its shape, whatever the callers offer.
THEOREM TypesHold == Spec => []TypeOK
<1>1. IInv => TypeOK
  <2> SUFFICES ASSUME IInv PROVE TypeOK
    OBVIOUS
  <2>1. Types
    BY DEF IInv
  <2>2. \A c \in Calls : c.mode \in Modes /\ c.tries \in 0..MaxTries - 1
    BY DEF Calls
  <2> QED
    BY <2>1, <2>2 DEF Types, TypeOK
<1> QED
  BY <1>1, InvariantHolds, PTL

\* The sequences of a study's execution rows are 0, 1, ... without gap or repetition, so
\* that saveStudy and appendDiagnosticAttempt may take them for positions.
THEOREM SequencesAreDense == Spec => []SequencesDense
<1>1. IInv => SequencesDense
  <2> SUFFICES ASSUME IInv, NEW s \in Studies
               PROVE  /\ \A e \in RowsOf(s) : executions[s][e].sequence \in 0..Cardinality(RowsOf(s)) - 1
                      /\ \A e, f \in RowsOf(s) :
                            executions[s][e].sequence = executions[s][f].sequence => e = f
    BY DEF SequencesDense
  <2> DEFINE h == History(s)
  <2>1. /\ h \in Histories /\ RowsOf(s) = {h[i].id : i \in DOMAIN h}
        /\ Cardinality(RowsOf(s)) = Len(h)
        /\ \A i \in DOMAIN h : executions[s][h[i].id] = [sequence |-> i - 1, status |-> h[i].status]
    BY StoredRows DEF IInv
  <2>2. Len(h) \in Nat /\ DOMAIN h = 1..Len(h)
    BY <2>1, HistoryFacts
  <2>3. \A i \in DOMAIN h : executions[s][h[i].id].sequence = i - 1
    <3> TAKE i \in DOMAIN h
    <3>1. executions[s][h[i].id] = [sequence |-> i - 1, status |-> h[i].status]
      BY <2>1
    <3> QED
      BY <3>1, FieldsOf
  <2> HIDE DEF h
  <2>4. \A i \in DOMAIN h : i - 1 \in 0..Len(h) - 1
    BY <2>2
  <2>5. \A e \in RowsOf(s) : \E i \in DOMAIN h : e = h[i].id /\ executions[s][e].sequence = i - 1
    BY <2>1, <2>3
  <2>6. \A i, j \in DOMAIN h : i - 1 = j - 1 => i = j
    BY <2>2
  <2>7. ASSUME NEW e \in RowsOf(s)
        PROVE  executions[s][e].sequence \in 0..Cardinality(RowsOf(s)) - 1
    BY <2>1, <2>4, <2>5
  <2>8. ASSUME NEW e \in RowsOf(s), NEW f \in RowsOf(s),
               executions[s][e].sequence = executions[s][f].sequence
        PROVE  e = f
    <3>1. PICK i \in DOMAIN h : e = h[i].id /\ executions[s][e].sequence = i - 1
      BY <2>5
    <3>2. PICK j \in DOMAIN h : f = h[j].id /\ executions[s][f].sequence = j - 1
      BY <2>5
    <3> QED
      BY <2>6, <2>8, <3>1, <3>2
  <2> QED
    BY <2>7, <2>8
<1> QED
  BY <1>1, InvariantHolds, PTL

\* The catalogue tells of exactly the stored studies, with their revision, their deletion
\* and their number of executions.
THEOREM SummariesAreExact == Spec => []SummaryExact
<1>1. IInv => SummaryExact
  <2> SUFFICES ASSUME IInv, NEW s \in Studies
               PROVE  IF studies[s] = None THEN summaries[s] = None /\ RowsOf(s) = {}
                      ELSE summaries[s] = SummaryOf(studies[s], Cardinality(RowsOf(s)))
    BY DEF SummaryExact
  <2>1. /\ RowsOf(s) = {History(s)[i].id : i \in DOMAIN History(s)}
        /\ Cardinality(RowsOf(s)) = Len(History(s))
    BY StoredRows DEF IInv
  <2>2. studies[s] = None => History(s) = <<>>
    BY DEF IInv, Laid
  <2>3. studies[s] = None => RowsOf(s) = {}
    BY <2>1, <2>2
  <2> QED
    BY <2>1, <2>3 DEF IInv, CatalogExact
<1> QED
  BY <1>1, InvariantHolds, PTL

\* What is stored is a valid document, though an append validates only its own pair.
THEOREM StoredStaysValid == Spec => []StoredIsValid
<1>1. IInv => StoredIsValid
  BY DEF IInv, StoredValid, StoredIsValid, Stored
<1> QED
  BY <1>1, InvariantHolds, PTL

\* A repeated call is answered with what is stored: of a study that is there, at its
\* revision or a later one, and completely while no other revision followed.
THEOREM RecordsAnswerTruly == Spec => []RecordsAgree
<1>1. IInv => RecordsAgree
  <2> SUFFICES ASSUME IInv, NEW o \in DOMAIN operations, operations[o] \notin {None, Purged}
               PROVE  /\ studies[operations[o].entity] # None
                      /\ Answers(operations[o], studies[operations[o].entity].revision,
                                 History(operations[o].entity))
    BY DEF RecordsAgree, Answers
  <2>1. o \in Operations \cup Installations /\ operations[o] \in OperationRow
    BY DEF IInv, Types
  <2> QED
    BY <2>1 DEF IInv, RecordsFit
<1> QED
  BY <1>1, InvariantHolds, PTL

\* There is one demonstration at most, and an installed marker names a stored study.
THEOREM DemoStaysSingle == Spec => []DemoIsSingle
<1>1. IInv => DemoIsSingle
  BY DEF IInv
<1> QED
  BY <1>1, InvariantHolds, PTL

-----------------------------------------------------------------------------
(* What a step never does                                                    *)

Advances(s) ==
    studies'[s] # None /\ (studies'[s] # studies[s] \/ executions'[s] # executions[s])
    => studies'[s].revision = Revision(s) + 1

LEMMA StoresAdvance ==
  ASSUME IInv, NEW o, NEW s, NEW h, Stores(o, s, h)
  PROVE  \A p \in Studies : Advances(p)
<1> TAKE p \in Studies
<1>1. CASE p = s
  BY <1>1 DEF Stores, Advances
<1>2. CASE p # s
  BY <1>2, StoredHistory DEF IInv, Advances
<1> QED
  BY <1>1, <1>2

LEMMA QuietAdvances ==
  ASSUME studies' = studies, executions' = executions
  PROVE  \A p \in Studies : Advances(p)
  BY DEF Advances

\* The five transactions that leave a study stored, and what else may happen.
LEMMA Transactions ==
  ASSUME IInv, [Next]_vars
  PROVE  \/ \E o, s, h : Stores(o, s, h)
         \/ \E s \in Studies : PurgeStudy(s)
         \/ studies' = studies /\ executions' = executions
<1>1. CASE Saves
  <2>1. PICK o \in Operations, s \in Studies, deleted \in BOOLEAN, d \in Documents :
          \E expected \in 0..Revision(s) : SaveStudy(o, s, expected, deleted, d)
    BY <1>1 DEF Saves
  <2> QED
    BY <2>1, SaveStores
<1>2. CASE Appends
  <2>1. PICK o \in Operations, s \in Studies, r \in Executions, t \in Executions :
          \E expected \in 0..Revision(s) : AppendDiagnosticAttempt(o, s, expected, r, t)
    BY <1>2 DEF Appends
  <2> QED
    BY <2>1, AppendStores
<1>3. CASE Restores
  <2>1. PICK o \in Operations, s \in Studies :
          \E expected \in 0..Revision(s) : RestoreStudy(o, s, expected)
    BY <1>3 DEF Restores
  <2> QED
    BY <2>1, RestoreStores
<1>4. CASE Purges
  BY <1>4 DEF Purges
<1>5. ASSUME NEW o \in Installations,
             \/ \E mode \in Modes : InstallDemoStudy(o, mode)
             \/ InstallReads(o) \/ InstallRetries(o) \/ InstallAnswers(o)
      PROVE  studies' = studies /\ executions' = executions
  BY <1>5 DEF InstallDemoStudy, InstallReads, InstallRetries, InstallAnswers
<1>6. ASSUME NEW o \in Installations, InstallRestores(o) \/ InstallPublishes(o)
      PROVE  \E s, h : Stores(o, s, h)
  BY <1>6, InstallRestoresStores, PublishStores
<1>7. CASE Installs
  BY <1>5, <1>6, <1>7 DEF Installs
<1>8. CASE UNCHANGED vars
  BY <1>8 DEF vars
<1> QED
  BY <1>1, <1>2, <1>3, <1>4, <1>7, <1>8 DEF Next

\* A revision names one content: whatever changes a study or its executions takes the next
\* one, an install over edits it read earlier included.
THEOREM RevisionsDoAdvance == Spec => RevisionsAdvance
<1>1. IInv /\ [Next]_vars => \A s \in Studies : Advances(s)
  <2> SUFFICES ASSUME IInv, [Next]_vars PROVE \A s \in Studies : Advances(s)
    OBVIOUS
  <2>1. ASSUME NEW p \in Studies, PurgeStudy(p)
        PROVE  \A s \in Studies : Advances(s)
    BY <2>1 DEF PurgeStudy, IInv, Types, Advances
  <2> QED
    BY <2>1, Transactions, StoresAdvance, QuietAdvances
<1>2. IInv /\ [Next]_vars =>
        [\A s \in Studies :
          studies'[s] # None /\ (studies'[s] # studies[s] \/ executions'[s] # executions[s])
          => studies'[s].revision = Revision(s) + 1]_vars
  BY <1>1 DEF Advances
<1> QED
  BY <1>2, InvariantHolds, PTL DEF Spec, RevisionsAdvance

\* What EvidenceKept says of one study.
Keeps(s) ==
    /\ \A e \in RowsOf(s) :
         \/ executions'[s][e] = None /\ About[e].scenario \notin studies'[s].scenarios
         \/ /\ executions'[s][e] # None
            /\ \/ executions'[s][e].status = executions[s][e].status
               \/ Interrupts(executions[s][e].status, executions'[s][e].status)
    /\ \A e, f \in RowsOf(s) :
         /\ executions'[s][e] # None /\ executions'[s][f] # None
         /\ executions[s][e].sequence < executions[s][f].sequence
         => executions'[s][e].sequence < executions'[s][f].sequence

LEMMA RowsStayKeeps ==
  ASSUME NEW s, \A e \in RowsOf(s) : executions'[s][e] = executions[s][e]
  PROVE  Keeps(s)
  BY DEF Keeps, RowsOf

LEMMA SequencesAreNumbers ==
  ASSUME Laid, NEW s \in Studies, NEW e \in RowsOf(s)
  PROVE  /\ executions[s][e].sequence \in Nat
         /\ \E i \in DOMAIN History(s) : e = History(s)[i].id /\ executions[s][e].sequence = i - 1
<1> DEFINE h == History(s)
<1>1. /\ h \in Histories /\ RowsOf(s) = {h[i].id : i \in DOMAIN h}
      /\ \A i \in DOMAIN h : executions[s][h[i].id] = [sequence |-> i - 1, status |-> h[i].status]
  BY StoredRows
<1>2. DOMAIN h = 1..Len(h) /\ Len(h) \in Nat
  BY <1>1, HistoryFacts
<1> HIDE DEF h
<1>3. PICK i \in DOMAIN h : e = h[i].id
  BY <1>1
<1>4. executions[s][e] = [sequence |-> i - 1, status |-> h[i].status]
  BY <1>1, <1>3
<1>5. executions[s][e].sequence = i - 1
  BY <1>4, FieldsOf
<1>6. i - 1 \in Nat
  BY <1>2
<1> QED
  BY <1>3, <1>5, <1>6 DEF h

Before(s, e) == {f \in RowsOf(s) : executions[s][f].sequence < executions[s][e].sequence}

GoneBefore(s, d, e) == {f \in Gone(s, d) : executions[s][f].sequence < executions[s][e].sequence}

\* A row's sequence counts the rows before it.
LEMMA CountBefore ==
  ASSUME Laid, NEW s \in Studies, NEW e \in RowsOf(s)
  PROVE  IsFiniteSet(Before(s, e)) /\ Cardinality(Before(s, e)) = executions[s][e].sequence
<1> DEFINE h == History(s)
           k == executions[s][e].sequence
<1>1. /\ h \in Histories /\ RowsOf(s) = {h[i].id : i \in DOMAIN h}
      /\ \A i \in DOMAIN h : executions[s][h[i].id] = [sequence |-> i - 1, status |-> h[i].status]
  BY StoredRows
<1>2. DOMAIN h = 1..Len(h) /\ Len(h) \in Nat
  BY <1>1, HistoryFacts
<1>3. PICK i \in DOMAIN h : e = h[i].id /\ k = i - 1
  BY SequencesAreNumbers
<1>4. \A j \in DOMAIN h : executions[s][h[j].id].sequence = j - 1
  <2> TAKE j \in DOMAIN h
  <2>1. executions[s][h[j].id] = [sequence |-> j - 1, status |-> h[j].status]
    BY <1>1
  <2> QED
    BY <2>1, FieldsOf
<1> HIDE DEF h, k
<1>5. Before(s, e) = {h[j].id : j \in 1..k}
  <2>1. \A j \in DOMAIN h : j - 1 < k => j \in 1..k
    BY <1>2, <1>3
  <2>2. \A j \in 1..k : j \in DOMAIN h /\ j - 1 < k
    BY <1>2, <1>3
  <2>3. \A f \in Before(s, e) : \E j \in 1..k : f = h[j].id
    BY <1>1, <1>4, <2>1 DEF Before, k
  <2>4. \A j \in 1..k : h[j].id \in Before(s, e)
    BY <1>1, <1>4, <2>2 DEF Before, k
  <2> QED
    BY <2>3, <2>4
<1>6. k \in 0..Len(h)
  BY <1>2, <1>3
<1> QED
  BY <1>1, <1>5, <1>6, FirstRecords DEF k

\* Rows that stay keep their order, as they slide.
LEMMA SlideKeepsOrder ==
  ASSUME Laid, NEW s \in Studies, NEW d, NEW e \in RowsOf(s) \ Gone(s, d), NEW f \in RowsOf(s),
         executions[s][e].sequence < executions[s][f].sequence
  PROVE  /\ Cardinality(GoneBefore(s, d, e)) \in Nat /\ Cardinality(GoneBefore(s, d, f)) \in Nat
         /\ executions[s][e].sequence - Cardinality(GoneBefore(s, d, e))
              < executions[s][f].sequence - Cardinality(GoneBefore(s, d, f))
<1> DEFINE Staying(x) == Before(s, x) \ GoneBefore(s, d, x)
           seq(x) == executions[s][x].sequence
<1>1. ASSUME NEW x \in RowsOf(s)
      PROVE  /\ IsFiniteSet(Staying(x)) /\ Cardinality(Staying(x)) \in Nat
             /\ Cardinality(GoneBefore(s, d, x)) \in Nat /\ seq(x) \in Nat
             /\ Cardinality(Staying(x)) = seq(x) - Cardinality(GoneBefore(s, d, x))
  <2>1. IsFiniteSet(Before(s, x)) /\ Cardinality(Before(s, x)) = seq(x)
    BY CountBefore
  <2>2. GoneBefore(s, d, x) \subseteq Before(s, x)
    BY DEF GoneBefore, Before, Gone
  <2>3. Before(s, x) \cap GoneBefore(s, d, x) = GoneBefore(s, d, x)
    BY <2>2
  <2>4. IsFiniteSet(GoneBefore(s, d, x))
    BY <2>1, <2>2, FS_Subset
  <2>5. /\ IsFiniteSet(Staying(x))
        /\ Cardinality(Staying(x)) = Cardinality(Before(s, x)) - Cardinality(GoneBefore(s, d, x))
    <3> DEFINE B == Before(s, x)
               G == GoneBefore(s, d, x)
    <3>1. IsFiniteSet(B) /\ B \cap G = G
      BY <2>1, <2>3
    <3> HIDE DEF B, G
    <3>2. IsFiniteSet(B \ G) /\ Cardinality(B \ G) = Cardinality(B) - Cardinality(B \cap G)
      BY <3>1, FS_Difference
    <3>3. IsFiniteSet(B \ G) /\ Cardinality(B \ G) = Cardinality(B) - Cardinality(G)
      BY <3>1, <3>2
    <3> QED
      BY <3>3 DEF B, G
  <2>6. /\ Cardinality(Staying(x)) \in Nat /\ Cardinality(GoneBefore(s, d, x)) \in Nat
        /\ Cardinality(Before(s, x)) \in Nat
    BY <2>1, <2>4, <2>5, FS_CardinalityType
  <2> QED
    BY <2>1, <2>5, <2>6
<1>2. Staying(e) \cup {e} \subseteq Staying(f) /\ e \notin Staying(e)
  <2>1. \A x \in RowsOf(s) : seq(x) \in Nat
    BY SequencesAreNumbers
  <2>2. \A x \in Staying(e) : x \in Staying(f)
    BY <2>1 DEF Before, GoneBefore, Gone
  <2>3. e \in Staying(f)
    BY <2>1 DEF Before, GoneBefore
  <2>4. e \notin Before(s, e)
    BY <2>1 DEF Before
  <2> QED
    BY <2>2, <2>3, <2>4
<1> HIDE DEF Staying, seq
<1>3. Cardinality(Staying(e)) + 1 <= Cardinality(Staying(f))
  <2>1. /\ IsFiniteSet(Staying(e) \cup {e})
        /\ Cardinality(Staying(e) \cup {e}) = Cardinality(Staying(e)) + 1
    BY <1>1, <1>2, FS_AddElement
  <2>2. Cardinality(Staying(e) \cup {e}) <= Cardinality(Staying(f))
    BY <1>1, <1>2, FS_Subset
  <2> QED
    BY <2>1, <2>2
<1>4. /\ Cardinality(GoneBefore(s, d, e)) \in Nat /\ Cardinality(GoneBefore(s, d, f)) \in Nat
      /\ seq(e) \in Nat /\ seq(f) \in Nat
      /\ Cardinality(Staying(e)) = seq(e) - Cardinality(GoneBefore(s, d, e))
      /\ Cardinality(Staying(f)) = seq(f) - Cardinality(GoneBefore(s, d, f))
  BY <1>1
<1>5. seq(e) - Cardinality(GoneBefore(s, d, e)) < seq(f) - Cardinality(GoneBefore(s, d, f))
  BY <1>3, <1>4
<1> QED
  BY <1>4, <1>5 DEF seq

\* The rows after a save: those that go are gone, the others at the place they slide to.
LEMMA SlidRows ==
  ASSUME Laid, NEW s \in Studies, NEW d \in Documents, HistoryKept(s, d), NEW e \in RowsOf(s)
  PROVE  /\ e \in Gone(s, d) => Rewritten(s, d)[e] = None
         /\ e \notin Gone(s, d) =>
              /\ Rewritten(s, d)[e] # None
              /\ Rewritten(s, d)[e].sequence
                   = executions[s][e].sequence - Cardinality(GoneBefore(s, d, e))
              /\ \/ Rewritten(s, d)[e].status = executions[s][e].status
                 \/ Interrupts(executions[s][e].status, Rewritten(s, d)[e].status)
<1>1. e \in Executions
  BY DEF RowsOf
<1>2. ASSUME e \in Gone(s, d)
      PROVE  Rewritten(s, d)[e] = None
  BY <1>1, <1>2 DEF Rewritten, Gone
<1>3. ASSUME e \notin Gone(s, d)
      PROVE  /\ Rewritten(s, d)[e] # None
             /\ Rewritten(s, d)[e].sequence
                  = executions[s][e].sequence - Cardinality(GoneBefore(s, d, e))
             /\ \/ Rewritten(s, d)[e].status = executions[s][e].status
                \/ Interrupts(executions[s][e].status, Rewritten(s, d)[e].status)
  <2> DEFINE seq == executions[s][e].sequence
             count == Cardinality(GoneBefore(s, d, e))
             place == seq - count + 1
  <2>1. /\ place \in DOMAIN d.executions /\ d.executions[place].id = e
        /\ \/ d.executions[place].status = executions[s][e].status
           \/ Interrupts(executions[s][e].status, d.executions[place].status)
    BY <1>3 DEF HistoryKept, GoneBefore
  <2>2. seq \in Nat
    BY SequencesAreNumbers
  <2>3. count \in Nat
    <3>1. GoneBefore(s, d, e) \subseteq RowsOf(s) /\ IsFiniteSet(RowsOf(s))
      BY StoredRows DEF GoneBefore, Gone
    <3> QED
      BY <3>1, FS_Subset, FS_CardinalityType
  <2> HIDE DEF count, seq
  <2>4. place - 1 = seq - count
    BY <2>2, <2>3
  <2> HIDE DEF place
  <2>5. Lays(Rewritten(s, d), d.executions)
    BY SavedRows
  <2>6. Rewritten(s, d)[e] = [sequence |-> place - 1, status |-> d.executions[place].status]
    BY <2>1, <2>5 DEF Lays
  <2>7. /\ Rewritten(s, d)[e].sequence = place - 1
        /\ Rewritten(s, d)[e].status = d.executions[place].status
    BY <2>6, FieldsOf
  <2>8. Rewritten(s, d)[e] # None
    <3>1. place - 1 \in Nat /\ d.executions[place].status \in Statuses
      BY <2>1, DocumentFacts, HistoryFacts
    <3>2. Rewritten(s, d)[e] \in ExecutionRow
      BY <2>6, <3>1 DEF ExecutionRow
    <3> QED
      BY <3>2, NothingIsNone
  <2> QED
    BY <2>1, <2>4, <2>7, <2>8 DEF seq, count
<1> QED
  BY <1>2, <1>3

LEMMA SaveKeeps ==
  ASSUME IInv, NEW o \in Operations, NEW s \in Studies, NEW deleted \in BOOLEAN,
         NEW d \in Documents, NEW expected \in 0..Revision(s),
         SaveStudy(o, s, expected, deleted, d)
  PROVE  Keeps(s)
<1>1. Types /\ Laid
  BY DEF IInv
<1>2. HistoryKept(s, d)
  BY DEF SaveStudy
<1>3. executions'[s] = Rewritten(s, d)
  BY <1>1 DEF SaveStudy, Types
<1>4. studies'[s].scenarios = d.scenarios
  BY <1>1 DEF SaveStudy, Types
<1>5. ASSUME NEW e \in RowsOf(s)
      PROVE  \/ executions'[s][e] = None /\ About[e].scenario \notin studies'[s].scenarios
             \/ /\ executions'[s][e] # None
                /\ \/ executions'[s][e].status = executions[s][e].status
                   \/ Interrupts(executions[s][e].status, executions'[s][e].status)
  <2>1. CASE e \in Gone(s, d)
    <3>1. About[e].scenario \notin d.scenarios
      BY <2>1 DEF Gone
    <3> QED
      BY <1>1, <1>2, <1>3, <1>4, <2>1, <3>1, SlidRows
  <2>2. CASE e \notin Gone(s, d)
    BY <1>1, <1>2, <1>3, <2>2, SlidRows
  <2> QED
    BY <2>1, <2>2
<1>6. ASSUME NEW e \in RowsOf(s), NEW f \in RowsOf(s),
             executions'[s][e] # None, executions'[s][f] # None,
             executions[s][e].sequence < executions[s][f].sequence
      PROVE  executions'[s][e].sequence < executions'[s][f].sequence
  <2>1. e \notin Gone(s, d) /\ f \notin Gone(s, d)
    BY <1>1, <1>2, <1>3, <1>6, SlidRows
  <2>2. /\ executions'[s][e].sequence
             = executions[s][e].sequence - Cardinality(GoneBefore(s, d, e))
        /\ executions'[s][f].sequence
             = executions[s][f].sequence - Cardinality(GoneBefore(s, d, f))
    BY <1>1, <1>2, <1>3, <2>1, SlidRows
  <2>3. executions[s][e].sequence - Cardinality(GoneBefore(s, d, e))
          < executions[s][f].sequence - Cardinality(GoneBefore(s, d, f))
    BY <1>1, <1>6, <2>1, SlideKeepsOrder
  <2> QED
    BY <2>2, <2>3
<1> QED
  BY <1>5, <1>6 DEF Keeps

LEMMA OthersKeep ==
  ASSUME IInv, NEW o, NEW s, NEW h, Stores(o, s, h), studies[s] # None => Keeps(s)
  PROVE  \A p \in Stored : Keeps(p)
<1> SUFFICES ASSUME NEW p \in Stored, p # s PROVE Keeps(p)
  BY DEF Stored
<1>1. executions'[p] = executions[p]
  BY StoredHistory DEF Stored, IInv
<1> QED
  BY <1>1, RowsStayKeeps

\* While a study lives, an execution leaves it only with its scenario, its status changes
\* only from open to interrupted, and those that stay keep their order.
THEOREM EvidenceIsKept == Spec => EvidenceKept
<1>1. IInv /\ [Next]_vars => \A s \in Stored : studies'[s] # None => Keeps(s)
  <2> SUFFICES ASSUME IInv, [Next]_vars
               PROVE  \A s \in Stored : studies'[s] # None => Keeps(s)
    OBVIOUS
  <2>1. Types /\ Stored \subseteq Studies
    BY DEF IInv, Stored
  <2>2. CASE executions' = executions
    BY <2>2, RowsStayKeeps
  <2>3. CASE Saves
    <3>1. PICK o \in Operations, s \in Studies, deleted \in BOOLEAN, d \in Documents :
            \E expected \in 0..Revision(s) : SaveStudy(o, s, expected, deleted, d)
      BY <2>3 DEF Saves
    <3>2. Stores(o, s, d.executions) /\ Keeps(s)
      BY <3>1, SaveStores, SaveKeeps
    <3> QED
      BY <3>2, OthersKeep
  <2>4. CASE Appends
    <3>1. PICK o \in Operations, s \in Studies, r \in Executions, t \in Executions :
            \E expected \in 0..Revision(s) : AppendDiagnosticAttempt(o, s, expected, r, t)
      BY <2>4 DEF Appends
    <3>2. Stores(o, s, WithPair(History(s), r, t))
      BY <3>1, AppendStores
    <3>3. \A e \in RowsOf(s) : executions'[s][e] = executions[s][e]
      BY <2>1, <3>1 DEF AppendDiagnosticAttempt, AttemptIsNew, RowsOf, Types
    <3> QED
      BY <3>2, <3>3, RowsStayKeeps, OthersKeep
  <2>5. CASE Restores
    BY <2>2, <2>5 DEF Restores, RestoreStudy
  <2>6. CASE Purges
    <3>1. PICK p \in Studies : PurgeStudy(p)
      BY <2>6 DEF Purges
    <3>2. studies'[p] = None /\ \A s \in Studies \ {p} : executions'[s] = executions[s]
      BY <2>1, <3>1 DEF PurgeStudy, Types
    <3> QED
      BY <2>1, <3>2, RowsStayKeeps
  <2>7. CASE Installs
    <3>1. PICK o \in Installations : \/ InstallPublishes(o)
                                     \/ executions' = executions
      BY <2>7 DEF Installs, InstallDemoStudy, InstallReads, InstallRetries, InstallAnswers,
                  InstallRestores
    <3>2. ASSUME InstallPublishes(o)
          PROVE  \A s \in Stored : Keeps(s)
      BY <3>2, PublishStores, OthersKeep
    <3> QED
      BY <2>2, <3>1, <3>2
  <2>8. CASE UNCHANGED vars
    BY <2>2, <2>8 DEF vars
  <2> QED
    BY <2>3, <2>4, <2>5, <2>6, <2>7, <2>8 DEF Next
<1>2. IInv /\ [Next]_vars =>
        [\A s \in Stored : studies'[s] # None =>
          /\ \A e \in RowsOf(s) :
               \/ executions'[s][e] = None /\ About[e].scenario \notin studies'[s].scenarios
               \/ /\ executions'[s][e] # None
                  /\ \/ executions'[s][e].status = executions[s][e].status
                     \/ Interrupts(executions[s][e].status, executions'[s][e].status)
          /\ \A e, f \in RowsOf(s) :
               /\ executions'[s][e] # None /\ executions'[s][f] # None
               /\ executions[s][e].sequence < executions[s][f].sequence
               => executions'[s][e].sequence < executions'[s][f].sequence]_vars
  BY <1>1 DEF Keeps
<1> QED
  BY <1>2, InvariantHolds, PTL DEF Spec, EvidenceKept
=============================================================================
