---------------------- MODULE DiagnosticAttemptsProofs ----------------------
(***************************************************************************)
(* What holds of the diagnostics of a study for any number of tabs,        *)
(* scenarios, runs, attempts and events.                                   *)
(*                                                                         *)
(* Copies of the study lie about: in tabs, in edits that wait, in runs     *)
(* that hold one across a request.  Any of them may become the stored      *)
(* study, if its turn comes.  So what holds of the stored study is proved  *)
(* of every copy, and of every ending a run has in hand.                   *)
(***************************************************************************)
EXTENDS DiagnosticAttempts, TLAPS, FiniteSetTheorems

-----------------------------------------------------------------------------
(* The inductive invariant                                                   *)

Sure    == {"SUCCEEDED", "CANCELLED"}
Unasked == {"reserving", "submitting", "retrying"}   \* the attempt was not asked for yet

\* A document by itself, when n attempts were made (OneEnding, OneAtATime).
Sound(document, n) ==
    LET records == document.records
    IN  /\ \A i \in DOMAIN records : records[i].attempt <= n
        /\ \A i, j \in DOMAIN records :
               i < j /\ records[i].attempt = records[j].attempt =>
                   /\ records[i].status = "QUEUED" /\ records[j].status \in Endings
                   /\ records[i].scenario = records[j].scenario
        /\ \A c \in Scenarios : \A i, j \in Unfinished(document, c) :
               i < j => Has(document, records[j].repeats, Bad)

\* A document agrees with the server, and has no success or cancellation of an attempt that
\* nobody asked for yet, when n attempts were made and the server has these jobs.
Fits(document, n, jobs, runs) ==
    /\ Sound(document, n)
    /\ \A a \in Attempts :
          /\ Has(document, a, {"SUCCEEDED"}) => jobs[a] \in {"succeeded", "absent"}
          /\ Has(document, a, {"CANCELLED"}) => jobs[a] \in {"cancelled", "absent"}
    /\ \A s \in Slots : runs[s].phase \in Unasked => ~Has(document, runs[s].attempt, Sure)

\* Every copy of the study does.
CopiesFit ==
    /\ Fits(study, issued, job, run)
    /\ \A t \in Tabs :
          /\ Fits(tab[t].base, issued, job, run)
          /\ \A i \in DOMAIN tab[t].pending : Fits(tab[t].pending[i], issued, job, run)
    /\ \A s \in Slots : Fits(run[s].held, issued, job, run)

\* So does an ending of the attempt a.
EndingFits(a, ending, jobs, runs) ==
    /\ ending \in Endings
    /\ ending = "SUCCEEDED" => jobs[a] \in {"succeeded", "absent"}
    /\ ending = "CANCELLED" => jobs[a] \in {"cancelled", "absent"}
    /\ ending \in Sure => \A s \in Slots : ~(runs[s].phase \in Unasked /\ runs[s].attempt = a)

EndingsFit ==
    \A s \in Slots :
        run[s].phase = "persisting" => EndingFits(run[s].attempt, run[s].ending, job, run)

\* An attempt that was not asked for is known to one run and not to the server.
AskedOnce ==
    \A s \in Slots : run[s].phase \in Unasked =>
        /\ job[run[s].attempt] = "absent"
        /\ \A r \in Slots : run[r].phase \in Unasked /\ run[r].attempt = run[s].attempt => r = s

\* The attempt is in the stored document, or in an edit of the tab that is not saved yet.
Coming(held, a, statuses, stored) ==
    \/ Has(stored, a, statuses)
    \/ \E i \in DOMAIN held.pending : Has(held.pending[i], a, statuses)

\* What a run knows at the step it is at.
Placed(r, tabs, stored, n) ==
    /\ r.attempt <= n
    /\ r.phase # "idle" => r.tab \in Tabs /\ r.scenario \in Scenarios
    /\ r.phase \notin {"idle", "flush", "resume", "building"} => r.attempt \in Attempts
    /\ r.phase = "reserving" => Coming(tabs[r.tab], r.attempt, {"QUEUED"}, stored)
    /\ r.phase \in {"submitting", "retrying"} => Has(stored, r.attempt, {"QUEUED"})
    /\ r.phase = "building" =>
           \/ r.kind = "run" /\ Unfinished(r.held, r.scenario) = {}
           \/ r.kind = "retry" /\ Has(r.held, r.again, Bad)
    /\ r.phase \in {"appending", "detaching"} => Has(r.held, r.attempt, Endings)
    /\ r.phase = "saving" /\ r.mounted => Coming(tabs[r.tab], r.attempt, Endings, stored)

RunsPlaced == \A s \in Slots : Placed(run[s], tab, study, issued)

\* One document continues another.
Precedes(d, e) ==
    \A i \in DOMAIN d.records : i \in DOMAIN e.records /\ e.records[i] = d.records[i]

\* What a tab shows as saved is the study, or was.
BasesOld == \A t \in Tabs : Precedes(tab[t].base, study)

IInv ==
    /\ TypeOK
    /\ CopiesFit /\ EndingsFit /\ AskedOnce
    /\ ReservedFirst /\ RunsPlaced /\ BasesOld
    /\ CompletedIsStored

-----------------------------------------------------------------------------
(* Documents                                                                 *)

\* A set of positive numbers that is not empty has a least one.
LEMMA FirstOf ==
  ASSUME NEW S, S \subseteq Nat \ {0}, S # {}
  PROVE  \E i \in S : \A j \in S : i <= j
<1> DEFINE Up(i) == 1..i
           Ups   == {Up(i) : i \in S}
           Less  == StrictSubsetOrdering(Nat)
<1>1. Ups \subseteq FiniteSubsetsOf(Nat)
  <2>1. \A i \in S : Up(i) \in SUBSET Nat /\ IsFiniteSet(Up(i))
    BY FS_Interval
  <2> QED
    BY <2>1 DEF FiniteSubsetsOf
<1>2. \E x \in Ups : \A y \in Ups : <<y, x>> \notin Less
  <2>1. Ups # {}
    OBVIOUS
  <2> HIDE DEF Ups, Less
  <2>2. IsWellFoundedOn(Less, FiniteSubsetsOf(Nat))
    BY FS_StrictSubsetOrderingWellFounded DEF Less
  <2> QED
    BY <1>1, <2>1, <2>2, WFMin
<1>3. PICK i \in S : \A j \in S : <<Up(j), Up(i)>> \notin Less
  BY <1>2
<1>4. ASSUME NEW j \in S, j < i
      PROVE  FALSE
  <2>1. Up(j) \subseteq Up(i) /\ i \in Up(i) /\ i \notin Up(j)
    BY <1>4
  <2>2. <<Up(j), Up(i)>> \in (SUBSET Nat) \X (SUBSET Nat)
    OBVIOUS
  <2>3. <<Up(j), Up(i)>> \in Less
    BY <2>1, <2>2 DEF StrictSubsetOrdering
  <2> QED
    BY <2>3, <1>3, <1>4
<1> QED
  BY <1>4

\* The records of a document.
LEMMA RecordsOf ==
  ASSUME NEW d \in Documents
  PROVE  /\ d.records \in Seq(Records) /\ d.revision \in Nat
         /\ DOMAIN d.records = 1..Len(d.records)
         /\ \A i \in DOMAIN d.records :
               /\ d.records[i] \in Records
               /\ d.records[i].attempt \in Attempts
               /\ d.records[i].status \in Endings \cup {"QUEUED"}
<1>1. d.records \in Seq(Records) /\ d.revision \in Nat
  BY DEF Documents
<1>2. DOMAIN d.records = 1..Len(d.records) /\ \A i \in DOMAIN d.records : d.records[i] \in Records
  BY <1>1
<1> QED
  BY <1>1, <1>2 DEF Records

LEMMA AttemptsAreNumbers == Attempts \subseteq Nat \ {0} /\ MaxAttempts \in Nat
  BY AttemptsAssumption DEF Attempts

\* What a document shows, it has.
LEMMA ShownIsHad ==
  ASSUME NEW d, NEW a, NEW S, Shows(d, a, S)
  PROVE  Has(d, a, S)
  BY DEF Shows, Has

\* What appending a record does.
LEMMA WithAppends ==
  ASSUME NEW d \in Documents, NEW r \in Records
  PROVE  /\ With(d, r) \in Documents
         /\ With(d, r).revision = d.revision + 1
         /\ With(d, r).scenarios = d.scenarios
         /\ DOMAIN With(d, r).records = 1..Len(d.records) + 1
         /\ \A i \in DOMAIN d.records : With(d, r).records[i] = d.records[i]
         /\ With(d, r).records[Len(d.records) + 1] = r
<1> DEFINE records == Append(d.records, r)
           revision == d.revision + 1
           w == With(d, r)
<1>1. d \in [revision : Nat, scenarios : SUBSET Scenarios, records : Seq(Records)]
  BY DEF Documents
<1>2. d.records \in Seq(Records) /\ d.revision \in Nat
  BY RecordsOf
<1>3. revision \in Nat
  BY <1>2
<1>4. /\ records \in Seq(Records) /\ DOMAIN records = 1..Len(d.records) + 1
      /\ \A i \in DOMAIN d.records : records[i] = d.records[i]
      /\ records[Len(d.records) + 1] = r
  BY <1>2
<1>5. w = [d EXCEPT !.revision = revision, !.records = records]
  BY DEF With
<1> HIDE DEF records, revision, w
<1>6. w \in [revision : Nat, scenarios : SUBSET Scenarios, records : Seq(Records)]
  BY <1>1, <1>3, <1>4, <1>5
<1>7. w.revision = revision /\ w.scenarios = d.scenarios /\ w.records = records
  BY <1>1, <1>5
<1> QED
  BY <1>4, <1>6, <1>7 DEF Documents, w, revision

LEMMA HasWith ==
  ASSUME NEW d \in Documents, NEW r \in Records, NEW b, NEW S
  PROVE  Has(With(d, r), b, S) <=> Has(d, b, S) \/ (b = r.attempt /\ r.status \in S)
<1> DEFINE w == With(d, r)
<1>1. /\ DOMAIN w.records = 1..Len(d.records) + 1
      /\ \A i \in DOMAIN d.records : w.records[i] = d.records[i]
      /\ w.records[Len(d.records) + 1] = r
  BY WithAppends
<1>2. DOMAIN d.records = 1..Len(d.records) /\ Len(d.records) \in Nat
  BY RecordsOf
<1> QED
  BY <1>1, <1>2 DEF Has

\* A record makes an attempt unfinished only if it is a reservation, and of its scenario.
LEMMA UnfinishedWith ==
  ASSUME NEW d \in Documents, NEW r \in Records, NEW c, NEW i \in Unfinished(With(d, r), c)
  PROVE  \/ i \in Unfinished(d, c)
         \/ i = Len(d.records) + 1 /\ r.scenario = c /\ r.status = "QUEUED"
<1> DEFINE w == With(d, r)
<1>1. /\ DOMAIN w.records = 1..Len(d.records) + 1 /\ w.scenarios = d.scenarios
      /\ \A j \in DOMAIN d.records : w.records[j] = d.records[j]
      /\ w.records[Len(d.records) + 1] = r
  BY WithAppends
<1>2. DOMAIN d.records = 1..Len(d.records) /\ Len(d.records) \in Nat
  BY RecordsOf
<1> HIDE DEF w
<1>3. /\ i \in DOMAIN w.records /\ w.records[i].scenario = c /\ c \in w.scenarios
      /\ w.records[i].status = "QUEUED" /\ ~Shows(w, w.records[i].attempt, Endings)
  BY DEF Unfinished, w
<1>4. CASE i = Len(d.records) + 1
  BY <1>1, <1>3, <1>4
<1>5. CASE i \in DOMAIN d.records
  <2>1. ~Shows(d, d.records[i].attempt, Endings)
    BY <1>1, <1>2, <1>3, <1>5 DEF Shows
  <2> QED
    BY <1>1, <1>3, <1>5, <2>1 DEF Unfinished
<1> QED
  BY <1>1, <1>2, <1>3, <1>4, <1>5

\* The first unfinished attempt of a scenario is one of the document.
LEMMA ActiveIsUnfinished ==
  ASSUME NEW d \in Documents, NEW c
  PROVE  /\ ActiveReservation(d, c) = 0 => Unfinished(d, c) = {}
         /\ ActiveReservation(d, c) # 0 =>
               /\ ActiveReservation(d, c) \in Attempts
               /\ \E i \in DOMAIN d.records : ActiveReservation(d, c) = d.records[i].attempt
<1>1. ASSUME Unfinished(d, c) # {}
      PROVE  /\ ActiveReservation(d, c) \in Attempts
             /\ \E i \in DOMAIN d.records : ActiveReservation(d, c) = d.records[i].attempt
  <2>1. Unfinished(d, c) \subseteq Nat \ {0}
    BY RecordsOf DEF Unfinished
  <2>2. \E i \in Unfinished(d, c) : \A j \in Unfinished(d, c) : i <= j
    BY <1>1, <2>1, FirstOf
  <2> DEFINE first == CHOOSE i \in Unfinished(d, c) : \A j \in Unfinished(d, c) : i <= j
  <2>3. first \in Unfinished(d, c)
    BY <2>2
  <2>4. first \in DOMAIN d.records
    BY <2>3 DEF Unfinished
  <2>5. ActiveReservation(d, c) = d.records[first].attempt
    BY <1>1 DEF ActiveReservation
  <2> QED
    BY <2>4, <2>5, RecordsOf
<1>2. 0 \notin Attempts
  BY AttemptsAreNumbers
<1> QED
  BY <1>1, <1>2 DEF ActiveReservation

\* What holds of a document holds of one with a new attempt, if none of its scenario is
\* unfinished or it repeats one that ended badly.
LEMMA ReservationIsSound ==
  ASSUME NEW d \in Documents, NEW n \in Nat, Sound(d, n),
         NEW r \in Records, r.attempt = n + 1, r.status = "QUEUED",
         Unfinished(d, r.scenario) = {} \/ Has(d, r.repeats, Bad)
  PROVE  Sound(With(d, r), n + 1)
<1> DEFINE w == With(d, r)
           m == Len(d.records) + 1
<1>1. /\ DOMAIN w.records = 1..m
      /\ \A i \in DOMAIN d.records : w.records[i] = d.records[i]
      /\ w.records[m] = r
  BY WithAppends
<1>2. DOMAIN d.records = 1..Len(d.records) /\ Len(d.records) \in Nat
  BY RecordsOf
<1>3. \A i \in DOMAIN d.records : d.records[i].attempt \in Nat /\ d.records[i].attempt <= n
  BY RecordsOf, AttemptsAreNumbers DEF Sound
<1>4. \A i \in DOMAIN w.records : w.records[i].attempt <= n + 1
  BY <1>1, <1>2, <1>3
<1>5. ASSUME NEW i \in DOMAIN w.records, NEW j \in DOMAIN w.records, i < j,
             w.records[i].attempt = w.records[j].attempt
      PROVE  /\ w.records[i].status = "QUEUED" /\ w.records[j].status \in Endings
             /\ w.records[i].scenario = w.records[j].scenario
  <2>1. i \in DOMAIN d.records
    BY <1>1, <1>2, <1>5
  <2>2. j \in DOMAIN d.records
    BY <1>1, <1>2, <1>3, <1>5, <2>1
  <2> QED
    BY <1>1, <1>5, <2>1, <2>2 DEF Sound
<1>6. ASSUME NEW c \in Scenarios, NEW i \in Unfinished(w, c), NEW j \in Unfinished(w, c), i < j
      PROVE  Has(w, w.records[j].repeats, Bad)
  <2>1. i \in Unfinished(d, c) \/ (i = m /\ r.scenario = c)
    BY UnfinishedWith
  <2>2. j \in Unfinished(d, c) \/ (j = m /\ r.scenario = c)
    BY UnfinishedWith
  <2>3. j \in 1..m /\ i \in 1..m
    BY <1>1 DEF Unfinished
  <2>4. i \in Unfinished(d, c)
    BY <1>2, <1>6, <2>1, <2>3
  <2>5. Has(d, w.records[j].repeats, Bad)
    <3>1. CASE j \in Unfinished(d, c)
      <4>1. j \in DOMAIN d.records
        BY <3>1 DEF Unfinished
      <4> QED
        BY <1>1, <1>6, <2>4, <3>1, <4>1 DEF Sound
    <3>2. CASE j = m /\ r.scenario = c
      BY <1>1, <2>4, <3>2
    <3> QED
      BY <2>2, <3>1, <3>2
  <2> QED
    BY <2>5, HasWith
<1> QED
  BY <1>4, <1>5, <1>6 DEF Sound

\* What holds of a document holds of one with the ending of an attempt that has none.
LEMMA EndingIsSound ==
  ASSUME NEW d \in Documents, NEW n \in Nat, Sound(d, n),
         NEW r \in Records, r.status \in Endings, Appendable(d, r.attempt, r.scenario)
  PROVE  Sound(With(d, r), n)
<1> DEFINE w == With(d, r)
           m == Len(d.records) + 1
<1>1. /\ DOMAIN w.records = 1..m
      /\ \A i \in DOMAIN d.records : w.records[i] = d.records[i]
      /\ w.records[m] = r
  BY WithAppends
<1>2. DOMAIN d.records = 1..Len(d.records) /\ Len(d.records) \in Nat
  BY RecordsOf
<1>3. PICK k \in DOMAIN d.records :
         /\ d.records[k].attempt = r.attempt /\ d.records[k].scenario = r.scenario
         /\ d.records[k].status = "QUEUED"
  BY DEF Appendable
<1>4. ASSUME NEW i \in DOMAIN d.records, d.records[i].attempt = r.attempt
      PROVE  d.records[i].status = "QUEUED" /\ d.records[i].scenario = r.scenario
  <2>1. d.records[i].scenario = r.scenario
    <3>1. i = k \/ i < k \/ k < i
      BY <1>2
    <3> QED
      BY <1>3, <1>4, <3>1 DEF Sound
  <2>2. d.records[i].status \notin Endings
    BY <1>4, <2>1 DEF Appendable, Shows
  <2> QED
    BY <2>1, <2>2, RecordsOf
<1>5. \A i \in DOMAIN w.records : w.records[i].attempt <= n
  BY <1>1, <1>2, <1>3 DEF Sound
<1>6. ASSUME NEW i \in DOMAIN w.records, NEW j \in DOMAIN w.records, i < j,
             w.records[i].attempt = w.records[j].attempt
      PROVE  /\ w.records[i].status = "QUEUED" /\ w.records[j].status \in Endings
             /\ w.records[i].scenario = w.records[j].scenario
  <2>1. i \in DOMAIN d.records
    BY <1>1, <1>2, <1>6
  <2>2. CASE j \in DOMAIN d.records
    BY <1>1, <1>6, <2>1, <2>2 DEF Sound
  <2>3. CASE j = m
    BY <1>1, <1>4, <1>6, <2>1, <2>3
  <2> QED
    BY <1>1, <1>2, <2>2, <2>3
<1>7. ASSUME NEW c \in Scenarios, NEW i \in Unfinished(w, c), NEW j \in Unfinished(w, c), i < j
      PROVE  Has(w, w.records[j].repeats, Bad)
  <2>1. r.status # "QUEUED"
    BY DEF Endings
  <2>2. i \in Unfinished(d, c) /\ j \in Unfinished(d, c)
    BY <2>1, UnfinishedWith
  <2>3. j \in DOMAIN d.records
    BY <2>2 DEF Unfinished
  <2>4. Has(d, w.records[j].repeats, Bad)
    BY <1>1, <1>7, <2>2, <2>3 DEF Sound
  <2> QED
    BY <2>4, HasWith
<1> QED
  BY <1>5, <1>6, <1>7 DEF Sound

\* A document that only lost scenarios is as it was in what it still has.
LEMMA FewerScenarios ==
  ASSUME NEW d \in Documents, NEW e \in Documents, d.records = e.records, e.scenarios \subseteq d.scenarios
  PROVE  /\ \A n : Sound(d, n) => Sound(e, n)
         /\ \A a, S : Has(d, a, S) <=> Has(e, a, S)
         /\ \A n, jobs, runs : Fits(d, n, jobs, runs) => Fits(e, n, jobs, runs)
<1>1. \A a, S : Has(d, a, S) <=> Has(e, a, S)
  BY DEF Has
<1>2. ASSUME NEW n, Sound(d, n), NEW c, NEW i \in Unfinished(e, c)
      PROVE  i \in Unfinished(d, c)
  <2> DEFINE a == d.records[i].attempt
  <2>1. /\ i \in DOMAIN d.records /\ d.records[i].scenario = c /\ c \in e.scenarios
        /\ d.records[i].status = "QUEUED" /\ ~Shows(e, a, Endings)
    BY DEF Unfinished
  <2>2. ASSUME NEW j \in DOMAIN d.records, d.records[j].attempt = a, d.records[j].status \in Endings
        PROVE  FALSE
    <3>1. i \in Nat /\ j \in Nat /\ i # j
      BY <2>1, <2>2, RecordsOf DEF Endings
    <3>2. d.records[j].scenario = c
      <4>1. i < j \/ j < i
        BY <3>1
      <4> QED
        BY <1>2, <2>1, <2>2, <4>1 DEF Sound
    <3> QED
      BY <2>1, <2>2, <3>2 DEF Shows
  <2>3. ~Shows(d, a, Endings)
    BY <2>2 DEF Shows
  <2> QED
    BY <2>1, <2>3 DEF Unfinished
<1>3. \A n : Sound(d, n) => Sound(e, n)
  <2> SUFFICES ASSUME NEW n, Sound(d, n)
               PROVE  Sound(e, n)
    OBVIOUS
  <2>1. ASSUME NEW c \in Scenarios, NEW i \in Unfinished(e, c), NEW j \in Unfinished(e, c), i < j
        PROVE  Has(e, e.records[j].repeats, Bad)
    <3>1. i \in Unfinished(d, c) /\ j \in Unfinished(d, c)
      BY <1>2
    <3> QED
      BY <1>1, <2>1, <3>1 DEF Sound
  <2> QED
    BY <2>1 DEF Sound
<1> QED
  BY <1>1, <1>3 DEF Fits

LEMMA NothingFits ==
         /\ Nothing \in Documents
         /\ \A n, jobs, runs : Fits(Nothing, n, jobs, runs)
         /\ \A a, S : ~Has(Nothing, a, S)
<1>1. Nothing \in Documents /\ DOMAIN Nothing.records = {}
  BY DEF Nothing, Documents
<1> QED
  BY <1>1 DEF Fits, Sound, Unfinished, Has

\* A document that continues another has what it has.
LEMMA HasGrows ==
  ASSUME NEW d, NEW e, Precedes(d, e), NEW a, NEW S, Has(d, a, S)
  PROVE  Has(e, a, S)
  BY DEF Precedes, Has

LEMMA PrecedesIsTransitive ==
  ASSUME NEW d, NEW e, NEW f, Precedes(d, e), Precedes(e, f)
  PROVE  Precedes(d, f)
  BY DEF Precedes

LEMMA KeptPrecedes ==
  ASSUME TypeOK, NEW d \in Documents, Kept(d)
  PROVE  Precedes(study, d)
<1>1. /\ study.records \in Seq(Records) /\ DOMAIN study.records = 1..Len(study.records)
      /\ d.records \in Seq(Records) /\ DOMAIN d.records = 1..Len(d.records)
  BY RecordsOf DEF TypeOK
<1>2. /\ Len(study.records) <= Len(d.records)
      /\ SubSeq(study.records, 1, Len(study.records)) = SubSeq(d.records, 1, Len(study.records))
  BY DEF Kept, IsPrefix
<1>3. \A i \in 1..Len(study.records) : study.records[i] = d.records[i]
  BY <1>1, <1>2
<1> QED
  BY <1>1, <1>2, <1>3 DEF Precedes

-----------------------------------------------------------------------------
(* Steps in general                                                          *)

\* A job is forgotten, goes on if it waits or runs, or is accepted for a run that asks for it.
JobStep ==
    \A a \in Attempts :
        \/ job'[a] \in {job[a], "absent"}
        \/ job[a] \in {"pending", "cancelling"}
        \/ \E s \in Slots :
              /\ run[s].phase \in {"submitting", "retrying"} /\ run[s].attempt = a
              /\ run'[s].phase \notin Unasked

\* No run gets an attempt to ask for.
RunStep ==
    \A s \in Slots :
        run'[s].phase \in Unasked => run[s].phase \in Unasked /\ run'[s].attempt = run[s].attempt

\* The copies made fit what there was.
DocStep ==
    /\ Fits(study', issued, job, run)
    /\ \A t \in Tabs :
          /\ Fits(tab'[t].base, issued, job, run)
          /\ \A i \in DOMAIN tab'[t].pending : Fits(tab'[t].pending[i], issued, job, run)
    /\ \A s \in Slots : Fits(run'[s].held, issued, job, run)

\* So do the endings found.
EndStep ==
    \A s \in Slots :
        run'[s].phase = "persisting" => EndingFits(run'[s].attempt, run'[s].ending, job, run)

\* An edit is kept until it is saved.
TabKeeps(t) ==
    \A i \in DOMAIN tab[t].pending :
        \/ Precedes(tab[t].pending[i], study')
        \/ \E j \in DOMAIN tab'[t].pending : tab'[t].pending[j] = tab[t].pending[i]

BaseStep == \A t \in Tabs : Precedes(tab'[t].base, tab[t].base) \/ Precedes(tab'[t].base, study')

LEMMA TypesOf ==
  ASSUME TypeOK
  PROVE  /\ study \in Documents /\ issued \in Nat
         /\ \A t \in Tabs :
               /\ tab[t].base \in Documents /\ tab[t].pending \in Seq(Documents)
               /\ DOMAIN tab[t].pending = 1..Len(tab[t].pending)
               /\ \A i \in DOMAIN tab[t].pending : tab[t].pending[i] \in Documents
         /\ \A s \in Slots :
               /\ run[s].held \in Documents
               /\ run[s].attempt \in Nat /\ run[s].again \in Nat
         /\ DOMAIN run = Slots /\ DOMAIN tab = Tabs /\ DOMAIN job = Attempts
<1>1. study \in Documents /\ issued \in Nat
  BY AttemptsAreNumbers DEF TypeOK
<1>2. \A t \in Tabs :
         /\ tab[t].base \in Documents /\ tab[t].pending \in Seq(Documents)
         /\ DOMAIN tab[t].pending = 1..Len(tab[t].pending)
         /\ \A i \in DOMAIN tab[t].pending : tab[t].pending[i] \in Documents
  BY DEF TypeOK
<1>3. \A s \in Slots : run[s].held \in Documents /\ run[s].attempt \in Nat /\ run[s].again \in Nat
  BY AttemptsAreNumbers DEF TypeOK
<1>4. DOMAIN run = Slots /\ DOMAIN tab = Tabs /\ DOMAIN job = Attempts
  BY DEF TypeOK
<1> QED
  BY <1>1, <1>2, <1>3, <1>4

\* What a run is about to ask for is reserved and unknown to the server.
LEMMA UnaskedIsAbsent ==
  ASSUME IInv, NEW s \in Slots, run[s].phase \in Unasked
  PROVE  run[s].attempt \in Attempts /\ job[run[s].attempt] = "absent"
<1>1. run[s].phase \notin {"idle", "flush", "resume", "building"}
  BY DEF Unasked
<1> QED
  BY <1>1 DEF IInv, RunsPlaced, Placed, AskedOnce

LEMMA FitsStep ==
  ASSUME IInv, JobStep, RunStep, issued' = issued,
         NEW d, Fits(d, issued, job, run)
  PROVE  Fits(d, issued', job', run')
<1>1. ASSUME NEW a \in Attempts, NEW s \in Slots, run[s].phase \in {"submitting", "retrying"}, run[s].attempt = a
      PROVE  ~Has(d, a, {"SUCCEEDED"}) /\ ~Has(d, a, {"CANCELLED"})
  <2>1. ~Has(d, a, Sure)
    BY <1>1 DEF Fits, Unasked
  <2> QED
    BY <2>1 DEF Has, Sure
<1>2. \A a \in Attempts :
         /\ Has(d, a, {"SUCCEEDED"}) => job'[a] \in {"succeeded", "absent"}
         /\ Has(d, a, {"CANCELLED"}) => job'[a] \in {"cancelled", "absent"}
  BY <1>1 DEF Fits, JobStep
<1>3. \A s \in Slots : run'[s].phase \in Unasked => ~Has(d, run'[s].attempt, Sure)
  BY DEF Fits, RunStep
<1> QED
  BY <1>2, <1>3 DEF Fits

LEMMA EndingFitsStep ==
  ASSUME IInv, JobStep, RunStep, NEW a \in Attempts, NEW ending,
         EndingFits(a, ending, job, run)
  PROVE  EndingFits(a, ending, job', run')
<1>1. ending \in Sure => \A s \in Slots : ~(run'[s].phase \in Unasked /\ run'[s].attempt = a)
  BY DEF EndingFits, RunStep
<1>2. ending \in Sure =>
          \A s \in Slots : ~(run[s].phase \in {"submitting", "retrying"} /\ run[s].attempt = a)
  BY DEF EndingFits, Unasked
<1>3. /\ ending = "SUCCEEDED" => job'[a] \in {"succeeded", "absent"}
      /\ ending = "CANCELLED" => job'[a] \in {"cancelled", "absent"}
  BY <1>2 DEF EndingFits, JobStep, Sure
<1> QED
  BY <1>1, <1>3 DEF EndingFits

LEMMA CopiesStep ==
  ASSUME IInv, JobStep, RunStep, DocStep, issued' = issued
  PROVE  CopiesFit'
<1>1. \A d : Fits(d, issued, job, run) => Fits(d, issued', job', run')
  BY FitsStep
<1> QED
  BY <1>1 DEF CopiesFit, DocStep

LEMMA EndingsStep ==
  ASSUME IInv, JobStep, RunStep, EndStep, RunsPlaced'
  PROVE  EndingsFit'
<1>1. \A a \in Attempts : \A e : EndingFits(a, e, job, run) => EndingFits(a, e, job', run')
  BY EndingFitsStep
<1>2. \A s \in Slots : run'[s].phase = "persisting" => run'[s].attempt \in Attempts
  BY DEF RunsPlaced, Placed
<1> QED
  BY <1>1, <1>2 DEF EndingsFit, EndStep

LEMMA AskedStep ==
  ASSUME IInv, JobStep, RunStep
  PROVE  AskedOnce'
<1> SUFFICES ASSUME NEW s \in Slots, run'[s].phase \in Unasked
             PROVE  /\ job'[run'[s].attempt] = "absent"
                    /\ \A r \in Slots : run'[r].phase \in Unasked /\ run'[r].attempt = run'[s].attempt => r = s
  BY DEF AskedOnce
<1>1. run[s].phase \in Unasked /\ run'[s].attempt = run[s].attempt
  BY DEF RunStep
<1>2. run[s].attempt \in Attempts /\ job[run[s].attempt] = "absent"
  BY <1>1, UnaskedIsAbsent
<1>3. \A r \in Slots : run[r].phase \in Unasked /\ run[r].attempt = run[s].attempt => r = s
  BY <1>1 DEF IInv, AskedOnce
<1>4. job'[run[s].attempt] = "absent"
  BY <1>2, <1>3 DEF JobStep, Unasked
<1> QED
  BY <1>1, <1>3, <1>4 DEF RunStep

LEMMA ReservedStep ==
  ASSUME IInv, JobStep, Precedes(study, study')
  PROVE  ReservedFirst'
<1> SUFFICES ASSUME NEW a \in Attempts, job'[a] # "absent"
             PROVE  Has(study', a, {"QUEUED"})
  BY DEF ReservedFirst
<1>1. Has(study, a, {"QUEUED"})
  BY DEF JobStep, IInv, ReservedFirst, RunsPlaced, Placed
<1> QED
  BY <1>1, HasGrows

LEMMA BasesStep ==
  ASSUME IInv, BaseStep, Precedes(study, study')
  PROVE  BasesOld'
<1>1. \A t \in Tabs : Precedes(tab[t].base, study)
  BY DEF IInv, BasesOld
<1>2. \A t \in Tabs : Precedes(tab'[t].base, study')
  BY <1>1, PrecedesIsTransitive DEF BaseStep
<1> QED
  BY <1>2 DEF BasesOld

\* A run that does nothing knows what it knew.
LEMMA StaysPlaced ==
  ASSUME IInv, Precedes(study, study'), issued' \in Nat, issued <= issued',
         NEW s \in Slots, run'[s] = run[s],
         \A t \in Tabs : t = run[s].tab => TabKeeps(t)
  PROVE  Placed(run'[s], tab', study', issued')
<1>1. Placed(run[s], tab, study, issued)
  BY DEF IInv, RunsPlaced
<1>2. run[s].attempt <= issued'
  BY <1>1, TypesOf DEF Placed, IInv
<1>3. ASSUME NEW t \in Tabs, t = run[s].tab, NEW S, Coming(tab[t], run[s].attempt, S, study)
      PROVE  Coming(tab'[t], run[s].attempt, S, study')
  <2>1. CASE Has(study, run[s].attempt, S)
    BY <2>1, HasGrows DEF Coming
  <2>2. CASE \E i \in DOMAIN tab[t].pending : Has(tab[t].pending[i], run[s].attempt, S)
    BY <1>3, <2>2, HasGrows DEF Coming, TabKeeps
  <2> QED
    BY <1>3, <2>1, <2>2 DEF Coming
<1>4. \A S : Has(study, run[s].attempt, S) => Has(study', run[s].attempt, S)
  BY HasGrows
<1> QED
  BY <1>1, <1>2, <1>3, <1>4 DEF Placed

\* All but a reservation are steps like this.
LEMMA StepKeeps ==
  ASSUME IInv, TypeOK', issued' = issued, JobStep, RunStep, DocStep, EndStep,
         Precedes(study, study'), BaseStep, RunsPlaced', unkept' = {}
  PROVE  IInv'
  BY CopiesStep, EndingsStep, AskedStep, ReservedStep, BasesStep DEF IInv, CompletedIsStored

-----------------------------------------------------------------------------
(* The steps of a run that change nothing but the run and its job            *)

Runs == [tab      : Tabs \cup {"none"},
         kind     : {"none", "run", "cancel", "retry"},
         scenario : Scenarios \cup {"none"},
         mounted  : BOOLEAN,
         phase    : Phases,
         attempt  : 0..MaxAttempts,
         again    : 0..MaxAttempts,
         held     : Documents,
         ending   : Endings \cup {"none"}]

\* The run r may follow what the slot s has.
Follows(s, r) ==
    /\ r \in Runs
    /\ r.phase \in Unasked => run[s].phase \in Unasked /\ r.attempt = run[s].attempt
    /\ Fits(r.held, issued, job, run)
    /\ r.phase = "persisting" => EndingFits(r.attempt, r.ending, job, run)
    /\ Placed(r, tab, study, issued)

LEMMA PrecedesItself == \A d : Precedes(d, d)
  BY DEF Precedes

LEMMA FitsNow ==
  ASSUME IInv
  PROVE  /\ Fits(study, issued, job, run)
         /\ \A t \in Tabs : Fits(tab[t].base, issued, job, run)
         /\ \A t \in Tabs : \A i \in DOMAIN tab[t].pending : Fits(tab[t].pending[i], issued, job, run)
         /\ \A s \in Slots : Fits(run[s].held, issued, job, run)
         /\ \A s \in Slots : run[s] \in Runs
         /\ \A s \in Slots : Placed(run[s], tab, study, issued)
         /\ \A s \in Slots : run[s].phase = "persisting" => EndingFits(run[s].attempt, run[s].ending, job, run)
  BY DEF IInv, CopiesFit, RunsPlaced, EndingsFit, TypeOK, Runs

LEMMA IdleFollows ==
  ASSUME IInv, NEW s \in Slots
  PROVE  Follows(s, Idle)
<1>1. Idle \in Runs
  BY NothingFits, AttemptsAreNumbers DEF Idle, Runs, Phases, Awaiting
<1>2. Placed(Idle, tab, study, issued)
  BY TypesOf DEF IInv, Idle, Placed, Unasked
<1> QED
  BY <1>1, <1>2, NothingFits DEF Follows, Idle, Unasked

LEMMA RunStepKeeps ==
  ASSUME IInv, NEW s \in Slots, NEW r, Follows(s, r), Step(s, r),
         UNCHANGED <<study, tab, issued>>, unkept' = {},
         JobStep, job' \in [Attempts -> Lifecycle!Phases], events' \in 0..MaxEvents
  PROVE  IInv'
<1>1. TypeOK /\ run \in [Slots -> Runs]
  BY DEF IInv, TypeOK, Runs
<1>2. run' \in [Slots -> Runs]
  BY <1>1 DEF Follows, Step
<1>3. TypeOK'
  BY <1>1, <1>2 DEF TypeOK, Runs
<1>4. run'[s] = r /\ \A x \in Slots : x # s => run'[x] = run[x]
  BY <1>1 DEF Step
<1>5. RunStep
  BY <1>4 DEF RunStep, Follows
<1>6. DocStep
  BY <1>4, FitsNow DEF DocStep, Follows
<1>7. EndStep
  BY <1>4, FitsNow DEF EndStep, Follows
<1>8. RunsPlaced'
  BY <1>4, FitsNow DEF RunsPlaced, Follows
<1>9. Precedes(study, study') /\ BaseStep
  BY PrecedesItself DEF BaseStep
<1> QED
  BY <1>3, <1>5, <1>6, <1>7, <1>8, <1>9, StepKeeps

LEMMA SameJobs ==
  ASSUME IInv, UNCHANGED job
  PROVE  JobStep /\ job' \in [Attempts -> Lifecycle!Phases]
  BY DEF JobStep, IInv, TypeOK

LEMMA EventsBounded ==
  ASSUME IInv, Event \/ UNCHANGED events
  PROVE  events' \in 0..MaxEvents
  BY AttemptsAssumption DEF IInv, TypeOK, Event

LEMMA UnkeptIsEmpty ==
  ASSUME IInv, UNCHANGED unkept
  PROVE  unkept' = {}
  BY DEF IInv, CompletedIsStored

\* A step of a run that asks nothing of the server.
LEMMA QuietStepKeeps ==
  ASSUME IInv, NEW s \in Slots, NEW r, Follows(s, r), Step(s, r),
         UNCHANGED <<study, tab, issued, job>>, unkept' = {}, Event \/ UNCHANGED events
  PROVE  IInv'
  BY RunStepKeeps, SameJobs, EventsBounded

LEMMA EndKeeps ==
  ASSUME IInv, NEW s \in Slots, Ends(s), UNCHANGED <<study, tab, issued, job>>, unkept' = {},
         Event \/ UNCHANGED events
  PROVE  IInv'
  BY QuietStepKeeps, IdleFollows DEF Ends

LEMMA BeginKeeps ==
  ASSUME IInv, NEW t \in Tabs, NEW kind \in {"run", "cancel", "retry"}, NEW c \in Scenarios,
         NEW again \in 0..MaxAttempts, Begin(t, kind, c, again)
  PROVE  IInv'
<1> DEFINE phase == IF kind = "run" THEN "resume" ELSE "flush"
           r == [Idle EXCEPT !.tab = t, !.kind = kind, !.scenario = c, !.mounted = TRUE,
                             !.phase = phase, !.again = again]
<1>1. PICK s \in Slots : Step(s, r)
  BY DEF Begin, Free
<1>2. Idle \in Runs /\ Fits(Idle.held, issued, job, run) /\ Placed(Idle, tab, study, issued)
  BY IdleFollows DEF Follows
<1>3. /\ r \in Runs /\ r.held = Idle.held /\ r.attempt = Idle.attempt /\ r.phase \in {"flush", "resume"}
      /\ r.tab = t /\ r.scenario = c
  BY <1>2 DEF Runs, Phases, Awaiting, Idle
<1> HIDE DEF r
<1>4. Placed(r, tab, study, issued)
  BY <1>2, <1>3 DEF Placed, Unasked
<1>5. Follows(s, r)
  BY <1>2, <1>3, <1>4 DEF Follows, Unasked
<1> QED
  BY <1>1, <1>5, QuietStepKeeps, UnkeptIsEmpty DEF Begin, Free

LEMMA ShownFits ==
  ASSUME IInv, NEW t \in Tabs
  PROVE  /\ Shown(t) \in Documents
         /\ Fits(Shown(t), issued, job, run)
         /\ Quiet(t) => Shown(t) = tab[t].base
<1>1. CASE tab[t].pending = <<>>
  BY <1>1, FitsNow, TypesOf DEF Shown, IInv
<1>2. CASE tab[t].pending # <<>>
  <2>1. tab[t].pending \in Seq(Documents) /\ Len(tab[t].pending) \in DOMAIN tab[t].pending
    BY <1>2, TypesOf DEF IInv
  <2>2. Shown(t) = tab[t].pending[Len(tab[t].pending)]
    BY <1>2 DEF Shown, Last
  <2> QED
    BY <1>2, <2>1, <2>2, FitsNow, TypesOf DEF Quiet, IInv
<1> QED
  BY <1>1, <1>2

\* The first unfinished attempt of what is shown.
LEMMA ActiveFits ==
  ASSUME IInv, NEW t \in Tabs, NEW c, ActiveReservation(Shown(t), c) # 0
  PROVE  ActiveReservation(Shown(t), c) \in Attempts /\ ActiveReservation(Shown(t), c) <= issued
<1>1. Shown(t) \in Documents /\ Sound(Shown(t), issued)
  BY ShownFits DEF Fits
<1> QED
  BY <1>1, ActiveIsUnfinished DEF Sound

LEMMA CommandChosenKeeps ==
  ASSUME IInv, NEW s \in Slots, CommandChosen(s)
  PROVE  IInv'
<1> DEFINE r == run[s]
           d == Shown(r.tab)
           active == ActiveReservation(d, r.scenario)
<1>1. r.phase = "flush" /\ r \in Runs /\ Placed(r, tab, study, issued) /\ Fits(r.held, issued, job, run)
  BY FitsNow DEF CommandChosen
<1>2. r.tab \in Tabs /\ r.scenario \in Scenarios
  BY <1>1 DEF Placed
<1>3. d \in Documents /\ Fits(d, issued, job, run)
  BY <1>2, ShownFits
<1>4. UNCHANGED <<study, tab, issued, job, events>> /\ unkept' = {}
  BY UnkeptIsEmpty DEF CommandChosen
<1>5. CASE /\ active # 0
           /\ Step(s, [r EXCEPT !.phase = "cancelling", !.attempt = active])
  <2> DEFINE q == [r EXCEPT !.phase = "cancelling", !.attempt = active]
  <2>1. active \in Attempts /\ active <= issued
    BY <1>2, <1>5, ActiveFits
  <2>2. q \in Runs /\ q.phase = "cancelling" /\ q.attempt = active /\ q.tab = r.tab /\ q.held = r.held
        /\ q.scenario = r.scenario
    <3>1. active \in 0..MaxAttempts
      BY <2>1, AttemptsAreNumbers DEF Attempts
    <3> QED
      BY <1>1, <3>1 DEF Runs, Phases
  <2>3. Placed(q, tab, study, issued)
    <3> HIDE DEF q
    <3> QED
      BY <1>2, <2>1, <2>2 DEF Placed, Unasked
  <2>4. Follows(s, q)
    BY <1>1, <2>2, <2>3 DEF Follows, Unasked
  <2> QED
    BY <1>4, <1>5, <2>4, QuietStepKeeps
<1>6. CASE /\ r.kind = "retry" /\ Shows(d, r.again, Bad)
           /\ Step(s, [r EXCEPT !.phase = "building", !.held = d])
  <2> DEFINE q == [r EXCEPT !.phase = "building", !.held = d]
  <2>1. q \in Runs /\ q.phase = "building" /\ q.attempt = r.attempt /\ q.tab = r.tab /\ q.held = d
        /\ q.kind = r.kind /\ q.again = r.again /\ q.scenario = r.scenario
    BY <1>1, <1>3 DEF Runs, Phases
  <2>2. Placed(q, tab, study, issued)
    <3>1. Has(d, r.again, Bad)
      BY <1>6, ShownIsHad
    <3> QED
      BY <1>1, <1>2, <1>6, <2>1, <3>1 DEF Placed
  <2>3. Follows(s, q)
    BY <1>3, <2>1, <2>2 DEF Follows, Unasked
  <2> QED
    BY <1>4, <1>6, <2>3, QuietStepKeeps
<1>7. CASE Ends(s)
  BY <1>4, <1>7, EndKeeps
<1> QED
  BY <1>5, <1>6, <1>7 DEF CommandChosen

LEMMA CapturedKeeps ==
  ASSUME IInv, NEW s \in Slots, Captured(s)
  PROVE  IInv'
<1> DEFINE r == run[s]
           d == Shown(r.tab)
           active == ActiveReservation(d, r.scenario)
<1>1. r.phase = "resume" /\ r \in Runs /\ Placed(r, tab, study, issued)
  BY FitsNow DEF Captured
<1>2. r.tab \in Tabs /\ r.scenario \in Scenarios
  BY <1>1 DEF Placed
<1>3. d \in Documents /\ Fits(d, issued, job, run)
  BY <1>2, ShownFits
<1>4. UNCHANGED <<study, tab, issued, job, events>> /\ unkept' = {}
  BY UnkeptIsEmpty DEF Captured
<1>5. CASE /\ active # 0
           /\ Step(s, [r EXCEPT !.phase = "polling", !.attempt = active, !.held = d])
  <2> DEFINE q == [r EXCEPT !.phase = "polling", !.attempt = active, !.held = d]
  <2>1. active \in Attempts /\ active <= issued
    BY <1>2, <1>5, ActiveFits
  <2>2. q \in Runs /\ q.phase = "polling" /\ q.attempt = active /\ q.tab = r.tab /\ q.held = d
        /\ q.scenario = r.scenario
    <3>1. active \in 0..MaxAttempts
      BY <2>1, AttemptsAreNumbers DEF Attempts
    <3> QED
      BY <1>1, <1>3, <3>1 DEF Runs, Phases
  <2>3. Placed(q, tab, study, issued)
    BY <1>2, <2>1, <2>2 DEF Placed
  <2>4. Follows(s, q)
    BY <1>3, <2>2, <2>3 DEF Follows, Unasked
  <2> QED
    BY <1>4, <1>5, <2>4, QuietStepKeeps
<1>6. CASE /\ active = 0 /\ r.kind = "run"
           /\ Step(s, [r EXCEPT !.phase = "building", !.held = d])
  <2> DEFINE q == [r EXCEPT !.phase = "building", !.held = d]
  <2>1. q \in Runs /\ q.phase = "building" /\ q.attempt = r.attempt /\ q.tab = r.tab /\ q.held = d
        /\ q.kind = r.kind /\ q.scenario = r.scenario
    BY <1>1, <1>3 DEF Runs, Phases
  <2>2. Unfinished(d, r.scenario) = {}
    BY <1>3, <1>6, ActiveIsUnfinished
  <2>3. Placed(q, tab, study, issued)
    BY <1>1, <1>2, <1>6, <2>1, <2>2 DEF Placed
  <2>4. Follows(s, q)
    BY <1>3, <2>1, <2>3 DEF Follows, Unasked
  <2> QED
    BY <1>4, <1>6, <2>4, QuietStepKeeps
<1>7. CASE Ends(s)
  BY <1>4, <1>7, EndKeeps
<1> QED
  BY <1>5, <1>6, <1>7 DEF Captured

LEMMA ReservedKeeps ==
  ASSUME IInv, NEW s \in Slots, Reserved(s)
  PROVE  IInv'
<1> DEFINE r == run[s]
           q == [r EXCEPT !.phase = IF r.kind = "run" THEN "submitting" ELSE "retrying",
                          !.held = Shown(r.tab)]
<1>1. /\ r.phase = "reserving" /\ Quiet(r.tab) /\ Step(s, q)
      /\ UNCHANGED <<study, tab, issued, job, events>> /\ unkept' = {}
  BY UnkeptIsEmpty DEF Reserved
<1>2. r \in Runs /\ Placed(r, tab, study, issued)
  BY FitsNow
<1>3. r.tab \in Tabs /\ r.scenario \in Scenarios /\ r.attempt \in Attempts /\ Coming(tab[r.tab], r.attempt, {"QUEUED"}, study)
  BY <1>1, <1>2 DEF Placed
<1>4. Has(study, r.attempt, {"QUEUED"})
  BY <1>1, <1>3 DEF Coming, Quiet
<1>5. Shown(r.tab) \in Documents /\ Fits(Shown(r.tab), issued, job, run)
  BY <1>3, ShownFits
<1>6. /\ q \in Runs /\ q.phase \in {"submitting", "retrying"} /\ q.attempt = r.attempt /\ q.tab = r.tab
      /\ q.held = Shown(r.tab) /\ q.scenario = r.scenario
  BY <1>2, <1>5 DEF Runs, Phases
<1>7. Placed(q, tab, study, issued)
  BY <1>2, <1>3, <1>4, <1>6 DEF Placed
<1>8. Follows(s, q)
  BY <1>1, <1>5, <1>6, <1>7 DEF Follows, Unasked
<1> QED
  BY <1>1, <1>8, QuietStepKeeps

-----------------------------------------------------------------------------
(* Requests                                                                  *)

LEMMA AskedJob ==
  ASSUME IInv, NEW s \in Slots, run[s].phase \in {"submitting", "retrying"},
         NEW q, Step(s, q), q.phase \notin Unasked,
         job' \in {job, [job EXCEPT ![run[s].attempt] = "pending"]}
  PROVE  JobStep /\ job' \in [Attempts -> Lifecycle!Phases]
<1>1. DOMAIN run = Slots /\ job \in [Attempts -> Lifecycle!Phases]
  BY DEF IInv, TypeOK
<1>2. run'[s] = q
  BY <1>1 DEF Step
<1>3. \A a \in Attempts : job'[a] = job[a] \/ a = run[s].attempt
  BY <1>1
<1>4. JobStep
  BY <1>2, <1>3 DEF JobStep
<1>5. "pending" \in Lifecycle!Phases
  BY DEF Lifecycle!Phases
<1> QED
  BY <1>1, <1>4, <1>5

\* A run may go on to a phase at which it knows nothing but its attempt.
LEMMA GoesOn ==
  ASSUME IInv, NEW s \in Slots, run[s].phase \notin {"idle", "flush", "resume", "building"},
         NEW phase \in {"polling", "fetching", "resume"}
  PROVE  Follows(s, [run[s] EXCEPT !.phase = phase])
<1> DEFINE q == [run[s] EXCEPT !.phase = phase]
<1>1. run[s] \in Runs /\ Placed(run[s], tab, study, issued) /\ Fits(run[s].held, issued, job, run)
  BY FitsNow
<1>2. q \in Runs /\ q.phase = phase /\ q.attempt = run[s].attempt /\ q.held = run[s].held /\ q.tab = run[s].tab
      /\ q.scenario = run[s].scenario
  BY <1>1 DEF Runs, Phases, Awaiting
<1>3. Placed(q, tab, study, issued)
  BY <1>1, <1>2 DEF Placed, Unasked
<1> QED
  BY <1>1, <1>2, <1>3 DEF Follows, Unasked

\* Or to put down an ending.
LEMMA FoundEnding ==
  ASSUME IInv, NEW s \in Slots, run[s].phase \notin {"idle", "flush", "resume", "building"},
         NEW ending, EndingFits(run[s].attempt, ending, job, run)
  PROVE  Follows(s, [run[s] EXCEPT !.phase = "persisting", !.ending = ending])
<1> DEFINE q == [run[s] EXCEPT !.phase = "persisting", !.ending = ending]
<1>1. run[s] \in Runs /\ Placed(run[s], tab, study, issued) /\ Fits(run[s].held, issued, job, run)
  BY FitsNow
<1>2. ending \in Endings
  BY DEF EndingFits
<1>3. /\ q \in Runs /\ q.phase = "persisting" /\ q.attempt = run[s].attempt /\ q.held = run[s].held
      /\ q.tab = run[s].tab /\ q.ending = ending /\ q.scenario = run[s].scenario
  BY <1>1, <1>2 DEF Runs, Phases, Awaiting
<1>4. Placed(q, tab, study, issued)
  BY <1>1, <1>3 DEF Placed, Unasked
<1> QED
  BY <1>1, <1>3, <1>4 DEF Follows, Unasked

LEMMA NotSure ==
  ASSUME NEW a, NEW ending \in {"FAILED", "UNFETCHED", "INTERRUPTED"}
  PROVE  EndingFits(a, ending, job, run)
  BY DEF EndingFits, Endings, Sure

\* An ending of a job that the server knows is the ending of nobody's attempt to be asked for.
LEMMA SureEnding ==
  ASSUME IInv, NEW s \in Slots, run[s].attempt \in Attempts,
         NEW ending, <<job[run[s].attempt], ending>> \in {<<"succeeded", "SUCCEEDED">>, <<"cancelled", "CANCELLED">>}
  PROVE  EndingFits(run[s].attempt, ending, job, run)
<1>1. job[run[s].attempt] # "absent"
  OBVIOUS
<1>2. \A x \in Slots : ~(run[x].phase \in Unasked /\ run[x].attempt = run[s].attempt)
  BY <1>1, UnaskedIsAbsent
<1> QED
  BY <1>2 DEF EndingFits, Endings

LEMMA SubmitKeeps ==
  ASSUME IInv, NEW s \in Slots, Submit(s)
  PROVE  IInv'
<1> DEFINE r == run[s]
<1>1. r.phase = "submitting" /\ UNCHANGED <<study, tab, issued>> /\ unkept' = {}
  BY UnkeptIsEmpty DEF Submit, Requested
<1>2. events' \in 0..MaxEvents
  BY EventsBounded DEF Submit
<1>3. CASE job' = [job EXCEPT ![r.attempt] = "pending"] /\ Step(s, [r EXCEPT !.phase = "polling"])
  <2> DEFINE q == [r EXCEPT !.phase = "polling"]
  <2>1. Follows(s, q) /\ r \in Runs
    BY <1>1, GoesOn, FitsNow
  <2>2. q.phase \notin Unasked
    BY <2>1 DEF Unasked, Runs
  <2>3. JobStep /\ job' \in [Attempts -> Lifecycle!Phases]
    BY <1>1, <1>3, <2>2, AskedJob
  <2> QED
    BY <1>1, <1>2, <1>3, <2>1, <2>3, RunStepKeeps
<1>4. CASE /\ job' \in {job, [job EXCEPT ![r.attempt] = "pending"]}
           /\ Step(s, [r EXCEPT !.phase = "persisting", !.ending = "FAILED"])
  <2> DEFINE q == [r EXCEPT !.phase = "persisting", !.ending = "FAILED"]
  <2>1. EndingFits(r.attempt, "FAILED", job, run)
    BY NotSure
  <2>2. Follows(s, q) /\ r \in Runs
    BY <1>1, <2>1, FoundEnding, FitsNow
  <2>3. q.phase \notin Unasked
    BY <2>2 DEF Unasked, Runs
  <2>4. JobStep /\ job' \in [Attempts -> Lifecycle!Phases]
    BY <1>1, <1>4, <2>3, AskedJob
  <2> QED
    BY <1>1, <1>2, <1>4, <2>2, <2>4, RunStepKeeps
<1> QED
  BY <1>3, <1>4 DEF Submit

LEMMA RepeatKeeps ==
  ASSUME IInv, NEW s \in Slots, Repeat(s)
  PROVE  IInv'
<1> DEFINE r == run[s]
<1>1. r.phase = "retrying" /\ UNCHANGED <<study, tab, issued>> /\ unkept' = {}
  BY UnkeptIsEmpty DEF Repeat, Requested
<1>2. events' \in 0..MaxEvents
  BY EventsBounded DEF Repeat
<1>3. CASE job' = [job EXCEPT ![r.attempt] = "pending"] /\ Step(s, [r EXCEPT !.phase = "resume"])
  <2> DEFINE q == [r EXCEPT !.phase = "resume"]
  <2>1. Follows(s, q) /\ r \in Runs
    BY <1>1, GoesOn, FitsNow
  <2>2. q.phase \notin Unasked
    BY <2>1 DEF Unasked, Runs
  <2>3. JobStep /\ job' \in [Attempts -> Lifecycle!Phases]
    BY <1>1, <1>3, <2>2, AskedJob
  <2> QED
    BY <1>1, <1>2, <1>3, <2>1, <2>3, RunStepKeeps
<1>4. CASE job' \in {job, [job EXCEPT ![r.attempt] = "pending"]} /\ Ends(s)
  <2>1. Follows(s, Idle) /\ Idle.phase \notin Unasked /\ Step(s, Idle)
    BY <1>4, IdleFollows DEF Idle, Unasked, Ends
  <2>2. JobStep /\ job' \in [Attempts -> Lifecycle!Phases]
    BY <1>1, <1>4, <2>1, AskedJob
  <2> QED
    BY <1>1, <1>2, <2>1, <2>2, RunStepKeeps
<1> QED
  BY <1>3, <1>4 DEF Repeat

LEMMA CancelKeeps ==
  ASSUME IInv, NEW s \in Slots, Cancel(s)
  PROVE  IInv'
<1> DEFINE r == run[s]
<1>1. r.phase = "cancelling" /\ UNCHANGED <<study, tab, issued>> /\ unkept' = {}
  BY UnkeptIsEmpty DEF Cancel, Requested
<1>2. events' \in 0..MaxEvents
  BY EventsBounded DEF Cancel
<1>3. job \in [Attempts -> Lifecycle!Phases] /\ {"cancelling", "cancelled"} \subseteq Lifecycle!Phases
  BY DEF IInv, TypeOK, Lifecycle!Phases, Lifecycle!Endings
<1>4. \/ job' = job
      \/ /\ job[r.attempt] \in {"pending", "cancelling"}
         /\ \E p \in {"cancelling", "cancelled", job[r.attempt]} : job' = [job EXCEPT ![r.attempt] = p]
  BY DEF Cancel
<1>5. JobStep
  BY <1>3, <1>4 DEF JobStep
<1>6. job' \in [Attempts -> Lifecycle!Phases]
  <2>1. r.attempt \in Attempts
    BY <1>1, FitsNow DEF Placed
  <2> QED
    BY <1>3, <1>4, <2>1
<1>7. CASE Step(s, [r EXCEPT !.phase = "resume"])
  <2>1. Follows(s, [r EXCEPT !.phase = "resume"])
    BY <1>1, GoesOn
  <2> QED
    BY <1>1, <1>2, <1>5, <1>6, <1>7, <2>1, RunStepKeeps
<1>8. CASE Ends(s)
  BY <1>1, <1>2, <1>5, <1>6, <1>8, IdleFollows, RunStepKeeps DEF Ends
<1> QED
  BY <1>7, <1>8 DEF Cancel

LEMMA PollKeeps ==
  ASSUME IInv, NEW s \in Slots, Poll(s)
  PROVE  IInv'
<1> DEFINE r == run[s]
<1>1. /\ r.phase = "polling" /\ UNCHANGED <<study, tab, issued, job>> /\ unkept' = {}
      /\ Event \/ UNCHANGED events
  BY UnkeptIsEmpty DEF Poll, Requested
<1>2. r.attempt \in Attempts
  BY <1>1, FitsNow DEF Placed
<1>3. ASSUME NEW ending, Step(s, [r EXCEPT !.phase = "persisting", !.ending = ending]),
             <<job[r.attempt], ending>> \in {<<"absent", "INTERRUPTED">>, <<"failed", "FAILED">>, <<"cancelled", "CANCELLED">>}
      PROVE  IInv'
  <2>1. EndingFits(r.attempt, ending, job, run)
    BY <1>2, <1>3, SureEnding, NotSure
  <2>2. Follows(s, [r EXCEPT !.phase = "persisting", !.ending = ending])
    BY <1>1, <2>1, FoundEnding
  <2> QED
    BY <1>1, <1>3, <2>2, QuietStepKeeps
<1>4. CASE Step(s, [r EXCEPT !.phase = "fetching"])
  <2>1. Follows(s, [r EXCEPT !.phase = "fetching"])
    BY <1>1, GoesOn
  <2> QED
    BY <1>1, <1>4, <2>1, QuietStepKeeps
<1>5. CASE Ends(s)
  BY <1>1, <1>5, EndKeeps
<1> QED
  BY <1>3, <1>4, <1>5 DEF Poll

LEMMA FetchKeeps ==
  ASSUME IInv, NEW s \in Slots, Fetch(s)
  PROVE  IInv'
<1> DEFINE r == run[s]
<1>1. /\ r.phase = "fetching" /\ UNCHANGED <<study, tab, issued, job>> /\ unkept' = {}
      /\ Event \/ UNCHANGED events
  BY UnkeptIsEmpty DEF Fetch, Requested
<1>2. r.attempt \in Attempts
  BY <1>1, FitsNow DEF Placed
<1>3. ASSUME NEW ending, Step(s, [r EXCEPT !.phase = "persisting", !.ending = ending]),
             ending \in {"INTERRUPTED", "UNFETCHED"} \/ (job[r.attempt] = "succeeded" /\ ending = "SUCCEEDED")
      PROVE  IInv'
  <2>1. EndingFits(r.attempt, ending, job, run)
    BY <1>2, <1>3, SureEnding, NotSure
  <2>2. Follows(s, [r EXCEPT !.phase = "persisting", !.ending = ending])
    BY <1>1, <2>1, FoundEnding
  <2> QED
    BY <1>1, <1>3, <2>2, QuietStepKeeps
<1>4. CASE Ends(s)
  BY <1>1, <1>4, EndKeeps
<1> QED
  BY <1>3, <1>4 DEF Fetch

-----------------------------------------------------------------------------
(* Recording an ending                                                       *)

\* Of two documents with what one has, the study reports the ending.
LEMMA ReportsNothingEarly ==
  ASSUME IInv, NEW s \in Slots, Reports(s), run[s].mounted => Has(study', run[s].attempt, Endings)
  PROVE  unkept' = {}
  BY DEF Reports, IInv, CompletedIsStored

\* A document with the ending a run has in hand fits.
LEMMA EndedFits ==
  ASSUME IInv, NEW d \in Documents, Fits(d, issued, job, run), NEW s \in Slots,
         run[s].phase = "persisting", Appendable(d, run[s].attempt, run[s].scenario)
  PROVE  LET w == With(d, Ending(run[s].attempt, run[s].scenario, run[s].ending))
         IN  w \in Documents /\ Fits(w, issued, job, run) /\ Has(w, run[s].attempt, Endings)
<1> DEFINE a == run[s].attempt
           r == Ending(a, run[s].scenario, run[s].ending)
           w == With(d, r)
<1>1. EndingFits(a, run[s].ending, job, run) /\ a \in Attempts /\ run[s].ending \in Endings
      /\ run[s].scenario \in Scenarios
  BY FitsNow DEF EndingFits, Placed
<1>2. /\ r \in Records /\ r.attempt = a /\ r.status = run[s].ending /\ r.scenario = run[s].scenario
  BY <1>1, AttemptsAreNumbers DEF Ending, Records
<1> HIDE DEF r
<1>3. Sound(w, issued)
  BY <1>1, <1>2, EndingIsSound, TypesOf DEF Fits, IInv
<1>4. \A b, S : Has(w, b, S) <=> Has(d, b, S) \/ (b = a /\ run[s].ending \in S)
  BY <1>2, HasWith
<1>5. w \in Documents
  BY <1>2, WithAppends
<1> HIDE DEF w
<1>6. \A b \in Attempts :
         /\ Has(w, b, {"SUCCEEDED"}) => job[b] \in {"succeeded", "absent"}
         /\ Has(w, b, {"CANCELLED"}) => job[b] \in {"cancelled", "absent"}
  BY <1>1, <1>4 DEF Fits, EndingFits
<1>7. \A x \in Slots : run[x].phase \in Unasked => ~Has(w, run[x].attempt, Sure)
  BY <1>1, <1>4 DEF Fits, EndingFits
<1>8. Has(w, a, Endings)
  BY <1>1, <1>4
<1>9. Fits(w, issued, job, run)
  BY <1>3, <1>6, <1>7 DEF Fits
<1> QED
  BY <1>5, <1>8, <1>9 DEF w, r

LEMMA PersistKeeps ==
  ASSUME IInv, NEW s \in Slots, Persist(s)
  PROVE  IInv'
<1> DEFINE r == run[s]
           d == Shown(r.tab)
           onto == IF d = Nothing THEN r.held ELSE d
           next == IF d = Nothing THEN "detaching" ELSE "appending"
<1>1. /\ r.phase = "persisting" /\ Quiet(r.tab) /\ r \in Runs /\ Placed(r, tab, study, issued)
      /\ UNCHANGED <<study, tab, issued, job, events>>
  BY FitsNow DEF Persist
<1>2. r.tab \in Tabs /\ r.attempt \in Attempts /\ r.scenario \in Scenarios
  BY <1>1 DEF Placed
<1>3. d \in Documents /\ Fits(d, issued, job, run) /\ d = tab[r.tab].base
  BY <1>1, <1>2, ShownFits
<1>4. CASE Shows(d, r.attempt, Endings) /\ Ends(s) /\ Reports(s)
  <2>1. Has(study', r.attempt, Endings)
    BY <1>1, <1>2, <1>3, <1>4, ShownIsHad, HasGrows DEF IInv, BasesOld
  <2>2. unkept' = {}
    BY <1>4, <2>1, ReportsNothingEarly
  <2> QED
    BY <1>1, <1>4, <2>2, EndKeeps
<1>5. CASE /\ Appendable(onto, r.attempt, r.scenario) /\ UNCHANGED unkept
           /\ Step(s, [r EXCEPT !.phase = next, !.held = With(onto, Ending(r.attempt, r.scenario, r.ending))])
  <2> DEFINE w == With(onto, Ending(r.attempt, r.scenario, r.ending))
             q == [r EXCEPT !.phase = next, !.held = w]
  <2>1. onto \in Documents /\ Fits(onto, issued, job, run)
    BY <1>3, FitsNow, TypesOf DEF IInv
  <2>2. next \in {"detaching", "appending"}
    OBVIOUS
  <2> HIDE DEF onto, next
  <2>3. w \in Documents /\ Fits(w, issued, job, run) /\ Has(w, r.attempt, Endings)
    BY <1>1, <1>5, <2>1, EndedFits
  <2> HIDE DEF w
  <2>4. /\ q \in Runs /\ q.phase = next /\ q.held = w /\ q.attempt = r.attempt /\ q.tab = r.tab
        /\ q.scenario = r.scenario
    BY <1>1, <2>2, <2>3 DEF Runs, Phases, Awaiting
  <2>5. Placed(q, tab, study, issued)
    BY <1>1, <1>2, <2>2, <2>3, <2>4 DEF Placed, Unasked
  <2>6. Follows(s, q)
    BY <2>2, <2>3, <2>4, <2>5 DEF Follows, Unasked
  <2>7. Step(s, q)
    BY <1>5 DEF w
  <2> QED
    BY <1>1, <1>5, <2>6, <2>7, QuietStepKeeps, UnkeptIsEmpty
<1>6. CASE Ends(s) /\ UNCHANGED unkept
  BY <1>1, <1>6, EndKeeps, UnkeptIsEmpty
<1> QED
  BY <1>4, <1>5, <1>6 DEF Persist

LEMMA SavedKeeps ==
  ASSUME IInv, NEW s \in Slots, Saved(s)
  PROVE  IInv'
<1> DEFINE r == run[s]
<1>1. /\ r.phase = "saving" /\ Quiet(r.tab) /\ Placed(r, tab, study, issued)
      /\ UNCHANGED <<study, tab, issued, job, events>> /\ Ends(s) /\ Reports(s)
  BY FitsNow DEF Saved
<1>2. r.mounted => Has(study, r.attempt, Endings)
  BY <1>1 DEF Placed, Coming, Quiet
<1>3. unkept' = {}
  BY <1>1, <1>2, ReportsNothingEarly
<1> QED
  BY <1>1, <1>3, EndKeeps

-----------------------------------------------------------------------------
(* Edits                                                                     *)

LEMMA EditedTab ==
  ASSUME IInv, NEW t \in Tabs, NEW d \in Documents, Edited(t, d)
  PROVE  /\ tab' \in [Tabs -> [base : Documents, pending : Seq(Documents)]]
         /\ \A u \in Tabs :
               /\ tab'[u].base = tab[u].base
               /\ \A i \in DOMAIN tab'[u].pending :
                     tab'[u].pending[i] = d \/ \E j \in DOMAIN tab[u].pending : tab'[u].pending[i] = tab[u].pending[j]
         /\ \E i \in DOMAIN tab'[t].pending : tab'[t].pending[i] = d
         /\ \A u \in Tabs : TabKeeps(u)
         /\ BaseStep
<1>1. tab \in [Tabs -> [base : Documents, pending : Seq(Documents)]]
  BY DEF IInv, TypeOK
<1>2. /\ tab[t].pending \in Seq(Documents)
      /\ tab' = [tab EXCEPT ![t].pending = Append(@, d)]
  BY <1>1 DEF Edited
<1>3. /\ tab'[t].base = tab[t].base /\ tab'[t].pending = Append(tab[t].pending, d)
      /\ \A u \in Tabs : u # t => tab'[u] = tab[u]
  BY <1>1, <1>2
<1>4. /\ DOMAIN tab'[t].pending = 1..Len(tab[t].pending) + 1
      /\ DOMAIN tab[t].pending = 1..Len(tab[t].pending)
      /\ \A i \in DOMAIN tab[t].pending : tab'[t].pending[i] = tab[t].pending[i]
      /\ tab'[t].pending[Len(tab[t].pending) + 1] = d
      /\ Len(tab[t].pending) \in Nat
  BY <1>2, <1>3
<1>5. tab' \in [Tabs -> [base : Documents, pending : Seq(Documents)]]
  <2>1. Append(tab[t].pending, d) \in Seq(Documents)
    BY <1>2
  <2> QED
    BY <1>1, <1>2, <2>1
<1>6. \A u \in Tabs : tab'[u].base = tab[u].base
  BY <1>3
<1>7. ASSUME NEW u \in Tabs, NEW i \in DOMAIN tab'[u].pending
      PROVE  tab'[u].pending[i] = d \/ \E j \in DOMAIN tab[u].pending : tab'[u].pending[i] = tab[u].pending[j]
  <2>1. CASE u # t
    BY <1>3, <1>7, <2>1
  <2>2. CASE u = t
    <3>1. i \in 1..Len(tab[t].pending) + 1
      BY <1>4, <1>7, <2>2
    <3>2. CASE i = Len(tab[t].pending) + 1
      BY <1>4, <2>2, <3>2
    <3>3. CASE i \in 1..Len(tab[t].pending)
      BY <1>4, <2>2, <3>3
    <3> QED
      BY <1>4, <3>1, <3>2, <3>3
  <2> QED
    BY <2>1, <2>2
<1>8. \E i \in DOMAIN tab'[t].pending : tab'[t].pending[i] = d
  BY <1>4
<1>9. \A u \in Tabs : TabKeeps(u)
  <2>1. TabKeeps(t)
    BY <1>4 DEF TabKeeps
  <2> QED
    BY <1>3, <2>1 DEF TabKeeps
<1>10. BaseStep
  BY <1>6, PrecedesItself DEF BaseStep
<1> QED
  BY <1>5, <1>6, <1>7, <1>8, <1>9, <1>10

\* An edit that leaves the records alone.
LEMMA OtherEditKeeps ==
  ASSUME IInv, NEW t \in Tabs, NEW d \in Documents, Edited(t, d),
         d.records = Shown(t).records, d.scenarios \subseteq Shown(t).scenarios,
         UNCHANGED <<study, run, issued, job, unkept>>, events' \in 0..MaxEvents
  PROVE  IInv'
<1>1. Edited(t, d) /\ UNCHANGED <<study, run, issued, job, unkept>> /\ events' \in 0..MaxEvents
  OBVIOUS
<1>2. Shown(t) \in Documents /\ Fits(Shown(t), issued, job, run)
  BY ShownFits
<1>3. d \in Documents
  OBVIOUS
<1>4. Fits(d, issued, job, run)
  BY <1>2, FewerScenarios
<1>5. TypeOK'
  BY <1>1, <1>3, EditedTab DEF TypeOK, IInv
<1>6. JobStep /\ RunStep
  BY <1>1, SameJobs DEF RunStep
<1>7. DocStep
  BY <1>1, <1>3, <1>4, FitsNow, EditedTab DEF DocStep
<1>8. EndStep
  BY <1>1, FitsNow DEF EndStep
<1>9. RunsPlaced'
  BY <1>1, <1>3, StaysPlaced, EditedTab, PrecedesItself, TypesOf DEF RunsPlaced, IInv
<1>10. Precedes(study, study') /\ BaseStep /\ unkept' = {}
  BY <1>1, <1>3, EditedTab, PrecedesItself, UnkeptIsEmpty
<1> QED
  BY <1>1, <1>5, <1>6, <1>7, <1>8, <1>9, <1>10, StepKeeps

LEMMA UserEditKeeps ==
  ASSUME IInv, NEW t \in Tabs, UserEdit(t)
  PROVE  IInv'
<1> DEFINE d == [Shown(t) EXCEPT !.revision = @ + 1]
<1>1. Edited(t, d) /\ UNCHANGED <<study, run, issued, job, unkept>> /\ events' \in 0..MaxEvents
  BY EventsBounded DEF UserEdit, Elsewhere
<1>2. d \in Documents /\ d.records = Shown(t).records /\ d.scenarios = Shown(t).scenarios
  BY ShownFits DEF Documents
<1> HIDE DEF d
<1> QED
  BY <1>1, <1>2, OtherEditKeeps

LEMMA DeleteScenarioKeeps ==
  ASSUME IInv, NEW t \in Tabs, NEW c, DeleteScenario(t, c)
  PROVE  IInv'
<1> DEFINE d == [Shown(t) EXCEPT !.revision = @ + 1, !.scenarios = @ \ {c}]
<1>1. Edited(t, d) /\ UNCHANGED <<study, run, issued, job, unkept>> /\ events' \in 0..MaxEvents
  BY EventsBounded DEF DeleteScenario, Elsewhere
<1>2. d \in Documents /\ d.records = Shown(t).records /\ d.scenarios \subseteq Shown(t).scenarios
  <2> DEFINE shown == Shown(t)
             revision == shown.revision + 1
             scenarios == shown.scenarios \ {c}
  <2>1. shown \in [revision : Nat, scenarios : SUBSET Scenarios, records : Seq(Records)]
    BY ShownFits DEF Documents
  <2>2. revision \in Nat /\ scenarios \in SUBSET Scenarios /\ scenarios \subseteq shown.scenarios
    BY <2>1
  <2>3. d = [shown EXCEPT !.revision = revision, !.scenarios = scenarios]
    OBVIOUS
  <2> HIDE DEF d, shown, revision, scenarios
  <2>4. d \in [revision : Nat, scenarios : SUBSET Scenarios, records : Seq(Records)]
    BY <2>1, <2>2, <2>3
  <2>5. d.records = shown.records /\ d.scenarios = scenarios
    BY <2>1, <2>3
  <2> QED
    BY <2>2, <2>4, <2>5 DEF Documents, shown
<1> HIDE DEF d
<1> QED
  BY <1>1, <1>2, OtherEditKeeps

LEMMA AppendEndingKeeps ==
  ASSUME IInv, NEW s \in Slots, AppendEnding(s)
  PROVE  IInv'
<1> DEFINE r == run[s]
           q == [r EXCEPT !.phase = "saving", !.held = Nothing]
<1>1. /\ r.phase = "appending" /\ r \in Runs /\ Placed(r, tab, study, issued)
      /\ UNCHANGED <<study, issued, job, unkept, events>> /\ unkept' = {}
  BY FitsNow, UnkeptIsEmpty DEF AppendEnding
<1>2. /\ r.tab \in Tabs /\ r.scenario \in Scenarios /\ r.attempt \in Attempts
      /\ Has(r.held, r.attempt, Endings)
  BY <1>1 DEF Placed
<1>3. CASE Ends(s) /\ UNCHANGED tab
  BY <1>1, <1>3, EndKeeps
<1>4. CASE Edited(r.tab, r.held) /\ Step(s, q)
  <2>1. r.held \in Documents /\ Fits(r.held, issued, job, run)
    BY FitsNow, TypesOf DEF IInv
  <2>2. /\ q \in Runs /\ q.phase = "saving" /\ q.attempt = r.attempt /\ q.tab = r.tab
        /\ q.scenario = r.scenario /\ q.held = Nothing
    BY <1>1, NothingFits DEF Runs, Phases, Awaiting
  <2>3. run' \in [Slots -> Runs] /\ run'[s] = q /\ \A x \in Slots : x # s => run'[x] = run[x]
    BY <1>4, <2>2 DEF IInv, TypeOK, Runs, Step
  <2> HIDE DEF q
  <2>4. TypeOK'
    BY <1>1, <1>2, <1>4, <2>1, <2>3, EditedTab DEF TypeOK, Runs, IInv
  <2>5. JobStep /\ RunStep
    BY <1>1, <2>2, <2>3, SameJobs DEF RunStep, Unasked
  <2>6. DocStep
    <3>1. \A t \in Tabs : Fits(tab'[t].base, issued, job, run)
      BY <1>2, <1>4, <2>1, FitsNow, EditedTab
    <3>2. ASSUME NEW t \in Tabs, NEW i \in DOMAIN tab'[t].pending
          PROVE  Fits(tab'[t].pending[i], issued, job, run)
      <4>1. tab'[t].pending[i] = r.held \/ \E j \in DOMAIN tab[t].pending : tab'[t].pending[i] = tab[t].pending[j]
        BY <1>2, <1>4, <2>1, <3>2, EditedTab
      <4> QED
        BY <2>1, <4>1, FitsNow
    <3>3. \A x \in Slots : Fits(run'[x].held, issued, job, run)
      BY <2>2, <2>3, FitsNow, NothingFits
    <3> QED
      BY <1>1, <3>1, <3>2, <3>3, FitsNow DEF DocStep
  <2>7. EndStep
    BY <1>1, <2>2, <2>3, FitsNow DEF EndStep
  <2>8. Placed(run'[s], tab', study', issued')
    <3>1. \E i \in DOMAIN tab'[r.tab].pending : tab'[r.tab].pending[i] = r.held
      BY <1>2, <1>4, <2>1, EditedTab
    <3>2. Coming(tab'[r.tab], r.attempt, Endings, study')
      BY <1>2, <3>1 DEF Coming
    <3> QED
      BY <1>1, <1>2, <2>2, <2>3, <3>2 DEF Placed, Unasked
  <2>9. ASSUME NEW x \in Slots, x # s
        PROVE  Placed(run'[x], tab', study', issued')
    BY <1>1, <1>2, <1>4, <2>1, <2>3, <2>9, StaysPlaced, EditedTab, PrecedesItself, TypesOf DEF IInv
  <2>10. RunsPlaced'
    BY <2>8, <2>9 DEF RunsPlaced
  <2>11. Precedes(study, study') /\ BaseStep
    BY <1>1, <1>2, <1>4, <2>1, EditedTab, PrecedesItself
  <2> QED
    BY <1>1, <2>4, <2>5, <2>6, <2>7, <2>10, <2>11, StepKeeps
<1> QED
  BY <1>3, <1>4 DEF AppendEnding

\* The one step that makes an attempt: nobody knows of it.
LEMMA NewAttempt ==
  ASSUME IInv, issued < MaxAttempts
  PROVE  /\ issued + 1 \in Attempts
         /\ \A d, S : Fits(d, issued, job, run) /\ d \in Documents => ~Has(d, issued + 1, S)
         /\ job[issued + 1] = "absent"
         /\ \A s \in Slots : run[s].attempt # issued + 1
<1>1. issued \in Nat /\ issued + 1 \in Attempts
  BY AttemptsAreNumbers, TypesOf DEF IInv, Attempts
<1>2. ASSUME NEW d \in Documents, Fits(d, issued, job, run), NEW S, Has(d, issued + 1, S)
      PROVE  FALSE
  BY <1>1, <1>2 DEF Fits, Sound, Has
<1>3. job[issued + 1] = "absent"
  <2>1. ~Has(study, issued + 1, {"QUEUED"})
    BY <1>2, FitsNow, TypesOf DEF IInv
  <2> QED
    BY <1>1, <2>1 DEF IInv, ReservedFirst
<1>4. \A s \in Slots : run[s].attempt # issued + 1
  BY <1>1, FitsNow, TypesOf DEF Placed, IInv
<1> QED
  BY <1>1, <1>2, <1>3, <1>4

LEMMA ReserveKeeps ==
  ASSUME IInv, NEW s \in Slots, Reserve(s)
  PROVE  IInv'
<1> DEFINE r == run[s]
           a == issued + 1
           n == Reservation(a, r.scenario, r.again)
           w == With(r.held, n)
           q == [r EXCEPT !.phase = "reserving", !.attempt = a, !.held = Nothing]
<1>1. /\ r.phase = "building" /\ r \in Runs /\ Placed(r, tab, study, issued)
      /\ UNCHANGED <<study, job, unkept, events>> /\ unkept' = {}
  BY FitsNow, UnkeptIsEmpty DEF Reserve
<1>2. CASE Ends(s) /\ UNCHANGED <<tab, issued>>
  BY <1>1, <1>2, EndKeeps
<1>3. CASE issued < MaxAttempts /\ Edited(r.tab, w) /\ issued' = a /\ Step(s, q)
  <2>1. /\ a \in Attempts /\ issued \in Nat /\ job[a] = "absent"
        /\ \A d, S : Fits(d, issued, job, run) /\ d \in Documents => ~Has(d, a, S)
        /\ \A x \in Slots : run[x].attempt # a
    BY <1>3, NewAttempt, TypesOf DEF IInv
  <2>2. r.tab \in Tabs /\ r.scenario \in Scenarios
    BY <1>1 DEF Placed
  <2>3. r.held \in Documents /\ Fits(r.held, issued, job, run)
    BY FitsNow, TypesOf DEF IInv
  <2>4. /\ q \in Runs /\ q.phase = "reserving" /\ q.attempt = a /\ q.tab = r.tab /\ q.held = Nothing
        /\ q.scenario = r.scenario
    <3>1. a \in 0..MaxAttempts
      BY <2>1, AttemptsAreNumbers DEF Attempts
    <3> QED
      BY <1>1, <3>1, NothingFits DEF Runs, Phases, Awaiting
  <2>5. run' \in [Slots -> Runs] /\ run'[s] = q /\ \A x \in Slots : x # s => run'[x] = run[x]
    BY <1>3, <2>4 DEF IInv, TypeOK, Runs, Step
  <2> HIDE DEF q
  <2>16. /\ n \in Records /\ n.attempt = a /\ n.status = "QUEUED" /\ n.scenario = r.scenario
         /\ n.repeats = r.again
    BY <1>1, <2>1, <2>2 DEF Reservation, Records, Runs
  <2> HIDE DEF n
  <2>6. w \in Documents /\ Has(w, a, {"QUEUED"})
    BY <2>3, <2>16, WithAppends, HasWith
  <2>7. TypeOK'
    <3>1. issued' \in 0..MaxAttempts
      BY <1>3, <2>1, AttemptsAreNumbers DEF Attempts
    <3> QED
      BY <1>1, <1>3, <2>2, <2>5, <2>6, <3>1, EditedTab DEF TypeOK, Runs, IInv
  <2>8. ASSUME NEW d \in Documents, Fits(d, issued, job, run)
        PROVE  Fits(d, issued', job', run')
    <3>1. Sound(d, issued')
      <4>1. Sound(d, issued)
        BY <2>8 DEF Fits
      <4>2. \A i \in DOMAIN d.records : d.records[i].attempt \in Nat /\ d.records[i].attempt <= issued
        BY <4>1, RecordsOf, AttemptsAreNumbers DEF Sound
      <4>3. \A i \in DOMAIN d.records : d.records[i].attempt <= issued'
        BY <1>3, <2>1, <4>2
      <4> QED
        BY <4>1, <4>3 DEF Sound
    <3>2. ~Has(d, a, Sure)
      BY <2>1, <2>8
    <3>3. \A x \in Slots : run'[x].phase \in Unasked => ~Has(d, run'[x].attempt, Sure)
      BY <2>4, <2>5, <2>8, <3>2 DEF Fits
    <3> QED
      BY <1>1, <2>8, <3>1, <3>3 DEF Fits
  <2>9. Fits(w, issued', job', run')
    <3>1. Sound(w, issued')
      <4>1. Unfinished(r.held, n.scenario) = {} \/ Has(r.held, n.repeats, Bad)
        BY <1>1, <2>16 DEF Placed
      <4> QED
        BY <1>3, <2>1, <2>3, <2>16, <4>1, ReservationIsSound DEF Fits
    <3>2. Fits(r.held, issued', job', run')
      BY <2>3, <2>8
    <3>3. \A b : /\ Has(w, b, Sure) <=> Has(r.held, b, Sure)
                 /\ Has(w, b, {"SUCCEEDED"}) <=> Has(r.held, b, {"SUCCEEDED"})
                 /\ Has(w, b, {"CANCELLED"}) <=> Has(r.held, b, {"CANCELLED"})
      BY <2>3, <2>16, HasWith DEF Sure
    <3> QED
      BY <3>1, <3>2, <3>3 DEF Fits
  <2> HIDE DEF w
  <2>10. CopiesFit'
    <3>1. Fits(study', issued', job', run')
      BY <1>1, <2>8, FitsNow, TypesOf DEF IInv
    <3>2. \A t \in Tabs : Fits(tab'[t].base, issued', job', run')
      BY <1>3, <2>2, <2>6, <2>8, FitsNow, TypesOf, EditedTab DEF IInv
    <3>3. ASSUME NEW t \in Tabs, NEW i \in DOMAIN tab'[t].pending
          PROVE  Fits(tab'[t].pending[i], issued', job', run')
      <4>1. tab'[t].pending[i] = w \/ \E j \in DOMAIN tab[t].pending : tab'[t].pending[i] = tab[t].pending[j]
        BY <1>3, <2>2, <2>6, <3>3, EditedTab
      <4> QED
        BY <2>8, <2>9, <4>1, FitsNow, TypesOf DEF IInv
    <3>4. \A x \in Slots : Fits(run'[x].held, issued', job', run')
      BY <2>4, <2>5, <2>8, FitsNow, TypesOf, NothingFits DEF IInv
    <3> QED
      BY <3>1, <3>2, <3>3, <3>4 DEF CopiesFit
  <2>11. EndingsFit'
    <3> SUFFICES ASSUME NEW x \in Slots, run'[x].phase = "persisting"
                 PROVE  EndingFits(run'[x].attempt, run'[x].ending, job', run')
      BY DEF EndingsFit
    <3>1. x # s /\ run'[x] = run[x]
      BY <2>4, <2>5
    <3>2. EndingFits(run[x].attempt, run[x].ending, job, run)
      BY <3>1, FitsNow
    <3> QED
      BY <1>1, <2>1, <2>4, <2>5, <3>1, <3>2 DEF EndingFits
  <2>12. AskedOnce'
    <3> SUFFICES ASSUME NEW x \in Slots, run'[x].phase \in Unasked
                 PROVE  /\ job'[run'[x].attempt] = "absent"
                        /\ \A y \in Slots : run'[y].phase \in Unasked /\ run'[y].attempt = run'[x].attempt => y = x
      BY DEF AskedOnce
    <3> QED
      BY <1>1, <2>1, <2>4, <2>5 DEF IInv, AskedOnce
  <2>13. ReservedFirst'
    BY <1>1 DEF IInv, ReservedFirst
  <2>14. RunsPlaced'
    <3>1. Coming(tab'[r.tab], a, {"QUEUED"}, study')
      BY <1>3, <2>2, <2>6, EditedTab DEF Coming
    <3>2. Placed(run'[s], tab', study', issued')
      BY <1>3, <2>1, <2>2, <2>4, <2>5, <3>1 DEF Placed
    <3>3. ASSUME NEW x \in Slots, x # s
          PROVE  Placed(run'[x], tab', study', issued')
      <4>1. issued' \in Nat /\ issued <= issued'
        BY <1>3, <2>1
      <4> QED
        BY <1>1, <1>3, <2>2, <2>5, <2>6, <3>3, <4>1, StaysPlaced, EditedTab, PrecedesItself
    <3> QED
      BY <3>2, <3>3 DEF RunsPlaced
  <2>15. BasesOld'
    BY <1>1, <1>3, <2>2, <2>6, EditedTab DEF IInv, BasesOld
  <2> QED
    BY <1>1, <2>7, <2>10, <2>11, <2>12, <2>13, <2>14, <2>15 DEF IInv, CompletedIsStored
<1> QED
  BY <1>2, <1>3 DEF Reserve

-----------------------------------------------------------------------------
(* The controller, the page and the server                                   *)

\* Runs that end, or whose page is left.
LEMMA PausesKeep ==
  ASSUME IInv, TypeOK',
         \A s \in Slots : run'[s] \in {run[s], Idle, [run[s] EXCEPT !.mounted = FALSE]},
         UNCHANGED <<issued, job, unkept>>,
         Precedes(study, study'), Fits(study', issued, job, run), BaseStep,
         \A t \in Tabs :
            /\ Fits(tab'[t].base, issued, job, run)
            /\ \A i \in DOMAIN tab'[t].pending : Fits(tab'[t].pending[i], issued, job, run),
         RunsPlaced'
  PROVE  IInv'
<1>1. \A s \in Slots :
         \/ run'[s] = Idle
         \/ /\ run'[s].phase = run[s].phase /\ run'[s].attempt = run[s].attempt
            /\ run'[s].held = run[s].held /\ run'[s].ending = run[s].ending
  BY FitsNow DEF Runs
<1>2. JobStep /\ unkept' = {}
  BY SameJobs, UnkeptIsEmpty
<1>3. RunStep
  BY <1>1 DEF RunStep, Idle, Unasked
<1>4. DocStep
  BY <1>1, FitsNow, NothingFits DEF DocStep, Idle
<1>5. EndStep
  BY <1>1, FitsNow DEF EndStep, Idle
<1> QED
  BY <1>2, <1>3, <1>4, <1>5, StepKeeps

LEMMA IdlePlaced ==
  ASSUME IInv, NEW tabs, NEW stored
  PROVE  Placed(Idle, tabs, stored, issued)
  BY TypesOf DEF IInv, Placed, Idle, Unasked

LEMMA SaveKeeps ==
  ASSUME IInv, NEW t \in Tabs, Save(t)
  PROVE  IInv'
<1> DEFINE document == Head(tab[t].pending)
<1>1. /\ tab[t].pending # <<>> /\ tab[t].pending \in Seq(Documents)
      /\ DOMAIN tab[t].pending = 1..Len(tab[t].pending)
      /\ UNCHANGED <<issued, job, unkept, events>> /\ TypeOK
      /\ tab \in [Tabs -> [base : Documents, pending : Seq(Documents)]]
      /\ run \in [Slots -> Runs]
  BY TypesOf DEF Save, Quiet, IInv, TypeOK, Runs
<1>2. /\ document \in Documents /\ document = tab[t].pending[1] /\ 1 \in DOMAIN tab[t].pending
  BY <1>1
<1>3. Fits(document, issued, job, run)
  BY <1>2, FitsNow
<1>4. CASE /\ Kept(document) /\ study' = document /\ UNCHANGED run
           /\ tab' = [tab EXCEPT ![t] = [base |-> document, pending |-> Tail(@.pending)]]
  <2>1. Precedes(study, study')
    BY <1>1, <1>2, <1>4, KeptPrecedes
  <2>2. /\ tab'[t].base = document /\ tab'[t].pending = Tail(tab[t].pending)
        /\ \A u \in Tabs : u # t => tab'[u] = tab[u]
    BY <1>1, <1>4
  <2>3. /\ Tail(tab[t].pending) \in Seq(Documents)
        /\ DOMAIN Tail(tab[t].pending) = 1..(Len(tab[t].pending) - 1)
        /\ \A i \in 1..(Len(tab[t].pending) - 1) : Tail(tab[t].pending)[i] = tab[t].pending[i + 1]
    BY <1>1
  <2>4. TypeOK'
    <3>1. tab' \in [Tabs -> [base : Documents, pending : Seq(Documents)]]
      BY <1>1, <1>2, <1>4, <2>3
    <3> QED
      BY <1>1, <1>2, <1>4, <3>1 DEF TypeOK
  <2>5. BaseStep
    BY <1>4, <2>2, PrecedesItself DEF BaseStep
  <2>6. \A u \in Tabs : Fits(tab'[u].base, issued, job, run)
    BY <1>3, <2>2, FitsNow
  <2>7. ASSUME NEW u \in Tabs, NEW i \in DOMAIN tab'[u].pending
        PROVE  Fits(tab'[u].pending[i], issued, job, run)
    <3>1. CASE u # t
      BY <2>2, <2>7, <3>1, FitsNow
    <3>2. CASE u = t
      <4>1. i \in 1..(Len(tab[t].pending) - 1) /\ tab'[u].pending[i] = tab[t].pending[i + 1]
        BY <2>2, <2>3, <2>7, <3>2
      <4>2. i + 1 \in DOMAIN tab[t].pending
        BY <1>1, <4>1
      <4> QED
        BY <4>1, <4>2, FitsNow
    <3> QED
      BY <3>1, <3>2
  <2>8. \A u \in Tabs : TabKeeps(u)
    <3>1. ASSUME NEW i \in DOMAIN tab[t].pending
          PROVE  \/ Precedes(tab[t].pending[i], study')
                 \/ \E j \in DOMAIN tab'[t].pending : tab'[t].pending[j] = tab[t].pending[i]
      <4>1. CASE i = 1
        BY <1>2, <1>4, <4>1, PrecedesItself
      <4>2. CASE i # 1
        <5>1. i - 1 \in 1..(Len(tab[t].pending) - 1) /\ (i - 1) + 1 = i
          BY <1>1, <3>1, <4>2
        <5> QED
          BY <2>2, <2>3, <5>1
      <4> QED
        BY <4>1, <4>2
    <3> QED
      BY <2>2, <3>1 DEF TabKeeps
  <2>9. RunsPlaced'
    <3>1. issued' \in Nat /\ issued <= issued'
      BY <1>1, TypesOf
    <3>2. \A s \in Slots : Placed(run'[s], tab', study', issued')
      BY <1>4, <2>1, <2>8, <3>1, StaysPlaced
    <3> QED
      BY <3>2 DEF RunsPlaced
  <2> QED
    BY <1>1, <1>3, <1>4, <2>1, <2>4, <2>5, <2>6, <2>7, <2>9, PausesKeep
<1>5. CASE Thrown(t) /\ UNCHANGED <<study, tab>>
  <2>1. \A s \in Slots : run'[s] \in {run[s], Idle}
    BY <1>5 DEF Thrown
  <2>2. run' \in [Slots -> Runs]
    BY <1>1, <1>5, IdleFollows DEF Thrown, Follows
  <2>3. TypeOK'
    BY <1>1, <1>5, <2>2 DEF TypeOK, Runs
  <2>4. BaseStep
    BY <1>5, PrecedesItself DEF BaseStep
  <2>5. RunsPlaced'
    BY <1>1, <1>5, <2>1, FitsNow, IdlePlaced DEF RunsPlaced
  <2> QED
    BY <1>1, <1>5, <2>1, <2>3, <2>4, <2>5, FitsNow, PrecedesItself, PausesKeep
<1> QED
  BY <1>4, <1>5 DEF Save

LEMMA ToldKeeps ==
  ASSUME IInv, NEW t \in Tabs, Told(t)
  PROVE  IInv'
<1>1. /\ tab' = [tab EXCEPT ![t].base = study] /\ UNCHANGED <<study, run, issued, job, unkept, events>>
      /\ TypeOK /\ study \in Documents
      /\ tab \in [Tabs -> [base : Documents, pending : Seq(Documents)]]
  BY DEF Told, IInv, TypeOK
<1>2. /\ tab'[t].base = study
      /\ \A u \in Tabs : tab'[u].pending = tab[u].pending /\ (u # t => tab'[u].base = tab[u].base)
  BY <1>1
<1>3. TypeOK'
  BY <1>1 DEF TypeOK
<1>4. Precedes(study, study') /\ BaseStep
  BY <1>1, <1>2, PrecedesItself DEF BaseStep
<1>5. \A u \in Tabs : TabKeeps(u)
  BY <1>2 DEF TabKeeps
<1>6. RunsPlaced'
  <2>1. issued' \in Nat /\ issued <= issued'
    BY <1>1, TypesOf
  <2>2. \A s \in Slots : Placed(run'[s], tab', study', issued')
    BY <1>1, <1>4, <1>5, <2>1, StaysPlaced
  <2> QED
    BY <2>2 DEF RunsPlaced
<1> QED
  BY <1>1, <1>2, <1>3, <1>4, <1>6, FitsNow, PausesKeep

\* A tab drops its edits, and its runs go on without their page, or end.
LEMMA DropKeeps ==
  ASSUME IInv, NEW t \in Tabs, NEW base \in {study, tab[t].base, Nothing},
         tab' = [tab EXCEPT ![t] = [base |-> base, pending |-> <<>>]],
         UNCHANGED <<study, issued, job, unkept>>, events' \in 0..MaxEvents,
         Unmounted(t) \/ run' = [s \in Slots |-> IF s \in Of(t) THEN Idle ELSE run[s]]
  PROVE  IInv'
<1>1. /\ TypeOK /\ study \in Documents /\ base \in Documents /\ run \in [Slots -> Runs]
      /\ tab \in [Tabs -> [base : Documents, pending : Seq(Documents)]]
  BY TypesOf, NothingFits DEF IInv, TypeOK, Runs
<1>2. /\ tab'[t].base = base /\ tab'[t].pending = <<>>
      /\ \A u \in Tabs : u # t => tab'[u] = tab[u]
  BY <1>1
<1>3. \A s \in Slots :
         /\ run[s].tab # t => run'[s] = run[s]
         /\ run[s].tab = t => \/ run'[s] = Idle
                              \/ run[s].phase # "reserving" /\ run'[s] = [run[s] EXCEPT !.mounted = FALSE]
  BY DEF Unmounted, Of
<1>4. run' \in [Slots -> Runs]
  <2>1. \A s \in Slots : [run[s] EXCEPT !.mounted = FALSE] \in Runs
    <3> SUFFICES ASSUME NEW s \in Slots
                 PROVE  [run[s] EXCEPT !.mounted = FALSE] \in Runs
      OBVIOUS
    <3>1. run[s] \in Runs
      BY <1>1
    <3> QED
      BY <3>1 DEF Runs
  <2>2. Idle \in Runs
    BY NothingFits, AttemptsAreNumbers DEF Idle, Runs, Phases, Awaiting
  <2>3. CASE Unmounted(t)
    BY <1>1, <2>1, <2>2, <2>3 DEF Unmounted
  <2>4. CASE run' = [s \in Slots |-> IF s \in Of(t) THEN Idle ELSE run[s]]
    BY <1>1, <2>2, <2>4
  <2> QED
    BY <2>3, <2>4
<1>5. TypeOK'
  <2>1. tab' \in [Tabs -> [base : Documents, pending : Seq(Documents)]]
    BY <1>1
  <2> QED
    BY <1>1, <1>4, <2>1 DEF TypeOK, Runs
<1>6. Precedes(study, study') /\ BaseStep
  <2>1. Precedes(Nothing, study)
    BY DEF Precedes, Nothing
  <2>2. \A u \in Tabs : tab'[u].base \in {tab[u].base, study, Nothing}
    BY <1>2
  <2> QED
    BY <2>1, <2>2, PrecedesItself DEF BaseStep
<1>7. \A u \in Tabs :
         /\ Fits(tab'[u].base, issued, job, run)
         /\ \A i \in DOMAIN tab'[u].pending : Fits(tab'[u].pending[i], issued, job, run)
  BY <1>2, FitsNow, NothingFits
<1>8. RunsPlaced'
  <2> SUFFICES ASSUME NEW s \in Slots
               PROVE  Placed(run'[s], tab', study', issued')
    BY DEF RunsPlaced
  <2>1. CASE run[s].tab # t
    <3>1. run'[s] = run[s] /\ \A u \in Tabs : u = run[s].tab => TabKeeps(u)
      BY <1>2, <1>3, <2>1 DEF TabKeeps
    <3>2. issued' \in Nat /\ issued <= issued'
      BY <1>1, TypesOf
    <3> QED
      BY <1>6, <3>1, <3>2, StaysPlaced
  <2>2. CASE run'[s] = Idle
    BY <2>2, IdlePlaced
  <2>3. CASE run[s].phase # "reserving" /\ run'[s] = [run[s] EXCEPT !.mounted = FALSE]
    <3> DEFINE q == run'[s]
    <3>1. run[s] \in Runs /\ Placed(run[s], tab, study, issued)
      BY FitsNow
    <3>2. /\ q.phase = run[s].phase /\ q.attempt = run[s].attempt /\ q.tab = run[s].tab /\ q.kind = run[s].kind
          /\ q.held = run[s].held /\ q.again = run[s].again /\ q.scenario = run[s].scenario /\ ~q.mounted
      BY <2>3, <3>1 DEF Runs
    <3> HIDE DEF q
    <3>3. Placed(q, tab', study', issued')
      BY <2>3, <3>1, <3>2 DEF Placed
    <3> QED
      BY <3>3 DEF q
  <2> QED
    BY <1>3, <2>1, <2>2, <2>3
<1>9. \A s \in Slots : run'[s] \in {run[s], Idle, [run[s] EXCEPT !.mounted = FALSE]}
  BY <1>3
<1> QED
  BY <1>5, <1>6, <1>7, <1>8, <1>9, FitsNow, PausesKeep

LEMMA OpenKeeps ==
  ASSUME IInv, NEW t \in Tabs, Open(t)
  PROVE  IInv'
<1> DEFINE base == IF Quiet(t) /\ tab[t].base # Nothing THEN tab[t].base ELSE study
<1>1. /\ tab' = [tab EXCEPT ![t] = [base |-> base, pending |-> <<>>]]
      /\ Unmounted(t) /\ UNCHANGED <<study, issued, job, unkept>> /\ events' \in 0..MaxEvents
  <2>1. tab \in [Tabs -> [base : Documents, pending : Seq(Documents)]]
    BY DEF IInv, TypeOK
  <2> QED
    BY <2>1, EventsBounded DEF Open
<1>2. base \in {study, tab[t].base, Nothing}
  OBVIOUS
<1> HIDE DEF base
<1> QED
  BY <1>1, <1>2, DropKeeps

LEMMA LeaveKeeps ==
  ASSUME IInv, NEW t \in Tabs, Leave(t)
  PROVE  IInv'
  BY EventsBounded, DropKeeps DEF Leave

LEMMA CloseKeeps ==
  ASSUME IInv, NEW t \in Tabs, Close(t)
  PROVE  IInv'
  BY EventsBounded, DropKeeps DEF Close

LEMMA DetachKeeps ==
  ASSUME IInv, NEW s \in Slots, Detach(s)
  PROVE  IInv'
<1> DEFINE r == run[s]
<1>1. /\ r.phase = "detaching" /\ Ends(s) /\ UNCHANGED <<tab, issued, job, events>>
      /\ Placed(r, tab, study, issued) /\ r.held \in Documents /\ Fits(r.held, issued, job, run)
      /\ TypeOK
  BY FitsNow, TypesOf DEF Detach, IInv
<1>2. CASE UNCHANGED <<study, unkept>>
  BY <1>1, <1>2, EndKeeps, UnkeptIsEmpty
<1>3. CASE Kept(r.held) /\ study' = r.held /\ Reports(s)
  <2>1. Precedes(study, study')
    BY <1>1, <1>3, KeptPrecedes
  <2>2. Has(study', r.attempt, Endings)
    BY <1>1, <1>3 DEF Placed
  <2>3. unkept' = {} /\ UNCHANGED unkept
    BY <1>3, <2>2, ReportsNothingEarly DEF IInv, CompletedIsStored
  <2>4. /\ run \in [Slots -> Runs] /\ Idle \in Runs
    BY IdleFollows DEF IInv, TypeOK, Runs, Follows
  <2>5. /\ run' \in [Slots -> Runs] /\ run'[s] = Idle /\ \A x \in Slots : x # s => run'[x] = run[x]
    BY <1>1, <2>4 DEF Ends, Step
  <2>6. TypeOK'
    BY <1>1, <1>3, <2>3, <2>5 DEF TypeOK, Runs
  <2>7. BaseStep /\ \A t \in Tabs : TabKeeps(t)
    BY <1>1, PrecedesItself DEF BaseStep, TabKeeps
  <2>8. RunsPlaced'
    BY <1>1, <2>1, <2>5, <2>7, IdlePlaced, StaysPlaced, TypesOf DEF RunsPlaced
  <2>9. \A x \in Slots : run'[x] \in {run[x], Idle, [run[x] EXCEPT !.mounted = FALSE]}
    BY <2>5
  <2> QED
    BY <1>1, <1>3, <2>1, <2>3, <2>6, <2>7, <2>8, <2>9, FitsNow, PausesKeep
<1> QED
  BY <1>2, <1>3 DEF Detach

\* The server goes on by itself.
LEMMA ServerKeeps ==
  ASSUME IInv, UNCHANGED <<study, tab, run, issued, unkept>>, events' \in 0..MaxEvents,
         job' \in [Attempts -> Lifecycle!Phases], JobStep
  PROVE  IInv'
<1>1. TypeOK'
  BY DEF IInv, TypeOK
<1>2. RunStep /\ DocStep /\ EndStep
  BY FitsNow DEF RunStep, DocStep, EndStep
<1>3. Precedes(study, study') /\ BaseStep /\ unkept' = {}
  BY PrecedesItself, UnkeptIsEmpty DEF BaseStep
<1>4. RunsPlaced'
  BY FitsNow DEF RunsPlaced
<1> QED
  BY <1>1, <1>2, <1>3, <1>4, StepKeeps

LEMMA ServerStepsKeep ==
  ASSUME IInv, Restart \/ \E a \in Attempts : JobEnds(a) \/ Forget(a)
  PROVE  IInv'
<1>1. job \in [Attempts -> Lifecycle!Phases] /\ "absent" \in Lifecycle!Phases
  BY DEF IInv, TypeOK, Lifecycle!Phases
<1>2. CASE Restart
  <2>1. job' = [a \in Attempts |-> "absent"] /\ UNCHANGED <<study, tab, run, issued, unkept>>
    BY <1>2 DEF Restart
  <2>2. JobStep /\ job' \in [Attempts -> Lifecycle!Phases]
    BY <1>1, <2>1 DEF JobStep
  <2> QED
    BY <1>2, <2>1, <2>2, EventsBounded, ServerKeeps DEF Restart
<1>3. ASSUME NEW a \in Attempts, JobEnds(a)
      PROVE  IInv'
  <2>1. PICK p \in Lifecycle!After(job[a]) \cap Lifecycle!Endings : job' = [job EXCEPT ![a] = p]
    BY <1>3 DEF JobEnds
  <2>2. /\ UNCHANGED <<study, tab, run, issued, unkept, events>> /\ job[a] \in {"pending", "cancelling"}
        /\ p \in Lifecycle!Phases
    BY <1>3 DEF JobEnds, Lifecycle!Phases
  <2>3. JobStep /\ job' \in [Attempts -> Lifecycle!Phases]
    BY <1>1, <2>1, <2>2 DEF JobStep
  <2> QED
    BY <2>2, <2>3, EventsBounded, ServerKeeps
<1>4. ASSUME NEW a \in Attempts, Forget(a)
      PROVE  IInv'
  <2>1. job' = [job EXCEPT ![a] = "absent"] /\ UNCHANGED <<study, tab, run, issued, unkept>>
    BY <1>4 DEF Forget
  <2>2. JobStep /\ job' \in [Attempts -> Lifecycle!Phases]
    BY <1>1, <2>1 DEF JobStep
  <2> QED
    BY <1>4, <2>1, <2>2, EventsBounded, ServerKeeps DEF Forget
<1> QED
  BY <1>2, <1>3, <1>4

-----------------------------------------------------------------------------
(* The invariant and what follows from it                                    *)

LEMMA InitHolds ==
  ASSUME Init
  PROVE  IInv
<1>1. DOMAIN study.records = {} /\ study \in Documents
  BY DEF Init, Documents
<1>2. TypeOK
  <2>1. tab \in [Tabs -> [base : Documents, pending : Seq(Documents)]]
    BY <1>1 DEF Init
  <2>2. run \in [Slots -> Runs]
    BY NothingFits, AttemptsAreNumbers DEF Init, Idle, Runs, Phases, Awaiting
  <2>3. job \in [Attempts -> Lifecycle!Phases]
    BY DEF Init, Lifecycle!Phases
  <2> QED
    BY <1>1, <2>1, <2>2, <2>3, AttemptsAssumption DEF Init, TypeOK, Runs
<1>3. \A n, jobs, runs : Fits(study, n, jobs, runs)
  BY <1>1 DEF Fits, Sound, Unfinished, Has
<1>4. CopiesFit
  BY <1>3, NothingFits DEF CopiesFit, Init, Idle
<1>5. EndingsFit /\ AskedOnce
  BY DEF EndingsFit, AskedOnce, Init, Idle, Unasked
<1>6. RunsPlaced
  BY DEF RunsPlaced, Placed, Init, Idle, Unasked
<1>7. ReservedFirst /\ BasesOld /\ CompletedIsStored
  BY PrecedesItself DEF ReservedFirst, BasesOld, CompletedIsStored, Init
<1> QED
  BY <1>2, <1>4, <1>5, <1>6, <1>7 DEF IInv

LEMMA NextKeeps ==
  ASSUME IInv, [Next]_vars
  PROVE  IInv'
<1>1. CASE UNCHANGED vars
  BY <1>1, SameJobs, EventsBounded, ServerKeeps DEF vars
<1>2. ASSUME NEW t \in Tabs, User(t)
      PROVE  IInv'
  <2>1. CASE UserEdit(t) \/ Open(t) \/ Leave(t) \/ Close(t)
    BY <2>1, UserEditKeeps, OpenKeeps, LeaveKeeps, CloseKeeps
  <2>2. ASSUME NEW c \in Scenarios, DeleteScenario(t, c) \/ StartRun(t, c) \/ StartCancel(t, c)
        PROVE  IInv'
    BY <2>2, DeleteScenarioKeeps, BeginKeeps, AttemptsAreNumbers DEF StartRun, StartCancel
  <2>3. ASSUME NEW a \in Attempts, StartRetry(t, a)
        PROVE  IInv'
    <3>1. a \in 0..MaxAttempts
      BY AttemptsAreNumbers DEF Attempts
    <3>2. PICK i \in DOMAIN Shown(t).records : Begin(t, "retry", Shown(t).records[i].scenario, a)
      BY <2>3 DEF StartRetry
    <3>3. Shown(t).records[i].scenario \in Scenarios
      BY ShownFits, RecordsOf DEF Records
    <3> QED
      BY <3>1, <3>2, <3>3, BeginKeeps
  <2> QED
    BY <1>2, <2>1, <2>2, <2>3 DEF User
<1>3. ASSUME NEW t \in Tabs, Save(t) \/ Told(t)
      PROVE  IInv'
  BY <1>3, SaveKeeps, ToldKeeps
<1>4. ASSUME NEW s \in Slots, Service(s)
      PROVE  IInv'
  BY <1>4, CommandChosenKeeps, CapturedKeeps, ReserveKeeps, ReservedKeeps, SubmitKeeps, RepeatKeeps,
     CancelKeeps, PollKeeps, FetchKeeps, PersistKeeps, AppendEndingKeeps, SavedKeeps, DetachKeeps DEF Service
<1> QED
  BY <1>1, <1>2, <1>3, <1>4, ServerStepsKeep DEF Next

\* Every copy of the study, every run and every ending in hand stay right, whatever tabs are
\* opened, left and closed, requests lost and servers restarted.
THEOREM InvariantHolds == Spec => []IInv
<1>1. Init => IInv
  BY InitHolds
<1>2. IInv /\ [Next]_vars => IInv'
  BY NextKeeps
<1> QED
  BY <1>1, <1>2, PTL DEF Spec

\* The variables hold what they should.
THEOREM TypesHold == Spec => []TypeOK
<1>1. IInv => TypeOK
  BY DEF IInv
<1> QED
  BY <1>1, InvariantHolds, PTL

\* The server never has a job that the stored study does not know of, unless the job's scenario
\* has been removed since (executeStudyDiagnostic, retryStudyDiagnostic, removeScenario).
THEOREM ReservationsComeFirst == Spec => []ReservedFirst
<1>1. IInv => ReservedFirst
  BY DEF IInv
<1> QED
  BY <1>1, InvariantHolds, PTL

\* An attempt never gets two reservations or two endings, nor an ending before its reservation
\* or of another scenario (persistTerminal, saveDetachedStudy).
THEOREM EndingsAreSingle == Spec => []OneEnding
<1>1. ASSUME IInv PROVE OneEnding
  <2>1. SUFFICES ASSUME NEW j \in DOMAIN study.records, NEW i \in 1..(j - 1),
                        study.records[i].attempt = study.records[j].attempt
                 PROVE  /\ study.records[i].status = "QUEUED"
                        /\ study.records[j].status \in Endings
                        /\ study.records[i].scenario = study.records[j].scenario
    BY DEF OneEnding
  <2>2. study.records \in Seq(Records)
    BY <1>1, RecordsOf DEF IInv, TypeOK
  <2>3. i \in DOMAIN study.records /\ i < j
    BY <2>2
  <2>4. Sound(study, issued)
    BY <1>1 DEF IInv, CopiesFit, Fits
  <2> QED
    BY <2>1, <2>3, <2>4 DEF Sound
<1> QED
  BY <1>1, InvariantHolds, PTL

\* A success or a cancellation in the study is never one of a job that the server knows to be
\* in another phase (computeTerminal).  Of a recorded failure or interruption it says nothing.
THEOREM SuccessesAndCancellationsAreTrue == Spec => []EndingsAgree
<1>1. ASSUME IInv PROVE EndingsAgree
  <2>1. SUFFICES ASSUME NEW i \in DOMAIN study.records
                 PROVE  LET x == study.records[i]
                        IN  /\ x.status = "SUCCEEDED" => job[x.attempt] \in {"succeeded", "absent"}
                            /\ x.status = "CANCELLED" => job[x.attempt] \in {"cancelled", "absent"}
    BY DEF EndingsAgree
  <2>2. study.records[i].attempt \in Attempts
    BY <1>1, RecordsOf DEF IInv, TypeOK, Records
  <2>3. Fits(study, issued, job, run)
    BY <1>1 DEF IInv, CopiesFit
  <2> QED
    BY <2>2, <2>3 DEF Fits, Has
<1> QED
  BY <1>1, InvariantHolds, PTL

\* Of two unfinished attempts of one scenario, the later one repeats an attempt that ended badly
\* (executeStudyDiagnostic, retryStudyDiagnostic, activeReservation).
THEOREM OnlyRepetitionsOverlap == Spec => []OneAtATime
<1>1. IInv => OneAtATime
  BY DEF IInv, CopiesFit, Fits, Sound, OneAtATime
<1> QED
  BY <1>1, InvariantHolds, PTL

\* When a run returns to a page that was not left meanwhile, and the page says that the attempt
\* is over, the study has an ending of it (persistTerminal, complete).
THEOREM CompletionsAreStored == Spec => []CompletedIsStored
<1>1. IInv => CompletedIsStored
  BY DEF IInv
<1> QED
  BY <1>1, InvariantHolds, PTL
=============================================================================
