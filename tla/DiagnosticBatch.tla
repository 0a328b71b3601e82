--------------------------- MODULE DiagnosticBatch ---------------------------
(***************************************************************************)
(* The diagnosis of all combinations of a portfolio, in one tab while      *)
(* another one writes the same study: runAll of                            *)
(* web/src/pages/StudyDiagnosticPage.tsx, over                             *)
(* web/src/diagnostics/runDiagnosticPool.ts and the controller's           *)
(* appendDiagnosticAttempt.                                                *)
(*                                                                         *)
(* Two workers take the combinations in order, have each computed on the   *)
(* server and hand the ending to a queue of commits, in which one at a     *)
(* time is appended to the stored study.  A commit that finds the study    *)
(* changed reads it again and appends once more.  An append is three       *)
(* steps, the call, the transaction and the answer: the other tab's        *)
(* announcement of its own change, and the read that follows it, may come  *)
(* between any two.                                                        *)
(*                                                                         *)
(* Reads fetch when they are called and answer later, in any order: what   *)
(* takes long is to validate what was fetched.  The computation of one     *)
(* combination is what DiagnosticAttempts has of a run between its         *)
(* reservation and its ending, without a reservation.                      *)
(*                                                                         *)
(* A definition named X_slip is X with a mistake a maintainer could make;  *)
(* nothing uses it.                                                        *)
(***************************************************************************)
EXTENDS Naturals, Sequences, FiniteSets

CONSTANTS
    Items,       \* combinations to diagnose, 1..N, in the order of the study
    Workers,     \* the pool has two
    MaxForeign,  \* bound: changes of the study by the other tab
    MaxFaults    \* bound: computations that do not succeed

ASSUME BatchAssumption ==
    /\ Items = 1..Cardinality(Items)
    /\ Cardinality(Workers) = 2
    /\ MaxForeign \in Nat /\ MaxFaults \in Nat

VARIABLES
    study,     \* what is stored: its revision, the combinations' and the attempts
    tab,       \* the controller: document, status, whether a conflict came since the
               \* append began, and the highest revision announced
    news,      \* announcements of the other tab, and the reads they start
    worker,    \* what each worker is doing
    tail,      \* the workers whose commits are queued or in course
    pool,      \* next item, and the flags that stop the pool
    fate,      \* what has become of each item
    faults     \* computations that did not succeed

vars == <<study, tab, news, worker, tail, pool, fate, faults>>

Foreign  == 1..MaxForeign
Nothing  == [revision |-> 0, version |-> <<>>, attempts |-> {}]   \* no document
Free     == [phase |-> "ready", item |-> 0, version |-> 0, status |-> "none", tries |-> 0,
             answer |-> "none", read |-> Nothing]

Init ==
    /\ study = [revision |-> 1, version |-> [i \in Items |-> 1], attempts |-> {}]
    /\ tab = [document |-> study, status |-> "SAVED", disturbed |-> FALSE, required |-> 0]
    /\ news = [k \in Foreign |-> [phase |-> "none", revision |-> 0, late |-> FALSE, read |-> Nothing]]
    /\ worker = [w \in Workers |-> Free]
    /\ tail = <<>>
    /\ pool = [next |-> 1, failed |-> FALSE, commitFailed |-> FALSE, cancelled |-> FALSE,
               aborted |-> FALSE]
    /\ fate = [i \in Items |-> "open"]
    /\ faults = 0

-----------------------------------------------------------------------------
(* The other tab, and what it announces *)

Written == {k \in Foreign : news[k].phase # "none"}

\* It appends a result of its own or changes a combination, and announces the revision.
ForeignWrite(i) ==
    \E k \in Foreign :
        /\ news[k].phase = "none" /\ \A j \in Foreign : news[j].phase = "none" => k <= j
        /\ \/ study' = [study EXCEPT !.revision = @ + 1,
                          !.attempts = @ \cup {[item |-> i, version |-> study.version[i],
                                                status |-> "SUCCEEDED", own |-> FALSE]}]
           \/ study' = [study EXCEPT !.revision = @ + 1, !.version[i] = @ + 1]
        /\ news' = [news EXCEPT ![k].phase = "sent", ![k].revision = study.revision + 1]
        /\ UNCHANGED <<tab, worker, tail, pool, fate, faults>>

HigherOf(m, n) == IF m > n THEN m ELSE n

\* #acceptBroadcast, until its read.
NewsArrives(k) ==
    /\ news[k].phase = "sent"
    /\ LET heard == [tab EXCEPT !.required = HigherOf(@, news[k].revision)]
       IN  \/ /\ news[k].revision <= tab.document.revision
              /\ tab' = heard /\ news' = [news EXCEPT ![k].phase = "over"]
           \/ /\ news[k].revision > tab.document.revision /\ tab.status # "SAVED"
              /\ tab' = [heard EXCEPT !.status = "CONFLICT", !.disturbed = TRUE]
              /\ news' = [news EXCEPT ![k].phase = "over"]
           \/ /\ news[k].revision > tab.document.revision /\ tab.status = "SAVED"
              /\ tab' = heard
              /\ news' = [news EXCEPT ![k] = [@ EXCEPT !.phase = "reading", !.read = study]]
    /\ UNCHANGED <<study, worker, tail, pool, fate, faults>>

\* The document shown was replaced: a read that started before is late.
Outdated == [k \in Foreign |-> [news[k] EXCEPT !.late = @ \/ news[k].phase = "reading"]]

\* A document is shown; the announcements it answers are forgotten.
Shows(document, status) ==
    /\ tab' = [tab EXCEPT !.document = document, !.status = status,
                          !.required = IF document.revision >= @ THEN 0 ELSE @]
    /\ news' = Outdated

\* #acceptBroadcast, after its read.
NewsRead(k) ==
    /\ news[k].phase = "reading"
    /\ LET over == [news EXCEPT ![k].phase = "over", ![k].late = FALSE, ![k].read = Nothing]
       IN  \/ /\ news[k].read.revision < tab.required
              /\ news' = over /\ UNCHANGED tab
           \/ /\ news[k].read.revision >= tab.required
              /\ tab.status # "SAVED" \/ news[k].late
              /\ tab' = [tab EXCEPT !.status = "CONFLICT", !.disturbed = TRUE]
              /\ news' = over
           \/ /\ news[k].read.revision >= tab.required
              /\ tab.status = "SAVED" /\ ~news[k].late
              /\ tab' = [tab EXCEPT !.document = news[k].read, !.required = 0]
              /\ news' = [j \in Foreign |-> IF j = k THEN over[k] ELSE Outdated[j]]
    /\ UNCHANGED <<study, worker, tail, pool, fate, faults>>

-----------------------------------------------------------------------------
(* Scheduling *)

\* currentDiagnostic
HasCurrent(document, i) ==
    \E a \in document.attempts :
        a.item = i /\ a.status = "SUCCEEDED" /\ a.version = document.version[i]

ShouldCompute(i) == tab.document.version[i] = 1 /\ ~HasCurrent(tab.document, i)

Stopped == pool.failed \/ pool.aborted \/ pool.cancelled \/ pool.next \notin Items

\* The loop of a worker: it takes the next item, skips it, or stops.
Take(w) ==
    LET i == pool.next
    IN  /\ worker[w].phase = "ready"
        /\ \/ /\ ~Stopped
              /\ pool' = [pool EXCEPT !.next = @ + 1]
              /\ IF ShouldCompute(i)
                 THEN /\ fate' = [fate EXCEPT ![i] = "active"]
                      /\ worker' = [worker EXCEPT ![w] = [Free EXCEPT !.phase = "computing", !.item = i,
                                                             !.version = tab.document.version[i]]]
                 ELSE fate' = [fate EXCEPT ![i] = "skipped"] /\ UNCHANGED worker
           \/ /\ Stopped
              /\ worker' = [worker EXCEPT ![w].phase = "done"]
              /\ UNCHANGED <<pool, fate>>
        /\ UNCHANGED <<study, tab, news, tail, faults>>

\* The item is settled, and the worker goes on.
Settle(w, result) ==
    /\ fate' = [fate EXCEPT ![worker[w].item] = result]
    /\ worker' = [worker EXCEPT ![w] = Free]

\* The computation ends: with a success, with another ending, or with none.
ComputeEnds(w) ==
    /\ worker[w].phase = "computing"
    /\ \/ /\ ~pool.aborted
          /\ \E status \in {"SUCCEEDED", "FAILED"} :
                /\ status = "FAILED" => faults < MaxFaults
                /\ faults' = IF status = "FAILED" THEN faults + 1 ELSE faults
                /\ pool' = [pool EXCEPT !.failed = @ \/ status = "FAILED"]
                /\ worker' = [worker EXCEPT ![w].phase = "queued", ![w].status = status]
          /\ tail' = Append(tail, w) /\ UNCHANGED fate
       \/ /\ ~pool.aborted /\ faults < MaxFaults /\ faults' = faults + 1
          /\ pool' = [pool EXCEPT !.failed = TRUE]
          /\ Settle(w, "failed") /\ UNCHANGED tail
       \/ /\ pool.aborted
          /\ pool' = [pool EXCEPT !.failed = TRUE]
          /\ Settle(w, "failed") /\ UNCHANGED <<tail, faults>>
    /\ UNCHANGED <<study, tab, news>>

-----------------------------------------------------------------------------
(* Commits, one at a time *)

Own(document, i) == \E a \in document.attempts : a.item = i /\ a.own

\* The commit of worker w ends, well or not, and the next one's turn comes.
Committed(w) ==
    /\ Settle(w, IF worker[w].status = "SUCCEEDED" THEN "completed" ELSE "failed")
    /\ tail' = Tail(tail) /\ UNCHANGED pool

\* The queue waits for a commit that was rejected.
CommitFails_slip(w) ==
    /\ Settle(w, "failed")
    /\ UNCHANGED tail
    /\ pool' = [pool EXCEPT !.failed = TRUE, !.commitFailed = TRUE]

CommitFails(w) ==
    /\ Settle(w, "failed")
    /\ tail' = Tail(tail)
    /\ pool' = [pool EXCEPT !.failed = TRUE, !.commitFailed = TRUE]

\* Whose turn it is.
Turn_slip(w) == worker[w].phase = "queued"

Turn(w) == worker[w].phase = "queued" /\ Head(tail) = w

\* appendDiagnosticAttempt is called, if the study shown is saved.
Calls(w, tries) ==
    /\ worker' = [worker EXCEPT ![w].phase = "appending", ![w].tries = tries, ![w].read = Nothing,
                                ![w].answer = "none"]
    /\ UNCHANGED <<tail, pool, fate>>

\* A commit that waited behind one that failed is tried all the same.
CommitStarts_slip(w) ==
    /\ Turn(w)
    /\ \/ /\ pool.aborted
          /\ Settle(w, "failed") /\ tail' = Tail(tail)
          /\ pool' = [pool EXCEPT !.failed = TRUE] /\ UNCHANGED tab
       \/ /\ ~pool.aborted /\ tab.status # "SAVED"
          /\ CommitFails(w) /\ UNCHANGED tab
       \/ /\ ~pool.aborted /\ tab.status = "SAVED"
          /\ tab' = [tab EXCEPT !.status = "SAVING", !.disturbed = FALSE]
          /\ Calls(w, 1)
    /\ UNCHANGED <<study, news, faults>>

CommitStarts(w) ==
    /\ Turn(w)
    /\ \/ /\ pool.aborted \/ pool.commitFailed
          /\ Settle(w, "failed") /\ tail' = Tail(tail)
          /\ pool' = [pool EXCEPT !.failed = TRUE] /\ UNCHANGED tab
       \/ /\ ~(pool.aborted \/ pool.commitFailed) /\ tab.status # "SAVED"
          /\ CommitFails(w) /\ UNCHANGED tab
       \/ /\ ~(pool.aborted \/ pool.commitFailed) /\ tab.status = "SAVED"
          /\ tab' = [tab EXCEPT !.status = "SAVING", !.disturbed = FALSE]
          /\ Calls(w, 1)
    /\ UNCHANGED <<study, news, faults>>

\* The repository: StudyRepository has the transaction.
AppendCommits(w) ==
    LET r == worker[w]
        refused == study.version[r.item] # r.version \/ Own(study, r.item)
    IN  /\ r.phase = "appending"
        /\ worker' = [worker EXCEPT ![w].phase = "answered",
                         ![w].answer = IF study.revision # tab.document.revision THEN "conflict"
                                       ELSE IF refused THEN "refused" ELSE "stored"]
        /\ study' = IF study.revision # tab.document.revision \/ refused THEN study
                    ELSE [study EXCEPT !.revision = @ + 1,
                            !.attempts = @ \cup {[item |-> r.item, version |-> r.version,
                                                  status |-> r.status, own |-> TRUE]}]
        /\ UNCHANGED <<tab, news, tail, pool, fate, faults>>

\* A conflict: the study is read again, once, if the batch is still there.
Conflicted(w) ==
    IF worker[w].tries = 1 /\ ~pool.aborted
    THEN /\ worker' = [worker EXCEPT ![w].phase = "reloading", ![w].read = study]
         /\ UNCHANGED <<tail, pool, fate>>
    ELSE CommitFails(w)

\* What is shown grows by the attempt; a conflict meanwhile is left to the caller.
AppendAnswers(w) ==
    LET r == worker[w]
        saved == [tab.document EXCEPT !.revision = @ + 1,
                    !.attempts = @ \cup {[item |-> r.item, version |-> r.version,
                                          status |-> r.status, own |-> TRUE]}]
    IN  /\ r.phase = "answered"
        /\ \/ /\ r.answer = "stored" /\ ~tab.disturbed
              /\ Shows(saved, "SAVED") /\ Committed(w)
           \/ /\ r.answer = "stored" /\ tab.disturbed
              /\ Shows(saved, "CONFLICT") /\ Conflicted(w)
           \/ /\ r.answer = "conflict"
              /\ tab' = [tab EXCEPT !.status = "CONFLICT"] /\ UNCHANGED news
              /\ Conflicted(w)
           \/ /\ r.answer = "refused"
              /\ tab' = [tab EXCEPT !.status = "STORAGE_FAILURE"] /\ UNCHANGED news
              /\ CommitFails(w)
        /\ UNCHANGED <<study, faults>>

\* Any result of the combination will do.
Recorded_slip(document, i) == HasCurrent(document, i)

\* The attempt is in the study that was read again.
Recorded(document, i) == Own(document, i)

\* The study as read again: older than what was announced since, it is not shown and the
\* commit fails; else the attempt is recognised, or given up, or appended once more.
Reloaded(w) ==
    LET r == worker[w]
    IN  /\ r.phase = "reloading"
        /\ \/ /\ r.read.revision < tab.required
              /\ CommitFails(w) /\ UNCHANGED <<tab, news>>
           \/ /\ r.read.revision >= tab.required
              /\ Shows(r.read, "SAVED")
              /\ IF ~pool.aborted /\ Recorded(r.read, r.item) THEN Committed(w) ELSE CommitFails(w)
              /\ pool.aborted \/ Recorded(r.read, r.item) \/ r.read.version[r.item] # r.version
           \/ /\ r.read.revision >= tab.required /\ ~pool.aborted
              /\ ~Recorded(r.read, r.item) /\ r.read.version[r.item] = r.version
              /\ tab' = [tab EXCEPT !.document = r.read, !.status = "SAVING", !.disturbed = FALSE,
                                    !.required = 0]
              /\ news' = Outdated
              /\ Calls(w, 2)
        /\ UNCHANGED <<study, faults>>

-----------------------------------------------------------------------------
(* The user *)

Over == \A w \in Workers : worker[w].phase = "done"

\* Cancelling the batch only stops the scheduling; leaving the page aborts it.
CancelBatch ==
    /\ ~Over /\ ~pool.cancelled
    /\ pool' = [pool EXCEPT !.cancelled = TRUE]
    /\ UNCHANGED <<study, tab, news, worker, tail, fate, faults>>

LeavePage ==
    /\ ~Over /\ ~pool.aborted
    /\ pool' = [pool EXCEPT !.aborted = TRUE]
    /\ UNCHANGED <<study, tab, news, worker, tail, fate, faults>>

-----------------------------------------------------------------------------
(* The specification *)

Works(w) ==
    \/ Take(w) \/ ComputeEnds(w) \/ CommitStarts(w)
    \/ AppendCommits(w) \/ AppendAnswers(w) \/ Reloaded(w)

Next ==
    \/ \E i \in Items : ForeignWrite(i)
    \/ \E k \in Foreign : NewsArrives(k) \/ NewsRead(k)
    \/ \E w \in Workers : Works(w)
    \/ CancelBatch \/ LeavePage

Spec == Init /\ [][Next]_vars

\* A worker goes on when what it awaits comes, and a computation ends (EveryRunEnds of
\* DiagnosticAttempts).
FairSpec == Spec /\ \A w \in Workers : WF_vars(Works(w))

-----------------------------------------------------------------------------
(* Properties *)

\* A combination counts as concluded only if its own result is stored, whatever the other
\* tab stored of it meanwhile (runAll, commit).
CompletedIsStored ==
    \A i \in Items : fate[i] = "completed" =>
        \E a \in study.attempts : a.item = i /\ a.own /\ a.status = "SUCCEEDED"

\* Left alone, a batch gives up no combination: its two workers never get in each other's
\* way at the study they both append to (runDiagnosticPool, commitTail).
FailsForACause ==
    faults = 0 /\ Written = {} /\ ~pool.aborted =>
        ~pool.failed /\ \A i \in Items : fate[i] # "failed"

\* After a commit failed nothing of the batch is stored any more, though endings that were
\* computed meanwhile still wait in the queue (runDiagnosticPool, commitFailed).
StopsAtCommitFailure ==
    [][pool.commitFailed =>
          {a \in study'.attempts : a.own} = {a \in study.attempts : a.own}]_vars

\* The batch ends: no worker waits for ever for a turn that does not come.
BatchEnds == <>Over
=============================================================================
