----------------------- MODULE DiagnosticBatchProofs -----------------------
(***************************************************************************)
(* What holds of a batch for any number of combinations and of changes by  *)
(* the other tab.                                                          *)
(*                                                                         *)
(* One worker at a time commits: the one at the head of the queue.  While  *)
(* it does, what was stored of its combination is known to it, so that it  *)
(* never appends a second time what it has appended once.                  *)
(***************************************************************************)
EXTENDS DiagnosticBatch, TLAPS, SequenceTheorems

-----------------------------------------------------------------------------
(* The inductive invariant *)

Committing == {"appending", "answered", "reloading"}
Queuing    == {"queued"} \cup Committing
Busy       == {"computing"} \cup Queuing

Attempt   == [item : Items, version : Nat, status : {"SUCCEEDED", "FAILED"}, own : BOOLEAN]
Documents == [revision : Nat, version : [Items -> Nat], attempts : SUBSET Attempt]

\* What worker record r appends.
Result(r) == [item |-> r.item, version |-> r.version, status |-> r.status, own |-> TRUE]

\* A worker has an item while it is busy, and an ending from when it queues.
WorkerRecord ==
    [phase : Busy \cup {"ready", "done"}, item : Items \cup {0}, version : Nat,
     status : {"none", "SUCCEEDED", "FAILED"}, tries : Nat,
     answer : {"none", "stored", "conflict", "refused"}, read : Documents \cup {Nothing}]

Fits(r) ==
    /\ r.phase \in Busy => r.item \in Items
    /\ r.phase \in Queuing => r.status \in {"SUCCEEDED", "FAILED"}
    /\ r.phase = "reloading" => r.read \in Documents

News == [phase : {"none", "sent", "reading", "over"}, revision : Nat, late : BOOLEAN,
         read : Documents \cup {Nothing}]

\* Every variable keeps its type, and a record holds what its phase calls for.
TypeOK ==
    /\ study \in Documents
    /\ tab \in [document : Documents, status : {"SAVED", "SAVING", "CONFLICT", "STORAGE_FAILURE"},
                disturbed : BOOLEAN, required : Nat]
    /\ news \in [Foreign -> News]
    /\ \A k \in Foreign : news[k].phase = "reading" => news[k].read \in Documents
    /\ worker \in [Workers -> WorkerRecord]
    /\ \A w \in Workers : Fits(worker[w])
    /\ tail \in Seq(Workers)
    /\ pool \in [next : Nat, failed : BOOLEAN, commitFailed : BOOLEAN, cancelled : BOOLEAN,
                 aborted : BOOLEAN]
    /\ fate \in [Items -> {"open", "active", "skipped", "completed", "failed"}]
    /\ faults \in Nat

\* Who waits for its commit is in the queue, and who commits is its head.
QueueExact ==
    /\ \A w \in Workers : worker[w].phase \in Queuing => \E n \in 1..Len(tail) : tail[n] = w
    /\ \A w \in Workers : worker[w].phase \in Committing => tail # <<>> /\ Head(tail) = w

\* Each item is taken by one worker, once.
ItemsApart ==
    /\ \A w \in Workers : worker[w].phase \in Busy => worker[w].item < pool.next
    /\ \A v, w \in Workers :
         v # w /\ worker[v].phase \in Busy /\ worker[w].phase \in Busy =>
            worker[v].item # worker[w].item
    /\ \A a \in study.attempts : a.own => a.item < pool.next

\* What worker record r knows of its own results in s, by its phase.
Knows(r, s) ==
    /\ r.phase \in {"computing", "queued", "appending"} => ~Own(s, r.item)
    /\ r.phase = "answered" => IF r.answer = "stored" THEN Result(r) \in s.attempts
                                                      ELSE ~Own(s, r.item)
    /\ r.phase = "reloading" => r.read.attempts \subseteq s.attempts
                                /\ (Own(s, r.item) => Result(r) \in r.read.attempts)
    /\ r.phase \in Busy => \A a \in s.attempts : a.own /\ a.item = r.item => a = Result(r)

StoredKnown == \A w \in Workers : Knows(worker[w], study)

\* The result of a combination is stored once, though a commit may be repeated.
StoredOnce ==
    \A a, b \in study.attempts : a.own /\ b.own /\ a.item = b.item => a = b

\* Nothing is committed after a commit failed.
NoneCommits ==
    pool.commitFailed => \A w \in Workers : worker[w].phase \notin Committing

Quiet == faults = 0 /\ Written = {} /\ ~pool.aborted

\* What a worker record r has come to, left alone, with s stored and d shown.
Smooth(r, s, d) ==
    /\ r.phase \in Busy => r.version = s.version[r.item]
    /\ r.phase \in Queuing => r.status = "SUCCEEDED"
    /\ r.phase = "answered" =>
         /\ r.answer = "stored"
         /\ s = [d EXCEPT !.revision = @ + 1, !.attempts = @ \cup {Result(r)}]
    /\ r.phase # "reloading"

\* Left alone, the document shown is the one stored but for a result that was not answered,
\* and the study is saved unless one is appended.
Calm ==
    /\ ~pool.failed /\ ~pool.commitFailed /\ \A i \in Items : fate[i] # "failed"
    /\ tab.required = 0 /\ ~tab.disturbed
    /\ \A w \in Workers : Smooth(worker[w], study, tab.document)
    /\ (\A w \in Workers : worker[w].phase # "answered") => tab.document = study
    /\ (\A w \in Workers : worker[w].phase \notin Committing) => tab.status = "SAVED"

Alone == Quiet => Calm

IInv ==
    /\ TypeOK /\ QueueExact /\ ItemsApart /\ StoredKnown /\ StoredOnce /\ NoneCommits
    /\ CompletedIsStored /\ Alone

-----------------------------------------------------------------------------
(* Types *)

LEMMA ItemsArePositive == Items \subseteq Nat /\ 0 \notin Items
<1>1. ASSUME NEW i \in Items
      PROVE  i \in Nat /\ i # 0
  <2>1. i \in 1..Cardinality(Items)
    BY BatchAssumption
  <2> QED
    BY <2>1
<1> QED
  BY <1>1

LEMMA FreeFits == Free \in WorkerRecord /\ Fits(Free) /\ Free.phase = "ready" /\ Free.phase \notin Busy
BY DEF Free, WorkerRecord, Fits, Busy, Queuing, Committing

LEMMA DocumentFields ==
  ASSUME NEW d \in Documents
  PROVE  /\ d.revision \in Nat /\ d.version \in [Items -> Nat] /\ d.attempts \subseteq Attempt
         /\ \A i \in Items : d.version[i] \in Nat
         /\ d = [revision |-> d.revision, version |-> d.version, attempts |-> d.attempts]
BY DEF Documents

LEMMA ResultIsAttempt ==
  ASSUME NEW r \in WorkerRecord, Fits(r), r.phase \in Queuing
  PROVE  /\ Result(r) \in Attempt
         /\ Result(r).item = r.item /\ Result(r).own /\ Result(r).status = r.status
BY DEF WorkerRecord, Fits, Result, Attempt, Queuing, Busy, Committing

\* A document with an attempt more, or a change of a combination.
LEMMA Grown ==
  ASSUME NEW d \in Documents, NEW a \in Attempt
  PROVE  [d EXCEPT !.revision = @ + 1, !.attempts = @ \cup {a}] \in Documents
<1> DEFINE n == d.revision + 1
           t == d.attempts \cup {a}
<1>1. n \in Nat /\ t \in SUBSET Attempt
  BY DocumentFields
<1> HIDE DEF n, t
<1>2. [d EXCEPT !.revision = n, !.attempts = t] \in Documents
  BY <1>1 DEF Documents
<1> QED
  BY <1>2 DEF n, t

LEMMA Changed ==
  ASSUME NEW d \in Documents, NEW i \in Items
  PROVE  [d EXCEPT !.revision = @ + 1, !.version[i] = @ + 1] \in Documents
<1> DEFINE n == d.revision + 1
           v == [d.version EXCEPT ![i] = d.version[i] + 1]
<1>1. n \in Nat /\ v \in [Items -> Nat]
  BY DocumentFields
<1> HIDE DEF n, v
<1>2. [d EXCEPT !.revision = n, !.version = v] \in Documents
  BY <1>1 DEF Documents
<1> QED
  BY <1>2 DEF n, v

LEMMA TailOfQueue ==
  ASSUME tail \in Seq(Workers), tail # <<>>
  PROVE  /\ Tail(tail) \in Seq(Workers) /\ Len(tail) \in Nat \ {0} /\ Head(tail) = tail[1]
         /\ Len(Tail(tail)) = Len(tail) - 1
         /\ \A n \in 1..Len(Tail(tail)) : Tail(tail)[n] = tail[n + 1]
BY HeadTailProperties, EmptySeq, LenProperties

\* Who is not at the head of the queue stays in it, and who joins is in it.
LEMMA StayInQueue ==
  ASSUME tail \in Seq(Workers), tail # <<>>, NEW v \in Workers, v # Head(tail),
         NEW n \in 1..Len(tail), tail[n] = v
  PROVE  \E m \in 1..Len(Tail(tail)) : Tail(tail)[m] = v
<1>1. n # 1
  BY TailOfQueue
<1>2. n - 1 \in 1..Len(Tail(tail))
  BY <1>1, TailOfQueue
<1>3. Tail(tail)[n - 1] = v
  BY <1>2, TailOfQueue
<1> QED
  BY <1>2, <1>3

LEMMA JoinQueue ==
  ASSUME tail \in Seq(Workers), NEW w \in Workers
  PROVE  /\ Append(tail, w) \in Seq(Workers)
         /\ Append(tail, w) # <<>>
         /\ tail # <<>> => Head(Append(tail, w)) = Head(tail)
         /\ \E n \in 1..Len(Append(tail, w)) : Append(tail, w)[n] = w
         /\ \A n \in 1..Len(tail) : n \in 1..Len(Append(tail, w)) /\ Append(tail, w)[n] = tail[n]
<1>1. Append(tail, w) \in Seq(Workers) /\ Append(tail, w) # <<>> /\ Len(tail) \in Nat
      /\ Len(Append(tail, w)) = Len(tail) + 1 /\ Append(tail, w)[Len(tail) + 1] = w
      /\ \A n \in 1..Len(tail) : Append(tail, w)[n] = tail[n]
  BY AppendProperties, LenProperties
<1>2. tail # <<>> => Head(Append(tail, w)) = Head(tail)
  <2> HAVE tail # <<>>
  <2>1. Len(tail) \in Nat \ {0} /\ Head(tail) = tail[1]
    BY HeadTailProperties, EmptySeq
  <2>2. Head(Append(tail, w)) = Append(tail, w)[1]
    BY <1>1, HeadTailProperties
  <2> QED
    BY <1>1, <2>1, <2>2
<1>3. Len(tail) + 1 \in 1..Len(Append(tail, w))
  BY <1>1
<1>4. \A n \in 1..Len(tail) : n \in 1..Len(Append(tail, w))
  BY <1>1
<1> QED
  BY <1>1, <1>2, <1>3, <1>4

-----------------------------------------------------------------------------
(* What a step is to the queue, the items and what is stored *)

Becomes(w, r) == worker' = [worker EXCEPT ![w] = r]

\* The workers are as they were; another tab may have stored something.
Stays ==
    /\ worker' = worker /\ tail' = tail
    /\ pool'.commitFailed = pool.commitFailed
    /\ pool'.next \in Nat /\ pool'.next >= pool.next
    /\ study.attempts \subseteq study'.attempts
    /\ \A a \in study'.attempts \ study.attempts : ~a.own

\* A worker takes the next item.
Picks(w) ==
    /\ worker[w].phase = "ready" /\ pool.next \in Items
    /\ Becomes(w, [Free EXCEPT !.phase = "computing", !.item = pool.next,
                               !.version = tab.document.version[pool.next]])
    /\ pool' = [pool EXCEPT !.next = @ + 1]
    /\ UNCHANGED <<study, tail>>

\* A worker has no item any more, and is not in the queue.
Leaves(w, r) ==
    /\ r \in WorkerRecord /\ Fits(r) /\ r.phase \notin Busy /\ Becomes(w, r)
    /\ IF worker[w].phase \in Queuing
       THEN tail # <<>> /\ Head(tail) = w /\ tail' = Tail(tail)
       ELSE tail' = tail /\ pool'.commitFailed = pool.commitFailed
    /\ pool'.next = pool.next
    /\ UNCHANGED study

\* Its ending waits to be committed.
Joins(w, status) ==
    /\ worker[w].phase = "computing" /\ status \in {"SUCCEEDED", "FAILED"}
    /\ Becomes(w, [worker[w] EXCEPT !.phase = "queued", !.status = status])
    /\ tail' = Append(tail, w)
    /\ pool'.commitFailed = pool.commitFailed /\ pool'.next = pool.next
    /\ UNCHANGED study

\* It calls the repository, with nothing of its own stored.
Starts(w, tries) ==
    /\ worker[w].phase \in Queuing /\ tail # <<>> /\ Head(tail) = w
    /\ ~pool.commitFailed /\ ~Own(study, worker[w].item)
    /\ tries \in Nat
    /\ Becomes(w, [worker[w] EXCEPT !.phase = "appending", !.tries = tries, !.read = Nothing,
                                    !.answer = "none"])
    /\ UNCHANGED <<study, tail, pool>>

\* The repository stores the ending, or nothing.
Stores(w, answer) ==
    /\ worker[w].phase = "appending" /\ answer \in {"stored", "conflict", "refused"}
    /\ Becomes(w, [worker[w] EXCEPT !.phase = "answered", !.answer = answer])
    /\ IF answer = "stored"
       THEN study' = [study EXCEPT !.revision = @ + 1, !.attempts = @ \cup {Result(worker[w])}]
       ELSE study' = study
    /\ UNCHANGED <<tail, pool>>

\* The study is read again.
Rereads(w) ==
    /\ worker[w].phase = "answered"
    /\ Becomes(w, [worker[w] EXCEPT !.phase = "reloading", !.read = study])
    /\ UNCHANGED <<study, tail, pool>>

Moves(w) ==
    \/ Picks(w) \/ (\E r \in WorkerRecord : Leaves(w, r))
    \/ (\E status \in {"SUCCEEDED", "FAILED"} : Joins(w, status))
    \/ (\E tries \in Nat : Starts(w, tries))
    \/ (\E answer \in {"stored", "conflict", "refused"} : Stores(w, answer))
    \/ Rereads(w)

LEMMA TakeMoves ==
  ASSUME TypeOK, NEW w \in Workers, Take(w)
  PROVE  Stays \/ Moves(w)
<1>1. CASE ~Stopped
  <2>1. pool.next \in Items /\ pool' = [pool EXCEPT !.next = @ + 1] /\ UNCHANGED <<study, tab, tail>>
    BY <1>1 DEF Take, Stopped
  <2>2. CASE ShouldCompute(pool.next)
    <3>1. worker' = [worker EXCEPT ![w] = [Free EXCEPT !.phase = "computing", !.item = pool.next,
                                             !.version = tab.document.version[pool.next]]]
      BY <1>1, <2>2 DEF Take, Stopped
    <3>2. Picks(w)
      BY <2>1, <3>1 DEF Take, Picks, Becomes
    <3> QED
      BY <3>2 DEF Moves
  <2>3. CASE ~ShouldCompute(pool.next)
    <3>1. worker' = worker
      BY <1>1, <2>3 DEF Take, Stopped
    <3>2. pool'.next = pool.next + 1 /\ pool'.commitFailed = pool.commitFailed /\ pool.next \in Nat
      BY <2>1 DEF TypeOK
    <3>3. Stays
      BY <2>1, <3>1, <3>2 DEF Stays
    <3> QED
      BY <3>3
  <2> QED
    BY <2>2, <2>3
<1>2. CASE Stopped
  <2> DEFINE r == [worker[w] EXCEPT !.phase = "done"]
  <2>1. /\ worker[w].phase = "ready" /\ worker' = [worker EXCEPT ![w].phase = "done"]
        /\ UNCHANGED <<pool, study, tail>>
    BY <1>2 DEF Take
  <2>2. Becomes(w, r)
    BY <2>1 DEF Becomes
  <2>3. r \in WorkerRecord /\ Fits(r) /\ r.phase \notin Busy
    BY DEF TypeOK, WorkerRecord, Fits, Busy, Queuing, Committing
  <2>4. worker[w].phase \notin Queuing
    BY <2>1 DEF Queuing, Committing
  <2> HIDE DEF r
  <2>5. Leaves(w, r)
    BY <2>1, <2>2, <2>3, <2>4 DEF Leaves
  <2> QED
    BY <2>3, <2>5 DEF Moves
<1> QED
  BY <1>1, <1>2

\* A settled worker leaves.
LEMMA SettleLeaves ==
  ASSUME NEW w \in Workers, NEW result, Settle(w, result),
         IF worker[w].phase \in Queuing
         THEN tail # <<>> /\ Head(tail) = w /\ tail' = Tail(tail)
         ELSE tail' = tail /\ pool'.commitFailed = pool.commitFailed,
         pool'.next = pool.next, study' = study
  PROVE  Moves(w)
<1>1. Leaves(w, Free)
  BY FreeFits DEF Leaves, Settle, Becomes
<1> QED
  BY <1>1, FreeFits DEF Moves

LEMMA ComputeEndsMoves ==
  ASSUME TypeOK, NEW w \in Workers, ComputeEnds(w)
  PROVE  Moves(w)
<1>1. worker[w].phase = "computing" /\ study' = study /\ worker[w].phase \notin Queuing
  BY DEF ComputeEnds, Queuing, Committing
<1>2. ASSUME NEW status \in {"SUCCEEDED", "FAILED"},
             pool' = [pool EXCEPT !.failed = @ \/ status = "FAILED"],
             worker' = [worker EXCEPT ![w].phase = "queued", ![w].status = status],
             tail' = Append(tail, w)
      PROVE  Moves(w)
  <2>1. worker' = [worker EXCEPT ![w] = [worker[w] EXCEPT !.phase = "queued", !.status = status]]
    BY <1>2 DEF TypeOK, WorkerRecord
  <2>2. pool'.commitFailed = pool.commitFailed /\ pool'.next = pool.next
    BY <1>2 DEF TypeOK
  <2>3. Joins(w, status)
    BY <1>1, <1>2, <2>1, <2>2 DEF Joins, Becomes
  <2> QED
    BY <2>3 DEF Moves
<1>3. ASSUME pool' = [pool EXCEPT !.failed = TRUE], Settle(w, "failed"), tail' = tail
      PROVE  Moves(w)
  <2>1. pool'.commitFailed = pool.commitFailed /\ pool'.next = pool.next
    BY <1>3 DEF TypeOK
  <2> QED
    BY <1>1, <1>3, <2>1, SettleLeaves
<1> QED
  BY <1>2, <1>3 DEF ComputeEnds

LEMMA CommitFailsMoves ==
  ASSUME TypeOK, NEW w \in Workers, CommitFails(w), worker[w].phase \in Queuing, tail # <<>>,
         Head(tail) = w, study' = study
  PROVE  Moves(w)
<1>1. pool'.next = pool.next
  BY DEF CommitFails, TypeOK
<1> QED
  BY <1>1, SettleLeaves DEF CommitFails

LEMMA CommittedMoves ==
  ASSUME TypeOK, NEW w \in Workers, Committed(w), worker[w].phase \in Queuing, tail # <<>>,
         Head(tail) = w, study' = study
  PROVE  Moves(w)
BY SettleLeaves DEF Committed

LEMMA CallsMoves ==
  ASSUME TypeOK, NEW w \in Workers, NEW tries \in Nat, Calls(w, tries),
         worker[w].phase \in Queuing, tail # <<>>, Head(tail) = w, ~pool.commitFailed,
         ~Own(study, worker[w].item), study' = study
  PROVE  Moves(w)
<1>1. worker' = [worker EXCEPT ![w] = [worker[w] EXCEPT !.phase = "appending", !.tries = tries,
                                                        !.read = Nothing, !.answer = "none"]]
  BY DEF Calls, TypeOK, WorkerRecord
<1>2. Starts(w, tries)
  BY <1>1 DEF Starts, Becomes, Calls
<1> QED
  BY <1>2 DEF Moves

LEMMA AtHead ==
  ASSUME TypeOK, QueueExact, NEW w \in Workers, worker[w].phase \in Queuing
  PROVE  /\ tail # <<>>
         /\ worker[w].phase \in Committing => Head(tail) = w
<1>1. PICK n \in 1..Len(tail) : tail[n] = w
  BY DEF QueueExact
<1>2. tail # <<>>
  BY <1>1, EmptySeq, LenProperties DEF TypeOK
<1> QED
  BY <1>2 DEF QueueExact

LEMMA CommitStartsMoves ==
  ASSUME TypeOK, QueueExact, StoredKnown, NEW w \in Workers, CommitStarts(w)
  PROVE  Moves(w)
<1>1. /\ worker[w].phase = "queued" /\ worker[w].phase \in Queuing /\ Head(tail) = w
      /\ study' = study
  BY DEF CommitStarts, Turn, Queuing
<1>2. tail # <<>>
  BY <1>1, AtHead
<1>3. ASSUME Settle(w, "failed"), tail' = Tail(tail), pool' = [pool EXCEPT !.failed = TRUE]
      PROVE  Moves(w)
  <2>1. pool'.next = pool.next
    BY <1>3 DEF TypeOK
  <2> QED
    BY <1>1, <1>2, <1>3, <2>1, SettleLeaves
<1>4. ~Own(study, worker[w].item)
  BY <1>1 DEF StoredKnown, Knows
<1>5. ASSUME ~pool.commitFailed, Calls(w, 1)
      PROVE  Moves(w)
  BY <1>1, <1>2, <1>4, <1>5, CallsMoves
<1> QED
  BY <1>1, <1>2, <1>3, <1>5, CommitFailsMoves DEF CommitStarts

LEMMA AppendCommitsMoves ==
  ASSUME TypeOK, NEW w \in Workers, AppendCommits(w)
  PROVE  Moves(w)
<1> DEFINE r == worker[w]
           refused == study.version[r.item] # r.version \/ Own(study, r.item)
           answer == IF study.revision # tab.document.revision THEN "conflict"
                     ELSE IF refused THEN "refused" ELSE "stored"
<1>1. /\ r.phase = "appending" /\ UNCHANGED <<tail, pool>>
      /\ worker' = [worker EXCEPT ![w].phase = "answered", ![w].answer = answer]
  BY DEF AppendCommits
<1>2. worker' = [worker EXCEPT ![w] = [worker[w] EXCEPT !.phase = "answered", !.answer = answer]]
  <2> HIDE DEF answer
  <2> QED
    BY <1>1 DEF TypeOK, WorkerRecord
<1>3. IF answer = "stored"
      THEN study' = [study EXCEPT !.revision = @ + 1, !.attempts = @ \cup {Result(worker[w])}]
      ELSE study' = study
  BY DEF AppendCommits, Result
<1>4. answer \in {"stored", "conflict", "refused"}
  OBVIOUS
<1> HIDE DEF answer
<1>5. Stores(w, answer)
  BY <1>1, <1>2, <1>3, <1>4 DEF Stores, Becomes
<1> QED
  BY <1>4, <1>5 DEF Moves

LEMMA ConflictedMoves ==
  ASSUME TypeOK, NEW w \in Workers, Conflicted(w), worker[w].phase = "answered", tail # <<>>,
         Head(tail) = w, study' = study
  PROVE  Moves(w)
<1>0. worker[w].phase \in Queuing
  BY DEF Queuing, Committing
<1>1. CASE worker[w].tries = 1 /\ ~pool.aborted
  <2>1. /\ worker' = [worker EXCEPT ![w].phase = "reloading", ![w].read = study]
        /\ UNCHANGED <<tail, pool>>
    BY <1>1 DEF Conflicted
  <2>2. worker' = [worker EXCEPT ![w] = [worker[w] EXCEPT !.phase = "reloading", !.read = study]]
    BY <2>1 DEF TypeOK, WorkerRecord
  <2>3. Rereads(w)
    BY <2>1, <2>2 DEF Rereads, Becomes
  <2> QED
    BY <2>3 DEF Moves
<1>2. CASE ~(worker[w].tries = 1 /\ ~pool.aborted)
  BY <1>0, <1>2, CommitFailsMoves DEF Conflicted
<1> QED
  BY <1>1, <1>2

LEMMA AppendAnswersMoves ==
  ASSUME TypeOK, QueueExact, NEW w \in Workers, AppendAnswers(w)
  PROVE  Moves(w)
<1>1. /\ worker[w].phase = "answered" /\ study' = study
      /\ worker[w].phase \in Queuing /\ worker[w].phase \in Committing
  BY DEF AppendAnswers, Queuing, Committing
<1>2. tail # <<>> /\ Head(tail) = w
  BY <1>1, AtHead
<1>3. Committed(w) \/ Conflicted(w) \/ CommitFails(w)
  BY DEF AppendAnswers
<1> QED
  BY <1>1, <1>2, <1>3, CommittedMoves, ConflictedMoves, CommitFailsMoves

LEMMA ReloadedMoves ==
  ASSUME TypeOK, QueueExact, StoredKnown, NoneCommits, NEW w \in Workers, Reloaded(w)
  PROVE  Moves(w)
<1>1. /\ worker[w].phase = "reloading" /\ study' = study
      /\ worker[w].phase \in Queuing /\ worker[w].phase \in Committing
  BY DEF Reloaded, Queuing, Committing
<1>2. tail # <<>> /\ Head(tail) = w
  BY <1>1, AtHead
<1>3. ~pool.commitFailed
  BY <1>1 DEF NoneCommits
<1>4. CASE ~Recorded(worker[w].read, worker[w].item) /\ Calls(w, 2)
  <2>1. Own(study, worker[w].item) => Result(worker[w]) \in worker[w].read.attempts
    BY <1>1 DEF StoredKnown, Knows
  <2>2. Result(worker[w]).item = worker[w].item /\ Result(worker[w]).own
    BY DEF Result
  <2>3. ~Own(study, worker[w].item)
    BY <1>4, <2>1, <2>2 DEF Recorded, Own
  <2> QED
    BY <1>1, <1>2, <1>3, <1>4, <2>3, CallsMoves
<1>5. Committed(w) \/ CommitFails(w) \/ (~Recorded(worker[w].read, worker[w].item) /\ Calls(w, 2))
  BY DEF Reloaded
<1> QED
  BY <1>1, <1>2, <1>4, <1>5, CommittedMoves, CommitFailsMoves

LEMMA ForeignWriteStays ==
  ASSUME TypeOK, NEW i \in Items, ForeignWrite(i)
  PROVE  Stays
<1> DEFINE a == [item |-> i, version |-> study.version[i], status |-> "SUCCEEDED", own |-> FALSE]
<1>1. worker' = worker /\ tail' = tail /\ pool' = pool /\ pool.next \in Nat
  BY DEF ForeignWrite, TypeOK
<1>2. ~a.own
  OBVIOUS
<1> HIDE DEF a
<1>3. \/ study' = [study EXCEPT !.revision = @ + 1, !.attempts = @ \cup {a}]
      \/ study' = [study EXCEPT !.revision = @ + 1, !.version[i] = @ + 1]
  BY DEF ForeignWrite, a
<1>4. study'.attempts = study.attempts \cup {a} \/ study'.attempts = study.attempts
  BY <1>3 DEF TypeOK, Documents
<1> QED
  BY <1>1, <1>2, <1>4 DEF Stays

LEMMA UserStays ==
  ASSUME TypeOK, CancelBatch \/ LeavePage
  PROVE  Stays
<1>1. UNCHANGED <<study, worker, tail>> /\ pool.next \in Nat
  BY DEF CancelBatch, LeavePage, TypeOK
<1>2. pool'.next = pool.next /\ pool'.commitFailed = pool.commitFailed
  BY DEF CancelBatch, LeavePage, TypeOK
<1> QED
  BY <1>1, <1>2 DEF Stays

LEMMA NextMoves ==
  ASSUME TypeOK, QueueExact, StoredKnown, NoneCommits, [Next]_vars
  PROVE  Stays \/ \E w \in Workers : Moves(w)
<1>1. ASSUME UNCHANGED <<study, worker, tail, pool>>
      PROVE  Stays
  BY <1>1 DEF Stays, TypeOK
<1>2. ASSUME NEW k \in Foreign, NewsArrives(k) \/ NewsRead(k)
      PROVE  Stays
  <2>1. UNCHANGED <<study, worker, tail, pool>>
    BY <1>2 DEF NewsArrives, NewsRead
  <2> QED
    BY <1>1, <2>1
<1>3. ASSUME UNCHANGED vars
      PROVE  Stays
  BY <1>1, <1>3 DEF vars
<1>4. ASSUME NEW w \in Workers, Works(w)
      PROVE  Stays \/ Moves(w)
  BY <1>4, TakeMoves, ComputeEndsMoves, CommitStartsMoves, AppendCommitsMoves,
     AppendAnswersMoves, ReloadedMoves DEF Works
<1> QED
  BY <1>2, <1>3, <1>4, ForeignWriteStays, UserStays DEF Next

-----------------------------------------------------------------------------
(* What the moves keep *)

\* A worker that a move leaves alone, and the one it moves.
LEMMA Moved ==
  ASSUME TypeOK, NEW w \in Workers, NEW r, Becomes(w, r)
  PROVE  worker'[w] = r /\ \A v \in Workers \ {w} : worker'[v] = worker[v]
BY DEF Becomes, TypeOK

\* The record of each move.
LEMMA Records ==
  ASSUME TypeOK, NEW w \in Workers
  PROVE  /\ Picks(w) => /\ worker'[w].phase = "computing" /\ worker'[w].item = pool.next
                        /\ worker'[w].version = tab.document.version[pool.next]
         /\ \A status \in {"SUCCEEDED", "FAILED"} : Joins(w, status) =>
               /\ worker'[w].phase = "queued" /\ worker'[w].item = worker[w].item
               /\ worker'[w].version = worker[w].version /\ worker'[w].status = status
         /\ \A tries \in Nat : Starts(w, tries) =>
               /\ worker'[w].phase = "appending" /\ worker'[w].item = worker[w].item
               /\ worker'[w].version = worker[w].version /\ worker'[w].status = worker[w].status
         /\ \A answer \in {"stored", "conflict", "refused"} : Stores(w, answer) =>
               /\ worker'[w].phase = "answered" /\ worker'[w].answer = answer
               /\ worker'[w].item = worker[w].item
               /\ worker'[w].version = worker[w].version /\ worker'[w].status = worker[w].status
         /\ Rereads(w) =>
               /\ worker'[w].phase = "reloading" /\ worker'[w].read = study
               /\ worker'[w].item = worker[w].item
               /\ worker'[w].version = worker[w].version /\ worker'[w].status = worker[w].status
<1>1. worker[w] \in WorkerRecord
  BY DEF TypeOK
<1>2. Picks(w) => worker'[w] = [Free EXCEPT !.phase = "computing", !.item = pool.next,
                                  !.version = tab.document.version[pool.next]]
  BY Moved DEF Picks
<1>3. ASSUME NEW status \in {"SUCCEEDED", "FAILED"}, Joins(w, status)
      PROVE  worker'[w] = [worker[w] EXCEPT !.phase = "queued", !.status = status]
  BY <1>3, Moved DEF Joins
<1>4. ASSUME NEW tries \in Nat, Starts(w, tries)
      PROVE  worker'[w] = [worker[w] EXCEPT !.phase = "appending", !.tries = tries,
                                            !.read = Nothing, !.answer = "none"]
  BY <1>4, Moved DEF Starts
<1>5. ASSUME NEW answer \in {"stored", "conflict", "refused"}, Stores(w, answer)
      PROVE  worker'[w] = [worker[w] EXCEPT !.phase = "answered", !.answer = answer]
  BY <1>5, Moved DEF Stores
<1>6. Rereads(w) => worker'[w] = [worker[w] EXCEPT !.phase = "reloading", !.read = study]
  BY Moved DEF Rereads
<1>7. Picks(w) => /\ worker'[w].phase = "computing" /\ worker'[w].item = pool.next
                  /\ worker'[w].version = tab.document.version[pool.next]
  BY <1>2 DEF Free
<1>8. ASSUME NEW status \in {"SUCCEEDED", "FAILED"}, Joins(w, status)
      PROVE  /\ worker'[w].phase = "queued" /\ worker'[w].item = worker[w].item
             /\ worker'[w].version = worker[w].version /\ worker'[w].status = status
  BY <1>1, <1>3, <1>8 DEF WorkerRecord
<1>9. ASSUME NEW tries \in Nat, Starts(w, tries)
      PROVE  /\ worker'[w].phase = "appending" /\ worker'[w].item = worker[w].item
             /\ worker'[w].version = worker[w].version /\ worker'[w].status = worker[w].status
  BY <1>1, <1>4, <1>9 DEF WorkerRecord
<1>10. ASSUME NEW answer \in {"stored", "conflict", "refused"}, Stores(w, answer)
       PROVE  /\ worker'[w].phase = "answered" /\ worker'[w].answer = answer
              /\ worker'[w].item = worker[w].item
              /\ worker'[w].version = worker[w].version /\ worker'[w].status = worker[w].status
  BY <1>1, <1>5, <1>10 DEF WorkerRecord
<1>11. Rereads(w) =>
         /\ worker'[w].phase = "reloading" /\ worker'[w].read = study
         /\ worker'[w].item = worker[w].item
         /\ worker'[w].version = worker[w].version /\ worker'[w].status = worker[w].status
  BY <1>1, <1>6 DEF WorkerRecord
<1> QED
  BY <1>7, <1>8, <1>9, <1>10, <1>11

\* Nothing is stored but what Stores stores, and what another tab does.
LEMMA StoredAttempts ==
  ASSUME TypeOK, NEW w, Stores(w, "stored")
  PROVE  study'.attempts = study.attempts \cup {Result(worker[w])}
<1> DEFINE a == Result(worker[w])
<1> HIDE DEF a
<1>1. study' = [study EXCEPT !.revision = @ + 1, !.attempts = @ \cup {a}]
  BY DEF Stores, a
<1>2. study'.attempts = study.attempts \cup {a}
  BY <1>1 DEF TypeOK, Documents
<1> QED
  BY <1>2 DEF a

LEMMA StudyOf ==
  ASSUME TypeOK, NEW w \in Workers, Moves(w)
  PROVE  \/ study' = study
         \/ /\ Stores(w, "stored")
            /\ study'.attempts = study.attempts \cup {Result(worker[w])}
<1>1. ASSUME NEW answer, Stores(w, answer), answer # "stored"
      PROVE  study' = study
  BY <1>1 DEF Stores
<1> QED
  BY <1>1, StoredAttempts DEF Moves, Picks, Leaves, Joins, Starts, Rereads

LEMMA AttemptsGrow ==
  ASSUME TypeOK, Stays \/ \E w \in Workers : Moves(w)
  PROVE  study.attempts \subseteq study'.attempts
BY StudyOf DEF Stays

LEMMA QueueKeeps ==
  ASSUME TypeOK, QueueExact, Stays \/ \E w \in Workers : Moves(w)
  PROVE  QueueExact'
<1>1. CASE Stays
  BY <1>1 DEF Stays, QueueExact
<1>2. ASSUME NEW w \in Workers, tail' = tail, \A v \in Workers \ {w} : worker'[v] = worker[v],
             worker'[w].phase \in Queuing => worker[w].phase \in Queuing /\ Head(tail) = w
      PROVE  QueueExact'
  <2>1. worker'[w].phase \in Queuing => tail # <<>> /\ Head(tail) = w
    BY <1>2, AtHead
  <2>2. Committing \subseteq Queuing
    BY DEF Queuing
  <2>3. ASSUME NEW v \in Workers, worker'[v].phase \in Queuing
        PROVE  \E n \in 1..Len(tail) : tail[n] = v
    <3>1. worker[v].phase \in Queuing
      BY <1>2, <2>3
    <3> QED
      BY <3>1 DEF QueueExact
  <2>4. ASSUME NEW v \in Workers, worker'[v].phase \in Committing
        PROVE  tail # <<>> /\ Head(tail) = v
    BY <1>2, <2>1, <2>2, <2>4 DEF QueueExact
  <2> QED
    BY <1>2, <2>3, <2>4 DEF QueueExact
<1>3. ASSUME NEW w \in Workers, Picks(w)
      PROVE  QueueExact'
  <2>1. worker'[w].phase \notin Queuing
    BY <1>3, Records DEF Queuing, Committing
  <2>2. tail' = tail /\ \A v \in Workers \ {w} : worker'[v] = worker[v]
    BY <1>3, Moved DEF Picks
  <2> QED
    BY <1>2, <2>1, <2>2
<1>4. ASSUME NEW w \in Workers, NEW r \in WorkerRecord, Leaves(w, r)
      PROVE  QueueExact'
  <2>1. /\ worker'[w].phase \notin Queuing
        /\ \A v \in Workers \ {w} : worker'[v] = worker[v]
    BY <1>4, Moved DEF Leaves, Busy
  <2>2. CASE worker[w].phase \in Queuing
    <3>1. tail # <<>> /\ Head(tail) = w /\ tail' = Tail(tail)
      BY <1>4, <2>2 DEF Leaves
    <3>2. ASSUME NEW v \in Workers, worker'[v].phase \in Queuing
          PROVE  /\ \E n \in 1..Len(tail') : tail'[n] = v
                 /\ worker'[v].phase \notin Committing
      <4>1. v # w /\ worker[v].phase = worker'[v].phase
        BY <2>1, <3>2
      <4>2. PICK n \in 1..Len(tail) : tail[n] = v
        BY <3>2, <4>1 DEF QueueExact
      <4>3. \E m \in 1..Len(Tail(tail)) : Tail(tail)[m] = v
        BY <3>1, <4>1, <4>2, StayInQueue DEF TypeOK
      <4>4. worker[v].phase \notin Committing
        BY <3>1, <4>1 DEF QueueExact
      <4> QED
        BY <3>1, <4>1, <4>3, <4>4
    <3> QED
      BY <3>2 DEF QueueExact, Queuing
  <2>3. CASE worker[w].phase \notin Queuing
    BY <1>2, <1>4, <2>1, <2>3 DEF Leaves
  <2> QED
    BY <2>2, <2>3
<1>5. ASSUME NEW w \in Workers, NEW status \in {"SUCCEEDED", "FAILED"}, Joins(w, status)
      PROVE  QueueExact'
  <2>1. /\ worker'[w].phase \notin Committing /\ tail' = Append(tail, w)
        /\ \A v \in Workers \ {w} : worker'[v] = worker[v]
    BY <1>5, Records, Moved DEF Joins, Committing
  <2>2. /\ Append(tail, w) # <<>>
        /\ tail # <<>> => Head(Append(tail, w)) = Head(tail)
        /\ \E n \in 1..Len(Append(tail, w)) : Append(tail, w)[n] = w
        /\ \A n \in 1..Len(tail) : n \in 1..Len(Append(tail, w)) /\ Append(tail, w)[n] = tail[n]
    BY JoinQueue DEF TypeOK
  <2>3. ASSUME NEW v \in Workers, worker'[v].phase \in Queuing
        PROVE  \E n \in 1..Len(tail') : tail'[n] = v
    <3>1. CASE v = w
      BY <2>1, <2>2, <3>1
    <3>2. CASE v # w
      <4>1. PICK n \in 1..Len(tail) : tail[n] = v
        BY <2>1, <2>3, <3>2 DEF QueueExact
      <4> QED
        BY <2>1, <2>2, <4>1
    <3> QED
      BY <3>1, <3>2
  <2>4. ASSUME NEW v \in Workers, worker'[v].phase \in Committing
        PROVE  tail' # <<>> /\ Head(tail') = v
    BY <2>1, <2>2, <2>4 DEF QueueExact
  <2> QED
    BY <2>3, <2>4 DEF QueueExact
<1>6. ASSUME NEW w \in Workers, NEW tries \in Nat, Starts(w, tries)
      PROVE  QueueExact'
  <2>1. /\ worker[w].phase \in Queuing /\ Head(tail) = w /\ tail' = tail
        /\ \A v \in Workers \ {w} : worker'[v] = worker[v]
    BY <1>6, Moved DEF Starts
  <2> QED
    BY <1>2, <2>1
<1>7. ASSUME NEW w \in Workers, Rereads(w) \/ \E answer \in {"stored", "conflict", "refused"} : Stores(w, answer)
      PROVE  QueueExact'
  <2>1. /\ worker[w].phase \in {"answered", "appending"} /\ tail' = tail
        /\ \A v \in Workers \ {w} : worker'[v] = worker[v]
    BY <1>7, Moved DEF Rereads, Stores
  <2>2. worker[w].phase \in Queuing /\ worker[w].phase \in Committing
    BY <2>1 DEF Queuing, Committing
  <2>3. Head(tail) = w
    BY <2>2, AtHead
  <2> QED
    BY <1>2, <2>1, <2>2, <2>3
<1> QED
  BY <1>1, <1>3, <1>4, <1>5, <1>6, <1>7 DEF Moves

\* The item of a worker that stays busy is the one it had.
LEMMA ItemStays ==
  ASSUME TypeOK, NEW w \in Workers, Moves(w)
  PROVE  \/ Picks(w)
         \/ worker'[w].phase \notin Busy /\ pool'.next = pool.next
         \/ /\ worker[w].phase \in Busy /\ worker'[w].item = worker[w].item
            /\ pool'.next = pool.next
<1>1. ASSUME NEW r \in WorkerRecord, Leaves(w, r)
      PROVE  worker'[w].phase \notin Busy /\ pool'.next = pool.next
  BY <1>1, Moved DEF Leaves
<1>2. ASSUME \/ \E status \in {"SUCCEEDED", "FAILED"} : Joins(w, status)
             \/ \E tries \in Nat : Starts(w, tries)
             \/ \E answer \in {"stored", "conflict", "refused"} : Stores(w, answer)
             \/ Rereads(w)
      PROVE  /\ worker[w].phase \in Busy /\ worker'[w].item = worker[w].item
             /\ pool'.next = pool.next
  <2>1. worker'[w].item = worker[w].item
    BY <1>2, Records
  <2>2. worker[w].phase \in Busy /\ pool'.next = pool.next
    BY <1>2 DEF Joins, Starts, Stores, Rereads, Busy, Queuing, Committing
  <2> QED
    BY <2>1, <2>2
<1> QED
  BY <1>1, <1>2 DEF Moves

LEMMA ItemsKeep ==
  ASSUME TypeOK, ItemsApart, Stays \/ \E w \in Workers : Moves(w)
  PROVE  ItemsApart'
<1>0. /\ pool.next \in Nat /\ \A v \in Workers : worker[v].phase \in Busy => worker[v].item \in Nat
      /\ \A a \in study.attempts : a.item \in Nat
  <2>1. \A v \in Workers : worker[v].phase \in Busy => worker[v].item \in Nat
    BY ItemsArePositive DEF TypeOK, Fits
  <2>2. \A a \in study.attempts : a.item \in Nat
    BY ItemsArePositive DEF TypeOK, Documents, Attempt
  <2> QED
    BY <2>1, <2>2 DEF TypeOK
<1>1. CASE Stays
  <2>1. worker' = worker /\ pool'.next \in Int /\ pool'.next >= pool.next
        /\ \A a \in study'.attempts : a.own => a \in study.attempts
    BY <1>1, <1>0 DEF Stays
  <2>2. \A v \in Workers : worker'[v].phase \in Busy => worker'[v].item < pool'.next
    BY <1>0, <2>1 DEF ItemsApart
  <2>3. \A a \in study'.attempts : a.own => a.item < pool'.next
    BY <1>0, <2>1 DEF ItemsApart
  <2> QED
    BY <2>1, <2>2, <2>3 DEF ItemsApart
<1>2. ASSUME NEW w \in Workers, Moves(w)
      PROVE  ItemsApart'
  <2>1. \A v \in Workers \ {w} : worker'[v] = worker[v]
    BY <1>2, Moved DEF Moves, Picks, Leaves, Joins, Starts, Stores, Rereads
  <2>2. CASE Picks(w)
    <3>1. pool'.next = pool.next + 1 /\ worker'[w].item = pool.next /\ study' = study
      BY <2>2, Records DEF Picks, TypeOK
    <3>2. \A v \in Workers \ {w} : worker[v].phase \in Busy => worker[v].item # pool.next
      BY <1>0 DEF ItemsApart
    <3>3. \A v \in Workers : worker'[v].phase \in Busy => worker'[v].item < pool'.next
      BY <1>0, <2>1, <3>1 DEF ItemsApart
    <3>4. \A a \in study'.attempts : a.own => a.item < pool'.next
      BY <1>0, <3>1 DEF ItemsApart
    <3>5. \A u, v \in Workers :
            u # v /\ worker'[u].phase \in Busy /\ worker'[v].phase \in Busy =>
              worker'[u].item # worker'[v].item
      BY <2>1, <3>1, <3>2 DEF ItemsApart
    <3> QED
      BY <3>3, <3>4, <3>5 DEF ItemsApart
  <2>3. CASE \/ worker'[w].phase \notin Busy /\ pool'.next = pool.next
             \/ /\ worker[w].phase \in Busy /\ worker'[w].item = worker[w].item
                /\ pool'.next = pool.next
    <3>1. \A v \in Workers : worker'[v].phase \in Busy => worker'[v].item < pool'.next
      BY <2>1, <2>3 DEF ItemsApart
    <3>2. \A u, v \in Workers :
            u # v /\ worker'[u].phase \in Busy /\ worker'[v].phase \in Busy =>
              worker'[u].item # worker'[v].item
      BY <2>1, <2>3 DEF ItemsApart
    <3>3. \A a \in study'.attempts : a \in study.attempts \/ (a = Result(worker[w]) /\ worker[w].phase \in Busy)
      <4>1. Stores(w, "stored") => worker[w].phase \in Busy
        BY DEF Stores, Busy, Queuing, Committing
      <4> QED
        BY <1>2, <4>1, StudyOf
    <3>4. Result(worker[w]).item = worker[w].item
      BY DEF Result
    <3>5. \A a \in study'.attempts : a.own => a.item < pool'.next
      BY <2>3, <3>3, <3>4 DEF ItemsApart
    <3> QED
      BY <3>1, <3>2, <3>5 DEF ItemsApart
  <2> QED
    BY <1>2, <2>2, <2>3, ItemStays
<1> QED
  BY <1>1, <1>2

LEMMA NoneKeep ==
  ASSUME TypeOK, QueueExact, NoneCommits, Stays \/ \E w \in Workers : Moves(w)
  PROVE  NoneCommits'
<1>1. CASE Stays
  BY <1>1 DEF Stays, NoneCommits
<1>2. ASSUME NEW w \in Workers, worker'[w].phase \notin Committing, pool'.commitFailed = pool.commitFailed,
             \A v \in Workers \ {w} : worker'[v] = worker[v]
      PROVE  NoneCommits'
  BY <1>2 DEF NoneCommits
<1>3. ASSUME NEW w \in Workers, Picks(w) \/ \E status \in {"SUCCEEDED", "FAILED"} : Joins(w, status)
      PROVE  NoneCommits'
  <2>1. worker'[w].phase \notin Committing
    BY <1>3, Records DEF Committing
  <2>2. pool'.commitFailed = pool.commitFailed /\ \A v \in Workers \ {w} : worker'[v] = worker[v]
    BY <1>3, Moved DEF Picks, Joins, TypeOK
  <2> QED
    BY <1>2, <2>1, <2>2
<1>4. ASSUME NEW w \in Workers, NEW r \in WorkerRecord, Leaves(w, r)
      PROVE  NoneCommits'
  <2>1. /\ worker'[w].phase \notin Committing
        /\ \A v \in Workers \ {w} : worker'[v] = worker[v]
    BY <1>4, Moved DEF Leaves, Busy, Queuing
  <2>2. CASE worker[w].phase \in Queuing
    <3>1. \A v \in Workers \ {w} : worker[v].phase \notin Committing
      BY <1>4, <2>2 DEF Leaves, QueueExact
    <3> QED
      BY <2>1, <3>1 DEF NoneCommits
  <2>3. CASE worker[w].phase \notin Queuing
    BY <1>2, <1>4, <2>1, <2>3 DEF Leaves
  <2> QED
    BY <2>2, <2>3
<1>5. ASSUME NEW w \in Workers, \E tries \in Nat : Starts(w, tries)
      PROVE  NoneCommits'
  BY <1>5 DEF Starts, NoneCommits
<1>6. ASSUME NEW w \in Workers,
             Rereads(w) \/ \E answer \in {"stored", "conflict", "refused"} : Stores(w, answer)
      PROVE  NoneCommits'
  <2>1. ~pool.commitFailed
    BY <1>6 DEF Rereads, Stores, NoneCommits, Committing
  <2>2. pool' = pool
    BY <1>6 DEF Rereads, Stores
  <2> QED
    BY <2>1, <2>2 DEF NoneCommits
<1> QED
  BY <1>1, <1>3, <1>4, <1>5, <1>6 DEF Moves

\* What a worker knows it still knows when nothing of its combination is stored.
LEMMA KnowsStays ==
  ASSUME NEW r, NEW s, NEW t, Knows(r, s), s.attempts \subseteq t.attempts,
         r.phase \in Busy => \A a \in t.attempts \ s.attempts : ~(a.own /\ a.item = r.item)
  PROVE  Knows(r, t)
<1>1. r.phase \in Busy => (Own(t, r.item) <=> Own(s, r.item))
  BY DEF Own
<1>2. r.phase \in {"computing", "queued", "appending", "answered", "reloading"} => r.phase \in Busy
  BY DEF Busy, Queuing, Committing
<1>3. r.phase \in {"computing", "queued", "appending"} => ~Own(t, r.item)
  BY <1>1, <1>2 DEF Knows
<1>4. r.phase = "answered" => IF r.answer = "stored" THEN Result(r) \in t.attempts
                                                     ELSE ~Own(t, r.item)
  BY <1>1, <1>2 DEF Knows
<1>5. r.phase = "reloading" => r.read.attempts \subseteq t.attempts
                               /\ (Own(t, r.item) => Result(r) \in r.read.attempts)
  BY <1>1, <1>2 DEF Knows
<1>6. r.phase \in Busy => \A a \in t.attempts : a.own /\ a.item = r.item => a = Result(r)
  BY DEF Knows
<1> QED
  BY <1>3, <1>4, <1>5, <1>6 DEF Knows

\* A result depends on the item, the version and the status only.
LEMMA SameResult ==
  ASSUME NEW q, NEW r, q.item = r.item, q.version = r.version, q.status = r.status
  PROVE  Result(q) = Result(r)
BY DEF Result

LEMMA KnownKeeps ==
  ASSUME TypeOK, ItemsApart, StoredKnown, Stays \/ \E w \in Workers : Moves(w)
  PROVE  StoredKnown'
<1>1. CASE Stays
  <2>1. ASSUME NEW v \in Workers
        PROVE  Knows(worker[v], study')
    BY <1>1, KnowsStays DEF Stays, StoredKnown
  <2> QED
    BY <1>1, <2>1 DEF Stays, StoredKnown
<1>2. ASSUME NEW w \in Workers, Moves(w)
      PROVE  StoredKnown'
  <2>1. \A v \in Workers \ {w} : worker'[v] = worker[v]
    BY <1>2, Moved DEF Moves, Picks, Leaves, Joins, Starts, Stores, Rereads
  <2>2. ASSUME NEW v \in Workers \ {w}
        PROVE  Knows(worker[v], study')
    <3>1. CASE study' = study
      BY <3>1 DEF StoredKnown
    <3>2. CASE Stores(w, "stored") /\ study'.attempts = study.attempts \cup {Result(worker[w])}
      <4>1. worker[w].phase \in Busy
        BY <3>2 DEF Stores, Busy, Queuing, Committing
      <4>2. worker[v].phase \in Busy => worker[v].item # worker[w].item
        BY <4>1 DEF ItemsApart
      <4>3. Result(worker[w]).item = worker[w].item
        BY DEF Result
      <4>4. worker[v].phase \in Busy =>
              \A a \in study'.attempts \ study.attempts : ~(a.own /\ a.item = worker[v].item)
        BY <3>2, <4>2, <4>3
      <4>5. Knows(worker[v], study)
        BY DEF StoredKnown
      <4> QED
        BY <3>2, <4>4, <4>5, KnowsStays
    <3> QED
      BY <1>2, <3>1, <3>2, StudyOf
  <2>3. Knows(worker'[w], study')
    <3>1. CASE Picks(w)
      <4>1. worker'[w].phase = "computing" /\ worker'[w].item = pool.next /\ study' = study
        BY <3>1, Records DEF Picks
      <4>2. pool.next \in Nat
        BY DEF TypeOK
      <4>3. \A a \in study.attempts : ~(a.own /\ a.item = pool.next)
        BY <4>2 DEF ItemsApart
      <4> QED
        BY <4>1, <4>3 DEF Knows, Own
    <3>2. ASSUME NEW r \in WorkerRecord, Leaves(w, r)
          PROVE  Knows(worker'[w], study')
      <4>1. worker'[w].phase \notin Busy
        BY <3>2, Moved DEF Leaves
      <4> QED
        BY <4>1 DEF Knows, Busy, Queuing, Committing
    <3>3. ASSUME NEW status \in {"SUCCEEDED", "FAILED"}, Joins(w, status)
          PROVE  Knows(worker'[w], study')
      <4>1. worker'[w].phase = "queued" /\ worker'[w].item = worker[w].item /\ study' = study
        BY <3>3, Records DEF Joins
      <4>2. ~Own(study, worker[w].item)
        BY <3>3 DEF Joins, StoredKnown, Knows
      <4> QED
        BY <4>1, <4>2 DEF Knows, Own
    <3>4. ASSUME NEW tries \in Nat, Starts(w, tries)
          PROVE  Knows(worker'[w], study')
      <4>1. worker'[w].phase = "appending" /\ worker'[w].item = worker[w].item /\ study' = study
        BY <3>4, Records DEF Starts
      <4>2. ~Own(study, worker[w].item)
        BY <3>4 DEF Starts
      <4> QED
        BY <4>1, <4>2 DEF Knows, Own
    <3>5. ASSUME NEW answer \in {"stored", "conflict", "refused"}, Stores(w, answer)
          PROVE  Knows(worker'[w], study')
      <4>1. /\ worker'[w].phase = "answered" /\ worker'[w].item = worker[w].item
            /\ worker'[w].answer = answer /\ Result(worker'[w]) = Result(worker[w])
        BY <3>5, Records, SameResult
      <4>2. ~Own(study, worker[w].item)
        BY <3>5 DEF Stores, StoredKnown, Knows
      <4>3. CASE answer = "stored"
        <5>1. study'.attempts = study.attempts \cup {Result(worker[w])}
          BY <3>5, <4>3, StoredAttempts
        <5>2. \A a \in study'.attempts : a.own /\ a.item = worker[w].item => a = Result(worker[w])
          BY <4>2, <5>1 DEF Own
        <5> QED
          BY <4>1, <4>3, <5>1, <5>2 DEF Knows
      <4>4. CASE answer # "stored"
        <5>1. study' = study
          BY <3>5, <4>4 DEF Stores
        <5> QED
          BY <4>1, <4>2, <4>4, <5>1 DEF Knows, Own
      <4> QED
        BY <4>3, <4>4
    <3>6. CASE Rereads(w)
      <4>1. /\ worker'[w].phase = "reloading" /\ worker'[w].item = worker[w].item
            /\ worker'[w].read = study /\ Result(worker'[w]) = Result(worker[w])
            /\ study' = study
        BY <3>6, Records, SameResult DEF Rereads
      <4>2. worker[w].phase = "answered" /\ worker[w].phase \in Busy
        BY <3>6 DEF Rereads, Busy, Queuing, Committing
      <4>3. Own(study, worker[w].item) => Result(worker[w]) \in study.attempts
        BY <4>2 DEF StoredKnown, Knows
      <4>4. \A a \in study.attempts : a.own /\ a.item = worker[w].item => a = Result(worker[w])
        BY <4>2 DEF StoredKnown, Knows
      <4> QED
        BY <4>1, <4>3, <4>4 DEF Knows
    <3> QED
      BY <1>2, <3>1, <3>2, <3>3, <3>4, <3>5, <3>6 DEF Moves
  <2> QED
    BY <2>1, <2>2, <2>3 DEF StoredKnown
<1> QED
  BY <1>1, <1>2

LEMMA OnceKeeps ==
  ASSUME TypeOK, StoredKnown, StoredOnce, Stays \/ \E w \in Workers : Moves(w)
  PROVE  StoredOnce'
<1>1. CASE Stays
  BY <1>1 DEF Stays, StoredOnce
<1>2. ASSUME NEW w \in Workers, Moves(w)
      PROVE  StoredOnce'
  <2>1. CASE study' = study
    BY <2>1 DEF StoredOnce
  <2>2. CASE Stores(w, "stored") /\ study'.attempts = study.attempts \cup {Result(worker[w])}
    <3>1. ~Own(study, worker[w].item)
      BY <2>2 DEF Stores, StoredKnown, Knows
    <3>2. Result(worker[w]).item = worker[w].item
      BY DEF Result
    <3> QED
      BY <2>2, <3>1, <3>2 DEF StoredOnce, Own
  <2> QED
    BY <1>2, <2>1, <2>2, StudyOf
<1> QED
  BY <1>1, <1>2

-----------------------------------------------------------------------------
(* What has become of each item *)

LEMMA Settled ==
  ASSUME TypeOK, CompletedIsStored, study.attempts \subseteq study'.attempts,
         NEW w \in Workers, NEW result, Settle(w, result),
         result = "completed" => \E a \in study.attempts :
                                    a.item = worker[w].item /\ a.own /\ a.status = "SUCCEEDED"
  PROVE  CompletedIsStored'
BY DEF Settle, TypeOK, CompletedIsStored

LEMMA CommittedIsStored ==
  ASSUME TypeOK, CompletedIsStored, study.attempts \subseteq study'.attempts,
         NEW w \in Workers, Committed(w),
         \E a \in study.attempts : a.item = worker[w].item /\ a.own /\ a.status = worker[w].status
  PROVE  CompletedIsStored'
BY Settled DEF Committed

LEMMA CompletedKeeps ==
  ASSUME TypeOK, StoredKnown, CompletedIsStored, study.attempts \subseteq study'.attempts,
         [Next]_vars
  PROVE  CompletedIsStored'
<1>1. ASSUME fate' = fate
      PROVE  CompletedIsStored'
  BY <1>1 DEF CompletedIsStored
<1>2. ASSUME NEW w \in Workers, NEW result \in {"failed"}, Settle(w, result)
      PROVE  CompletedIsStored'
  BY <1>2, Settled
<1>3. ASSUME NEW w \in Workers, Take(w)
      PROVE  CompletedIsStored'
  <2>1. fate' = fate \/ \E result \in {"active", "skipped"} : fate' = [fate EXCEPT ![pool.next] = result]
    BY <1>3 DEF Take
  <2> QED
    BY <2>1 DEF CompletedIsStored, TypeOK
<1>4. ASSUME NEW w \in Workers, ComputeEnds(w)
      PROVE  CompletedIsStored'
  BY <1>1, <1>2, <1>4 DEF ComputeEnds
<1>5. ASSUME NEW w \in Workers, CommitFails(w)
      PROVE  CompletedIsStored'
  BY <1>2, <1>5 DEF CommitFails
<1>6. ASSUME NEW w \in Workers, CommitStarts(w)
      PROVE  CompletedIsStored'
  BY <1>1, <1>2, <1>5, <1>6 DEF CommitStarts, Calls
<1>7. ASSUME NEW w \in Workers, AppendAnswers(w)
      PROVE  CompletedIsStored'
  <2>1. CASE worker[w].answer = "stored" /\ Committed(w)
    <3>1. Result(worker[w]) \in study.attempts
      BY <1>7, <2>1 DEF AppendAnswers, StoredKnown, Knows
    <3>2. /\ Result(worker[w]).item = worker[w].item /\ Result(worker[w]).own
          /\ Result(worker[w]).status = worker[w].status
      BY DEF Result
    <3> QED
      BY <2>1, <3>1, <3>2, CommittedIsStored
  <2>2. CASE Conflicted(w)
    BY <1>1, <1>5, <2>2 DEF Conflicted
  <2> QED
    BY <1>5, <1>7, <2>1, <2>2 DEF AppendAnswers
<1>8. ASSUME NEW w \in Workers, Reloaded(w)
      PROVE  CompletedIsStored'
  <2>1. CASE Recorded(worker[w].read, worker[w].item) /\ Committed(w)
    <3>1. PICK a \in worker[w].read.attempts : a.item = worker[w].item /\ a.own
      BY <2>1 DEF Recorded, Own
    <3>2. worker[w].phase = "reloading" /\ worker[w].phase \in Busy
      BY <1>8 DEF Reloaded, Busy, Queuing, Committing
    <3>3. a \in study.attempts /\ a = Result(worker[w])
      BY <3>1, <3>2 DEF StoredKnown, Knows
    <3>4. Result(worker[w]).status = worker[w].status
      BY DEF Result
    <3> QED
      BY <2>1, <3>1, <3>3, <3>4, CommittedIsStored
  <2> QED
    BY <1>1, <1>5, <1>8, <2>1 DEF Reloaded, Calls
<1> QED
  BY <1>1, <1>3, <1>4, <1>6, <1>7, <1>8
  DEF Next, Works, ForeignWrite, NewsArrives, NewsRead, AppendCommits, CancelBatch, LeavePage, vars

-----------------------------------------------------------------------------
(* Types, step by step *)

TabOK  == tab \in [document : Documents, status : {"SAVED", "SAVING", "CONFLICT", "STORAGE_FAILURE"},
                   disturbed : BOOLEAN, required : Nat]
NewsOK == news \in [Foreign -> News]
          /\ \A k \in Foreign : news[k].phase = "reading" => news[k].read \in Documents
WorkerOK == worker \in [Workers -> WorkerRecord] /\ \A w \in Workers : Fits(worker[w])
PoolOK == pool \in [next : Nat, failed : BOOLEAN, commitFailed : BOOLEAN, cancelled : BOOLEAN,
                    aborted : BOOLEAN]
FateOK == fate \in [Items -> {"open", "active", "skipped", "completed", "failed"}]

LEMMA TypeParts ==
  TypeOK <=> /\ study \in Documents /\ TabOK /\ NewsOK /\ WorkerOK
             /\ tail \in Seq(Workers) /\ PoolOK /\ FateOK /\ faults \in Nat
BY DEF TypeOK, TabOK, NewsOK, WorkerOK, PoolOK, FateOK

LEMMA TypePartsNext ==
  TypeOK' <=> /\ study' \in Documents /\ TabOK' /\ NewsOK' /\ WorkerOK'
              /\ tail' \in Seq(Workers) /\ PoolOK' /\ FateOK' /\ faults' \in Nat
BY DEF TypeOK, TabOK, NewsOK, WorkerOK, PoolOK, FateOK

LEMMA OneRecord ==
  ASSUME WorkerOK, NEW w \in Workers, NEW r \in WorkerRecord, Fits(r),
         worker' = [worker EXCEPT ![w] = r]
  PROVE  WorkerOK'
BY DEF WorkerOK

\* The study, the queue and the workers, by moves.
LEMMA MovesKeepTypes ==
  ASSUME TypeOK, Stays \/ \E w \in Workers : Moves(w)
  PROVE  /\ study' \in Documents \/ Stays
         /\ tail' \in Seq(Workers) /\ WorkerOK'
<1>1. CASE Stays
  BY <1>1, TypeParts DEF Stays, WorkerOK
<1>2. ASSUME NEW w \in Workers, Moves(w)
      PROVE  study' \in Documents /\ tail' \in Seq(Workers) /\ WorkerOK'
  <2>0. worker[w] \in WorkerRecord /\ Fits(worker[w]) /\ WorkerOK /\ tail \in Seq(Workers)
        /\ study \in Documents
    BY TypeParts DEF WorkerOK
  <2>1. study' \in Documents
    <3>1. ASSUME Stores(w, "stored")
          PROVE  study' \in Documents
      <4>1. worker[w].phase \in Queuing
        BY <3>1 DEF Stores, Queuing, Committing
      <4>2. Result(worker[w]) \in Attempt
        BY <2>0, <4>1, ResultIsAttempt
      <4> QED
        BY <2>0, <3>1, <4>2, Grown DEF Stores
    <3> QED
      BY <1>2, <2>0, <3>1, StudyOf
  <2>2. CASE Picks(w)
    <3> DEFINE r == [Free EXCEPT !.phase = "computing", !.item = pool.next,
                                 !.version = tab.document.version[pool.next]]
    <3>1. pool.next \in Items /\ tab.document.version[pool.next] \in Nat
      BY <2>2, DocumentFields DEF Picks, TypeOK
    <3>2. r \in WorkerRecord /\ Fits(r)
      BY <3>1 DEF Free, WorkerRecord, Fits, Busy, Queuing, Committing
    <3> HIDE DEF r
    <3>3. worker' = [worker EXCEPT ![w] = r] /\ tail' = tail
      BY <2>2 DEF Picks, Becomes, r
    <3> QED
      BY <2>0, <2>1, <3>2, <3>3, OneRecord
  <2>3. ASSUME NEW r \in WorkerRecord, Leaves(w, r)
        PROVE  tail' \in Seq(Workers) /\ WorkerOK'
    <3>1. Fits(r) /\ worker' = [worker EXCEPT ![w] = r]
      BY <2>3 DEF Leaves, Becomes
    <3>2. tail' \in Seq(Workers)
      BY <2>0, <2>3, TailOfQueue DEF Leaves
    <3> QED
      BY <2>0, <3>1, <3>2, OneRecord
  <2>4. ASSUME NEW status \in {"SUCCEEDED", "FAILED"}, Joins(w, status)
        PROVE  tail' \in Seq(Workers) /\ WorkerOK'
    <3> DEFINE r == [worker[w] EXCEPT !.phase = "queued", !.status = status]
    <3>0. worker[w].item \in Items
      BY <2>0, <2>4 DEF Joins, Fits, Busy
    <3>1. r \in WorkerRecord /\ Fits(r)
      BY <2>0, <3>0 DEF WorkerRecord, Fits, Busy, Queuing, Committing
    <3> HIDE DEF r
    <3>2. worker' = [worker EXCEPT ![w] = r] /\ tail' = Append(tail, w)
      BY <2>4 DEF Joins, Becomes, r
    <3> QED
      BY <2>0, <3>1, <3>2, JoinQueue, OneRecord
  <2>5. ASSUME NEW tries \in Nat, Starts(w, tries)
        PROVE  tail' \in Seq(Workers) /\ WorkerOK'
    <3> DEFINE r == [worker[w] EXCEPT !.phase = "appending", !.tries = tries, !.read = Nothing,
                                      !.answer = "none"]
    <3>0. worker[w].item \in Items /\ worker[w].status \in {"SUCCEEDED", "FAILED"}
      BY <2>0, <2>5 DEF Starts, Fits, Busy
    <3>1. r \in WorkerRecord /\ Fits(r)
      BY <2>0, <3>0 DEF WorkerRecord, Fits, Busy, Queuing, Committing
    <3> HIDE DEF r
    <3>2. worker' = [worker EXCEPT ![w] = r] /\ tail' = tail
      BY <2>5 DEF Starts, Becomes, r
    <3> QED
      BY <2>0, <3>1, <3>2, OneRecord
  <2>6. ASSUME NEW answer \in {"stored", "conflict", "refused"}, Stores(w, answer)
        PROVE  tail' \in Seq(Workers) /\ WorkerOK'
    <3> DEFINE r == [worker[w] EXCEPT !.phase = "answered", !.answer = answer]
    <3>0. worker[w].item \in Items /\ worker[w].status \in {"SUCCEEDED", "FAILED"}
      BY <2>0, <2>6 DEF Stores, Fits, Busy, Queuing, Committing
    <3>1. r \in WorkerRecord /\ Fits(r)
      BY <2>0, <3>0 DEF WorkerRecord, Fits, Busy, Queuing, Committing
    <3> HIDE DEF r
    <3>2. worker' = [worker EXCEPT ![w] = r] /\ tail' = tail
      BY <2>6 DEF Stores, Becomes, r
    <3> QED
      BY <2>0, <3>1, <3>2, OneRecord
  <2>7. CASE Rereads(w)
    <3> DEFINE r == [worker[w] EXCEPT !.phase = "reloading", !.read = study]
    <3>0. worker[w].item \in Items /\ worker[w].status \in {"SUCCEEDED", "FAILED"}
      BY <2>0, <2>7 DEF Rereads, Fits, Busy, Queuing, Committing
    <3>1. r \in WorkerRecord /\ Fits(r)
      BY <2>0, <3>0 DEF WorkerRecord, Fits, Busy, Queuing, Committing
    <3> HIDE DEF r
    <3>2. worker' = [worker EXCEPT ![w] = r] /\ tail' = tail
      BY <2>7 DEF Rereads, Becomes, r
    <3> QED
      BY <2>0, <2>1, <3>1, <3>2, OneRecord
  <2> QED
    BY <1>2, <2>1, <2>2, <2>3, <2>4, <2>5, <2>6, <2>7 DEF Moves
<1> QED
  BY <1>1, <1>2

LEMMA ShowsTypes ==
  ASSUME TabOK, NewsOK, NEW d \in Documents,
         NEW status \in {"SAVED", "SAVING", "CONFLICT", "STORAGE_FAILURE"}, Shows(d, status)
  PROVE  TabOK' /\ NewsOK'
<1>1. TabOK'
  BY DEF Shows, TabOK, Documents
<1>2. ASSUME NEW k \in Foreign
      PROVE  news'[k] \in News /\ (news'[k].phase = "reading" => news'[k].read \in Documents)
  BY <1>2 DEF Shows, Outdated, NewsOK, News
<1>3. news' = [k \in Foreign |-> news'[k]]
  BY DEF Shows, Outdated
<1> QED
  BY <1>1, <1>2, <1>3 DEF NewsOK

LEMMA SettleTypes ==
  ASSUME FateOK, NEW w \in Workers, NEW result \in {"completed", "failed"}, Settle(w, result)
  PROVE  FateOK'
BY DEF FateOK, Settle

LEMMA CommitFailsTypes ==
  ASSUME FateOK, PoolOK, NEW w \in Workers, CommitFails(w)
  PROVE  FateOK' /\ PoolOK'
BY SettleTypes DEF CommitFails, PoolOK

LEMMA CommittedTypes ==
  ASSUME FateOK, PoolOK, NEW w \in Workers, Committed(w)
  PROVE  FateOK' /\ PoolOK'
BY SettleTypes DEF Committed, PoolOK

LEMMA SavedIsDocument ==
  ASSUME TypeOK, NEW w \in Workers, worker[w].phase = "answered"
  PROVE  [tab.document EXCEPT !.revision = @ + 1, !.attempts = @ \cup {Result(worker[w])}]
            \in Documents
<1>1. worker[w] \in WorkerRecord /\ Fits(worker[w]) /\ worker[w].phase \in Queuing
      /\ tab.document \in Documents
  BY DEF TypeOK, Queuing, Committing
<1> QED
  BY <1>1, ResultIsAttempt, Grown

\* What else a step changes.
LEMMA OthersKeepTypes ==
  ASSUME TypeOK, Next
  PROVE  /\ Stays => study' \in Documents
         /\ TabOK' /\ NewsOK' /\ PoolOK' /\ FateOK' /\ faults' \in Nat
<1>0. study \in Documents /\ TabOK /\ NewsOK /\ PoolOK /\ FateOK /\ faults \in Nat
  BY TypeParts
<1>1. ASSUME NEW i \in Items, ForeignWrite(i)
      PROVE  study' \in Documents /\ TabOK' /\ NewsOK' /\ PoolOK' /\ FateOK' /\ faults' \in Nat
  <2> DEFINE a == [item |-> i, version |-> study.version[i], status |-> "SUCCEEDED", own |-> FALSE]
  <2>1. a \in Attempt
    BY <1>0, DocumentFields DEF Attempt
  <2> HIDE DEF a
  <2>2. study' \in Documents
    <3>1. \/ study' = [study EXCEPT !.revision = @ + 1, !.attempts = @ \cup {a}]
          \/ study' = [study EXCEPT !.revision = @ + 1, !.version[i] = @ + 1]
      BY <1>1 DEF ForeignWrite, a
    <3> QED
      BY <1>0, <2>1, <3>1, Grown, Changed
  <2>3. NewsOK'
    <3>1. PICK k \in Foreign :
            news' = [news EXCEPT ![k].phase = "sent", ![k].revision = study.revision + 1]
      BY <1>1 DEF ForeignWrite
    <3>2. study.revision + 1 \in Nat
      BY <1>0, DocumentFields
    <3> QED
      BY <1>0, <3>1, <3>2 DEF NewsOK, News
  <2>4. UNCHANGED <<tab, pool, fate, faults>>
    BY <1>1 DEF ForeignWrite
  <2> QED
    BY <1>0, <2>2, <2>3, <2>4 DEF TabOK, PoolOK, FateOK
<1>2. ASSUME NEW k \in Foreign, NewsArrives(k)
      PROVE  study' \in Documents /\ TabOK' /\ NewsOK' /\ PoolOK' /\ FateOK' /\ faults' \in Nat
  <2>1. UNCHANGED <<study, pool, fate, faults>>
    BY <1>2 DEF NewsArrives
  <2>2. HigherOf(tab.required, news[k].revision) \in Nat
    BY <1>0 DEF TabOK, NewsOK, News, HigherOf
  <2>3. TabOK'
    <3> DEFINE heard == [tab EXCEPT !.required = HigherOf(@, news[k].revision)]
    <3>1. tab' = heard \/ tab' = [heard EXCEPT !.status = "CONFLICT", !.disturbed = TRUE]
      BY <1>2 DEF NewsArrives
    <3>2. heard \in [document : Documents, status : {"SAVED", "SAVING", "CONFLICT", "STORAGE_FAILURE"},
                     disturbed : BOOLEAN, required : Nat]
      BY <1>0, <2>2 DEF TabOK
    <3> HIDE DEF heard
    <3> QED
      BY <3>1, <3>2 DEF TabOK
  <2>4. NewsOK'
    <3>1. \/ news' = [news EXCEPT ![k] = [news[k] EXCEPT !.phase = "over"]]
          \/ news' = [news EXCEPT ![k] = [news[k] EXCEPT !.phase = "reading", !.read = study]]
      BY <1>0, <1>2 DEF NewsArrives, NewsOK
    <3>2. /\ [news[k] EXCEPT !.phase = "over"] \in News
          /\ [news[k] EXCEPT !.phase = "over"].phase # "reading"
          /\ [news[k] EXCEPT !.phase = "reading", !.read = study] \in News
          /\ [news[k] EXCEPT !.phase = "reading", !.read = study].read \in Documents
      BY <1>0 DEF NewsOK, News
    <3> QED
      BY <1>0, <3>1, <3>2 DEF NewsOK
  <2> QED
    BY <1>0, <2>1, <2>3, <2>4 DEF PoolOK, FateOK
<1>3. ASSUME NEW k \in Foreign, NewsRead(k)
      PROVE  study' \in Documents /\ TabOK' /\ NewsOK' /\ PoolOK' /\ FateOK' /\ faults' \in Nat
  <2> DEFINE over == [news EXCEPT ![k].phase = "over", ![k].late = FALSE, ![k].read = Nothing]
  <2>1. UNCHANGED <<study, pool, fate, faults>> /\ news[k].read \in Documents
    BY <1>0, <1>3 DEF NewsRead, NewsOK
  <2> DEFINE heard == [news[k] EXCEPT !.phase = "over", !.late = FALSE, !.read = Nothing]
  <2>2. over \in [Foreign -> News]
        /\ \A j \in Foreign : over[j].phase = "reading" => over[j].read \in Documents
    <3>1. heard \in News /\ heard.phase # "reading"
      BY <1>0 DEF NewsOK, News
    <3>2. over = [news EXCEPT ![k] = heard]
      BY <1>0 DEF NewsOK, News
    <3> HIDE DEF over, heard
    <3> QED
      BY <1>0, <3>1, <3>2 DEF NewsOK
  <2> HIDE DEF over
  <2>3. TabOK'
    <3>1. \/ tab' = tab
          \/ tab' = [tab EXCEPT !.status = "CONFLICT", !.disturbed = TRUE]
          \/ tab' = [tab EXCEPT !.document = news[k].read, !.required = 0]
      BY <1>3 DEF NewsRead
    <3>2. ASSUME NEW d \in Documents
          PROVE  [tab EXCEPT !.document = d, !.required = 0]
                   \in [document : Documents, disturbed : BOOLEAN, required : Nat,
                        status : {"SAVED", "SAVING", "CONFLICT", "STORAGE_FAILURE"}]
      BY <1>0 DEF TabOK
    <3>3. CASE tab' = [tab EXCEPT !.document = news[k].read, !.required = 0]
      BY <2>1, <3>2, <3>3 DEF TabOK
    <3>4. CASE tab' = tab \/ tab' = [tab EXCEPT !.status = "CONFLICT", !.disturbed = TRUE]
      BY <1>0, <3>4 DEF TabOK
    <3> QED
      BY <3>1, <3>3, <3>4
  <2>4. NewsOK'
    <3>1. news' = over \/ news' = [j \in Foreign |-> IF j = k THEN over[k] ELSE Outdated[j]]
      BY <1>3 DEF NewsRead, over
    <3>2. CASE news' = over
      BY <2>2, <3>2 DEF NewsOK
    <3>3. CASE news' = [j \in Foreign |-> IF j = k THEN over[k] ELSE Outdated[j]]
      <4>1. ASSUME NEW j \in Foreign
            PROVE  Outdated[j] \in News /\ (Outdated[j].phase = "reading" => Outdated[j].read \in Documents)
        BY <1>0 DEF Outdated, NewsOK, News
      <4> QED
        BY <2>2, <3>3, <4>1 DEF NewsOK
    <3> QED
      BY <3>1, <3>2, <3>3
  <2> QED
    BY <1>0, <2>1, <2>3, <2>4 DEF PoolOK, FateOK
<1>4. ASSUME NEW w \in Workers, Take(w)
      PROVE  study' \in Documents /\ TabOK' /\ NewsOK' /\ PoolOK' /\ FateOK' /\ faults' \in Nat
  <2>1. UNCHANGED <<study, tab, news, faults>>
    BY <1>4 DEF Take
  <2>2. pool' = pool \/ pool' = [pool EXCEPT !.next = @ + 1]
    BY <1>4 DEF Take
  <2>3. fate' = fate \/ \E result \in {"active", "skipped"} : fate' = [fate EXCEPT ![pool.next] = result]
    BY <1>4 DEF Take
  <2>4. PoolOK'
    BY <1>0, <2>2 DEF PoolOK
  <2>5. FateOK'
    BY <1>0, <2>3 DEF FateOK
  <2> QED
    BY <1>0, <2>1, <2>4, <2>5 DEF TabOK, NewsOK
<1>5. ASSUME NEW w \in Workers, ComputeEnds(w)
      PROVE  study' \in Documents /\ TabOK' /\ NewsOK' /\ PoolOK' /\ FateOK' /\ faults' \in Nat
  <2>1. UNCHANGED <<study, tab, news>>
    BY <1>5 DEF ComputeEnds
  <2>2. /\ pool' = [pool EXCEPT !.failed = TRUE] \/ \E status \in {"SUCCEEDED", "FAILED"} :
                                                     pool' = [pool EXCEPT !.failed = @ \/ status = "FAILED"]
        /\ fate' = fate \/ Settle(w, "failed")
        /\ faults' \in {faults, faults + 1}
    BY <1>5 DEF ComputeEnds
  <2>3. PoolOK'
    BY <1>0, <2>2 DEF PoolOK
  <2>4. FateOK'
    BY <1>0, <2>2, SettleTypes DEF FateOK
  <2>5. faults' \in Nat
    BY <1>0, <2>2
  <2> QED
    BY <1>0, <2>1, <2>3, <2>4, <2>5 DEF TabOK, NewsOK
<1>6. ASSUME NEW w \in Workers, CommitStarts(w)
      PROVE  study' \in Documents /\ TabOK' /\ NewsOK' /\ PoolOK' /\ FateOK' /\ faults' \in Nat
  <2>1. UNCHANGED <<study, news, faults>>
    BY <1>6 DEF CommitStarts
  <2>2. tab' = tab \/ tab' = [tab EXCEPT !.status = "SAVING", !.disturbed = FALSE]
    BY <1>6 DEF CommitStarts
  <2>3. TabOK'
    BY <1>0, <2>2 DEF TabOK
  <2>4. \/ Settle(w, "failed") /\ pool' = [pool EXCEPT !.failed = TRUE]
        \/ CommitFails(w)
        \/ UNCHANGED <<pool, fate>>
    BY <1>6 DEF CommitStarts, Calls
  <2>5. PoolOK' /\ FateOK'
    <3>1. ASSUME Settle(w, "failed"), pool' = [pool EXCEPT !.failed = TRUE]
          PROVE  PoolOK' /\ FateOK'
      BY <1>0, <3>1, SettleTypes DEF PoolOK
    <3>2. ASSUME UNCHANGED <<pool, fate>>
          PROVE  PoolOK' /\ FateOK'
      BY <1>0, <3>2 DEF PoolOK, FateOK
    <3> QED
      BY <1>0, <2>4, <3>1, <3>2, CommitFailsTypes
  <2> QED
    BY <1>0, <2>1, <2>3, <2>5 DEF NewsOK
<1>7. ASSUME NEW w \in Workers, AppendCommits(w)
      PROVE  (Stays => study' \in Documents) /\ TabOK' /\ NewsOK' /\ PoolOK' /\ FateOK' /\ faults' \in Nat
  <2>1. UNCHANGED <<tab, news, pool, fate, faults>>
    BY <1>7 DEF AppendCommits
  <2>2. Stays => study' \in Documents
    <3> DEFINE refused == study.version[worker[w].item] # worker[w].version \/ Own(study, worker[w].item)
    <3>0. worker[w].phase \in Queuing /\ worker[w] \in WorkerRecord /\ Fits(worker[w])
      BY <1>7 DEF AppendCommits, Queuing, Committing, TypeOK
    <3>1. study' = study \/ study' = [study EXCEPT !.revision = @ + 1, !.attempts = @ \cup {Result(worker[w])}]
      BY <1>7 DEF AppendCommits, Result
    <3> QED
      BY <1>0, <3>0, <3>1, ResultIsAttempt, Grown
  <2> QED
    BY <1>0, <2>1, <2>2 DEF TabOK, NewsOK, PoolOK, FateOK
<1>8. ASSUME NEW w \in Workers, Conflicted(w)
      PROVE  PoolOK' /\ FateOK'
  <2>1. CommitFails(w) \/ UNCHANGED <<pool, fate>>
    BY <1>8 DEF Conflicted
  <2> QED
    BY <1>0, <2>1, CommitFailsTypes DEF PoolOK, FateOK
<1>9. ASSUME NEW w \in Workers, AppendAnswers(w)
      PROVE  study' \in Documents /\ TabOK' /\ NewsOK' /\ PoolOK' /\ FateOK' /\ faults' \in Nat
  <2> DEFINE saved == [tab.document EXCEPT !.revision = @ + 1, !.attempts = @ \cup {Result(worker[w])}]
  <2>1. UNCHANGED <<study, faults>> /\ worker[w].phase = "answered"
    BY <1>9 DEF AppendAnswers
  <2>2. saved \in Documents
    BY <2>1, SavedIsDocument
  <2> HIDE DEF saved
  <2>3. TabOK' /\ NewsOK'
    <3>1. \/ Shows(saved, "SAVED") \/ Shows(saved, "CONFLICT")
          \/ /\ tab' = [tab EXCEPT !.status = "CONFLICT"] \/ tab' = [tab EXCEPT !.status = "STORAGE_FAILURE"]
             /\ news' = news
      BY <1>9 DEF AppendAnswers, saved, Result
    <3>2. ASSUME tab' = [tab EXCEPT !.status = "CONFLICT"] \/ tab' = [tab EXCEPT !.status = "STORAGE_FAILURE"],
                 news' = news
          PROVE  TabOK' /\ NewsOK'
      BY <1>0, <3>2 DEF TabOK, NewsOK
    <3> QED
      BY <1>0, <2>2, <3>1, <3>2, ShowsTypes
  <2>4. Committed(w) \/ Conflicted(w) \/ CommitFails(w)
    BY <1>9 DEF AppendAnswers
  <2>5. PoolOK' /\ FateOK'
    BY <1>0, <1>8, <2>4, CommitFailsTypes, CommittedTypes
  <2> QED
    BY <1>0, <2>1, <2>3, <2>5
<1>10. ASSUME NEW w \in Workers, Reloaded(w)
       PROVE  study' \in Documents /\ TabOK' /\ NewsOK' /\ PoolOK' /\ FateOK' /\ faults' \in Nat
  <2>1. UNCHANGED <<study, faults>> /\ worker[w].read \in Documents
    BY <1>10 DEF Reloaded, TypeOK, Fits
  <2>2. TabOK' /\ NewsOK'
    <3>1. \/ UNCHANGED <<tab, news>>
          \/ Shows(worker[w].read, "SAVED")
          \/ /\ tab' = [tab EXCEPT !.document = worker[w].read, !.status = "SAVING", !.disturbed = FALSE,
                                   !.required = 0]
             /\ news' = Outdated
      BY <1>10 DEF Reloaded
    <3>2. CASE UNCHANGED <<tab, news>>
      BY <1>0, <3>2 DEF TabOK, NewsOK
    <3>3. ASSUME tab' = [tab EXCEPT !.document = worker[w].read, !.status = "SAVING", !.disturbed = FALSE,
                                    !.required = 0],
                 news' = Outdated
          PROVE  TabOK' /\ NewsOK'
      <4>1. TabOK'
        BY <1>0, <2>1, <3>3 DEF TabOK
      <4>2. ASSUME NEW k \in Foreign
            PROVE  news'[k] \in News /\ (news'[k].phase = "reading" => news'[k].read \in Documents)
        BY <1>0, <3>3 DEF Outdated, NewsOK, News
      <4>3. news' = [k \in Foreign |-> news'[k]]
        BY <3>3 DEF Outdated
      <4> QED
        BY <4>1, <4>2, <4>3 DEF NewsOK
    <3> QED
      BY <1>0, <2>1, <3>1, <3>2, <3>3, ShowsTypes
  <2>3. Committed(w) \/ CommitFails(w) \/ UNCHANGED <<pool, fate>>
    BY <1>10 DEF Reloaded, Calls
  <2>4. PoolOK' /\ FateOK'
    <3>1. ASSUME UNCHANGED <<pool, fate>>
          PROVE  PoolOK' /\ FateOK'
      BY <1>0, <3>1 DEF PoolOK, FateOK
    <3> QED
      BY <1>0, <2>3, <3>1, CommitFailsTypes, CommittedTypes
  <2> QED
    BY <1>0, <2>1, <2>2, <2>4
<1>11. ASSUME CancelBatch \/ LeavePage
       PROVE  study' \in Documents /\ TabOK' /\ NewsOK' /\ PoolOK' /\ FateOK' /\ faults' \in Nat
  <2>1. UNCHANGED <<study, tab, news, fate, faults>>
    BY <1>11 DEF CancelBatch, LeavePage
  <2>2. PoolOK'
    BY <1>0, <1>11 DEF CancelBatch, LeavePage, PoolOK
  <2> QED
    BY <1>0, <2>1, <2>2 DEF TabOK, NewsOK, FateOK
<1> QED
  BY <1>1, <1>2, <1>3, <1>4, <1>5, <1>6, <1>7, <1>9, <1>10, <1>11 DEF Next, Works

LEMMA TypesKeep ==
  ASSUME TypeOK, QueueExact, StoredKnown, NoneCommits, [Next]_vars
  PROVE  TypeOK'
<1>1. Stays \/ \E w \in Workers : Moves(w)
  BY NextMoves
<1>2. (study' \in Documents \/ Stays) /\ tail' \in Seq(Workers) /\ WorkerOK'
  BY <1>1, MovesKeepTypes
<1>3. CASE Next
  BY <1>2, <1>3, OthersKeepTypes, TypePartsNext
<1>4. CASE UNCHANGED vars
  BY <1>4 DEF vars, TypeOK
<1> QED
  BY <1>3, <1>4

-----------------------------------------------------------------------------
(* Left alone *)

\* Nothing that disturbs the batch is undone.
LEMMA QuietBefore ==
  ASSUME TypeOK, [Next]_vars, Quiet'
  PROVE  /\ Quiet
         /\ \A i \in Items : ~ForeignWrite(i)
         /\ \A k \in Foreign : ~NewsArrives(k) /\ ~NewsRead(k)
         /\ ~LeavePage
<1>1. faults' = 0 /\ Written' = {} /\ ~pool'.aborted
  BY DEF Quiet
<1>2. \A k \in Foreign : news'[k].phase = "none"
  BY <1>1 DEF Written
<1>3. ASSUME NEW i \in Items, ForeignWrite(i) PROVE FALSE
  <2>1. PICK k \in Foreign :
          news' = [news EXCEPT ![k].phase = "sent", ![k].revision = study.revision + 1]
    BY <1>3 DEF ForeignWrite
  <2>2. news[k] \in News /\ news \in [Foreign -> News]
    BY DEF TypeOK
  <2>3. news'[k].phase = "sent"
    BY <2>1, <2>2 DEF News
  <2> QED
    BY <1>2, <2>3
<1>4. ASSUME NEW k \in Foreign, NewsArrives(k) PROVE FALSE
  <2>1. \/ news' = [news EXCEPT ![k].phase = "over"]
        \/ news' = [news EXCEPT ![k] = [@ EXCEPT !.phase = "reading", !.read = study]]
    BY <1>4 DEF NewsArrives
  <2>2. news[k] \in News /\ news \in [Foreign -> News]
    BY DEF TypeOK
  <2>3. CASE news' = [news EXCEPT ![k].phase = "over"]
    <3>1. news'[k].phase = "over"
      BY <2>2, <2>3 DEF News
    <3> QED
      BY <1>2, <3>1
  <2>4. CASE news' = [news EXCEPT ![k] = [@ EXCEPT !.phase = "reading", !.read = study]]
    <3>1. news'[k].phase = "reading"
      BY <2>2, <2>4 DEF News
    <3> QED
      BY <1>2, <3>1
  <2> QED
    BY <2>1, <2>3, <2>4
<1>5. ASSUME NEW k \in Foreign, NewsRead(k) PROVE FALSE
  <2> DEFINE over == [news EXCEPT ![k].phase = "over", ![k].late = FALSE, ![k].read = Nothing]
  <2>1. over[k].phase = "over"
    BY DEF TypeOK, News
  <2> HIDE DEF over
  <2>2. news' = over \/ news' = [j \in Foreign |-> IF j = k THEN over[k] ELSE Outdated[j]]
    BY <1>5 DEF NewsRead, over
  <2>3. news'[k].phase = "over"
    BY <2>1, <2>2
  <2> QED
    BY <1>2, <2>3
<1>6. ASSUME LeavePage PROVE FALSE
  BY <1>1, <1>6 DEF LeavePage, TypeOK
<1>7. ASSUME news' = news PROVE Written = {}
  BY <1>1, <1>7 DEF Written
<1>8. ASSUME news' = Outdated PROVE Written = {}
  <2>1. \A k \in Foreign : news'[k].phase = news[k].phase
    BY <1>8 DEF Outdated, TypeOK, News
  <2> QED
    BY <1>2, <2>1 DEF Written
<1>9. ASSUME NEW w \in Workers, Works(w)
      PROVE  Quiet
  <2>1. news' = news \/ news' = Outdated
    BY <1>9 DEF Works, Take, ComputeEnds, CommitStarts, AppendCommits, AppendAnswers, Reloaded, Shows
  <2>2. faults = 0
    <3>1. faults' \in {faults, faults + 1} /\ faults \in Nat
      BY <1>9 DEF Works, Take, ComputeEnds, CommitStarts, AppendCommits, AppendAnswers, Reloaded, TypeOK
    <3> QED
      BY <1>1, <3>1
  <2>3. ~pool.aborted
    <3>1. \/ pool' = pool \/ pool' = [pool EXCEPT !.next = @ + 1]
          \/ \E b \in BOOLEAN : pool' = [pool EXCEPT !.failed = b]
          \/ pool' = [pool EXCEPT !.failed = TRUE, !.commitFailed = TRUE]
      <4>1. CommitFails(w) => pool' = [pool EXCEPT !.failed = TRUE, !.commitFailed = TRUE]
        BY DEF CommitFails
      <4>2. Committed(w) \/ Calls(w, 1) \/ Calls(w, 2) => pool' = pool
        BY DEF Committed, Calls
      <4>3. Take(w) \/ AppendCommits(w) => pool' = pool \/ pool' = [pool EXCEPT !.next = @ + 1]
        BY DEF Take, AppendCommits
      <4>4. ComputeEnds(w) => \E b \in BOOLEAN : pool' = [pool EXCEPT !.failed = b]
        <5>1. pool.failed \in BOOLEAN
          BY DEF TypeOK
        <5> QED
          BY <5>1 DEF ComputeEnds
      <4>5. CommitStarts(w) => \/ pool' = [pool EXCEPT !.failed = TRUE]
                               \/ CommitFails(w) \/ Calls(w, 1)
        BY DEF CommitStarts
      <4>6. Conflicted(w) => pool' = pool \/ CommitFails(w)
        BY DEF Conflicted
      <4>7. AppendAnswers(w) => Committed(w) \/ Conflicted(w) \/ CommitFails(w)
        BY DEF AppendAnswers
      <4>8. Reloaded(w) => Committed(w) \/ Calls(w, 2) \/ CommitFails(w)
        BY DEF Reloaded
      <4>9. TRUE \in BOOLEAN
        OBVIOUS
      <4> QED
        BY <1>9, <4>1, <4>2, <4>3, <4>4, <4>5, <4>6, <4>7, <4>8, <4>9 DEF Works
    <3>2. pool'.aborted = pool.aborted
      BY <3>1 DEF TypeOK
    <3> QED
      BY <1>1, <3>2
  <2> QED
    BY <1>7, <1>8, <2>1, <2>2, <2>3 DEF Quiet
<1>10. ASSUME CancelBatch \/ UNCHANGED vars
       PROVE  Quiet
  <2>1. news' = news /\ faults' = faults /\ pool'.aborted = pool.aborted
    BY <1>10 DEF CancelBatch, vars, TypeOK
  <2> QED
    BY <1>1, <1>7, <2>1 DEF Quiet
<1> QED
  BY <1>3, <1>4, <1>5, <1>6, <1>9, <1>10 DEF Next

\* The workers a step leaves alone; one that was answered needs the study and the document
\* shown as they were.
LEMMA SmoothStays ==
  ASSUME NEW r, NEW s, NEW d, NEW t, NEW e, Smooth(r, s, d), t.version = s.version,
         r.phase # "answered" \/ (t = s /\ e = d)
  PROVE  Smooth(r, t, e)
BY DEF Smooth

\* Calm again, after a step of one worker.
LEMMA CalmAgain ==
  ASSUME Calm, NEW w \in Workers, \A v \in Workers \ {w} : worker'[v] = worker[v],
         study'.version = study.version,
         \A v \in Workers \ {w} : worker[v].phase # "answered"
                                 \/ (study' = study /\ tab'.document = tab.document),
         Smooth(worker'[w], study', tab'.document),
         ~pool'.failed /\ ~pool'.commitFailed /\ \A i \in Items : fate'[i] # "failed",
         tab'.required = 0 /\ ~tab'.disturbed,
         (\A v \in Workers : worker'[v].phase # "answered") => tab'.document = study',
         (\A v \in Workers : worker'[v].phase \notin Committing) => tab'.status = "SAVED"
  PROVE  Calm'
<1>1. ASSUME NEW v \in Workers
      PROVE  Smooth(worker'[v], study', tab'.document)
  <2>1. CASE v = w
    BY <2>1
  <2>2. CASE v # w
    <3>1. Smooth(worker[v], study, tab.document)
      BY DEF Calm
    <3>2. Smooth(worker[v], study', tab'.document)
      BY <2>2, <3>1, SmoothStays
    <3> QED
      BY <2>2, <3>2
  <2> QED
    BY <2>1, <2>2
<1> QED
  BY <1>1 DEF Calm

\* Only one commits.
LEMMA OnlyCommitter ==
  ASSUME QueueExact, NEW w \in Workers, Head(tail) = w, NEW v \in Workers \ {w}
  PROVE  worker[v].phase \notin Committing /\ worker[v].phase # "answered"
BY DEF QueueExact, Committing

LEMMA TakeCalm ==
  ASSUME TypeOK, Calm, NEW w \in Workers, Take(w)
  PROVE  Calm'
<1>0. /\ UNCHANGED <<study, tab>> /\ worker[w].phase = "ready"
      /\ worker[w] \in WorkerRecord
  BY DEF Take, TypeOK
<1>1. ASSUME worker'[w].phase \in {"ready", "done", "computing"},
             \A v \in Workers \ {w} : worker'[v] = worker[v],
             worker'[w].phase = "computing" => worker'[w].version = study.version[worker'[w].item],
             pool'.failed = pool.failed, pool'.commitFailed = pool.commitFailed,
             \A i \in Items : fate'[i] # "failed"
      PROVE  Calm'
  <2>1. worker'[w].phase \notin Queuing /\ worker[w].phase \notin Queuing
    BY <1>0, <1>1 DEF Queuing, Committing
  <2>2. Smooth(worker'[w], study', tab'.document)
    BY <1>0, <1>1, <2>1 DEF Smooth, Busy, Queuing, Committing
  <2>3. \A v \in Workers : /\ worker'[v].phase # "answered" <=> worker[v].phase # "answered"
                           /\ worker'[v].phase \in Committing <=> worker[v].phase \in Committing
    BY <1>1, <2>1 DEF Queuing, Committing
  <2> QED
    BY <1>0, <1>1, <2>2, <2>3, CalmAgain DEF Calm
<1>2. CASE ~Stopped /\ ShouldCompute(pool.next)
  <2>1. /\ worker' = [worker EXCEPT ![w] = [Free EXCEPT !.phase = "computing", !.item = pool.next,
                                              !.version = tab.document.version[pool.next]]]
        /\ fate' = [fate EXCEPT ![pool.next] = "active"]
        /\ pool' = [pool EXCEPT !.next = @ + 1]
    BY <1>2 DEF Take, Stopped
  <2>2. /\ worker'[w].phase = "computing" /\ worker'[w].item = pool.next
        /\ worker'[w].version = tab.document.version[pool.next]
        /\ \A v \in Workers \ {w} : worker'[v] = worker[v]
    BY <2>1 DEF TypeOK, Free
  <2>3. tab.document.version = study.version
    <3>1. CASE \E v \in Workers : worker[v].phase = "answered"
      <4>1. PICK v \in Workers :
              study = [tab.document EXCEPT !.revision = @ + 1, !.attempts = @ \cup {Result(worker[v])}]
        BY <3>1 DEF Calm, Smooth
      <4> DEFINE a == Result(worker[v])
      <4> HIDE DEF a
      <4>2. study = [tab.document EXCEPT !.revision = @ + 1, !.attempts = @ \cup {a}]
        BY <4>1 DEF a
      <4> QED
        BY <4>2 DEF TypeOK, Documents
    <3>2. CASE ~\E v \in Workers : worker[v].phase = "answered"
      BY <3>2 DEF Calm
    <3> QED
      BY <3>1, <3>2
  <2>4. pool'.failed = pool.failed /\ pool'.commitFailed = pool.commitFailed
    BY <2>1 DEF TypeOK
  <2>5. \A i \in Items : fate'[i] # "failed"
    BY <2>1 DEF TypeOK, Calm
  <2> QED
    BY <1>1, <2>2, <2>3, <2>4, <2>5
<1>3. CASE ~Stopped /\ ~ShouldCompute(pool.next)
  <2>1. /\ worker' = worker /\ fate' = [fate EXCEPT ![pool.next] = "skipped"]
        /\ pool' = [pool EXCEPT !.next = @ + 1]
    BY <1>3 DEF Take, Stopped
  <2>2. pool'.failed = pool.failed /\ pool'.commitFailed = pool.commitFailed
    BY <2>1 DEF TypeOK
  <2>3. \A i \in Items : fate'[i] # "failed"
    BY <2>1 DEF TypeOK, Calm
  <2> QED
    BY <1>0, <1>1, <2>1, <2>2, <2>3
<1>4. CASE Stopped
  <2>1. worker' = [worker EXCEPT ![w].phase = "done"] /\ UNCHANGED <<pool, fate>>
    BY <1>4 DEF Take
  <2>2. worker'[w].phase = "done" /\ \A v \in Workers \ {w} : worker'[v] = worker[v]
    BY <1>0, <2>1 DEF TypeOK, WorkerRecord
  <2> QED
    BY <1>1, <2>1, <2>2 DEF Calm
<1> QED
  BY <1>2, <1>3, <1>4

LEMMA ComputeEndsCalm ==
  ASSUME TypeOK, Calm, Quiet, faults' = 0, NEW w \in Workers, ComputeEnds(w)
  PROVE  Calm'
<1>1. ~pool.aborted /\ faults = 0
  BY DEF Quiet
<1>2. /\ worker[w].phase = "computing" /\ UNCHANGED <<study, tab, fate>>
      /\ \E status \in {"SUCCEEDED"} :
            /\ pool' = [pool EXCEPT !.failed = @ \/ status = "FAILED"]
            /\ worker' = [worker EXCEPT ![w].phase = "queued", ![w].status = status]
  BY <1>1 DEF ComputeEnds
<1>3. /\ worker' = [worker EXCEPT ![w] = [worker[w] EXCEPT !.phase = "queued", !.status = "SUCCEEDED"]]
      /\ worker[w] \in WorkerRecord
  BY <1>2 DEF TypeOK, WorkerRecord
<1>4. /\ worker'[w].phase = "queued" /\ worker'[w].status = "SUCCEEDED"
      /\ worker'[w].item = worker[w].item /\ worker'[w].version = worker[w].version
      /\ \A v \in Workers \ {w} : worker'[v] = worker[v]
  BY <1>3 DEF TypeOK, WorkerRecord
<1>5. ~pool'.failed /\ ~pool'.commitFailed
  BY <1>2 DEF TypeOK, Calm
<1>6. Smooth(worker'[w], study', tab'.document)
  <2>1. worker[w].version = study.version[worker[w].item]
    BY <1>2 DEF Calm, Smooth, Busy
  <2> QED
    BY <1>2, <1>4, <2>1 DEF Smooth
<1>7. \A v \in Workers : /\ worker'[v].phase # "answered" <=> worker[v].phase # "answered"
                         /\ worker'[v].phase \in Committing <=> worker[v].phase \in Committing
  BY <1>2, <1>4 DEF Committing
<1> QED
  BY <1>2, <1>4, <1>5, <1>6, <1>7, CalmAgain DEF Calm

LEMMA CommitStartsCalm ==
  ASSUME TypeOK, QueueExact, Calm, Quiet, NEW w \in Workers, CommitStarts(w)
  PROVE  Calm'
<1>1. worker[w].phase = "queued" /\ Head(tail) = w /\ ~pool.aborted /\ ~pool.commitFailed
  BY DEF CommitStarts, Turn, Quiet, Calm
<1>2. tab.status = "SAVED"
  BY <1>1, OnlyCommitter DEF Calm, Committing
<1>3. /\ tab' = [tab EXCEPT !.status = "SAVING", !.disturbed = FALSE] /\ Calls(w, 1)
      /\ study' = study
  BY <1>1, <1>2 DEF CommitStarts
<1>4. /\ worker' = [worker EXCEPT ![w] = [worker[w] EXCEPT !.phase = "appending", !.tries = 1,
                                                          !.read = Nothing, !.answer = "none"]]
      /\ worker[w] \in WorkerRecord
  BY <1>3 DEF Calls, TypeOK, WorkerRecord
<1>5. /\ worker'[w].phase = "appending" /\ worker'[w].status = worker[w].status
      /\ worker'[w].item = worker[w].item /\ worker'[w].version = worker[w].version
      /\ \A v \in Workers \ {w} : worker'[v] = worker[v]
  BY <1>4 DEF TypeOK, WorkerRecord
<1>6. Smooth(worker'[w], study', tab'.document)
  <2>1. worker[w].version = study.version[worker[w].item] /\ worker[w].status = "SUCCEEDED"
    BY <1>1 DEF Calm, Smooth, Busy, Queuing
  <2> QED
    BY <1>3, <1>5, <2>1 DEF Smooth
<1>7. tab'.document = tab.document /\ tab'.required = tab.required /\ ~tab'.disturbed
  BY <1>3 DEF TypeOK
<1>8. (\A v \in Workers : worker'[v].phase # "answered") => tab'.document = study'
  BY <1>1, <1>3, <1>5, <1>7 DEF Calm
<1>9. worker'[w].phase \in Committing /\ UNCHANGED <<pool, fate>>
  BY <1>3, <1>5 DEF Committing, Calls
<1> QED
  BY <1>3, <1>5, <1>6, <1>7, <1>8, <1>9, CalmAgain DEF Calm

LEMMA AppendCommitsCalm ==
  ASSUME TypeOK, QueueExact, StoredKnown, Calm, NEW w \in Workers, AppendCommits(w)
  PROVE  Calm'
<1>1. /\ worker[w].phase = "appending" /\ worker[w].phase \in Committing
      /\ worker[w].phase \in Queuing /\ worker[w].phase \in Busy
      /\ UNCHANGED <<tab, pool, fate>>
  BY DEF AppendCommits, Committing, Queuing, Busy
<1>2. Head(tail) = w
  BY <1>1, AtHead
<1>3. tab.document = study
  BY <1>1, <1>2, OnlyCommitter DEF Calm
<1>4. study.version[worker[w].item] = worker[w].version /\ ~Own(study, worker[w].item)
      /\ worker[w].status = "SUCCEEDED"
  BY <1>1 DEF Calm, Smooth, StoredKnown, Knows
<1>5. /\ worker' = [worker EXCEPT ![w].phase = "answered", ![w].answer = "stored"]
      /\ study' = [study EXCEPT !.revision = @ + 1, !.attempts = @ \cup {Result(worker[w])}]
  BY <1>3, <1>4 DEF AppendCommits, Result
<1>6. /\ worker' = [worker EXCEPT ![w] = [worker[w] EXCEPT !.phase = "answered", !.answer = "stored"]]
      /\ worker[w] \in WorkerRecord
  BY <1>5 DEF TypeOK, WorkerRecord
<1>7. /\ worker'[w].phase = "answered" /\ worker'[w].status = worker[w].status
      /\ worker'[w].item = worker[w].item /\ worker'[w].version = worker[w].version
      /\ worker'[w].answer = "stored"
      /\ \A v \in Workers \ {w} : worker'[v] = worker[v]
  BY <1>6 DEF TypeOK, WorkerRecord
<1>8. study'.version = study.version
  <2> DEFINE a == Result(worker[w])
  <2> HIDE DEF a
  <2>1. study' = [study EXCEPT !.revision = @ + 1, !.attempts = @ \cup {a}]
    BY <1>5 DEF a
  <2> QED
    BY <2>1 DEF TypeOK, Documents
<1>9. Smooth(worker'[w], study', tab'.document)
  <2>1. Result(worker'[w]) = Result(worker[w])
    BY <1>7, SameResult
  <2>2. study' = [tab'.document EXCEPT !.revision = @ + 1, !.attempts = @ \cup {Result(worker'[w])}]
    BY <1>1, <1>3, <1>5, <2>1
  <2> QED
    BY <1>4, <1>7, <1>8, <2>2 DEF Smooth
<1>10. \A v \in Workers \ {w} : worker[v].phase # "answered"
  BY <1>2, OnlyCommitter
<1>11. worker'[w].phase \in Committing
  BY <1>7 DEF Committing
<1> QED
  BY <1>1, <1>7, <1>8, <1>9, <1>10, <1>11, CalmAgain DEF Calm

LEMMA AppendAnswersCalm ==
  ASSUME TypeOK, QueueExact, Calm, NEW w \in Workers, AppendAnswers(w)
  PROVE  Calm'
<1> DEFINE saved == [tab.document EXCEPT !.revision = @ + 1, !.attempts = @ \cup {Result(worker[w])}]
<1>1. /\ worker[w].phase = "answered" /\ worker[w].phase \in Committing
      /\ worker[w].phase \in Queuing /\ study' = study
  BY DEF AppendAnswers, Committing, Queuing
<1>2. Head(tail) = w
  BY <1>1, AtHead
<1>3. worker[w].answer = "stored" /\ study = saved /\ worker[w].status = "SUCCEEDED"
      /\ ~tab.disturbed
  BY <1>1 DEF Calm, Smooth
<1> HIDE DEF saved
<1>4. Shows(saved, "SAVED") /\ Committed(w)
  BY <1>3 DEF AppendAnswers, Result, saved
<1>5. /\ worker'[w] = Free /\ \A v \in Workers \ {w} : worker'[v] = worker[v]
      /\ fate' = [fate EXCEPT ![worker[w].item] = "completed"] /\ pool' = pool
  BY <1>3, <1>4 DEF Committed, Settle, TypeOK
<1>6. /\ tab'.document = study /\ tab'.status = "SAVED" /\ tab'.required = 0 /\ ~tab'.disturbed
  <2>1. saved.revision \in Nat /\ tab.required = 0
    BY <1>3 DEF TypeOK, Documents, Calm
  <2>2. tab' = [tab EXCEPT !.document = saved, !.status = "SAVED",
                           !.required = IF saved.revision >= tab.required THEN 0 ELSE tab.required]
    BY <1>4 DEF Shows
  <2> QED
    BY <1>3, <2>1, <2>2 DEF TypeOK
<1>7. Smooth(worker'[w], study', tab'.document)
  BY <1>5, FreeFits DEF Smooth, Queuing, Committing
<1>8. \A i \in Items : fate'[i] # "failed"
  BY <1>5 DEF TypeOK, Calm
<1>9. \A v \in Workers \ {w} : worker[v].phase # "answered"
  BY <1>2, OnlyCommitter
<1> QED
  BY <1>1, <1>5, <1>6, <1>7, <1>8, <1>9, CalmAgain DEF Calm

LEMMA AloneKeeps ==
  ASSUME TypeOK, QueueExact, StoredKnown, Alone, [Next]_vars
  PROVE  Alone'
<1> SUFFICES ASSUME Quiet' PROVE Calm'
  BY DEF Alone
<1>1. Quiet /\ Calm
  BY QuietBefore DEF Alone
<1>2. faults' = 0
  BY DEF Quiet
<1>3. ASSUME NEW w \in Workers, Works(w)
      PROVE  Calm'
  <2>1. ~Reloaded(w)
    BY <1>1 DEF Reloaded, Calm, Smooth
  <2> QED
    BY <1>1, <1>2, <1>3, <2>1, TakeCalm, ComputeEndsCalm, CommitStartsCalm, AppendCommitsCalm,
       AppendAnswersCalm DEF Works
<1>4. ASSUME CancelBatch \/ UNCHANGED vars
      PROVE  Calm'
  <2>1. /\ UNCHANGED <<study, tab, worker, fate>>
        /\ pool'.failed = pool.failed /\ pool'.commitFailed = pool.commitFailed
    BY <1>4 DEF CancelBatch, vars, TypeOK
  <2> QED
    BY <1>1, <2>1 DEF Calm
<1> QED
  BY <1>3, <1>4, QuietBefore DEF Next

-----------------------------------------------------------------------------
(* The theorems *)

LEMMA InitHolds == Init => IInv
<1> SUFFICES ASSUME Init PROVE IInv
  OBVIOUS
<1>0. \A w \in Workers : worker[w] = Free
  BY DEF Init
<1>1. study \in Documents /\ study.attempts = {} /\ tab.document = study
  BY DEF Init, Documents
<1>2. TypeOK
  <2>1. \A w \in Workers : worker[w] \in WorkerRecord /\ Fits(worker[w])
    BY <1>0, FreeFits
  <2>2. worker \in [Workers -> WorkerRecord]
    BY <2>1 DEF Init
  <2>3. news \in [Foreign -> News] /\ \A k \in Foreign : news[k].phase # "reading"
    BY DEF Init, News
  <2>4. tab \in [document : Documents, status : {"SAVED", "SAVING", "CONFLICT", "STORAGE_FAILURE"},
                 disturbed : BOOLEAN, required : Nat]
    BY <1>1 DEF Init
  <2>5. tail \in Seq(Workers) /\ faults \in Nat
        /\ fate \in [Items -> {"open", "active", "skipped", "completed", "failed"}]
    BY DEF Init
  <2>6. pool \in [next : Nat, failed : BOOLEAN, commitFailed : BOOLEAN, cancelled : BOOLEAN,
                  aborted : BOOLEAN]
    BY DEF Init
  <2> QED
    BY <1>1, <2>1, <2>2, <2>3, <2>4, <2>5, <2>6 DEF TypeOK
<1>3. \A w \in Workers : worker[w].phase \notin Busy /\ worker[w].phase \notin Queuing
                         /\ worker[w].phase \notin Committing /\ worker[w].phase = "ready"
  BY <1>0, FreeFits DEF Busy, Queuing
<1>4. QueueExact /\ ItemsApart /\ StoredOnce /\ NoneCommits
  BY <1>1, <1>3 DEF QueueExact, ItemsApart, StoredOnce, NoneCommits
<1>5. StoredKnown
  BY <1>1, <1>3 DEF StoredKnown, Knows
<1>6. \A i \in Items : fate[i] = "open"
  BY DEF Init
<1>7. CompletedIsStored
  BY <1>6 DEF CompletedIsStored
<1>8. Alone
  <2>1. \A w \in Workers : Smooth(worker[w], study, tab.document)
    BY <1>3 DEF Smooth
  <2>2. /\ ~pool.failed /\ ~pool.commitFailed /\ tab.required = 0 /\ ~tab.disturbed
        /\ tab.status = "SAVED"
    BY DEF Init
  <2> QED
    BY <1>1, <1>6, <2>1, <2>2 DEF Alone, Calm
<1> QED
  BY <1>2, <1>4, <1>5, <1>7, <1>8 DEF IInv

LEMMA StepHolds == IInv /\ [Next]_vars => IInv'
<1> SUFFICES ASSUME IInv, [Next]_vars PROVE IInv'
  OBVIOUS
<1>1. Stays \/ \E w \in Workers : Moves(w)
  BY NextMoves DEF IInv
<1>2. TypeOK'
  BY TypesKeep DEF IInv
<1>3. QueueExact'
  BY <1>1, QueueKeeps DEF IInv
<1>4. ItemsApart'
  BY <1>1, ItemsKeep DEF IInv
<1>5. StoredKnown'
  BY <1>1, KnownKeeps DEF IInv
<1>6. StoredOnce'
  BY <1>1, OnceKeeps DEF IInv
<1>7. NoneCommits'
  BY <1>1, NoneKeep DEF IInv
<1>8. CompletedIsStored'
  BY <1>1, AttemptsGrow, CompletedKeeps DEF IInv
<1>9. Alone'
  BY AloneKeeps DEF IInv
<1> QED
  BY <1>2, <1>3, <1>4, <1>5, <1>6, <1>7, <1>8, <1>9 DEF IInv

\* The inductive invariant holds of every batch.
THEOREM BatchInvariant == Spec => []IInv
BY InitHolds, StepHolds, PTL DEF Spec

\* Every variable keeps its type, and a record holds what its phase calls for.
THEOREM BatchTypes == Spec => []TypeOK
<1>1. IInv => TypeOK
  BY DEF IInv
<1> QED
  BY <1>1, BatchInvariant, PTL

\* A combination counts as concluded only if its own result is stored.
THEOREM CompletedIsAlwaysStored == Spec => []CompletedIsStored
<1>1. IInv => CompletedIsStored
  BY DEF IInv
<1> QED
  BY <1>1, BatchInvariant, PTL

\* However often a commit is repeated, and whatever it is answered, the result of a
\* combination is in the study at most once.
THEOREM ResultsAreStoredOnce == Spec => []StoredOnce
<1>1. IInv => StoredOnce
  BY DEF IInv
<1> QED
  BY <1>1, BatchInvariant, PTL

\* Left alone, a batch gives up no combination.
THEOREM NothingFailsWithoutCause == Spec => []FailsForACause
<1>1. IInv => FailsForACause
  BY DEF IInv, Alone, Calm, Quiet, FailsForACause
<1> QED
  BY <1>1, BatchInvariant, PTL

\* After a commit failed nothing of the batch is stored any more.
THEOREM NothingAfterAFailedCommit == Spec => StopsAtCommitFailure
<1>1. IInv /\ [Next]_vars =>
        [pool.commitFailed =>
            {a \in study'.attempts : a.own} = {a \in study.attempts : a.own}]_vars
  <2> SUFFICES ASSUME IInv, [Next]_vars, pool.commitFailed
               PROVE  {a \in study'.attempts : a.own} = {a \in study.attempts : a.own}
    OBVIOUS
  <2>1. Stays \/ \E w \in Workers : Moves(w)
    BY NextMoves DEF IInv
  <2>2. CASE Stays
    BY <2>2 DEF Stays
  <2>3. ASSUME NEW w \in Workers, Moves(w)
        PROVE  study' = study
    <3>1. ~Stores(w, "stored")
      BY DEF Stores, IInv, NoneCommits, Committing
    <3> QED
      BY <2>3, <3>1, StudyOf DEF IInv
  <2> QED
    BY <2>1, <2>2, <2>3
<1> QED
  BY <1>1, BatchInvariant, PTL DEF Spec, StopsAtCommitFailure
=============================================================================
