---------------------- MODULE DiagnosticExecutorProofs ----------------------
(***************************************************************************)
(* What holds of the executor for any number of jobs, owners, workers and  *)
(* pools, and any limits.                                                  *)
(***************************************************************************)
EXTENDS DiagnosticExecutor, FiniteSetTheorems, TLAPS

-----------------------------------------------------------------------------
(* Records of jobs *)

\* A new record is a job record of a queued job.
LEMMA NewJobIs ==
    ASSUME TypeOK, NEW p \in Payloads, NEW o \in Jobs \cup {None}
    PROVE  /\ NewJob(p, o) \in JobRecord
           /\ NewJob(p, o).status = "QUEUED" /\ ~NewJob(p, o).current
           /\ NewJob(p, o).request = p /\ NewJob(p, o).retryOf = o
BY DEF TypeOK, NewJob, NoJob, JobRecord, Active, Terminal, Time, NoTime

\* Time never takes a job before its last update.
LEMMA NowForIs ==
    ASSUME TypeOK, NEW r \in JobRecord
    PROVE  NowFor(r) \in Time /\ clock <= NowFor(r) /\ r.updatedAt <= NowFor(r)
BY ExecutorAssumption DEF TypeOK, NowFor, JobRecord, Time, NoTime, ExecutorAssumption

\* How a cancelled job looks.
LEMMA FinishCancelledIs ==
    ASSUME TypeOK, NEW r \in JobRecord
    PROVE  /\ FinishCancelled(r) \in JobRecord
           /\ FinishCancelled(r).status = "CANCELLED" /\ ~FinishCancelled(r).current
           /\ FinishCancelled(r).request = r.request
           /\ FinishCancelled(r).retryOf = r.retryOf
<1> DEFINE s == [r EXCEPT !.status = "CANCELLED", !.error = "none"]
<1>1. s \in JobRecord
  BY DEF JobRecord, Terminal
<1>2. NowFor(s) \in Time
  BY <1>1, NowForIs
<1> QED
  BY <1>1, <1>2 DEF FinishCancelled, FinishTerminal, JobRecord

\* How a failed job looks.
LEMMA FailIs ==
    ASSUME TypeOK, NEW r \in JobRecord,
           NEW code \in {"EXECUTOR_INDISPONIVEL", "DIAGNOSTICO_INVALIDO"}
    PROVE  /\ Fail(r, code) \in JobRecord
           /\ Fail(r, code).status = "FAILED" /\ ~Fail(r, code).current
           /\ Fail(r, code).request = r.request /\ Fail(r, code).retryOf = r.retryOf
<1> DEFINE s == [r EXCEPT !.status = "FAILED", !.error = code]
<1>1. s \in JobRecord
  BY DEF JobRecord, Terminal
<1>2. NowFor(s) \in Time
  BY <1>1, NowForIs
<1> QED
  BY <1>1, <1>2 DEF Fail, FinishTerminal, JobRecord

\* How a job looks once its cancellation is requested.
LEMMA RequestCancelIs ==
    ASSUME TypeOK, NEW r \in JobRecord
    PROVE  /\ RequestCancel(r) \in JobRecord
           /\ RequestCancel(r).status = "CANCEL_REQUESTED"
           /\ RequestCancel(r).current <=> r.current
           /\ RequestCancel(r).request = r.request /\ RequestCancel(r).retryOf = r.retryOf
<1> DEFINE s == [r EXCEPT !.status = "CANCEL_REQUESTED"]
<1>1. s \in JobRecord
  BY DEF JobRecord, Active
<1>2. NowFor(s) \in Time
  BY <1>1, NowForIs
<1> QED
  BY <1>1, <1>2 DEF RequestCancel, Touch, JobRecord

\* How a job looks when its repetition starts.
LEMMA StartedIs ==
    ASSUME TypeOK, NEW r \in JobRecord
    PROVE  /\ Started(r) \in JobRecord
           /\ Started(r).status = "RUNNING" /\ Started(r).current
           /\ Started(r).request = r.request /\ Started(r).retryOf = r.retryOf
BY NowForIs DEF Started, JobRecord, Active

\* How a job looks when the repetition of a running job is over.
LEMMA SettledIs ==
    ASSUME TypeOK, NEW r \in JobRecord, NEW result \in Outcomes,
           r.status \in {"RUNNING", "CANCEL_REQUESTED"}
    PROVE  LET s == Settled(r, result)
           IN  /\ s \in JobRecord
               /\ s.status \in {"CANCELLED", "FAILED", "AGGREGATING", "RUNNING"}
               /\ r.status = "CANCEL_REQUESTED" => s.status = "CANCELLED"
               /\ ~s.current
               /\ s.request = r.request /\ s.retryOf = r.retryOf
<1> DEFINE t == [r EXCEPT !.current = FALSE]
           s == Touch(t)
           f == [s EXCEPT !.failed = @ + 1]
<1>1. t \in JobRecord
  BY DEF JobRecord
<1>2. /\ s \in JobRecord /\ s.status = r.status /\ ~s.current
      /\ s.request = r.request /\ s.retryOf = r.retryOf
  BY <1>1, NowForIs DEF Touch, JobRecord
<1>3. f \in JobRecord /\ f.request = r.request /\ f.retryOf = r.retryOf
  <2> HIDE DEF s
  <2> QED
    BY <1>2 DEF JobRecord
<1> DEFINE n == IF r.completed + 1 = Repetitions[r.request] THEN "AGGREGATING" ELSE "RUNNING"
           g == [s EXCEPT !.completed = @ + 1, !.status = n]
<1>4. n \in {"AGGREGATING", "RUNNING"}
  OBVIOUS
<1>5. /\ g \in JobRecord /\ g.status = n /\ ~g.current
      /\ g.request = r.request /\ g.retryOf = r.retryOf
  <2> HIDE DEF n, s
  <2>1. s.completed + 1 \in Nat
    BY <1>2 DEF JobRecord
  <2>2. DOMAIN s = DOMAIN g /\ g.status = n
    BY <1>2 DEF JobRecord
  <2>3. n \in Active
    BY <1>4 DEF Active
  <2>4. g \in JobRecord
    BY <1>2, <2>1, <2>3 DEF JobRecord
  <2> QED
    BY <1>2, <2>2, <2>4 DEF JobRecord
<1>6. CASE r.status = "CANCEL_REQUESTED"
  <2>1. Settled(r, result) = FinishCancelled(s)
    BY <1>2, <1>6 DEF Settled
  <2> HIDE DEF s
  <2> QED
    BY <2>1, <1>2, FinishCancelledIs
<1>7. CASE r.status # "CANCEL_REQUESTED" /\ result # "ok"
  <2> DEFINE c == IF result = "broken" THEN "EXECUTOR_INDISPONIVEL" ELSE "DIAGNOSTICO_INVALIDO"
  <2>1. Settled(r, result) = Fail(f, c)
    BY <1>2, <1>7 DEF Settled
  <2>2. c \in {"EXECUTOR_INDISPONIVEL", "DIAGNOSTICO_INVALIDO"}
    OBVIOUS
  <2> HIDE DEF f, c
  <2> QED
    BY <2>1, <2>2, <1>3, <1>7, FailIs
<1>8. CASE r.status # "CANCEL_REQUESTED" /\ result = "ok"
  <2>1. Settled(r, result) = g
    BY <1>2, <1>8 DEF Settled
  <2> HIDE DEF g, n
  <2> QED
    BY <2>1, <1>4, <1>5, <1>8
<1> QED
  BY <1>6, <1>7, <1>8

\* How a job looks when its aggregation is over.
LEMMA AggregatedIs ==
    ASSUME TypeOK, NEW r \in JobRecord, NEW valid \in BOOLEAN
    PROVE  LET s == Aggregated(r, valid)
           IN  /\ s \in JobRecord
               /\ s.status \in Terminal
               /\ r.status = "CANCEL_REQUESTED" => s.status = "CANCELLED"
               /\ ~s.current
               /\ s.request = r.request /\ s.retryOf = r.retryOf
<1> DEFINE s == [r EXCEPT !.status = "SUCCEEDED"]
<1>1. s \in JobRecord
  BY DEF JobRecord, Terminal
<1>2. NowFor(s) \in Time
  BY <1>1, NowForIs
<1>3. /\ FinishTerminal(s) \in JobRecord
      /\ FinishTerminal(s).status = "SUCCEEDED" /\ ~FinishTerminal(s).current
      /\ FinishTerminal(s).request = r.request /\ FinishTerminal(s).retryOf = r.retryOf
  BY <1>1, <1>2 DEF FinishTerminal, JobRecord
<1> QED
  BY <1>3, FinishCancelledIs, FailIs DEF Aggregated, Terminal

-----------------------------------------------------------------------------
(* The queue *)

Distinct(q)   == \A i, k \in DOMAIN q : q[i] = q[k] => i = k
InQueue(q, j) == \E i \in DOMAIN q : q[i] = j

\* Appending a job that is not in the queue keeps its entries distinct.
LEMMA AppendIs ==
    ASSUME NEW q \in Seq(Jobs), Distinct(q), NEW j \in Jobs, ~InQueue(q, j)
    PROVE  /\ Append(q, j) \in Seq(Jobs)
           /\ Distinct(Append(q, j))
           /\ \A i \in Jobs : InQueue(Append(q, j), i) <=> InQueue(q, i) \/ i = j
<1>1. /\ Append(q, j) \in Seq(Jobs)
      /\ DOMAIN q = 1..Len(q) /\ DOMAIN Append(q, j) = 1..(Len(q) + 1)
      /\ \A i \in 1..Len(q) : Append(q, j)[i] = q[i]
      /\ Append(q, j)[Len(q) + 1] = j
      /\ Len(q) \in Nat
  OBVIOUS
<1>2. Distinct(Append(q, j))
  BY <1>1 DEF Distinct, InQueue
<1>3. \A i \in Jobs : InQueue(Append(q, j), i) <=> InQueue(q, i) \/ i = j
  BY <1>1 DEF InQueue
<1> QED
  BY <1>1, <1>2, <1>3

\* Taking the head removes that job and no other.
LEMMA TailIs ==
    ASSUME NEW q \in Seq(Jobs), Distinct(q), q # <<>>
    PROVE  /\ Head(q) \in Jobs /\ InQueue(q, Head(q))
           /\ Tail(q) \in Seq(Jobs)
           /\ Distinct(Tail(q))
           /\ \A i \in Jobs : InQueue(Tail(q), i) <=> InQueue(q, i) /\ i # Head(q)
<1>1. /\ Tail(q) \in Seq(Jobs) /\ Len(q) \in Nat \ {0}
      /\ DOMAIN q = 1..Len(q) /\ DOMAIN Tail(q) = 1..(Len(q) - 1)
      /\ \A i \in 1..(Len(q) - 1) : Tail(q)[i] = q[i + 1]
      /\ Head(q) = q[1] /\ q[1] \in Jobs
  OBVIOUS
<1>2. Distinct(Tail(q))
  BY <1>1 DEF Distinct
<1>3. ASSUME NEW i \in Jobs
      PROVE  InQueue(Tail(q), i) <=> InQueue(q, i) /\ i # Head(q)
  <2>1. InQueue(Tail(q), i) => InQueue(q, i) /\ i # Head(q)
    <3> SUFFICES ASSUME NEW k \in 1..(Len(q) - 1), q[k + 1] = i
                 PROVE  InQueue(q, i) /\ i # q[1]
      BY <1>1 DEF InQueue
    <3>1. k + 1 \in 1..Len(q) /\ 1 \in 1..Len(q) /\ k + 1 # 1
      BY <1>1
    <3> QED
      BY <1>1, <3>1 DEF InQueue, Distinct
  <2>2. InQueue(q, i) /\ i # Head(q) => InQueue(Tail(q), i)
    <3> SUFFICES ASSUME NEW k \in 1..Len(q), q[k] = i, i # q[1]
                 PROVE  InQueue(Tail(q), i)
      BY <1>1 DEF InQueue
    <3>1. k - 1 \in 1..(Len(q) - 1) /\ Tail(q)[k - 1] = q[(k - 1) + 1] /\ (k - 1) + 1 = k
      BY <1>1
    <3> QED
      BY <1>1, <3>1 DEF InQueue
  <2> QED
    BY <2>1, <2>2
<1> QED
  BY <1>1, <1>2, <1>3 DEF InQueue

\* A cancellation takes its job out of the queue and no other.
LEMMA UnqueueIs ==
    ASSUME queue \in Seq(Jobs), Distinct(queue), NEW j \in Jobs, QueuedAt(j) # {}
    PROVE  /\ Unqueue(j) \in Seq(Jobs)
           /\ Distinct(Unqueue(j))
           /\ \A i \in Jobs : InQueue(Unqueue(j), i) <=> InQueue(queue, i) /\ i # j
<1> DEFINE n == Len(queue)
           u == Unqueue(j)
<1>1. PICK at \in 1..n : queue[at] = j
  BY DEF QueuedAt
<1>2. DOMAIN queue = 1..n /\ n \in Nat /\ n >= 1
  BY <1>1
<1>3. QueuedAt(j) = {at}
  BY <1>1, <1>2 DEF QueuedAt, Distinct
<1>4. Min(QueuedAt(j)) = at
  BY <1>3, <1>1 DEF Min
<1>5. u = [i \in 1..(n - 1) |-> IF i < at THEN queue[i] ELSE queue[i + 1]]
  BY <1>4 DEF Unqueue
<1>6. \A i \in 1..(n - 1) : queue[i] \in Jobs /\ queue[i + 1] \in Jobs
  BY <1>2
<1>7. u \in Seq(Jobs) /\ DOMAIN u = 1..(n - 1)
  <2>1. u \in [1..(n - 1) -> Jobs] /\ n - 1 \in Nat
    BY <1>5, <1>6, <1>2
  <2> QED
    BY <2>1
<1>8. ASSUME NEW i \in 1..(n - 1)
      PROVE  \/ i < at /\ u[i] = queue[i]
             \/ ~(i < at) /\ u[i] = queue[i + 1]
  BY <1>5
<1> HIDE DEF u
<1>8a. ASSUME NEW i \in 1..(n - 1)
       PROVE  \E a \in 1..n : /\ u[i] = queue[a]
                              /\ (a = i /\ i < at) \/ (a = i + 1 /\ ~(i < at))
  <2>1. i \in 1..n /\ i + 1 \in 1..n
    BY <1>2
  <2>2. CASE i < at
    BY <2>1, <2>2, <1>8
  <2>3. CASE ~(i < at)
    BY <2>1, <2>3, <1>8
  <2> QED
    BY <2>2, <2>3
<1>9. Distinct(u)
  <2> SUFFICES ASSUME NEW i \in 1..(n - 1), NEW k \in 1..(n - 1), u[i] = u[k]
               PROVE  i = k
    BY <1>7 DEF Distinct
  <2>1. PICK a \in 1..n : u[i] = queue[a] /\ ((a = i /\ i < at) \/ (a = i + 1 /\ ~(i < at)))
    BY <1>8a
  <2>2. PICK b \in 1..n : u[k] = queue[b] /\ ((b = k /\ k < at) \/ (b = k + 1 /\ ~(k < at)))
    BY <1>8a
  <2>3. a = b
    BY <2>1, <2>2, <1>2 DEF Distinct
  <2> QED
    BY <2>1, <2>2, <2>3, <1>1
<1>10. ASSUME NEW i \in Jobs, InQueue(u, i)
       PROVE  InQueue(queue, i) /\ i # j
  <2>1. PICK k \in 1..(n - 1) : u[k] = i
    BY <1>7, <1>10 DEF InQueue
  <2>2. PICK m \in 1..n : queue[m] = i /\ m # at
    BY <2>1, <1>8, <1>1, <1>2
  <2> QED
    BY <2>2, <1>1, <1>2 DEF InQueue, Distinct
<1>11. ASSUME NEW i \in Jobs, InQueue(queue, i), i # j
       PROVE  InQueue(u, i)
  <2>1. PICK m \in 1..n : queue[m] = i
    BY <1>2, <1>11 DEF InQueue
  <2>2. m # at
    BY <2>1, <1>1, <1>11
  <2>3. CASE m < at
    <3>1. m \in 1..(n - 1) /\ u[m] = queue[m]
      BY <2>3, <1>8, <1>2, <1>1
    <3> QED
      BY <3>1, <2>1, <1>7 DEF InQueue
  <2>4. CASE m > at
    <3>1. m - 1 \in 1..(n - 1) /\ ~(m - 1 < at) /\ (m - 1) + 1 = m
      BY <2>4, <1>1, <1>2
    <3>2. u[m - 1] = queue[m]
      BY <3>1, <1>8
    <3> QED
      BY <3>1, <3>2, <2>1, <1>7 DEF InQueue
  <2> QED
    BY <2>2, <2>3, <2>4, <1>1, <1>2
<1> QED
  BY <1>7, <1>9, <1>10, <1>11 DEF u

-----------------------------------------------------------------------------
(* The inductive invariant *)

\* The record of a job agrees with the stage of its repetition ...
StageAgrees(r, s) ==
    /\ r.current <=> s \in Dispatched
    /\ s \in Dispatched => r.status \in {"RUNNING", "CANCEL_REQUESTED"}
    /\ s = "aggregating" => r.status \in {"AGGREGATING", "CANCEL_REQUESTED"}
    /\ s = "idle" => r.status \notin {"AGGREGATING", "CANCEL_REQUESTED"}

\* ... and with the command bound to its key.
BindingAgrees(r, b) ==
    IF r.status = "ABSENT" THEN b = None
    ELSE b # None /\ b.payload = r.request /\ b.retryOf = r.retryOf

JobsAgree(js, bs, q, st) ==
    \A j \in Jobs : /\ IsWaiting(js[j]) <=> InQueue(q, j)
                    /\ StageAgrees(js[j], st[j])
                    /\ BindingAgrees(js[j], bs[j])

JobsTyped(js, bs) == js \in [Jobs -> JobRecord] /\ bs \in [Jobs -> Bindings \cup {None}]

\* One recovery at a time, by a callback of the pool that is being replaced.
RecoveryExact ==
    /\ \A i, j \in Jobs : stage[i] = "replacing" /\ stage[j] = "replacing" => i = j
    /\ \A j \in Jobs : stage[j] = "replacing" => recovering /\ poolOf[j] = pool

\* A closed executor has only finished jobs and jobs that are being cancelled.
ClosedExact ==
    closed => \A j \in Jobs : jobs[j].status \notin {"QUEUED", "RUNNING", "AGGREGATING"}

Inv ==
    /\ TypeOK
    /\ Distinct(queue)
    /\ JobsAgree(jobs, binding, queue, stage)
    /\ RunningExact
    /\ RecoveryExact
    /\ NoLostWakeup
    /\ NoMissedExpiry
    /\ ClosedExact
    /\ Capacity

\* Housekeeping removes finished jobs with their bindings and disturbs no other.
LEMMA Housekeeping ==
    ASSUME TypeOK, JobsAgree(jobs, binding, queue, stage), NEW gone \in Evictions
    PROVE  LET js == JobsWithout(gone)
               bs == BindingsWithout(gone)
           IN  /\ JobsTyped(js, bs)
               /\ JobsAgree(js, bs, queue, stage)
               /\ \A j \in Jobs : \/ js[j] = jobs[j]
                                  \/ jobs[j].status \in Terminal /\ js[j] = NoJob
<1> DEFINE js == JobsWithout(gone)
           bs == BindingsWithout(gone)
<1>1. \A j \in gone : j \in Jobs /\ jobs[j].status \in Terminal
  BY DEF Evictions, TerminalJobs
<1>2. NoJob \in JobRecord /\ NoJob.status = "ABSENT" /\ NoJob.current = FALSE
  BY DEF NoJob, JobRecord, NoTime
<1>3. JobsTyped(js, bs)
  BY <1>2 DEF TypeOK, JobsTyped, JobsWithout, BindingsWithout
<1>4. \A j \in Jobs : \/ j \notin gone /\ js[j] = jobs[j] /\ bs[j] = binding[j]
                      \/ jobs[j].status \in Terminal /\ js[j] = NoJob /\ bs[j] = None
  BY <1>1 DEF JobsWithout, BindingsWithout
<1>5. ASSUME NEW j \in Jobs, jobs[j].status \in Terminal, js[j] = NoJob, bs[j] = None
      PROVE  /\ IsWaiting(js[j]) <=> InQueue(queue, j)
             /\ StageAgrees(js[j], stage[j])
             /\ BindingAgrees(js[j], bs[j])
  <2>1. ~IsWaiting(jobs[j]) /\ ~IsWaiting(js[j])
    BY <1>2, <1>5 DEF IsWaiting, Terminal
  <2>2. ~InQueue(queue, j)
    BY <2>1 DEF JobsAgree
  <2>3. StageAgrees(jobs[j], stage[j]) /\ stage[j] \in Stages
    BY DEF JobsAgree, TypeOK
  <2>4. stage[j] = "idle"
    BY <2>3, <1>5 DEF StageAgrees, Terminal, Stages
  <2>5. StageAgrees(js[j], stage[j])
    BY <2>4, <1>2, <1>5 DEF StageAgrees, Dispatched
  <2>6. BindingAgrees(js[j], bs[j])
    BY <1>2, <1>5 DEF BindingAgrees
  <2> QED
    BY <2>1, <2>2, <2>5, <2>6
<1>6. JobsAgree(js, bs, queue, stage)
  <2> HIDE DEF js, bs
  <2> QED
    BY <1>4, <1>5 DEF JobsAgree
<1> QED
  BY <1>3, <1>4, <1>6

\* A step that touches one job keeps the others in agreement.
LEMMA OneJobChanges ==
    ASSUME NEW js, NEW bs, NEW q, NEW st, NEW j \in Jobs,
           NEW r \in JobRecord, NEW b \in Bindings \cup {None}, NEW s \in Stages, NEW q2,
           JobsTyped(js, bs), st \in [Jobs -> Stages],
           JobsAgree(js, bs, q, st),
           StageAgrees(r, s), BindingAgrees(r, b),
           IsWaiting(r) <=> InQueue(q2, j),
           \A i \in Jobs : i # j => (InQueue(q2, i) <=> InQueue(q, i))
    PROVE  /\ JobsTyped([js EXCEPT ![j] = r], [bs EXCEPT ![j] = b])
           /\ [st EXCEPT ![j] = s] \in [Jobs -> Stages]
           /\ JobsAgree([js EXCEPT ![j] = r], [bs EXCEPT ![j] = b], q2, [st EXCEPT ![j] = s])
<1>1. JobsTyped([js EXCEPT ![j] = r], [bs EXCEPT ![j] = b])
  BY DEF JobsTyped
<1>2. [st EXCEPT ![j] = s] \in [Jobs -> Stages]
  OBVIOUS
<1>3. ASSUME NEW i \in Jobs
      PROVE  /\ [js EXCEPT ![j] = r][i] = (IF i = j THEN r ELSE js[i])
             /\ [bs EXCEPT ![j] = b][i] = (IF i = j THEN b ELSE bs[i])
             /\ [st EXCEPT ![j] = s][i] = (IF i = j THEN s ELSE st[i])
  BY DEF JobsTyped
<1>4. JobsAgree([js EXCEPT ![j] = r], [bs EXCEPT ![j] = b], q2, [st EXCEPT ![j] = s])
  BY <1>3 DEF JobsAgree
<1> QED
  BY <1>1, <1>2, <1>4

-----------------------------------------------------------------------------
(* Types, and the agreement of queue, jobs, bindings and stages, action by   *)
(* action                                                                    *)

Agreed == TypeOK /\ Distinct(queue) /\ JobsAgree(jobs, binding, queue, stage)

OtherTypes ==
    /\ running \in Nat
    /\ recovering \in BOOLEAN /\ unavailable \in BOOLEAN /\ closed \in BOOLEAN
    /\ pool \in 1..MaxPools
    /\ clock \in Time
    /\ outcome \in [Jobs -> Outcomes]
    /\ poolOf \in [Jobs -> 1..MaxPools]
    /\ dispatcher \in {"awake", "asleep", "away", "stopped"}
    /\ hand \in Jobs \cup {None}
    /\ alarm \in Int

\* The variables of the condition keep their types, notified or not.
LEMMA NotifyTypes ==
    ASSUME OtherTypes, Notify \/ NoNotify
    PROVE  /\ dispatcher' \in {"awake", "asleep", "away", "stopped"}
           /\ hand' \in Jobs \cup {None}
           /\ alarm' \in Int
BY DEF OtherTypes, Notify, NoNotify, NoTime

\* An accepted command binds its key, and its job waits once.
LEMMA AcceptAgrees ==
    ASSUME Agreed, NEW gone \in Evictions, NEW j \in Jobs, NEW command \in Bindings,
           Accept(JobsWithout(gone), BindingsWithout(gone), j, command)
    PROVE  Agreed'
<1> DEFINE js == JobsWithout(gone)
           bs == BindingsWithout(gone)
           r  == NewJob(command.payload, command.retryOf)
<1>1. JobsTyped(js, bs) /\ JobsAgree(js, bs, queue, stage)
  BY Housekeeping DEF Agreed
<1>2. /\ r \in JobRecord /\ r.status = "QUEUED" /\ ~r.current
      /\ r.request = command.payload /\ r.retryOf = command.retryOf
  BY NewJobIs DEF Agreed, Bindings
<1>3. /\ jobs' = [js EXCEPT ![j] = r]
      /\ binding' = [bs EXCEPT ![j] = command]
      /\ queue' = Append(queue, j)
      /\ stage' = stage /\ stage \in [Jobs -> Stages]
      /\ KeyIsFree(js, bs, j, command)
  BY DEF Accept, taskVars, Agreed, TypeOK
<1> HIDE DEF js, bs, r
<1>4. js[j].status = "ABSENT"
  BY <1>1, <1>3 DEF KeyIsFree, JobsAgree, BindingAgrees
<1>5. stage[j] = "idle" /\ ~InQueue(queue, j)
  BY <1>1, <1>3, <1>4 DEF JobsAgree, StageAgrees, IsWaiting, Stages
<1>6. /\ Append(queue, j) \in Seq(Jobs)
      /\ Distinct(Append(queue, j))
      /\ \A i \in Jobs : InQueue(Append(queue, j), i) <=> InQueue(queue, i) \/ i = j
  BY <1>5, AppendIs DEF Agreed, TypeOK
<1>7. StageAgrees(r, "idle") /\ BindingAgrees(r, command) /\ IsWaiting(r)
  BY <1>2, NoneAssumption DEF StageAgrees, BindingAgrees, IsWaiting, Dispatched
<1>8. stage' = [stage EXCEPT ![j] = "idle"] /\ "idle" \in Stages
  BY <1>3, <1>5 DEF Stages
<1>9. JobsTyped(jobs', binding') /\ JobsAgree(jobs', binding', queue', stage')
  <2>1. /\ JobsTyped([js EXCEPT ![j] = r], [bs EXCEPT ![j] = command])
        /\ JobsAgree([js EXCEPT ![j] = r], [bs EXCEPT ![j] = command],
                     Append(queue, j), [stage EXCEPT ![j] = "idle"])
    BY <1>1, <1>2, <1>3, <1>6, <1>7, <1>8, OneJobChanges
  <2> QED
    BY <2>1, <1>3, <1>8
<1>10. OtherTypes'
  <2>1. OtherTypes /\ Notify
    BY DEF Agreed, TypeOK, OtherTypes, Accept
  <2>2. UNCHANGED <<running, closed, clock, recovering, unavailable, pool, outcome, poolOf>>
    BY DEF Accept, poolVars, taskVars
  <2> QED
    BY <2>1, <2>2, NotifyTypes DEF OtherTypes
<1> QED
  BY <1>3, <1>6, <1>9, <1>10 DEF Agreed, TypeOK, OtherTypes, JobsTyped

\* A read changes only what its housekeeping removes.
LEMMA ReadAgrees ==
    ASSUME Agreed, Read
    PROVE  Agreed'
<1>1. PICK gone \in Evictions : /\ jobs' = JobsWithout(gone)
                                /\ binding' = BindingsWithout(gone)
  BY DEF Read
<1>2. JobsTyped(jobs', binding') /\ JobsAgree(jobs', binding', queue, stage)
  BY <1>1, Housekeeping DEF Agreed
<1>3. UNCHANGED <<queue, running, closed, clock, recovering, unavailable, pool, stage,
                  outcome, poolOf, dispatcher, hand, alarm>>
  BY DEF Read, NoNotify, poolVars, taskVars
<1> QED
  BY <1>2, <1>3 DEF Agreed, TypeOK, JobsTyped

\* The types of what a cancellation leaves alone.
LEMMA CancelTypes ==
    ASSUME Agreed, NEW j \in Jobs, Cancel(j)
    PROVE  OtherTypes' /\ stage' = stage
<1>1. OtherTypes /\ Notify
  BY DEF Agreed, TypeOK, OtherTypes, Cancel
<1>2. UNCHANGED <<running, closed, clock, recovering, unavailable, pool, stage, outcome, poolOf>>
  BY DEF Cancel, poolVars, taskVars
<1> QED
  BY <1>1, <1>2, NotifyTypes DEF OtherTypes

\* A cancelled job leaves the queue, or stays with its callback.
LEMMA CancelAgrees ==
    ASSUME Agreed, NEW j \in Jobs, Cancel(j)
    PROVE  Agreed'
<1>1. PICK gone \in Evictions :
        /\ \/ CancelWaiting(JobsWithout(gone), j) \/ CancelStray(JobsWithout(gone), j)
           \/ CancelUnderWay(JobsWithout(gone), j) \/ CancelAgain(JobsWithout(gone), j)
        /\ binding' = BindingsWithout(gone)
  BY DEF Cancel
<1> DEFINE js == JobsWithout(gone)
           bs == BindingsWithout(gone)
<1>2. JobsTyped(js, bs) /\ JobsAgree(js, bs, queue, stage)
  BY Housekeeping DEF Agreed
<1>3. OtherTypes' /\ stage' = stage /\ stage \in [Jobs -> Stages] /\ queue \in Seq(Jobs)
  BY CancelTypes DEF Agreed, TypeOK
<1> HIDE DEF js, bs
<1>4. /\ js[j] \in JobRecord /\ bs[j] \in Bindings \cup {None} /\ stage[j] \in Stages
      /\ StageAgrees(js[j], stage[j]) /\ BindingAgrees(js[j], bs[j])
      /\ IsWaiting(js[j]) <=> InQueue(queue, j)
      /\ binding' = [bs EXCEPT ![j] = bs[j]]
      /\ stage' = [stage EXCEPT ![j] = stage[j]]
  BY <1>1, <1>2, <1>3 DEF JobsTyped, JobsAgree, bs
<1>5. InQueue(queue, j) <=> QueuedAt(j) # {}
  BY DEF InQueue, QueuedAt
<1>6. CASE CancelWaiting(js, j)
  <2> DEFINE r == FinishCancelled(js[j])
  <2>1. /\ r \in JobRecord /\ r.status = "CANCELLED" /\ ~r.current
        /\ r.request = js[j].request /\ r.retryOf = js[j].retryOf
    BY <1>4, FinishCancelledIs DEF Agreed
  <2>2. /\ jobs' = [js EXCEPT ![j] = r] /\ queue' = Unqueue(j)
        /\ IsWaiting(js[j]) /\ QueuedAt(j) # {}
    BY <1>6 DEF CancelWaiting
  <2> HIDE DEF r
  <2>3. /\ Unqueue(j) \in Seq(Jobs) /\ Distinct(Unqueue(j))
        /\ \A i \in Jobs : InQueue(Unqueue(j), i) <=> InQueue(queue, i) /\ i # j
    BY <2>2, <1>3, UnqueueIs DEF Agreed
  <2>4. StageAgrees(r, stage[j]) /\ BindingAgrees(r, bs[j]) /\ ~IsWaiting(r)
    BY <1>4, <2>1, <2>2 DEF StageAgrees, BindingAgrees, IsWaiting, Stages
  <2>5. JobsTyped(jobs', binding') /\ JobsAgree(jobs', binding', queue', stage')
    <3>1. /\ JobsTyped([js EXCEPT ![j] = r], [bs EXCEPT ![j] = bs[j]])
          /\ JobsAgree([js EXCEPT ![j] = r], [bs EXCEPT ![j] = bs[j]],
                       Unqueue(j), [stage EXCEPT ![j] = stage[j]])
      BY <1>2, <1>3, <1>4, <2>1, <2>3, <2>4, OneJobChanges
    <3> QED
      BY <3>1, <1>4, <2>2
  <2> QED
    BY <1>3, <2>2, <2>3, <2>5 DEF Agreed, TypeOK, OtherTypes, JobsTyped
<1>7. CASE CancelStray(js, j)
  BY <1>4, <1>5, <1>7 DEF CancelStray
<1>8. CASE CancelUnderWay(js, j)
  <2> DEFINE r == RequestCancel(js[j])
  <2>1. /\ r \in JobRecord /\ r.status = "CANCEL_REQUESTED" /\ (r.current <=> js[j].current)
        /\ r.request = js[j].request /\ r.retryOf = js[j].retryOf
    BY <1>4, RequestCancelIs DEF Agreed
  <2>2. /\ jobs' = [js EXCEPT ![j] = r] /\ queue' = queue
        /\ js[j].status \in {"RUNNING", "AGGREGATING"} /\ ~IsWaiting(js[j])
    BY <1>8 DEF CancelUnderWay
  <2> HIDE DEF r
  <2>4. StageAgrees(r, stage[j])
    <3>1. CASE js[j].status = "RUNNING" /\ js[j].current
      BY <1>4, <2>1, <3>1 DEF StageAgrees, Dispatched
    <3>2. CASE js[j].status = "AGGREGATING"
      BY <1>4, <2>1, <3>2 DEF StageAgrees, Stages
    <3> QED
      BY <2>2, <3>1, <3>2 DEF IsWaiting
  <2>5. BindingAgrees(r, bs[j]) /\ ~IsWaiting(r)
    BY <1>4, <2>1, <2>2 DEF BindingAgrees, IsWaiting
  <2>6. JobsTyped(jobs', binding') /\ JobsAgree(jobs', binding', queue', stage')
    <3>1. /\ JobsTyped([js EXCEPT ![j] = r], [bs EXCEPT ![j] = bs[j]])
          /\ JobsAgree([js EXCEPT ![j] = r], [bs EXCEPT ![j] = bs[j]],
                       queue, [stage EXCEPT ![j] = stage[j]])
      <4>1. ~InQueue(queue, j)
        BY <1>4, <2>2
      <4> QED
        BY <4>1, <1>2, <1>3, <1>4, <2>1, <2>4, <2>5, OneJobChanges
    <3> QED
      BY <3>1, <1>4, <2>2
  <2> QED
    BY <1>3, <2>2, <2>6 DEF Agreed, TypeOK, OtherTypes, JobsTyped
<1>9. CASE CancelAgain(js, j)
  <2>1. jobs' = js /\ queue' = queue /\ binding' = bs
    BY <1>1, <1>9 DEF CancelAgain, bs
  <2> QED
    BY <2>1, <1>2, <1>3 DEF Agreed, TypeOK, OtherTypes, JobsTyped
<1> QED
  BY <1>1, <1>6, <1>7, <1>8, <1>9 DEF js

\* Closing empties the queue of exactly the jobs that waited.
LEMMA CloseAgrees ==
    ASSUME Agreed, Close
    PROVE  Agreed'
<1>1. /\ jobs' = [j \in Jobs |-> Closed(jobs[j])] /\ binding' = binding
      /\ queue' = <<>> /\ stage' = stage
      /\ jobs \in [Jobs -> JobRecord] /\ stage \in [Jobs -> Stages]
      /\ JobsAgree(jobs, binding, queue, stage)
  BY DEF Close, taskVars, Agreed, TypeOK
<1>2. ASSUME NEW j \in Jobs
      PROVE  LET r == Closed(jobs[j])
             IN  /\ r \in JobRecord /\ ~IsWaiting(r)
                 /\ StageAgrees(r, stage[j]) /\ BindingAgrees(r, binding[j])
  <2> DEFINE r == jobs[j]
             c == FinishCancelled(r)
             k == RequestCancel(r)
  <2>1. /\ r \in JobRecord /\ stage[j] \in Stages
        /\ StageAgrees(r, stage[j]) /\ BindingAgrees(r, binding[j])
    BY <1>1 DEF JobsAgree
  <2>2. /\ c \in JobRecord /\ c.status = "CANCELLED" /\ ~c.current
        /\ c.request = r.request /\ c.retryOf = r.retryOf
    BY <2>1, FinishCancelledIs DEF Agreed
  <2>3. /\ k \in JobRecord /\ k.status = "CANCEL_REQUESTED" /\ (k.current <=> r.current)
        /\ k.request = r.request /\ k.retryOf = r.retryOf
    BY <2>1, RequestCancelIs DEF Agreed
  <2>4. /\ Closed(r) = IF IsWaiting(r) THEN c
                       ELSE IF r.status \in {"RUNNING", "AGGREGATING"} THEN k ELSE r
    BY DEF Closed
  <2> HIDE DEF r, c, k
  <2>5. CASE IsWaiting(r)
    BY <2>1, <2>2, <2>4, <2>5 DEF IsWaiting, StageAgrees, BindingAgrees, Stages, r
  <2>6. CASE ~IsWaiting(r) /\ r.status \in {"RUNNING", "AGGREGATING"}
    <3>1. ~IsWaiting(k) /\ BindingAgrees(k, binding[j])
      BY <2>1, <2>3, <2>6 DEF IsWaiting, BindingAgrees
    <3>2. StageAgrees(k, stage[j])
      <4>1. CASE r.status = "RUNNING" /\ r.current
        BY <2>1, <2>3, <4>1 DEF StageAgrees, Dispatched
      <4>2. CASE r.status = "AGGREGATING"
        BY <2>1, <2>3, <4>2 DEF StageAgrees, Stages
      <4> QED
        BY <2>6, <4>1, <4>2 DEF IsWaiting
    <3> QED
      BY <2>3, <2>4, <2>6, <3>1, <3>2 DEF r
  <2>7. CASE ~IsWaiting(r) /\ r.status \notin {"RUNNING", "AGGREGATING"}
    BY <2>1, <2>4, <2>7 DEF r
  <2> QED
    BY <2>5, <2>6, <2>7
<1>3. jobs' \in [Jobs -> JobRecord] /\ JobsAgree(jobs', binding', queue', stage')
  BY <1>1, <1>2 DEF JobsAgree, InQueue
<1>4. OtherTypes'
  <2>1. OtherTypes /\ Notify
    BY DEF Agreed, TypeOK, OtherTypes, Close
  <2>2. UNCHANGED <<running, clock, recovering, unavailable, pool, outcome, poolOf>>
    BY DEF Close, poolVars, taskVars
  <2> QED
    BY <2>1, <2>2, NotifyTypes DEF OtherTypes, Close
<1>5. queue' \in Seq(Jobs) /\ Distinct(queue')
  BY <1>1 DEF Distinct
<1> QED
  BY <1>1, <1>3, <1>4, <1>5 DEF Agreed, TypeOK, OtherTypes

-----------------------------------------------------------------------------
(* Worker slots *)

\* The repetitions in flight can be counted.
LEMMA InFlightFinite == IsFiniteSet(InFlight) /\ Cardinality(InFlight) \in Nat
<1>1. InFlight \subseteq Jobs /\ IsFiniteSet(Jobs)
  BY ExecutorAssumption DEF InFlight, ExecutorAssumption
<1> QED
  BY <1>1, FS_Subset, FS_CardinalityType

\* A dispatch takes one slot, ...
LEMMA SlotTaken ==
    ASSUME TypeOK, NEW j \in Jobs, NEW s \in Dispatched, stage[j] \notin Dispatched,
           stage' = [stage EXCEPT ![j] = s]
    PROVE  Cardinality(InFlight') = Cardinality(InFlight) + 1
<1>1. InFlight' = InFlight \cup {j} /\ j \notin InFlight
  BY DEF InFlight, TypeOK
<1> QED
  BY <1>1, InFlightFinite, FS_AddElement

\* ... the end of a callback's first section releases it, ...
LEMMA SlotReleased ==
    ASSUME TypeOK, NEW j \in Jobs, NEW s, s \notin Dispatched, stage[j] \in Dispatched,
           stage' = [stage EXCEPT ![j] = s]
    PROVE  /\ Cardinality(InFlight') = Cardinality(InFlight) - 1
           /\ Cardinality(InFlight) >= 1
<1>1. InFlight' = InFlight \ {j} /\ j \in InFlight
  BY DEF InFlight, TypeOK
<1>2. Cardinality(InFlight') = Cardinality(InFlight) - 1
  BY <1>1, InFlightFinite, FS_RemoveElement
<1>3. Cardinality(InFlight) # 0
  BY <1>1, InFlightFinite, FS_EmptySet
<1> QED
  BY <1>2, <1>3, InFlightFinite

\* ... and nothing between the two does.
LEMMA SlotKept ==
    ASSUME TypeOK, NEW j \in Jobs, NEW s, s \in Dispatched <=> stage[j] \in Dispatched,
           stage' = [stage EXCEPT ![j] = s]
    PROVE  InFlight' = InFlight
BY DEF InFlight, TypeOK

-----------------------------------------------------------------------------
(* The dispatcher and the callbacks *)

\* Moving a repetition from one dispatched stage to another disturbs nothing.
LEMMA StageMoves ==
    ASSUME Agreed, NEW j \in Jobs, stage[j] \in Dispatched, NEW s \in Dispatched
    PROVE  /\ [stage EXCEPT ![j] = s] \in [Jobs -> Stages]
           /\ JobsAgree(jobs, binding, queue, [stage EXCEPT ![j] = s])
<1>1. stage \in [Jobs -> Stages] /\ s \in Stages
  BY DEF Agreed, TypeOK, Stages
<1>2. \A i \in Jobs : [stage EXCEPT ![j] = s][i] = IF i = j THEN s ELSE stage[i]
  BY <1>1
<1>3. StageAgrees(jobs[j], s)
  <2>1. StageAgrees(jobs[j], stage[j])
    BY DEF Agreed, JobsAgree
  <2> QED
    BY <2>1 DEF StageAgrees, Dispatched
<1>4. JobsAgree(jobs, binding, queue, [stage EXCEPT ![j] = s])
  BY <1>2, <1>3 DEF Agreed, JobsAgree
<1> QED
  BY <1>1, <1>4

\* A turn of the dispatcher moves the head of the queue to its callback, or nothing.
LEMMA DispatcherLoopAgrees ==
    ASSUME Agreed, DispatcherLoop
    PROVE  Agreed'
<1>1. PICK gone \in Evictions :
        /\ \/ /\ \/ DispatcherStops \/ DispatcherSleeps(JobsWithout(gone))
                 \/ DispatcherSkips(JobsWithout(gone))
              /\ jobs' = JobsWithout(gone)
           \/ DispatcherTakes(JobsWithout(gone))
        /\ binding' = BindingsWithout(gone)
        /\ UNCHANGED <<closed, clock, recovering, unavailable, pool>>
  BY DEF DispatcherLoop, poolVars
<1> DEFINE js == JobsWithout(gone)
           bs == BindingsWithout(gone)
<1>2. JobsTyped(js, bs) /\ JobsAgree(js, bs, queue, stage)
  BY Housekeeping DEF Agreed
<1>3. binding' = bs
  BY <1>1
<1> HIDE DEF js, bs
<1>4. /\ OtherTypes /\ stage \in [Jobs -> Stages] /\ queue \in Seq(Jobs) /\ Distinct(queue)
      /\ UNCHANGED <<closed, clock, recovering, unavailable, pool>>
  BY <1>1 DEF Agreed, TypeOK, OtherTypes
<1>5. CASE DispatcherStops /\ jobs' = js
  <2>1. UNCHANGED <<queue, running, stage, outcome, poolOf, hand, alarm>> /\ dispatcher' = "stopped"
    BY <1>5 DEF DispatcherStops, taskVars
  <2> QED
    BY <1>2, <1>3, <1>4, <1>5, <2>1 DEF Agreed, TypeOK, OtherTypes, JobsTyped
<1>6. CASE DispatcherSleeps(js) /\ jobs' = js
  <2>1. UNCHANGED <<queue, running, stage, outcome, poolOf, hand>> /\ dispatcher' = "asleep"
    BY <1>6 DEF DispatcherSleeps, taskVars
  <2>2. Deadlines(js) \subseteq Int
    BY <1>2, ExecutorAssumption DEF Deadlines, JobsTyped, JobRecord, Time, NoTime, ExecutorAssumption
  <2>3. alarm' \in Int
    BY <1>6, <2>2 DEF DispatcherSleeps, NoTime
  <2> QED
    BY <1>2, <1>3, <1>4, <1>6, <2>1, <2>3 DEF Agreed, TypeOK, OtherTypes, JobsTyped
<1>7. CASE DispatcherSkips(js) /\ jobs' = js
  <2>1. queue # <<>> /\ ~Dispatchable(js[Head(queue)])
    BY <1>7 DEF DispatcherSkips, Blocked
  <2>2. Head(queue) \in Jobs /\ InQueue(queue, Head(queue))
    BY <2>1, <1>4, TailIs
  <2>3. IsWaiting(js[Head(queue)]) /\ StageAgrees(js[Head(queue)], stage[Head(queue)])
    BY <2>2, <1>2 DEF JobsAgree
  <2> QED
    BY <2>1, <2>3 DEF Dispatchable, IsWaiting, StageAgrees, Waiting
<1>8. CASE DispatcherTakes(js)
  <2> DEFINE j == Head(queue)
             r == Started(js[j])
  <2>1. /\ queue # <<>>
        /\ jobs' = [js EXCEPT ![j] = r]
        /\ queue' = Tail(queue) /\ running' = running + 1
        /\ stage' = [stage EXCEPT ![j] = "handoff"]
        /\ poolOf' = [poolOf EXCEPT ![j] = pool]
        /\ dispatcher' = "away" /\ hand' = j
        /\ outcome' = outcome /\ alarm' = alarm
    BY <1>8 DEF DispatcherTakes, Blocked
  <2>2. /\ j \in Jobs /\ InQueue(queue, j)
        /\ Tail(queue) \in Seq(Jobs) /\ Distinct(Tail(queue))
        /\ \A i \in Jobs : InQueue(Tail(queue), i) <=> InQueue(queue, i) /\ i # j
    BY <2>1, <1>4, TailIs
  <2>3. js[j] \in JobRecord /\ bs[j] \in Bindings \cup {None} /\ binding' = [bs EXCEPT ![j] = bs[j]]
    BY <2>2, <1>2, <1>3 DEF JobsTyped
  <2>4. IsWaiting(js[j]) /\ BindingAgrees(js[j], bs[j])
    BY <2>2, <1>2 DEF JobsAgree
  <2>5. /\ r \in JobRecord /\ r.status = "RUNNING" /\ r.current
        /\ r.request = js[j].request /\ r.retryOf = js[j].retryOf
    BY <2>3, StartedIs DEF Agreed
  <2> HIDE DEF r
  <2>6. /\ StageAgrees(r, "handoff") /\ BindingAgrees(r, bs[j]) /\ ~IsWaiting(r)
        /\ "handoff" \in Stages
    BY <2>4, <2>5 DEF StageAgrees, BindingAgrees, IsWaiting, Stages, Dispatched
  <2>7. JobsTyped(jobs', binding') /\ JobsAgree(jobs', binding', queue', stage')
    <3>1. /\ JobsTyped([js EXCEPT ![j] = r], [bs EXCEPT ![j] = bs[j]])
          /\ JobsAgree([js EXCEPT ![j] = r], [bs EXCEPT ![j] = bs[j]],
                       Tail(queue), [stage EXCEPT ![j] = "handoff"])
      BY <1>2, <1>4, <2>2, <2>3, <2>5, <2>6, OneJobChanges
    <3> QED
      BY <3>1, <2>1, <2>3
  <2>8. stage' \in [Jobs -> Stages] /\ OtherTypes'
    BY <1>4, <2>1, <2>2, <2>6 DEF OtherTypes
  <2> QED
    BY <2>1, <2>2, <2>7, <2>8 DEF Agreed, TypeOK, OtherTypes, JobsTyped
<1> QED
  BY <1>1, <1>5, <1>6, <1>7, <1>8 DEF js

\* The steps that touch neither the jobs nor the lock: time, the timed wait, and a
\* repetition on its way to its pool and back.
LEMMA OutsideAgrees ==
    ASSUME Agreed,
           \/ DispatcherTimesOut
           \/ \E t \in Time : ClockChanges(t)
           \/ \E j \in Jobs : HandOff(j) \/ RecoverBegin(j)
           \/ \E j \in Jobs, result \in Outcomes : FutureDone(j, result)
    PROVE  Agreed'
<1>1. OtherTypes /\ stage \in [Jobs -> Stages]
  BY DEF Agreed, TypeOK, OtherTypes
<1>2. CASE DispatcherTimesOut
  <2>1. /\ UNCHANGED <<jobs, binding, queue, running, closed, clock, hand, recovering,
                       unavailable, pool, stage, outcome, poolOf>>
        /\ dispatcher' = "awake" /\ alarm' = NoTime
    BY <1>2 DEF DispatcherTimesOut, poolVars, taskVars
  <2> QED
    BY <2>1 DEF Agreed, TypeOK, NoTime
<1>3. ASSUME NEW t \in Time, ClockChanges(t)
      PROVE  Agreed'
  <2>1. /\ UNCHANGED <<jobs, binding, queue, running, closed, hand, dispatcher, alarm,
                       recovering, unavailable, pool, stage, outcome, poolOf>>
        /\ clock' = t
    BY <1>3 DEF ClockChanges, NoNotify, poolVars, taskVars
  <2> QED
    BY <2>1 DEF Agreed, TypeOK
<1>4. ASSUME NEW j \in Jobs, HandOff(j)
      PROVE  Agreed'
  <2>1. /\ UNCHANGED <<jobs, binding, queue, running, closed, clock, alarm, outcome, poolOf,
                       recovering, unavailable, pool>>
        /\ stage[j] = "handoff" /\ stage' = [stage EXCEPT ![j] = "worker"]
        /\ dispatcher' = "awake" /\ hand' = None
    BY <1>4 DEF HandOff, poolVars
  <2>2. JobsAgree(jobs, binding, queue, stage') /\ stage' \in [Jobs -> Stages]
    BY <2>1, StageMoves DEF Dispatched
  <2> QED
    BY <1>1, <2>1, <2>2 DEF Agreed, TypeOK
<1>5. ASSUME NEW j \in Jobs, RecoverBegin(j)
      PROVE  Agreed'
  <2>1. /\ UNCHANGED <<jobs, binding, queue, running, closed, clock, outcome, poolOf,
                       pool, unavailable, dispatcher, hand, alarm>>
        /\ stage[j] = "lost" /\ recovering' \in BOOLEAN
        /\ \/ stage' = [stage EXCEPT ![j] = "settle"]
           \/ stage' = [stage EXCEPT ![j] = "replacing"]
    BY <1>5 DEF RecoverBegin, NoNotify, Agreed, TypeOK
  <2>2. ASSUME NEW s \in {"settle", "replacing"}, stage' = [stage EXCEPT ![j] = s]
        PROVE  JobsAgree(jobs, binding, queue, stage') /\ stage' \in [Jobs -> Stages]
    BY <2>1, <2>2, StageMoves DEF Dispatched
  <2>3. JobsAgree(jobs, binding, queue, stage') /\ stage' \in [Jobs -> Stages]
    BY <2>1, <2>2
  <2> QED
    BY <1>1, <2>1, <2>3 DEF Agreed, TypeOK
<1>6. ASSUME NEW j \in Jobs, NEW result \in Outcomes, FutureDone(j, result)
      PROVE  Agreed'
  <2> DEFINE s == IF result = "broken" THEN "lost" ELSE "settle"
  <2>1. /\ UNCHANGED <<jobs, binding, queue, running, closed, clock, poolOf, recovering,
                       pool, unavailable, dispatcher, hand, alarm>>
        /\ stage[j] \in {"handoff", "worker"}
        /\ stage' = [stage EXCEPT ![j] = s]
        /\ outcome' = [outcome EXCEPT ![j] = result]
    BY <1>6 DEF FutureDone, NoNotify, poolVars
  <2>2. s \in Dispatched /\ stage[j] \in Dispatched
    BY <2>1 DEF Dispatched
  <2> HIDE DEF s
  <2>3. JobsAgree(jobs, binding, queue, stage') /\ stage' \in [Jobs -> Stages]
    BY <2>1, <2>2, StageMoves
  <2> QED
    BY <1>1, <2>1, <2>3 DEF Agreed, TypeOK
<1> QED
  BY <1>2, <1>3, <1>4, <1>5, <1>6

\* A failed recovery empties the queue of exactly the jobs that waited.
LEMMA RecoverEndAgrees ==
    ASSUME Agreed, NEW j \in Jobs, NEW built \in BOOLEAN, RecoverEnd(j, built)
    PROVE  Agreed'
<1>1. /\ stage[j] = "replacing" /\ stage' = [stage EXCEPT ![j] = "settle"]
      /\ recovering' = FALSE /\ Notify
      /\ UNCHANGED <<binding, running, closed, clock, outcome, poolOf>>
  BY DEF RecoverEnd
<1>2. JobsAgree(jobs, binding, queue, stage') /\ stage' \in [Jobs -> Stages]
  BY <1>1, StageMoves DEF Dispatched
<1>3. /\ dispatcher' \in {"awake", "asleep", "away", "stopped"}
      /\ hand' \in Jobs \cup {None} /\ alarm' \in Int
  BY <1>1, NotifyTypes DEF Agreed, TypeOK, OtherTypes
<1>4. CASE /\ jobs' = jobs /\ queue' = queue /\ unavailable' = unavailable
           /\ (pool' = pool) \/ (built /\ pool' = pool + 1)
  <2>1. pool' \in 1..MaxPools
    BY <1>4, ExecutorAssumption DEF RecoverEnd, Agreed, TypeOK, ExecutorAssumption
  <2> QED
    BY <1>1, <1>2, <1>3, <1>4, <2>1 DEF Agreed, TypeOK
<1>5. CASE /\ unavailable' = TRUE /\ queue' = <<>> /\ pool' = pool
           /\ jobs' = [i \in Jobs |-> IF IsWaiting(jobs[i])
                                      THEN Fail(jobs[i], "EXECUTOR_INDISPONIVEL")
                                      ELSE jobs[i]]
  <2>1. ASSUME NEW i \in Jobs
        PROVE  /\ jobs'[i] \in JobRecord /\ ~IsWaiting(jobs'[i])
               /\ StageAgrees(jobs'[i], stage'[i]) /\ BindingAgrees(jobs'[i], binding[i])
    <3>1. /\ jobs[i] \in JobRecord /\ stage'[i] \in Stages
          /\ StageAgrees(jobs[i], stage'[i]) /\ BindingAgrees(jobs[i], binding[i])
      BY <1>2 DEF Agreed, TypeOK, JobsAgree
    <3> DEFINE f == Fail(jobs[i], "EXECUTOR_INDISPONIVEL")
    <3>2. /\ f \in JobRecord /\ f.status = "FAILED" /\ ~f.current
          /\ f.request = jobs[i].request /\ f.retryOf = jobs[i].retryOf
      BY <3>1, FailIs DEF Agreed
    <3>3. jobs'[i] = IF IsWaiting(jobs[i]) THEN f ELSE jobs[i]
      BY <1>5
    <3> HIDE DEF f
    <3>4. CASE IsWaiting(jobs[i])
      BY <3>1, <3>2, <3>3, <3>4 DEF IsWaiting, StageAgrees, BindingAgrees, Stages
    <3>5. CASE ~IsWaiting(jobs[i])
      BY <3>1, <3>3, <3>5
    <3> QED
      BY <3>4, <3>5
  <2>2. jobs' \in [Jobs -> JobRecord] /\ JobsAgree(jobs', binding', queue', stage')
    BY <1>1, <1>5, <2>1 DEF JobsAgree, InQueue
  <2>3. queue' \in Seq(Jobs) /\ Distinct(queue')
    BY <1>5 DEF Distinct
  <2> QED
    BY <1>1, <1>2, <1>3, <1>5, <2>2, <2>3 DEF Agreed, TypeOK
<1>6. CASE closed
  <2>1. jobs' = jobs /\ queue' = queue /\ unavailable' = unavailable /\ pool' = pool
    BY <1>6 DEF RecoverEnd
  <2> QED
    BY <2>1, <1>4
<1>7. CASE ~closed /\ built
  <2>1. jobs' = jobs /\ queue' = queue /\ unavailable' = unavailable /\ pool' = pool + 1
    BY <1>7 DEF RecoverEnd
  <2> QED
    BY <2>1, <1>4, <1>7
<1>8. CASE ~closed /\ ~built
  BY <1>5, <1>8 DEF RecoverEnd
<1> QED
  BY <1>6, <1>7, <1>8

\* The first section of a callback requeues its job, or ends it, or aggregates it.
LEMMA SettleAgrees ==
    ASSUME Agreed, RunningExact, NEW j \in Jobs, Settle(j)
    PROVE  Agreed'
<1> DEFINE r == Settled(jobs[j], outcome[j])
           s == IF r.status = "AGGREGATING" THEN "aggregating" ELSE "idle"
           q == IF r.status = "RUNNING" THEN Append(queue, j) ELSE queue
<1>1. /\ jobs[j] \in JobRecord /\ outcome[j] \in Outcomes /\ stage[j] = "settle"
      /\ StageAgrees(jobs[j], "settle") /\ BindingAgrees(jobs[j], binding[j])
      /\ IsWaiting(jobs[j]) <=> InQueue(queue, j)
      /\ binding[j] \in Bindings \cup {None}
  BY DEF Agreed, TypeOK, JobsAgree, Settle
<1>2. jobs[j].status \in {"RUNNING", "CANCEL_REQUESTED"} /\ jobs[j].current
  BY <1>1 DEF StageAgrees, Dispatched
<1>3. /\ r \in JobRecord /\ ~r.current
      /\ r.status \in {"CANCELLED", "FAILED", "AGGREGATING", "RUNNING"}
      /\ r.request = jobs[j].request /\ r.retryOf = jobs[j].retryOf
  BY <1>1, <1>2, SettledIs DEF Agreed
<1>4. /\ jobs' = [jobs EXCEPT ![j] = r]
      /\ queue' = q
      /\ stage' = [stage EXCEPT ![j] = s]
      /\ running' = running - 1
      /\ outcome' = [outcome EXCEPT ![j] = "ok"] /\ poolOf' = [poolOf EXCEPT ![j] = 1]
      /\ Notify \/ CallbackReturns(j, TRUE)
      /\ UNCHANGED <<binding, closed, clock, recovering, unavailable, pool>>
  BY <1>2 DEF Settle, poolVars
<1>5. s \in {"idle", "aggregating"}
  OBVIOUS
<1>6. StageAgrees(r, s)
  BY <1>3 DEF StageAgrees, Dispatched
<1> HIDE DEF r
<1>7. BindingAgrees(r, binding[j])
  BY <1>1, <1>2, <1>3 DEF BindingAgrees
<1>8. ~InQueue(queue, j)
  BY <1>1, <1>2 DEF IsWaiting
<1>9. /\ q \in Seq(Jobs) /\ Distinct(q)
      /\ IsWaiting(r) <=> InQueue(q, j)
      /\ \A i \in Jobs : i # j => (InQueue(q, i) <=> InQueue(queue, i))
  <2>1. /\ Append(queue, j) \in Seq(Jobs) /\ Distinct(Append(queue, j))
        /\ \A i \in Jobs : InQueue(Append(queue, j), i) <=> InQueue(queue, i) \/ i = j
    BY <1>8, AppendIs DEF Agreed, TypeOK
  <2>2. IsWaiting(r) <=> r.status = "RUNNING"
    BY <1>3 DEF IsWaiting
  <2> QED
    BY <1>8, <2>1, <2>2 DEF Agreed, TypeOK
<1> HIDE DEF s, q
<1>10. /\ JobsTyped(jobs', binding') /\ JobsAgree(jobs', binding', queue', stage')
       /\ stage' \in [Jobs -> Stages]
  <2>1. /\ JobsTyped([jobs EXCEPT ![j] = r], [binding EXCEPT ![j] = binding[j]])
        /\ JobsAgree([jobs EXCEPT ![j] = r], [binding EXCEPT ![j] = binding[j]],
                     q, [stage EXCEPT ![j] = s])
        /\ [stage EXCEPT ![j] = s] \in [Jobs -> Stages]
    <3>1. /\ JobsTyped(jobs, binding) /\ stage \in [Jobs -> Stages] /\ s \in Stages
          /\ JobsAgree(jobs, binding, queue, stage)
      BY <1>5 DEF Agreed, TypeOK, JobsTyped, Stages
    <3> QED
      BY <3>1, <1>1, <1>3, <1>6, <1>7, <1>9, OneJobChanges
  <2>2. binding' = [binding EXCEPT ![j] = binding[j]]
    BY <1>4 DEF Agreed, TypeOK
  <2> QED
    BY <2>1, <2>2, <1>4
<1>11. running' \in Nat
  <2>1. stage[j] \in Dispatched /\ s \notin Dispatched
    BY <1>1, <1>5 DEF Dispatched
  <2>2. Cardinality(InFlight) >= 1
    BY <2>1, <1>4, SlotReleased DEF Agreed
  <2> QED
    BY <2>2, <1>4, InFlightFinite DEF RunningExact
<1>12. /\ outcome' \in [Jobs -> Outcomes] /\ poolOf' \in [Jobs -> 1..MaxPools]
  BY <1>4, ExecutorAssumption DEF Agreed, TypeOK, Outcomes, ExecutorAssumption
<1>13. /\ dispatcher' \in {"awake", "asleep", "away", "stopped"}
       /\ hand' \in Jobs \cup {None} /\ alarm' \in Int
  BY <1>4 DEF Agreed, TypeOK, Notify, NoNotify, CallbackReturns, NoTime
<1> QED
  BY <1>4, <1>9, <1>10, <1>11, <1>12, <1>13 DEF Agreed, TypeOK, JobsTyped

\* The second section of a callback ends its job.
LEMMA AggregateEndAgrees ==
    ASSUME Agreed, NEW j \in Jobs, NEW valid \in BOOLEAN, AggregateEnd(j, valid)
    PROVE  Agreed'
<1> DEFINE r == Aggregated(jobs[j], valid)
<1>1. /\ jobs[j] \in JobRecord /\ stage[j] = "aggregating"
      /\ StageAgrees(jobs[j], "aggregating") /\ BindingAgrees(jobs[j], binding[j])
      /\ IsWaiting(jobs[j]) <=> InQueue(queue, j)
      /\ binding[j] \in Bindings \cup {None}
  BY DEF Agreed, TypeOK, JobsAgree, AggregateEnd
<1>2. jobs[j].status \in {"AGGREGATING", "CANCEL_REQUESTED"}
  BY <1>1 DEF StageAgrees
<1>3. /\ r \in JobRecord /\ ~r.current /\ r.status \in Terminal
      /\ r.request = jobs[j].request /\ r.retryOf = jobs[j].retryOf
  BY <1>1, AggregatedIs DEF Agreed
<1>4. /\ jobs' = [jobs EXCEPT ![j] = r]
      /\ stage' = [stage EXCEPT ![j] = "idle"]
      /\ CallbackReturns(j, TRUE)
      /\ UNCHANGED <<binding, queue, running, closed, clock, outcome, poolOf, recovering,
                     unavailable, pool>>
  BY <1>2 DEF AggregateEnd, poolVars
<1> HIDE DEF r
<1>5. /\ StageAgrees(r, "idle") /\ BindingAgrees(r, binding[j])
      /\ ~IsWaiting(r) /\ ~InQueue(queue, j) /\ "idle" \in Stages
  BY <1>1, <1>2, <1>3 DEF StageAgrees, BindingAgrees, IsWaiting, Dispatched, Terminal, Stages
<1>6. /\ JobsTyped(jobs', binding') /\ JobsAgree(jobs', binding', queue', stage')
      /\ stage' \in [Jobs -> Stages]
  <2>1. /\ JobsTyped([jobs EXCEPT ![j] = r], [binding EXCEPT ![j] = binding[j]])
        /\ JobsAgree([jobs EXCEPT ![j] = r], [binding EXCEPT ![j] = binding[j]],
                     queue, [stage EXCEPT ![j] = "idle"])
        /\ [stage EXCEPT ![j] = "idle"] \in [Jobs -> Stages]
    <3>1. /\ JobsTyped(jobs, binding) /\ stage \in [Jobs -> Stages]
          /\ JobsAgree(jobs, binding, queue, stage)
      BY DEF Agreed, TypeOK, JobsTyped
    <3> QED
      BY <3>1, <1>1, <1>3, <1>5, OneJobChanges
  <2>2. binding' = [binding EXCEPT ![j] = binding[j]]
    BY <1>4 DEF Agreed, TypeOK
  <2> QED
    BY <2>1, <2>2, <1>4
<1>7. /\ dispatcher' \in {"awake", "asleep", "away", "stopped"}
      /\ hand' \in Jobs \cup {None} /\ alarm' \in Int
  BY <1>4 DEF Agreed, TypeOK, Notify, NoNotify, CallbackReturns, NoTime
<1> QED
  BY <1>4, <1>6, <1>7 DEF Agreed, TypeOK, JobsTyped

\* Every step keeps types, queue, bindings and stages in agreement.
LEMMA NextAgrees ==
    ASSUME Agreed, RunningExact, [Next]_vars
    PROVE  Agreed'
<1>1. CASE UNCHANGED vars
  BY <1>1 DEF vars, Agreed, TypeOK
<1>2. ASSUME NEW j \in Jobs, NEW p \in Payloads, Submit(j, p)
      PROVE  Agreed'
  <2> DEFINE command == [kind |-> "SUBMIT", payload |-> p, retryOf |-> None]
  <2>1. command \in Bindings
    BY DEF Bindings
  <2>2. PICK gone \in Evictions : Accept(JobsWithout(gone), BindingsWithout(gone), j, command)
    BY <1>2 DEF Submit
  <2> HIDE DEF command
  <2> QED
    BY <2>1, <2>2, AcceptAgrees
<1>3. ASSUME NEW o \in Jobs, NEW j \in Jobs, Retry(o, j)
      PROVE  Agreed'
  <2>1. PICK gone \in Evictions :
          /\ JobsWithout(gone)[o].status \in {"FAILED", "CANCELLED"}
          /\ Accept(JobsWithout(gone), BindingsWithout(gone), j,
                    [kind |-> "RETRY", payload |-> JobsWithout(gone)[o].request, retryOf |-> o])
    BY <1>3 DEF Retry
  <2> DEFINE js == JobsWithout(gone)
             bs == BindingsWithout(gone)
             command == [kind |-> "RETRY", payload |-> js[o].request, retryOf |-> o]
  <2>2. BindingAgrees(js[o], bs[o]) /\ bs[o] \in Bindings \cup {None}
    BY Housekeeping DEF Agreed, JobsAgree, JobsTyped
  <2>3. js[o].request \in Payloads
    BY <2>1, <2>2 DEF BindingAgrees, Bindings
  <2>4. command \in Bindings
    BY <2>3 DEF Bindings
  <2>5. Accept(js, bs, j, command)
    BY <2>1
  <2> HIDE DEF command
  <2> QED
    BY <2>4, <2>5, AcceptAgrees
<1>4. ASSUME NEW j \in Jobs, Callback(j)
      PROVE  Agreed'
  BY <1>4, OutsideAgrees, RecoverEndAgrees, SettleAgrees, AggregateEndAgrees DEF Callback
<1>5. CASE DispatcherTimesOut
  BY <1>5, OutsideAgrees
<1>6. ASSUME NEW j \in Jobs, HandOff(j)
      PROVE  Agreed'
  BY <1>6, OutsideAgrees
<1>7. ASSUME NEW j \in Jobs, NEW result \in Outcomes, FutureDone(j, result)
      PROVE  Agreed'
  BY <1>7, OutsideAgrees
<1>8. ASSUME NEW t \in Time, ClockChanges(t)
      PROVE  Agreed'
  BY <1>8, OutsideAgrees
<1> QED
  BY <1>1, <1>2, <1>3, <1>4, <1>5, <1>6, <1>7, <1>8,
     CancelAgrees, ReadAgrees, CloseAgrees, DispatcherLoopAgrees DEF Next

-----------------------------------------------------------------------------
(* The limits *)

\* What each step does to _running and to the set of repetitions in flight.
LEMMA NextRunning ==
    ASSUME Agreed, RunningExact, [Next]_vars
    PROVE  RunningExact'
<1>1. TypeOK /\ running = Cardinality(InFlight) /\ running <= MaxWorkers /\ running \in Nat
  BY DEF Agreed, RunningExact, TypeOK
<1>2. CASE running' = running /\ stage' = stage
  BY <1>1, <1>2 DEF RunningExact, InFlight
<1>3. CASE \E gone \in Evictions : DispatcherTakes(JobsWithout(gone))
  <2>1. PICK gone \in Evictions : DispatcherTakes(JobsWithout(gone))
    BY <1>3
  <2> DEFINE js == JobsWithout(gone)
             bs == BindingsWithout(gone)
             j  == Head(queue)
  <2>2. /\ ~Blocked /\ Dispatchable(js[j])
        /\ running' = running + 1 /\ stage' = [stage EXCEPT ![j] = "handoff"]
    BY <2>1 DEF DispatcherTakes
  <2>3. j \in Jobs
    BY <2>2, TailIs DEF Blocked, Agreed, TypeOK
  <2>4. StageAgrees(js[j], stage[j])
    BY <2>3, Housekeeping DEF Agreed, JobsAgree
  <2>5. stage[j] \notin Dispatched
    BY <2>2, <2>4 DEF Dispatchable, StageAgrees
  <2>6. Cardinality(InFlight') = Cardinality(InFlight) + 1
    BY <1>1, <2>2, <2>3, <2>5, SlotTaken DEF Dispatched
  <2>7. running < MaxWorkers
    BY <2>2, <1>1, ExecutorAssumption DEF Blocked, ExecutorAssumption
  <2> QED
    BY <1>1, <2>2, <2>6, <2>7, ExecutorAssumption DEF RunningExact, ExecutorAssumption
<1>4. ASSUME NEW j \in Jobs, NEW s \in Dispatched, stage[j] \in Dispatched,
             stage' = [stage EXCEPT ![j] = s], running' = running
      PROVE  RunningExact'
  BY <1>1, <1>4, SlotKept DEF RunningExact
<1>5. ASSUME NEW j \in Jobs, Settle(j)
      PROVE  RunningExact'
  <2>1. PICK s \in {"idle", "aggregating"} : stage' = [stage EXCEPT ![j] = s]
    BY <1>5 DEF Settle
  <2>2. stage[j] \in Dispatched /\ s \notin Dispatched /\ running' = running - 1
    BY <1>5 DEF Settle, Dispatched
  <2>3. /\ Cardinality(InFlight') = Cardinality(InFlight) - 1
        /\ Cardinality(InFlight) >= 1
    BY <1>1, <2>1, <2>2, SlotReleased
  <2> QED
    BY <1>1, <2>2, <2>3, ExecutorAssumption DEF RunningExact, ExecutorAssumption
<1>6. ASSUME NEW j \in Jobs, NEW valid \in BOOLEAN, AggregateEnd(j, valid)
      PROVE  RunningExact'
  <2>1. /\ stage[j] = "aggregating" /\ stage' = [stage EXCEPT ![j] = "idle"]
        /\ running' = running
    BY <1>6 DEF AggregateEnd
  <2> QED
    BY <1>1, <2>1, SlotKept DEF RunningExact, Dispatched
<1>7. CASE UNCHANGED vars
  BY <1>2, <1>7 DEF vars
<1>8. CASE DispatcherLoop
  BY <1>2, <1>3, <1>8 DEF DispatcherLoop, DispatcherStops, DispatcherSleeps, DispatcherSkips, taskVars
<1>9. ASSUME NEW j \in Jobs, HandOff(j) \/ RecoverBegin(j) \/ (\E built \in BOOLEAN : RecoverEnd(j, built))
      PROVE  RunningExact'
  BY <1>4, <1>9 DEF HandOff, RecoverBegin, RecoverEnd, Dispatched
<1>10. ASSUME NEW j \in Jobs, NEW result \in Outcomes, FutureDone(j, result)
       PROVE  RunningExact'
  <2>1. PICK s \in {"lost", "settle"} : stage' = [stage EXCEPT ![j] = s]
    BY <1>10 DEF FutureDone
  <2> QED
    BY <2>1, <1>4, <1>10 DEF FutureDone, Dispatched
<1>11. CASE \/ \E j \in Jobs, p \in Payloads : Submit(j, p)
            \/ \E o, j \in Jobs : Retry(o, j)
            \/ \E j \in Jobs : Cancel(j)
            \/ Read \/ Close \/ DispatcherTimesOut \/ \E t \in Time : ClockChanges(t)
  BY <1>2, <1>11 DEF Submit, Retry, Accept, Cancel, Read, Close, DispatcherTimesOut,
                     ClockChanges, taskVars
<1> QED
  BY <1>5, <1>6, <1>7, <1>8, <1>9, <1>10, <1>11 DEF Next, Callback

\* A recovery begins only when none is under way, and for the current pool.
LEMMA NextRecovery ==
    ASSUME Agreed, RecoveryExact, [Next]_vars
    PROVE  RecoveryExact'
<1>1. TypeOK
  BY DEF Agreed
<1>2. CASE UNCHANGED <<stage, recovering, poolOf, pool>>
  BY <1>2 DEF RecoveryExact
<1>3. CASE \E gone \in Evictions : DispatcherTakes(JobsWithout(gone)) /\ UNCHANGED poolVars
  <2>1. PICK gone \in Evictions : DispatcherTakes(JobsWithout(gone)) /\ UNCHANGED poolVars
    BY <1>3
  <2> DEFINE js == JobsWithout(gone)
             bs == BindingsWithout(gone)
             j  == Head(queue)
  <2>2. /\ ~Blocked /\ Dispatchable(js[j])
        /\ stage' = [stage EXCEPT ![j] = "handoff"] /\ poolOf' = [poolOf EXCEPT ![j] = pool]
        /\ recovering' = recovering /\ pool' = pool
    BY <2>1 DEF DispatcherTakes, poolVars
  <2> QED
    BY <1>1, <2>2 DEF RecoveryExact, Blocked, TypeOK
<1>4. ASSUME NEW j \in Jobs, HandOff(j)
      PROVE  RecoveryExact'
  BY <1>1, <1>4 DEF RecoveryExact, HandOff, poolVars, TypeOK
<1>5. ASSUME NEW j \in Jobs, NEW result \in Outcomes, FutureDone(j, result)
      PROVE  RecoveryExact'
  <2>1. PICK s \in {"lost", "settle"} : stage' = [stage EXCEPT ![j] = s]
    BY <1>5 DEF FutureDone
  <2> QED
    BY <1>1, <1>5, <2>1 DEF RecoveryExact, FutureDone, poolVars, TypeOK
<1>6. ASSUME NEW j \in Jobs, RecoverBegin(j)
      PROVE  RecoveryExact'
  BY <1>1, <1>6 DEF RecoveryExact, RecoverBegin, NothingToRecover, TypeOK
<1>7. ASSUME NEW j \in Jobs, NEW built \in BOOLEAN, RecoverEnd(j, built)
      PROVE  RecoveryExact'
  <2>1. /\ stage[j] = "replacing" /\ stage' = [stage EXCEPT ![j] = "settle"]
    BY <1>7 DEF RecoverEnd
  <2>2. \A i \in Jobs : stage'[i] # "replacing"
    BY <1>1, <2>1 DEF RecoveryExact, TypeOK
  <2> QED
    BY <2>2 DEF RecoveryExact
<1>8. ASSUME NEW j \in Jobs, Settle(j)
      PROVE  RecoveryExact'
  <2>1. PICK s \in {"idle", "aggregating"} : stage' = [stage EXCEPT ![j] = s]
    BY <1>8 DEF Settle
  <2> QED
    BY <1>1, <1>8, <2>1 DEF RecoveryExact, Settle, poolVars, TypeOK
<1>9. ASSUME NEW j \in Jobs, NEW valid \in BOOLEAN, AggregateEnd(j, valid)
      PROVE  RecoveryExact'
  BY <1>1, <1>9 DEF RecoveryExact, AggregateEnd, poolVars, TypeOK
<1>10. CASE DispatcherLoop
  BY <1>2, <1>3, <1>10 DEF DispatcherLoop, DispatcherStops, DispatcherSleeps, DispatcherSkips,
                           taskVars, poolVars
<1>11. CASE \/ UNCHANGED vars
            \/ \E j \in Jobs, p \in Payloads : Submit(j, p)
            \/ \E o, j \in Jobs : Retry(o, j)
            \/ \E j \in Jobs : Cancel(j)
            \/ Read \/ Close \/ DispatcherTimesOut \/ \E t \in Time : ClockChanges(t)
  BY <1>2, <1>11 DEF vars, Submit, Retry, Accept, Cancel, Read, Close, DispatcherTimesOut,
                     ClockChanges, taskVars, poolVars
<1> QED
  BY <1>4, <1>5, <1>6, <1>7, <1>8, <1>9, <1>10, <1>11 DEF Next, Callback

\* What a step leaves of the sleep of the dispatcher: it falls asleep in its own
\* loop only, and whatever could end its wait wakes it up.
Undisturbed ==
    /\ dispatcher' = "asleep" => dispatcher = "asleep" /\ alarm' = alarm
    /\ dispatcher' = "asleep" =>
         /\ UNCHANGED <<queue, running, recovering, closed>>
         /\ \/ UNCHANGED jobs
            \/ \E gone \in Evictions : jobs' = JobsWithout(gone)

FallsAsleep ==
    \E gone \in Evictions :
        /\ DispatcherSleeps(JobsWithout(gone))
        /\ jobs' = JobsWithout(gone)
        /\ UNCHANGED <<closed, recovering>>

\* Every step leaves the sleep undisturbed, begins it, or begins a recovery.
LEMMA NextSleep ==
    ASSUME Agreed, [Next]_vars
    PROVE  Undisturbed \/ FallsAsleep \/ \E j \in Jobs : RecoverBegin(j)
<1>1. CASE dispatcher' # "asleep"
  BY <1>1 DEF Undisturbed
<1>2. CASE UNCHANGED vars \/ Read \/ \E t \in Time : ClockChanges(t)
  BY <1>2 DEF Undisturbed, vars, Read, ClockChanges, NoNotify, poolVars
<1>3. ASSUME NEW j \in Jobs, NEW result \in Outcomes, FutureDone(j, result)
      PROVE  Undisturbed
  BY <1>3 DEF Undisturbed, FutureDone, NoNotify, poolVars
<1>4. CASE DispatcherLoop
  <2>1. CASE dispatcher' = "asleep"
    <3>1. PICK gone \in Evictions :
            /\ DispatcherSleeps(JobsWithout(gone)) /\ jobs' = JobsWithout(gone)
            /\ UNCHANGED <<closed, poolVars>>
      BY <1>4, <2>1 DEF DispatcherLoop, DispatcherStops, DispatcherSkips, DispatcherTakes
    <3> QED
      BY <3>1 DEF FallsAsleep, poolVars
  <2> QED
    BY <2>1, <1>1
<1>5. Notify => dispatcher' # "asleep"
  BY DEF Notify
<1>6. ASSUME NEW j \in Jobs, CallbackReturns(j, TRUE)
      PROVE  dispatcher' # "asleep"
  BY <1>6 DEF CallbackReturns, Notify
<1>7. ASSUME NEW j \in Jobs, Settle(j)
      PROVE  Undisturbed
  <2>1. dispatcher' # "asleep"
    BY <1>5, <1>6, <1>7 DEF Settle
  <2> QED
    BY <2>1 DEF Undisturbed
<1>8. ASSUME NEW j \in Jobs, NEW valid \in BOOLEAN, AggregateEnd(j, valid)
      PROVE  Undisturbed
  <2>1. jobs[j].status # "ABSENT"
    <3>1. StageAgrees(jobs[j], "aggregating")
      BY <1>8 DEF AggregateEnd, Agreed, JobsAgree
    <3> QED
      BY <3>1 DEF StageAgrees
  <2>2. CallbackReturns(j, TRUE)
    BY <1>8, <2>1 DEF AggregateEnd
  <2> QED
    BY <2>2, <1>6 DEF Undisturbed
<1>9. ASSUME NEW j \in Jobs, HandOff(j) \/ \E built \in BOOLEAN : RecoverEnd(j, built)
      PROVE  Undisturbed
  <2>1. dispatcher' # "asleep"
    BY <1>5, <1>9 DEF HandOff, RecoverEnd
  <2> QED
    BY <2>1 DEF Undisturbed
<1>10. CASE \/ \E j \in Jobs, p \in Payloads : Submit(j, p)
            \/ \E o, j \in Jobs : Retry(o, j)
            \/ \E j \in Jobs : Cancel(j)
            \/ Close \/ DispatcherTimesOut
  <2>1. dispatcher' # "asleep"
    BY <1>5, <1>10 DEF Submit, Retry, Accept, Cancel, Close, DispatcherTimesOut
  <2> QED
    BY <2>1 DEF Undisturbed
<1> QED
  BY <1>2, <1>3, <1>4, <1>7, <1>8, <1>9, <1>10 DEF Next, Callback

\* The dispatcher never sleeps through work, nor through a close.
LEMMA NextWakeup ==
    ASSUME Agreed, NoLostWakeup, [Next]_vars
    PROVE  NoLostWakeup'
<1>1. CASE Undisturbed
  BY <1>1 DEF Undisturbed, NoLostWakeup, Blocked
<1>2. CASE FallsAsleep
  BY <1>2 DEF FallsAsleep, DispatcherSleeps, NoLostWakeup, Blocked
<1>3. ASSUME NEW j \in Jobs, RecoverBegin(j)
      PROVE  NoLostWakeup'
  BY <1>3 DEF RecoverBegin, NoNotify, NoLostWakeup, Blocked
<1> QED
  BY <1>1, <1>2, <1>3, NextSleep

\* The timeout of its sleep covers every finished job.
LEMMA NextExpiry ==
    ASSUME Agreed, NoMissedExpiry, [Next]_vars
    PROVE  NoMissedExpiry'
<1>1. CASE Undisturbed
  <2>1. SUFFICES ASSUME dispatcher' = "asleep", NEW j \in Jobs, jobs'[j].status \in Terminal
                 PROVE  alarm' # NoTime /\ alarm' <= jobs'[j].finishedAt + Retention
    BY DEF NoMissedExpiry, TerminalJobs
  <2>2. jobs'[j] = jobs[j]
    BY <1>1, <2>1 DEF Undisturbed, JobsWithout, NoJob, Terminal
  <2> QED
    BY <1>1, <2>1, <2>2 DEF Undisturbed, NoMissedExpiry, TerminalJobs
<1>2. CASE FallsAsleep
  <2>1. PICK gone \in Evictions :
          DispatcherSleeps(JobsWithout(gone)) /\ jobs' = JobsWithout(gone)
    BY <1>2 DEF FallsAsleep
  <2>2. SUFFICES ASSUME NEW j \in Jobs, jobs'[j].status \in Terminal
                 PROVE  alarm' # NoTime /\ alarm' <= jobs'[j].finishedAt + Retention
    BY DEF NoMissedExpiry, TerminalJobs
  <2> DEFINE ds == Deadlines(jobs')
  <2>3. jobs'[j].finishedAt + Retention \in ds
    BY <2>2 DEF Deadlines
  <2>4. PICK first \in ds : (\A d \in ds : first <= d) /\ alarm' = first
    BY <2>1, <2>3 DEF DispatcherSleeps
  <2>5. PICK i \in Jobs : jobs'[i].status \in Terminal /\ first = jobs'[i].finishedAt + Retention
    BY <2>4 DEF Deadlines
  <2>6. jobs'[i] \in JobRecord
    BY <2>1, Housekeeping DEF JobsTyped, Agreed
  <2>7. alarm' <= jobs'[j].finishedAt + Retention
    BY <2>3, <2>4
  <2>8. alarm' = jobs'[i].finishedAt + Retention /\ jobs'[i].finishedAt \in -1..MaxTime
    BY <2>4, <2>5, <2>6, ExecutorAssumption DEF JobRecord, Time, NoTime
  <2>9. alarm' # NoTime
    BY <2>8, ExecutorAssumption DEF NoTime
  <2> QED
    BY <2>7, <2>9
<1>3. ASSUME NEW j \in Jobs, RecoverBegin(j)
      PROVE  NoMissedExpiry'
  BY <1>3 DEF RecoverBegin, NoNotify, NoMissedExpiry, TerminalJobs
<1> QED
  BY <1>1, <1>2, <1>3, NextSleep

-----------------------------------------------------------------------------
(* How statuses move                                                         *)

\* A job that is not accepted keeps its status or moves on ...
Moved(a, b) ==
    \/ b = a
    \/ a = "QUEUED" /\ b = "RUNNING" /\ ~closed
    \/ a = "RUNNING" /\ b = "AGGREGATING"
    \/ a = "AGGREGATING" /\ b = "SUCCEEDED"
    \/ a \in {"QUEUED", "RUNNING", "AGGREGATING"} /\ b \in {"FAILED", "CANCEL_REQUESTED"}
    \/ a \in {"QUEUED", "RUNNING", "AGGREGATING", "CANCEL_REQUESTED"} /\ b = "CANCELLED"
    \/ a \in Terminal /\ b = "ABSENT"

AllMove ==
    /\ \A j \in Jobs : Moved(jobs[j].status, jobs'[j].status)
    /\ \A i, j \in Jobs :
          /\ jobs[i].status # "SUCCEEDED" /\ jobs'[i].status = "SUCCEEDED"
          /\ jobs[j].status # "SUCCEEDED" /\ jobs'[j].status = "SUCCEEDED"
          => i = j

\* ... and an accepted one takes a free place.
OneEnters ==
    \E gone \in Evictions, j \in Jobs :
        /\ ~closed
        /\ JobsWithout(gone)[j].status = "ABSENT"
        /\ HasRoom(JobsWithout(gone), j)
        /\ jobs'[j].status = "QUEUED"
        /\ \A i \in Jobs : i # j => jobs'[i] = JobsWithout(gone)[i]

\* Housekeeping moves finished jobs only.
LEMMA HousekeepingMoves ==
    ASSUME Agreed, NEW gone \in Evictions, NEW j \in Jobs
    PROVE  /\ \/ JobsWithout(gone)[j] = jobs[j]
              \/ jobs[j].status \in Terminal /\ JobsWithout(gone)[j].status = "ABSENT"
           /\ Moved(jobs[j].status, JobsWithout(gone)[j].status)
           /\ JobsWithout(gone)[j].status = "SUCCEEDED" => jobs[j].status = "SUCCEEDED"
<1>1. \/ JobsWithout(gone)[j] = jobs[j]
      \/ jobs[j].status \in Terminal /\ JobsWithout(gone)[j] = NoJob
  BY Housekeeping DEF Agreed
<1> QED
  BY <1>1 DEF NoJob, Moved

\* When all jobs but one are as housekeeping leaves them, the one decides.
LEMMA OneMoves ==
    ASSUME Agreed, NEW gone \in Evictions, NEW j \in Jobs,
           \A i \in Jobs : i # j => jobs'[i] = JobsWithout(gone)[i],
           Moved(jobs[j].status, jobs'[j].status)
    PROVE  AllMove
<1>1. \A i \in Jobs : /\ Moved(jobs[i].status, jobs'[i].status)
                      /\ (i # j /\ jobs'[i].status = "SUCCEEDED") => jobs[i].status = "SUCCEEDED"
  BY HousekeepingMoves
<1> QED
  BY <1>1 DEF AllMove

\* The same, when a step removes nothing.
LEMMA OneMovesAlone ==
    ASSUME NEW j \in Jobs,
           \A i \in Jobs : i # j => jobs'[i] = jobs[i],
           Moved(jobs[j].status, jobs'[j].status)
    PROVE  AllMove
<1>1. \A i \in Jobs : /\ Moved(jobs[i].status, jobs'[i].status)
                      /\ i # j => jobs'[i].status = jobs[i].status
  BY DEF Moved
<1> QED
  BY <1>1 DEF AllMove

\* An accepted command enters its job and no other.
LEMMA AcceptEnters ==
    ASSUME Agreed, NEW gone \in Evictions, NEW j \in Jobs, NEW command \in Bindings,
           Accept(JobsWithout(gone), BindingsWithout(gone), j, command)
    PROVE  OneEnters
<1> DEFINE js == JobsWithout(gone)
           bs == BindingsWithout(gone)
           r  == NewJob(command.payload, command.retryOf)
<1>1. JobsTyped(js, bs) /\ JobsAgree(js, bs, queue, stage)
  BY Housekeeping DEF Agreed
<1>2. r.status = "QUEUED"
  BY NewJobIs DEF Agreed, Bindings
<1>3. /\ ~closed /\ HasRoom(js, j) /\ KeyIsFree(js, bs, j, command)
      /\ jobs' = [js EXCEPT ![j] = r]
  BY DEF Accept
<1>4. js[j].status = "ABSENT"
  <2> HIDE DEF js, bs, r
  <2> QED
    BY <1>1, <1>3 DEF KeyIsFree, JobsAgree, BindingAgrees
<1>5. jobs'[j].status = "QUEUED" /\ \A i \in Jobs : i # j => jobs'[i] = js[i]
  <2> HIDE DEF js, bs, r
  <2> QED
    BY <1>1, <1>2, <1>3 DEF JobsTyped
<1> QED
  BY <1>3, <1>4, <1>5 DEF OneEnters

\* A cancellation moves its job to one of the two statuses of a cancelled job.
LEMMA CancelMoves ==
    ASSUME Agreed, NEW j \in Jobs, Cancel(j)
    PROVE  AllMove
<1>1. PICK gone \in Evictions :
        \/ CancelWaiting(JobsWithout(gone), j) \/ CancelStray(JobsWithout(gone), j)
        \/ CancelUnderWay(JobsWithout(gone), j) \/ CancelAgain(JobsWithout(gone), j)
  BY DEF Cancel
<1> DEFINE js == JobsWithout(gone)
           f == FinishCancelled(js[j])
           r == RequestCancel(js[j])
<1>2. JobsTyped(js, binding) /\ js[j] \in JobRecord
  BY Housekeeping DEF JobsTyped, Agreed, TypeOK
<1>3. \/ js[j] = jobs[j]
      \/ jobs[j].status \in Terminal /\ js[j].status = "ABSENT"
  BY HousekeepingMoves
<1>4. f.status = "CANCELLED" /\ r.status = "CANCEL_REQUESTED"
  BY <1>2, FinishCancelledIs, RequestCancelIs DEF Agreed
<1> HIDE DEF js, f, r
<1>5. ASSUME js[j].status \in {"QUEUED", "RUNNING", "AGGREGATING"},
             \E s \in JobRecord :
                /\ s.status \in {"CANCELLED", "CANCEL_REQUESTED"}
                /\ jobs' = [js EXCEPT ![j] = s]
      PROVE  AllMove
  <2>1. /\ jobs'[j].status \in {"CANCELLED", "CANCEL_REQUESTED"}
        /\ \A i \in Jobs : i # j => jobs'[i] = js[i]
    BY <1>2, <1>5 DEF JobsTyped
  <2>2. Moved(jobs[j].status, jobs'[j].status)
    BY <1>3, <1>5, <2>1 DEF Moved
  <2> QED
    BY <2>1, <2>2, OneMoves DEF js
<1>6. CASE CancelWaiting(js, j)
  <2>1. js[j].status \in {"QUEUED", "RUNNING", "AGGREGATING"} /\ jobs' = [js EXCEPT ![j] = f]
    BY <1>6 DEF CancelWaiting, IsWaiting, f
  <2>2. f \in JobRecord
    BY <1>2, FinishCancelledIs DEF Agreed, f
  <2> QED
    BY <2>1, <2>2, <1>4, <1>5
<1>7. CASE CancelStray(js, j)
  <2>1. InQueue(queue, j) <=> IsWaiting(js[j])
    BY Housekeeping DEF Agreed, JobsAgree, js
  <2> QED
    BY <2>1, <1>7 DEF CancelStray, InQueue, QueuedAt
<1>8. CASE CancelUnderWay(js, j)
  <2>1. js[j].status \in {"QUEUED", "RUNNING", "AGGREGATING"} /\ jobs' = [js EXCEPT ![j] = r]
    BY <1>8 DEF CancelUnderWay, r
  <2>2. r \in JobRecord
    BY <1>2, RequestCancelIs DEF Agreed, r
  <2> QED
    BY <2>1, <2>2, <1>4, <1>5
<1>9. CASE CancelAgain(js, j)
  <2>1. jobs' = js
    BY <1>9 DEF CancelAgain
  <2>2. Moved(jobs[j].status, js[j].status)
    BY HousekeepingMoves DEF js
  <2> QED
    BY <2>1, <2>2, OneMoves DEF js
<1> QED
  BY <1>1, <1>6, <1>7, <1>8, <1>9 DEF js

\* Closing cancels what waits and asks the rest to stop.
LEMMA CloseMoves ==
    ASSUME Agreed, Close
    PROVE  AllMove
<1>1. ASSUME NEW j \in Jobs
      PROVE  /\ Moved(jobs[j].status, jobs'[j].status)
             /\ jobs'[j].status = "SUCCEEDED" => jobs[j].status = "SUCCEEDED"
  <2>1. jobs[j] \in JobRecord
    BY DEF Agreed, TypeOK
  <2>2. jobs'[j] = Closed(jobs[j])
    BY DEF Close
  <2>3. /\ FinishCancelled(jobs[j]).status = "CANCELLED"
        /\ RequestCancel(jobs[j]).status = "CANCEL_REQUESTED"
    BY <2>1, FinishCancelledIs, RequestCancelIs DEF Agreed
  <2> QED
    BY <2>2, <2>3 DEF Closed, IsWaiting, Moved
<1> QED
  BY <1>1 DEF AllMove

\* After a close no job waits or runs on.
LEMMA CloseStops ==
    ASSUME Agreed, Close
    PROVE  \A j \in Jobs : jobs'[j].status \notin {"QUEUED", "RUNNING", "AGGREGATING"}
<1>1. SUFFICES ASSUME NEW j \in Jobs
               PROVE  jobs'[j].status \notin {"QUEUED", "RUNNING", "AGGREGATING"}
  OBVIOUS
<1>2. jobs[j] \in JobRecord
  BY DEF Agreed, TypeOK
<1>3. jobs'[j] = Closed(jobs[j])
  BY DEF Close
<1>4. /\ FinishCancelled(jobs[j]).status = "CANCELLED"
      /\ RequestCancel(jobs[j]).status = "CANCEL_REQUESTED"
  BY <1>2, FinishCancelledIs, RequestCancelIs DEF Agreed
<1> QED
  BY <1>3, <1>4 DEF Closed, IsWaiting

\* The dispatcher starts one waiting job, or none.
LEMMA DispatcherMoves ==
    ASSUME Agreed, DispatcherLoop
    PROVE  AllMove
<1>1. PICK gone \in Evictions :
        \/ jobs' = JobsWithout(gone)
        \/ DispatcherTakes(JobsWithout(gone))
  BY DEF DispatcherLoop
<1> DEFINE js == JobsWithout(gone)
           j  == Head(queue)
<1>2. CASE jobs' = js
  <2>1. /\ \A i \in Jobs : Moved(jobs[i].status, jobs'[i].status)
        /\ \A i \in Jobs : jobs'[i].status = "SUCCEEDED" => jobs[i].status = "SUCCEEDED"
    BY <1>2, HousekeepingMoves
  <2> QED
    BY <2>1 DEF AllMove
<1>3. CASE DispatcherTakes(js)
  <2>1. /\ ~closed /\ queue # <<>> /\ js[j].status \in Waiting
        /\ jobs' = [js EXCEPT ![j] = Started(js[j])]
    BY <1>3 DEF DispatcherTakes, Blocked, Dispatchable
  <2>2. j \in Jobs
    BY <2>1, TailIs DEF Agreed, TypeOK
  <2>3. JobsTyped(js, binding) /\ js[j] \in JobRecord
    BY <2>2, Housekeeping DEF JobsTyped, Agreed, TypeOK
  <2>4. Started(js[j]).status = "RUNNING"
    BY <2>3, StartedIs DEF Agreed
  <2>5. jobs'[j].status = "RUNNING" /\ \A i \in Jobs : i # j => jobs'[i] = js[i]
    <3> HIDE DEF js, j
    <3> QED
      BY <2>1, <2>2, <2>3, <2>4 DEF JobsTyped
  <2>6. js[j] = jobs[j]
    BY <2>1, <2>2, HousekeepingMoves DEF Waiting
  <2>7. Moved(jobs[j].status, jobs'[j].status)
    BY <2>1, <2>5, <2>6 DEF Moved, Waiting
  <2> QED
    BY <2>2, <2>5, <2>7, OneMoves
<1> QED
  BY <1>1, <1>2, <1>3

\* A failed recovery fails what waits, and leaves the rest to its callbacks.
LEMMA RecoverEndMoves ==
    ASSUME Agreed, NEW j \in Jobs, NEW built \in BOOLEAN, RecoverEnd(j, built)
    PROVE  AllMove
<1>1. ASSUME NEW i \in Jobs
      PROVE  /\ Moved(jobs[i].status, jobs'[i].status)
             /\ jobs'[i].status = "SUCCEEDED" => jobs[i].status = "SUCCEEDED"
  <2>1. jobs[i] \in JobRecord
    BY DEF Agreed, TypeOK
  <2>2. jobs'[i] = jobs[i] \/ (IsWaiting(jobs[i]) /\ jobs'[i] = Fail(jobs[i], "EXECUTOR_INDISPONIVEL"))
    BY DEF RecoverEnd
  <2>3. Fail(jobs[i], "EXECUTOR_INDISPONIVEL").status = "FAILED"
    BY <2>1, FailIs DEF Agreed
  <2> QED
    BY <2>2, <2>3 DEF IsWaiting, Moved
<1> QED
  BY <1>1 DEF AllMove

\* The two sections of a callback move their own job.
LEMMA SettleMoves ==
    ASSUME Agreed, NEW j \in Jobs, Settle(j)
    PROVE  AllMove
<1>1. StageAgrees(jobs[j], "settle") /\ jobs[j] \in JobRecord /\ outcome[j] \in Outcomes
  BY DEF Settle, Agreed, JobsAgree, TypeOK
<1>2. jobs[j].status \in {"RUNNING", "CANCEL_REQUESTED"}
  BY <1>1 DEF StageAgrees, Dispatched
<1> DEFINE s == Settled(jobs[j], outcome[j])
<1>3. /\ s.status \in {"CANCELLED", "FAILED", "AGGREGATING", "RUNNING"}
      /\ jobs[j].status = "CANCEL_REQUESTED" => s.status = "CANCELLED"
  BY <1>1, <1>2, SettledIs DEF Agreed
<1>4. jobs' = [jobs EXCEPT ![j] = s]
  BY <1>2 DEF Settle
<1>5. jobs'[j] = s /\ \A i \in Jobs : i # j => jobs'[i] = jobs[i]
  <2> HIDE DEF s
  <2> QED
    BY <1>4 DEF Agreed, TypeOK
<1>6. Moved(jobs[j].status, jobs'[j].status)
  <2> HIDE DEF s
  <2> QED
    BY <1>2, <1>3, <1>5 DEF Moved
<1> QED
  BY <1>5, <1>6, OneMovesAlone

\* The second section of a callback ends its job, and no other.
LEMMA AggregateEndMoves ==
    ASSUME Agreed, NEW j \in Jobs, NEW valid \in BOOLEAN, AggregateEnd(j, valid)
    PROVE  AllMove
<1>1. StageAgrees(jobs[j], "aggregating") /\ jobs[j] \in JobRecord
  BY DEF AggregateEnd, Agreed, JobsAgree, TypeOK
<1>2. jobs[j].status \in {"AGGREGATING", "CANCEL_REQUESTED"}
  BY <1>1 DEF StageAgrees
<1> DEFINE s == Aggregated(jobs[j], valid)
<1>3. /\ s.status \in {"CANCELLED", "FAILED", "SUCCEEDED"}
      /\ jobs[j].status = "CANCEL_REQUESTED" => s.status = "CANCELLED"
  BY <1>1, <1>2, AggregatedIs DEF Agreed, Terminal
<1>4. jobs' = [jobs EXCEPT ![j] = s]
  BY <1>2 DEF AggregateEnd
<1>5. jobs'[j] = s /\ \A i \in Jobs : i # j => jobs'[i] = jobs[i]
  <2> HIDE DEF s
  <2> QED
    BY <1>4 DEF Agreed, TypeOK
<1>6. Moved(jobs[j].status, jobs'[j].status)
  <2> HIDE DEF s
  <2> QED
    BY <1>2, <1>3, <1>5 DEF Moved
<1> QED
  BY <1>5, <1>6, OneMovesAlone

\* Every step accepts one job or moves jobs along.
LEMMA NextMoves ==
    ASSUME Agreed, [Next]_vars
    PROVE  AllMove \/ OneEnters
<1>1. ASSUME UNCHANGED jobs
      PROVE  AllMove
  BY <1>1 DEF AllMove, Moved
<1>2. ASSUME NEW j \in Jobs, NEW p \in Payloads, Submit(j, p)
      PROVE  OneEnters
  <2> DEFINE command == [kind |-> "SUBMIT", payload |-> p, retryOf |-> None]
  <2>1. command \in Bindings
    BY DEF Bindings
  <2>2. PICK gone \in Evictions : Accept(JobsWithout(gone), BindingsWithout(gone), j, command)
    BY <1>2 DEF Submit
  <2> HIDE DEF command
  <2> QED
    BY <2>1, <2>2, AcceptEnters
<1>3. ASSUME NEW o \in Jobs, NEW j \in Jobs, Retry(o, j)
      PROVE  OneEnters
  <2>1. PICK gone \in Evictions :
          /\ JobsWithout(gone)[o].status \in {"FAILED", "CANCELLED"}
          /\ Accept(JobsWithout(gone), BindingsWithout(gone), j,
                    [kind |-> "RETRY", payload |-> JobsWithout(gone)[o].request, retryOf |-> o])
    BY <1>3 DEF Retry
  <2> DEFINE js == JobsWithout(gone)
             bs == BindingsWithout(gone)
             command == [kind |-> "RETRY", payload |-> js[o].request, retryOf |-> o]
  <2>2. BindingAgrees(js[o], bs[o]) /\ bs[o] \in Bindings \cup {None}
    BY Housekeeping DEF Agreed, JobsAgree, JobsTyped
  <2>3. command \in Bindings
    BY <2>1, <2>2 DEF BindingAgrees, Bindings
  <2>4. Accept(js, bs, j, command)
    BY <2>1
  <2> HIDE DEF command
  <2> QED
    BY <2>3, <2>4, AcceptEnters
<1>4. CASE Read
  <2>1. PICK gone \in Evictions : jobs' = JobsWithout(gone)
    BY <1>4 DEF Read
  <2>2. \A i \in Jobs : /\ Moved(jobs[i].status, jobs'[i].status)
                        /\ jobs'[i].status = "SUCCEEDED" => jobs[i].status = "SUCCEEDED"
    BY <2>1, HousekeepingMoves
  <2> QED
    BY <2>2 DEF AllMove
<1>5. ASSUME NEW j \in Jobs, Callback(j)
      PROVE  AllMove
  BY <1>1, <1>5, RecoverEndMoves, SettleMoves, AggregateEndMoves DEF Callback, RecoverBegin
<1>6. CASE UNCHANGED vars \/ DispatcherTimesOut \/ (\E j \in Jobs : HandOff(j))
           \/ (\E j \in Jobs, result \in Outcomes : FutureDone(j, result))
           \/ (\E t \in Time : ClockChanges(t))
  BY <1>1, <1>6 DEF vars, DispatcherTimesOut, HandOff, FutureDone, ClockChanges
<1> QED
  BY <1>2, <1>3, <1>4, <1>5, <1>6, CancelMoves, CloseMoves, DispatcherMoves DEF Next

\* A close is final, and nothing starts or is accepted after it.
LEMMA NextClosed ==
    ASSUME Agreed, ClosedExact, [Next]_vars
    PROVE  ClosedExact'
<1>1. CASE Close
  BY <1>1, CloseStops DEF ClosedExact
<1>2. CASE ~Close
  <2>1. closed' = closed
    BY <1>2 DEF Next, vars, Submit, Retry, Accept, Cancel, Read, DispatcherLoop,
                DispatcherTimesOut, HandOff, FutureDone, Callback, RecoverBegin, RecoverEnd,
                Settle, AggregateEnd, ClockChanges
  <2>2. SUFFICES ASSUME closed
                 PROVE  \A j \in Jobs :
                          jobs'[j].status \notin {"QUEUED", "RUNNING", "AGGREGATING"}
    BY <2>1 DEF ClosedExact
  <2>3. AllMove
    BY <2>2, NextMoves DEF OneEnters
  <2> QED
    BY <2>2, <2>3 DEF ClosedExact, AllMove, Moved, Terminal
<1> QED
  BY <1>1, <1>2

\* A smaller set of jobs fits any limit that a larger one fits.
LEMMA FewerFit ==
    ASSUME NEW A, NEW B, A \subseteq B, B \subseteq Jobs, NEW limit \in Nat,
           Cardinality(B) <= limit
    PROVE  Cardinality(A) <= limit
<1>1. IsFiniteSet(Jobs)
  BY ExecutorAssumption DEF ExecutorAssumption
<1>2. IsFiniteSet(A) /\ IsFiniteSet(B)
  BY <1>1, FS_Subset
<1>3. Cardinality(A) <= Cardinality(B) /\ Cardinality(A) \in Nat /\ Cardinality(B) \in Nat
  BY <1>2, FS_Subset, FS_CardinalityType
<1> QED
  BY <1>3

\* So the limits hold for fewer active jobs when they hold for more.
LEMMA CapacityShrinks ==
    ASSUME NEW js, NEW ks, ActiveIn(js) \subseteq ActiveIn(ks),
           Cardinality(ActiveIn(ks)) <= MaxJobsGlobal,
           \A o \in Owners : Cardinality({j \in ActiveIn(ks) : Owner[j] = o}) <= MaxJobsPerOwner
    PROVE  /\ Cardinality(ActiveIn(js)) <= MaxJobsGlobal
           /\ \A o \in Owners :
                Cardinality({j \in ActiveIn(js) : Owner[j] = o}) <= MaxJobsPerOwner
<1>1. MaxJobsGlobal \in Nat /\ MaxJobsPerOwner \in Nat
  BY ExecutorAssumption DEF ExecutorAssumption
<1>2. Cardinality(ActiveIn(js)) <= MaxJobsGlobal
  <2>1. ActiveIn(ks) \subseteq Jobs
    BY DEF ActiveIn
  <2> QED
    BY <2>1, <1>1, FewerFit
<1>3. ASSUME NEW o \in Owners
      PROVE  Cardinality({j \in ActiveIn(js) : Owner[j] = o}) <= MaxJobsPerOwner
  <2> DEFINE c == {j \in ActiveIn(js) : Owner[j] = o}
             d == {j \in ActiveIn(ks) : Owner[j] = o}
  <2>1. c \subseteq d /\ d \subseteq Jobs
    BY DEF ActiveIn
  <2>2. Cardinality(d) <= MaxJobsPerOwner
    BY <1>3
  <2> HIDE DEF c, d
  <2>3. Cardinality(c) <= MaxJobsPerOwner
    BY <2>1, <2>2, <1>1, FewerFit
  <2> QED
    BY <2>3 DEF c
<1> QED
  BY <1>2, <1>3

\* A job that enters takes one place of all, and one of its owner's.
LEMMA OneMoreFits ==
    ASSUME NEW js, NEW j \in Jobs, HasRoom(js, j), j \notin ActiveIn(js), NEW o \in Owners,
           Cardinality({i \in ActiveIn(js) : Owner[i] = o}) <= MaxJobsPerOwner
    PROVE  LET a == ActiveIn(js) \cup {j}
           IN  /\ Cardinality(a) <= MaxJobsGlobal
               /\ Cardinality({i \in a : Owner[i] = o}) <= MaxJobsPerOwner
<1> DEFINE b == ActiveIn(js)
           d == {i \in b : Owner[i] = o}
           a == b \cup {j}
           c == {i \in a : Owner[i] = o}
<1>1. /\ IsFiniteSet(b) /\ IsFiniteSet(d)
      /\ Cardinality(b) \in Nat /\ Cardinality(d) \in Nat
  <2>1. IsFiniteSet(Jobs)
    BY ExecutorAssumption DEF ExecutorAssumption
  <2>2. b \subseteq Jobs /\ d \subseteq Jobs
    BY DEF ActiveIn
  <2> QED
    BY <2>1, <2>2, FS_Subset, FS_CardinalityType
<1>2. Cardinality(a) = Cardinality(b) + 1
  BY <1>1, FS_AddElement
<1>3. Cardinality(a) <= MaxJobsGlobal
  BY <1>1, <1>2, ExecutorAssumption DEF HasRoom, ExecutorAssumption
<1>4. CASE Owner[j] = o
  <2>1. c = d \cup {j} /\ j \notin d
    BY <1>4
  <2>2. Cardinality(c) = Cardinality(d) + 1
    BY <1>1, <2>1, FS_AddElement
  <2>3. Cardinality(d) < MaxJobsPerOwner
    BY <1>4 DEF HasRoom
  <2> HIDE DEF a, b, c, d
  <2>4. Cardinality(c) <= MaxJobsPerOwner
    BY <1>1, <2>2, <2>3, ExecutorAssumption DEF ExecutorAssumption
  <2> QED
    BY <1>3, <2>4 DEF a, b, c
<1>5. CASE Owner[j] # o
  <2>1. c = d
    BY <1>5
  <2> QED
    BY <1>3, <2>1
<1> QED
  BY <1>4, <1>5

\* The capacity limits are never exceeded.
LEMMA NextCapacity ==
    ASSUME Agreed, Capacity, [Next]_vars
    PROVE  Capacity'
<1>1. CASE AllMove
  <2>1. ASSUME NEW j \in Jobs, jobs'[j].status \in Active
        PROVE  jobs[j].status \in Active
    <3>1. Moved(jobs[j].status, jobs'[j].status)
      BY <1>1 DEF AllMove
    <3> QED
      BY <2>1, <3>1 DEF Moved, Active
  <2>2. ActiveIn(jobs') \subseteq ActiveIn(jobs)
    BY <2>1 DEF ActiveIn
  <2> QED
    BY <2>2, CapacityShrinks DEF Capacity
<1>2. CASE OneEnters
  <2>1. PICK gone \in Evictions, j \in Jobs :
          /\ JobsWithout(gone)[j].status = "ABSENT"
          /\ HasRoom(JobsWithout(gone), j)
          /\ jobs'[j].status = "QUEUED"
          /\ \A i \in Jobs : i # j => jobs'[i] = JobsWithout(gone)[i]
    BY <1>2 DEF OneEnters
  <2> DEFINE js == JobsWithout(gone)
  <2>2. ActiveIn(js) \subseteq ActiveIn(jobs)
    BY HousekeepingMoves DEF ActiveIn, Active
  <2>3. ActiveIn(jobs') = ActiveIn(js) \cup {j} /\ j \notin ActiveIn(js)
    BY <2>1 DEF ActiveIn, Active
  <2> HIDE DEF js
  <2>4. \A o \in Owners : Cardinality({i \in ActiveIn(js) : Owner[i] = o}) <= MaxJobsPerOwner
    BY <2>2, CapacityShrinks DEF Capacity
  <2>5. \A o \in Owners :
          /\ Cardinality(ActiveIn(jobs')) <= MaxJobsGlobal
          /\ Cardinality({i \in ActiveIn(jobs') : Owner[i] = o}) <= MaxJobsPerOwner
    BY <2>1, <2>3, <2>4, OneMoreFits DEF js
  <2>6. Owner[j] \in Owners
    BY ExecutorAssumption DEF ExecutorAssumption
  <2> QED
    BY <2>5, <2>6 DEF Capacity
<1> QED
  BY <1>1, <1>2, NextMoves

-----------------------------------------------------------------------------
(* The induction *)

\* The executor starts in the invariant.
LEMMA InitInv == Init => Inv
<1> SUFFICES ASSUME Init
             PROVE  Inv
  OBVIOUS
<1>1. NoJob \in JobRecord /\ NoJob.status = "ABSENT" /\ ~NoJob.current
  BY DEF NoJob, JobRecord, NoTime
<1>2. TypeOK
  <2>1. queue \in Seq(Jobs) /\ pool \in 1..MaxPools /\ clock \in Time /\ alarm \in Int
    BY ExecutorAssumption DEF Init, ExecutorAssumption, Time, NoTime
  <2>2. jobs \in [Jobs -> JobRecord] /\ binding \in [Jobs -> Bindings \cup {None}]
    BY <1>1 DEF Init
  <2>3. stage \in [Jobs -> Stages] /\ outcome \in [Jobs -> Outcomes]
    BY DEF Init, Stages, Outcomes
  <2>4. poolOf \in [Jobs -> 1..MaxPools]
    BY ExecutorAssumption DEF Init, ExecutorAssumption
  <2>5. /\ running \in Nat
        /\ recovering \in BOOLEAN /\ unavailable \in BOOLEAN /\ closed \in BOOLEAN
        /\ dispatcher \in {"awake", "asleep", "away", "stopped"}
        /\ hand \in Jobs \cup {None}
    BY DEF Init
  <2> QED
    BY <2>1, <2>2, <2>3, <2>4, <2>5 DEF TypeOK
<1>3. Distinct(queue) /\ \A j \in Jobs : ~InQueue(queue, j)
  BY DEF Init, Distinct, InQueue
<1>4. \A j \in Jobs : jobs[j].status = "ABSENT" /\ ~jobs[j].current /\ ~IsWaiting(jobs[j])
  BY <1>1 DEF Init, IsWaiting
<1>5. JobsAgree(jobs, binding, queue, stage)
  BY <1>3, <1>4 DEF Init, JobsAgree, StageAgrees, BindingAgrees, Dispatched
<1>6. RunningExact
  <2>1. InFlight = {}
    BY DEF Init, InFlight, Dispatched
  <2> QED
    BY <2>1, FS_EmptySet, ExecutorAssumption DEF Init, RunningExact, ExecutorAssumption
<1>7. RecoveryExact
  BY DEF Init, RecoveryExact
<1>8. NoLostWakeup /\ NoMissedExpiry /\ ClosedExact
  BY DEF Init, NoLostWakeup, NoMissedExpiry, ClosedExact
<1>9. Capacity
  <2>1. ActiveIn(jobs) = {}
    BY <1>4 DEF ActiveIn, Active
  <2>2. \A o \in Owners : {j \in ActiveIn(jobs) : Owner[j] = o} = {}
    BY <2>1
  <2> QED
    BY <2>1, <2>2, FS_EmptySet, ExecutorAssumption DEF Capacity, ExecutorAssumption
<1> QED
  BY <1>2, <1>3, <1>5, <1>6, <1>7, <1>8, <1>9 DEF Inv

\* And every step keeps it.
LEMMA NextInv == Inv /\ [Next]_vars => Inv'
<1> SUFFICES ASSUME Inv, [Next]_vars
             PROVE  Inv'
  OBVIOUS
<1>1. Agreed
  BY DEF Inv, Agreed
<1>2. Agreed'
  BY <1>1, NextAgrees DEF Inv
<1>3. RunningExact' /\ RecoveryExact' /\ NoLostWakeup'
  BY <1>1, NextRunning, NextRecovery, NextWakeup DEF Inv
<1>4. NoMissedExpiry' /\ ClosedExact' /\ Capacity'
  BY <1>1, NextExpiry, NextClosed, NextCapacity DEF Inv
<1> QED
  BY <1>2, <1>3, <1>4 DEF Inv, Agreed

\* Every reachable state of the executor satisfies the invariant, whatever the
\* number of jobs, owners, workers and pools, and whatever the limits.
THEOREM Invariance == Spec => []Inv
BY InitInv, NextInv, PTL DEF Spec

-----------------------------------------------------------------------------
(* What follows *)

\* Every record, stage and counter of the executor stays of its type.
THEOREM TypeCorrect == Spec => []TypeOK
<1>1. Inv => TypeOK
  BY DEF Inv
<1> QED
  BY <1>1, Invariance, PTL

\* _queue holds exactly the waiting jobs, each of them once.
THEOREM QueueIsExact == Spec => []QueueExact
<1>1. Inv => QueueExact
  BY DEF Inv, QueueExact, Distinct, JobsAgree, InQueue
<1> QED
  BY <1>1, Invariance, PTL

\* _running counts the repetitions in flight and never exceeds the workers.
THEOREM SlotsAreExact == Spec => []RunningExact
<1>1. Inv => RunningExact
  BY DEF Inv
<1> QED
  BY <1>1, Invariance, PTL

\* No callback of the pool ever finds its job evicted or in another phase.
THEOREM CallbacksFindTheirJobs == Spec => []CallbackFindsItsJob
<1>1. Inv => CallbackFindsItsJob
  BY DEF Inv, CallbackFindsItsJob, JobsAgree, StageAgrees
<1> QED
  BY <1>1, Invariance, PTL

\* The dispatcher never sleeps while it has work, a free slot and a pool.
THEOREM WakeupsAreNotLost == Spec => []NoLostWakeup
<1>1. Inv => NoLostWakeup
  BY DEF Inv
<1> QED
  BY <1>1, Invariance, PTL

\* A sleeping dispatcher wakes up in time for every expiry.
THEOREM ExpiriesAreNotMissed == Spec => []NoMissedExpiry
<1>1. Inv => NoMissedExpiry
  BY DEF Inv
<1> QED
  BY <1>1, Invariance, PTL

\* An idempotency key is bound exactly while its job is kept, to its command.
THEOREM BindingsAreExact == Spec => []BindingExact
<1>1. Inv => BindingExact
  BY DEF Inv, BindingExact, JobsAgree, BindingAgrees
<1> QED
  BY <1>1, Invariance, PTL

\* The limits on active jobs, in all and per owner, are never exceeded.
THEOREM LimitsHold == Spec => []Capacity
<1>1. Inv => Capacity
  BY DEF Inv
<1> QED
  BY <1>1, Invariance, PTL

\* Once close has set _closed, nothing waits and the queue stays empty.
THEOREM CloseIsFinal == Spec => []ClosedStaysIdle
<1>1. Inv => ClosedStaysIdle
  <2> SUFFICES ASSUME Inv, closed
               PROVE  queue = <<>> /\ \A j \in Jobs : ~IsWaiting(jobs[j])
    BY DEF ClosedStaysIdle
  <2>1. \A j \in Jobs : ~IsWaiting(jobs[j])
    BY DEF Inv, ClosedExact, IsWaiting
  <2>2. queue \in Seq(Jobs) /\ \A j \in Jobs : ~InQueue(queue, j)
    BY <2>1 DEF Inv, TypeOK, JobsAgree
  <2>3. \A i \in DOMAIN queue : queue[i] \in Jobs
    BY <2>2
  <2>4. Len(queue) = 0
    BY <2>2, <2>3 DEF InQueue
  <2> QED
    BY <2>1, <2>2, <2>4
<1> QED
  BY <1>1, Invariance, PTL

\* A cancellation in progress can only end as CANCELLED, and a finished job keeps
\* its ending until it is evicted.
THEOREM CancellationSticks == Spec => CancelSticks
<1> DEFINE Sticks ==
             \A j \in Jobs :
                /\ jobs[j].status = "CANCEL_REQUESTED" =>
                     jobs'[j].status \in {"CANCEL_REQUESTED", "CANCELLED"}
                /\ jobs[j].status \in Terminal =>
                     jobs'[j].status \in {jobs[j].status, "ABSENT", "QUEUED"}
<1>1. ASSUME Inv, [Next]_vars
      PROVE  Sticks
  <2>1. Agreed
    BY <1>1 DEF Inv, Agreed
  <2>2. CASE AllMove
    BY <2>2 DEF AllMove, Moved, Terminal
  <2>3. CASE OneEnters
    <3>1. PICK gone \in Evictions, j \in Jobs :
            /\ JobsWithout(gone)[j].status = "ABSENT"
            /\ jobs'[j].status = "QUEUED"
            /\ \A i \in Jobs : i # j => jobs'[i] = JobsWithout(gone)[i]
      BY <2>3 DEF OneEnters
    <3>2. \A i \in Jobs : \/ JobsWithout(gone)[i] = jobs[i]
                          \/ jobs[i].status \in Terminal /\ JobsWithout(gone)[i].status = "ABSENT"
      BY <2>1, HousekeepingMoves
    <3> QED
      BY <3>1, <3>2 DEF Terminal
  <2> QED
    BY <1>1, <2>1, <2>2, <2>3, NextMoves
<1>2. Inv /\ [Next]_vars => [Sticks]_vars
  BY <1>1
<1> QED
  BY <1>2, Invariance, PTL DEF Spec, CancelSticks

\* A pool is replaced, or given up, only by the recovery of the current pool of an
\* executor that is still open.
THEOREM RecoveryIsExact == Spec => OnlyTheBrokenPoolIsReplaced
<1> DEFINE Replaced ==
             (pool' # pool \/ unavailable' # unavailable) =>
               /\ ~closed
               /\ \E j \in Jobs : stage[j] = "replacing" /\ poolOf[j] = pool
<1>1. ASSUME Inv, [Next]_vars
      PROVE  Replaced
  <2>1. CASE UNCHANGED <<pool, unavailable>>
    BY <2>1
  <2>2. ASSUME NEW j \in Jobs, NEW built \in BOOLEAN, RecoverEnd(j, built)
        PROVE  Replaced
    <3>1. stage[j] = "replacing" /\ poolOf[j] = pool
      BY <1>1, <2>2 DEF RecoverEnd, Inv, RecoveryExact
    <3>2. CASE closed
      BY <2>1, <2>2, <3>2 DEF RecoverEnd
    <3> QED
      BY <3>1, <3>2
  <2>3. ASSUME NEW j \in Jobs, RecoverBegin(j) \/ Settle(j)
                               \/ \E valid \in BOOLEAN : AggregateEnd(j, valid)
        PROVE  UNCHANGED <<pool, unavailable>>
    BY <2>3 DEF RecoverBegin, Settle, AggregateEnd, poolVars
  <2>4. CASE \/ \E j \in Jobs, p \in Payloads : Submit(j, p)
             \/ \E o, j \in Jobs : Retry(o, j)
             \/ \E j \in Jobs : Cancel(j)
             \/ Read \/ Close \/ DispatcherLoop \/ DispatcherTimesOut
             \/ \E j \in Jobs : HandOff(j)
             \/ \E j \in Jobs, result \in Outcomes : FutureDone(j, result)
             \/ \E t \in Time : ClockChanges(t)
             \/ UNCHANGED vars
    <3>1. UNCHANGED <<pool, unavailable>>
      BY <2>4 DEF vars, Submit, Retry, Accept, Cancel, Read, Close, DispatcherLoop,
                  DispatcherTimesOut, HandOff, FutureDone, ClockChanges, poolVars
    <3> QED
      BY <2>1, <3>1
  <2> QED
    BY <1>1, <2>1, <2>2, <2>3, <2>4 DEF Next, Callback
<1>2. Inv /\ [Next]_vars => [Replaced]_vars
  BY <1>1
<1> QED
  BY <1>2, Invariance, PTL DEF Spec, OnlyTheBrokenPoolIsReplaced

-----------------------------------------------------------------------------
(* The executor implements JobLifecycle                                      *)

Statuses == Active \cup Terminal \cup {"ABSENT"}

Phase == [j \in Jobs |-> PhaseOf(jobs[j].status)]

\* The phase of each status.
LEMMA PhasesAre ==
    /\ PhaseOf("ABSENT") = "absent"
    /\ PhaseOf("QUEUED") = "pending" /\ PhaseOf("RUNNING") = "pending"
    /\ PhaseOf("AGGREGATING") = "pending"
    /\ PhaseOf("CANCEL_REQUESTED") = "cancelling"
    /\ PhaseOf("SUCCEEDED") = "succeeded" /\ PhaseOf("FAILED") = "failed"
    /\ PhaseOf("CANCELLED") = "cancelled"
BY DEF PhaseOf

\* The phases after each phase.
LEMMA AfterIs ==
    /\ Lifecycle!After("absent") = {"pending"}
    /\ Lifecycle!After("pending") = {"cancelling", "succeeded", "failed", "cancelled"}
    /\ Lifecycle!After("cancelling") = {"cancelled"}
    /\ Lifecycle!After("succeeded") = {"absent", "pending"}
    /\ Lifecycle!After("failed") = {"absent", "pending"}
    /\ Lifecycle!After("cancelled") = {"absent", "pending"}
BY DEF Lifecycle!After, Lifecycle!Endings

\* A status that moves stays in its phase or moves to a phase after it, and only an
\* accepted job becomes pending.
LEMMA MovedPhases ==
    ASSUME NEW a \in Statuses, NEW b \in Statuses, Moved(a, b)
    PROVE  /\ PhaseOf(b) = PhaseOf(a) \/ PhaseOf(b) \in Lifecycle!After(PhaseOf(a))
           /\ PhaseOf(b) = "pending" => PhaseOf(a) = "pending"
           /\ PhaseOf(b) = "succeeded" <=> b = "SUCCEEDED"
           /\ PhaseOf(a) = "succeeded" <=> a = "SUCCEEDED"
BY PhasesAre, AfterIs DEF Moved, Statuses, Active, Terminal

\* Every step of the executor is a step of the lifecycle, or changes no phase.
LEMMA StepsImplement ==
    ASSUME Inv, Inv', [Next]_vars
    PROVE  Lifecycle!Next
<1>1. \A j \in Jobs : jobs[j].status \in Statuses /\ jobs'[j].status \in Statuses
  BY DEF Inv, TypeOK, JobRecord, Statuses
<1>2. \A j \in Jobs : Phase[j] = PhaseOf(jobs[j].status) /\ Phase'[j] = PhaseOf(jobs'[j].status)
  BY DEF Phase
<1>3. \A s \in Statuses : PhaseOf(s) \in Lifecycle!Phases
  BY PhasesAre DEF Statuses, Active, Terminal, Lifecycle!Phases, Lifecycle!Endings
<1>4. Phase' \in [Jobs -> Lifecycle!Phases]
  BY <1>1, <1>3 DEF Phase
<1>5. CASE AllMove
  <2>1. \A j \in Jobs :
          /\ Phase'[j] = Phase[j] \/ Phase'[j] \in Lifecycle!After(Phase[j])
          /\ Phase'[j] = "pending" => Phase[j] = "pending"
          /\ Phase'[j] = "succeeded" <=> jobs'[j].status = "SUCCEEDED"
          /\ Phase[j] = "succeeded" <=> jobs[j].status = "SUCCEEDED"
    BY <1>1, <1>2, <1>5, MovedPhases DEF AllMove
  <2>2. Lifecycle!AtMostOneEnters("pending")
    BY <2>1 DEF Lifecycle!AtMostOneEnters, Lifecycle!Enters, Phase
  <2>3. Lifecycle!AtMostOneEnters("succeeded")
    BY <2>1, <1>5 DEF AllMove, Lifecycle!AtMostOneEnters, Lifecycle!Enters, Phase
  <2> QED
    BY <1>4, <2>1, <2>2, <2>3 DEF Lifecycle!Next, Phase
<1>6. CASE OneEnters
  <2>1. PICK gone \in Evictions, j \in Jobs :
          /\ JobsWithout(gone)[j].status = "ABSENT"
          /\ jobs'[j].status = "QUEUED"
          /\ \A i \in Jobs : i # j => jobs'[i] = JobsWithout(gone)[i]
    BY <1>6 DEF OneEnters
  <2>2. Agreed
    BY DEF Inv, Agreed
  <2>3. /\ Phase'[j] = "pending"
        /\ Phase[j] \in {"absent", "succeeded", "failed", "cancelled"}
    BY <2>1, <2>2, <1>2, HousekeepingMoves, PhasesAre DEF Terminal
  <2>4. Phase'[j] \in Lifecycle!After(Phase[j])
    BY <2>3, AfterIs
  <2>5. \A i \in Jobs : i # j =>
          /\ Phase'[i] = Phase[i] \/ Phase'[i] \in Lifecycle!After(Phase[i])
          /\ Phase'[i] = "pending" => Phase[i] = "pending"
          /\ Phase'[i] = "succeeded" => Phase[i] = "succeeded"
    <3>1. SUFFICES ASSUME NEW i \in Jobs, i # j
                   PROVE  /\ Phase'[i] = Phase[i] \/ Phase'[i] \in Lifecycle!After(Phase[i])
                          /\ Phase'[i] = "pending" => Phase[i] = "pending"
                          /\ Phase'[i] = "succeeded" => Phase[i] = "succeeded"
      OBVIOUS
    <3>2. /\ Moved(jobs[i].status, jobs'[i].status)
          /\ jobs'[i].status = "SUCCEEDED" => jobs[i].status = "SUCCEEDED"
      BY <2>1, <2>2, <3>1, HousekeepingMoves
    <3> QED
      BY <1>1, <1>2, <3>2, MovedPhases
  <2>6. Lifecycle!AtMostOneEnters("pending") /\ Lifecycle!AtMostOneEnters("succeeded")
    BY <2>3, <2>5 DEF Lifecycle!AtMostOneEnters, Lifecycle!Enters, Phase
  <2> QED
    BY <1>4, <2>4, <2>5, <2>6 DEF Lifecycle!Next, Phase
<1> QED
  <2>1. Agreed
    BY DEF Inv, Agreed
  <2> QED
    BY <2>1, <1>5, <1>6, NextMoves

\* Seen from its status alone, every job follows the lifecycle its users rely on:
\* it ends once, keeps its ending until it is forgotten, and a step of the executor
\* accepts at most one job and succeeds at most one.
THEOREM LifecycleIsImplemented == Spec => ImplementsLifecycle
<1>1. Init => Lifecycle!Init
  BY PhasesAre DEF Init, NoJob, Lifecycle!Init
<1>2. Inv /\ Inv' /\ [Next]_vars => [Lifecycle!Next]_Phase
  BY StepsImplement
<1> QED
  BY <1>1, <1>2, Invariance, PTL DEF Spec, ImplementsLifecycle, Lifecycle!Spec, Phase

-----------------------------------------------------------------------------
(* Snapshots *)

\* A record by itself: its times are in order, it has counted no more repetitions than its
\* command asks for, and only a started job has any.
Sound(r) ==
    r.status # "ABSENT" =>
        /\ r.request \in Payloads
        /\ r.createdAt \in Time /\ r.updatedAt \in Time /\ r.createdAt <= r.updatedAt
        /\ r.startedAt # NoTime => r.createdAt <= r.startedAt /\ r.startedAt <= r.updatedAt
        /\ r.finishedAt = (IF r.status \in Terminal THEN r.updatedAt ELSE NoTime)
        /\ r.completed + r.failed <= Repetitions[r.request]
        /\ r.startedAt = NoTime => /\ r.status \notin {"RUNNING", "AGGREGATING"}
                                   /\ r.completed = 0 /\ r.failed = 0 /\ ~r.current
        /\ r.status = "QUEUED" => r.startedAt = NoTime
        /\ r.status = "RUNNING" => r.failed = 0 /\ r.completed < Repetitions[r.request]
        /\ r.status = "AGGREGATING" => r.completed = Repetitions[r.request]

\* A job that failed says why and no other does; what is aggregated is all its repetitions.
EndsWell(r) ==
    /\ r.status = "FAILED" <=> r.error # "none"
    /\ r.status \in {"AGGREGATING", "SUCCEEDED"} =>
         r.completed = Repetitions[r.request] /\ r.failed = 0 /\ ~r.current

AllSound == \A j \in Jobs : Sound(jobs[j]) /\ EndsWell(jobs[j])

LEMMA NoJobIsSound == NoJob \in JobRecord /\ Sound(NoJob) /\ EndsWell(NoJob)
BY DEF NoJob, Sound, EndsWell, JobRecord, NoTime

LEMMA TimeIs == Time \subseteq Nat /\ NoTime \notin Time /\ NoTime \in Int
BY ExecutorAssumption DEF Time, NoTime, ExecutorAssumption

LEMMA TimesAre ==
    ASSUME NEW r \in JobRecord, Sound(r), r.status # "ABSENT"
    PROVE  /\ r.createdAt \in Nat /\ r.updatedAt \in Nat /\ r.startedAt \in Int
           /\ r.createdAt \in Time /\ r.updatedAt \in Time /\ r.updatedAt # NoTime
           /\ r.createdAt <= r.updatedAt
           /\ r.startedAt # NoTime => r.createdAt <= r.startedAt /\ r.startedAt <= r.updatedAt
           /\ r.request \in Payloads /\ Repetitions[r.request] \in Nat \ {0}
           /\ r.completed \in Nat /\ r.failed \in Nat
           /\ r.completed + r.failed <= Repetitions[r.request]
           /\ r.status \notin Terminal => r.finishedAt = NoTime
<1>1. /\ r.createdAt \in Time /\ r.updatedAt \in Time /\ r.createdAt <= r.updatedAt
      /\ r.startedAt # NoTime => r.createdAt <= r.startedAt /\ r.startedAt <= r.updatedAt
      /\ r.request \in Payloads /\ r.completed + r.failed <= Repetitions[r.request]
      /\ r.status \notin Terminal => r.finishedAt = NoTime
  BY DEF Sound
<1>2. r.startedAt \in Time \cup {NoTime} /\ r.completed \in Nat /\ r.failed \in Nat
  BY DEF JobRecord
<1>3. r.startedAt \in Int /\ r.createdAt \in Nat /\ r.updatedAt \in Nat /\ r.updatedAt # NoTime
  BY <1>1, <1>2, TimeIs
<1>4. Repetitions[r.request] \in Nat \ {0}
  BY <1>1, ExecutorAssumption DEF ExecutorAssumption
<1> QED
  BY <1>1, <1>2, <1>3, <1>4

LEMMA NewJobIsSound ==
    ASSUME TypeOK, NEW p \in Payloads, NEW o \in Jobs \cup {None}
    PROVE  Sound(NewJob(p, o)) /\ EndsWell(NewJob(p, o))
<1>1. /\ NewJob(p, o).status = "QUEUED" /\ NewJob(p, o).request = p
      /\ NewJob(p, o).createdAt = clock /\ NewJob(p, o).updatedAt = clock
      /\ NewJob(p, o).startedAt = NoTime /\ NewJob(p, o).finishedAt = NoTime
      /\ NewJob(p, o).completed = 0 /\ NewJob(p, o).failed = 0 /\ ~NewJob(p, o).current
      /\ NewJob(p, o).error = "none"
  BY DEF NewJob, NoJob
<1>2. clock \in Time /\ clock <= clock /\ Repetitions[p] \in Nat \ {0}
  BY TimeIs, ExecutorAssumption DEF TypeOK, ExecutorAssumption
<1> HIDE DEF NewJob
<1>3. "QUEUED" \notin Terminal
  BY DEF Terminal
<1>4. EndsWell(NewJob(p, o))
  BY <1>1 DEF EndsWell
<1> QED
  BY <1>1, <1>2, <1>3, <1>4 DEF Sound

\* A step of the record r to s, in which time passed: its counters and its start are kept.
LEMMA Later ==
    ASSUME TypeOK, NEW r \in JobRecord, NEW s \in JobRecord, Sound(r), r.status # "ABSENT",
           s.request = r.request, s.createdAt = r.createdAt, s.startedAt = r.startedAt,
           s.completed = r.completed, s.failed = r.failed,
           s.updatedAt \in {r.updatedAt, NowFor(r)},
           s.finishedAt = (IF s.status \in Terminal THEN s.updatedAt ELSE NoTime),
           s.status \in {"CANCEL_REQUESTED", "CANCELLED", "FAILED", "SUCCEEDED"},
           s.current => r.current
    PROVE  Sound(s)
<1>1. s.updatedAt \in Time /\ r.updatedAt <= s.updatedAt
  <2>1. NowFor(r) \in Time /\ r.updatedAt <= NowFor(r)
    BY NowForIs
  <2>2. r.updatedAt \in Time /\ r.updatedAt <= r.updatedAt
    BY TimesAre
  <2> QED
    BY <2>1, <2>2
<1>2. s.createdAt <= s.updatedAt /\ (s.startedAt # NoTime => s.startedAt <= s.updatedAt)
  <2>1. /\ r.createdAt \in Nat /\ r.updatedAt \in Nat /\ s.updatedAt \in Nat
        /\ r.startedAt \in Int /\ r.createdAt <= r.updatedAt
        /\ r.startedAt # NoTime => r.startedAt <= r.updatedAt
    BY <1>1, TimeIs, TimesAre
  <2> QED
    BY <1>1, <2>1
<1> QED
  BY <1>1, <1>2 DEF Sound

Marked(r, status, code) == [r EXCEPT !.status = status, !.error = code]

LEMMA MarkedFields ==
    ASSUME NEW r \in JobRecord, NEW status \in Terminal,
           NEW code \in {"none", "EXECUTOR_INDISPONIVEL", "DIAGNOSTICO_INVALIDO"}
    PROVE  LET t == Marked(r, status, code)
           IN  /\ t \in JobRecord /\ t.request = r.request /\ t.createdAt = r.createdAt
               /\ t.startedAt = r.startedAt /\ t.completed = r.completed
               /\ t.failed = r.failed /\ t.updatedAt = r.updatedAt
               /\ t.status = status /\ t.error = code
<1>1. Marked(r, status, code) \in JobRecord
  BY DEF Marked, JobRecord, Terminal
<1> QED
  BY <1>1 DEF Marked, JobRecord

LEMMA FinishFields ==
    ASSUME TypeOK, NEW r \in JobRecord
    PROVE  LET s == FinishTerminal(r)
           IN  /\ s.request = r.request /\ s.createdAt = r.createdAt
               /\ s.startedAt = r.startedAt /\ s.completed = r.completed /\ s.failed = r.failed
               /\ s.status = r.status /\ ~s.current
               /\ s.updatedAt = NowFor(r) /\ s.finishedAt = NowFor(r) /\ s.error = r.error
BY DEF FinishTerminal, JobRecord

LEMMA FinishedIsSound ==
    ASSUME TypeOK, NEW r \in JobRecord, Sound(r), r.status # "ABSENT",
           NEW status \in Terminal,
           NEW code \in {"none", "EXECUTOR_INDISPONIVEL", "DIAGNOSTICO_INVALIDO"}
    PROVE  Sound(FinishTerminal([r EXCEPT !.status = status, !.error = code]))
<1> DEFINE t == Marked(r, status, code)
           s == FinishTerminal(t)
<1>1. /\ t \in JobRecord /\ t.request = r.request /\ t.createdAt = r.createdAt
      /\ t.startedAt = r.startedAt /\ t.completed = r.completed /\ t.failed = r.failed
      /\ t.status = status /\ t.updatedAt = r.updatedAt
  BY MarkedFields
<1>2. NowFor(t) = NowFor(r)
  BY <1>1 DEF NowFor
<1> HIDE DEF t
<1>3. s \in JobRecord
  BY <1>1, NowForIs DEF FinishTerminal, JobRecord
<1>4. /\ s.request = r.request /\ s.createdAt = r.createdAt
      /\ s.startedAt = r.startedAt /\ s.completed = r.completed /\ s.failed = r.failed
      /\ s.status = status /\ ~s.current /\ s.updatedAt = NowFor(r) /\ s.finishedAt = NowFor(r)
  BY <1>1, <1>2, FinishFields
<1> HIDE DEF s
<1>5. status \in {"CANCEL_REQUESTED", "CANCELLED", "FAILED", "SUCCEEDED"}
  BY DEF Terminal
<1>6. Sound(s)
  BY <1>3, <1>4, <1>5, Later
<1> QED
  BY <1>6 DEF s, t, Marked

LEMMA FinishedEndsWell ==
    ASSUME TypeOK, NEW r \in JobRecord, NEW status \in Terminal,
           NEW code \in {"none", "EXECUTOR_INDISPONIVEL", "DIAGNOSTICO_INVALIDO"},
           status = "FAILED" <=> code # "none",
           status = "SUCCEEDED" => r.completed = Repetitions[r.request] /\ r.failed = 0
    PROVE  EndsWell(FinishTerminal([r EXCEPT !.status = status, !.error = code]))
<1> DEFINE t == Marked(r, status, code)
           s == FinishTerminal(t)
<1>1. /\ t \in JobRecord /\ t.request = r.request /\ t.completed = r.completed
      /\ t.failed = r.failed /\ t.status = status /\ t.error = code
  BY MarkedFields
<1> HIDE DEF t
<1>2. /\ s.request = r.request /\ s.completed = r.completed /\ s.failed = r.failed
      /\ s.status = status /\ ~s.current /\ s.error = code
  BY <1>1, FinishFields
<1> HIDE DEF s
<1>3. EndsWell(s)
  BY <1>2 DEF EndsWell, Terminal
<1> QED
  BY <1>3 DEF s, t, Marked

LEMMA CancelledIsSound ==
    ASSUME TypeOK, NEW r \in JobRecord, Sound(r), r.status # "ABSENT"
    PROVE  Sound(FinishCancelled(r)) /\ EndsWell(FinishCancelled(r))
BY FinishedIsSound, FinishedEndsWell DEF FinishCancelled, Terminal

LEMMA FailedIsSound ==
    ASSUME TypeOK, NEW r \in JobRecord, Sound(r), r.status # "ABSENT",
           NEW code \in {"EXECUTOR_INDISPONIVEL", "DIAGNOSTICO_INVALIDO"}
    PROVE  Sound(Fail(r, code)) /\ EndsWell(Fail(r, code))
BY FinishedIsSound, FinishedEndsWell DEF Fail, Terminal

LEMMA RequestedIsSound ==
    ASSUME TypeOK, NEW r \in JobRecord, Sound(r), EndsWell(r), r.status \in Active
    PROVE  /\ Sound(RequestCancel(r)) /\ EndsWell(RequestCancel(r))
           /\ Sound([r EXCEPT !.status = "CANCEL_REQUESTED"])
           /\ EndsWell([r EXCEPT !.status = "CANCEL_REQUESTED"])
<1>1. r.status # "ABSENT" /\ r.status \notin Terminal
  BY DEF Active, Terminal
<1> DEFINE t == [r EXCEPT !.status = "CANCEL_REQUESTED"]
<1>2. /\ t \in JobRecord /\ t.request = r.request /\ t.createdAt = r.createdAt
      /\ t.startedAt = r.startedAt /\ t.completed = r.completed /\ t.failed = r.failed
      /\ t.status = "CANCEL_REQUESTED" /\ t.updatedAt = r.updatedAt /\ t.finishedAt = NoTime
      /\ (t.current <=> r.current) /\ t.error = r.error
  BY <1>1 DEF JobRecord, Active, Sound
<1>3. NowFor(t) = NowFor(r)
  BY <1>2 DEF NowFor
<1> HIDE DEF t
<1>4. "CANCEL_REQUESTED" \notin Terminal
  BY DEF Terminal
<1>5. Sound(t)
  BY <1>1, <1>2, <1>4, Later
<1> DEFINE s == RequestCancel(r)
<1>6. /\ s.request = r.request /\ s.createdAt = r.createdAt
      /\ s.startedAt = r.startedAt /\ s.completed = r.completed /\ s.failed = r.failed
      /\ s.status = "CANCEL_REQUESTED" /\ s.updatedAt = NowFor(r) /\ s.finishedAt = NoTime
      /\ (s.current <=> r.current) /\ s.error = r.error
  <2>1. s = [t EXCEPT !.updatedAt = NowFor(t)]
    BY DEF RequestCancel, Touch, t
  <2> QED
    BY <1>2, <1>3, <2>1 DEF JobRecord
<1>7. s \in JobRecord
  BY RequestCancelIs
<1> HIDE DEF s
<1>8. Sound(s)
  BY <1>1, <1>4, <1>6, <1>7, Later
<1>9. r.error = "none"
  BY DEF EndsWell, Active
<1>10. EndsWell(s) /\ EndsWell(t)
  BY <1>2, <1>6, <1>9 DEF EndsWell
<1> QED
  BY <1>5, <1>8, <1>10 DEF s, t

LEMMA StartedIsSound ==
    ASSUME TypeOK, NEW r \in JobRecord, Sound(r), EndsWell(r), r.status \in Waiting
    PROVE  Sound(Started(r)) /\ EndsWell(Started(r))
<1> DEFINE s == Started(r)
           at == IF r.startedAt = NoTime THEN NowFor(r) ELSE r.startedAt
<1>1. /\ s.request = r.request /\ s.createdAt = r.createdAt /\ s.startedAt = at
      /\ s.completed = r.completed /\ s.failed = r.failed /\ s.status = "RUNNING"
      /\ s.updatedAt = NowFor(r) /\ s.finishedAt = r.finishedAt /\ s.current
      /\ s.error = r.error
  BY DEF Started, JobRecord
<1>2. NowFor(r) \in Time /\ r.updatedAt <= NowFor(r) /\ r.status \notin Terminal
      /\ r.status # "ABSENT" /\ r.status \in {"QUEUED", "RUNNING"}
  BY NowForIs DEF Waiting, Terminal
<1>3. /\ r.createdAt \in Nat /\ r.updatedAt \in Nat /\ NowFor(r) \in Nat /\ r.startedAt \in Int
      /\ r.createdAt <= r.updatedAt
      /\ r.startedAt # NoTime => r.createdAt <= r.startedAt /\ r.startedAt <= r.updatedAt
      /\ r.request \in Payloads /\ r.finishedAt = NoTime /\ r.createdAt \in Time
  BY <1>2, TimeIs, TimesAre
<1>4. /\ at # NoTime /\ r.createdAt <= at /\ at <= NowFor(r) /\ r.createdAt <= NowFor(r)
  BY <1>2, <1>3, TimeIs
<1>5. Repetitions[r.request] \in Nat \ {0} /\ r.completed \in Nat /\ r.failed \in Nat
  BY <1>3, ExecutorAssumption DEF ExecutorAssumption, JobRecord
<1>6. r.failed = 0 /\ r.completed < Repetitions[r.request]
  BY <1>2, <1>5 DEF Sound
<1> HIDE DEF s, at
<1>7. "RUNNING" \notin Terminal
  BY DEF Terminal
<1>8. Sound(s)
  BY <1>1, <1>2, <1>3, <1>4, <1>5, <1>6, <1>7 DEF Sound
<1>9. EndsWell(s)
  BY <1>1, <1>2 DEF EndsWell
<1> QED
  BY <1>8, <1>9 DEF s

LEMMA SettledIsSound ==
    ASSUME TypeOK, NEW r \in JobRecord, NEW result \in Outcomes, Sound(r), EndsWell(r),
           r.status \in {"RUNNING", "CANCEL_REQUESTED"}, r.current
    PROVE  Sound(Settled(r, result)) /\ EndsWell(Settled(r, result))
<1> DEFINE t == [r EXCEPT !.current = FALSE]
           s == Touch(t)
           f == [s EXCEPT !.failed = @ + 1]
           n == IF r.completed + 1 = Repetitions[r.request] THEN "AGGREGATING" ELSE "RUNNING"
           g == [s EXCEPT !.completed = @ + 1, !.status = n]
<1>1. t \in JobRecord /\ t.updatedAt = r.updatedAt
  BY DEF JobRecord
<1>2. NowFor(t) = NowFor(r) /\ NowFor(r) \in Time /\ r.updatedAt <= NowFor(r)
  BY <1>1, NowForIs DEF NowFor
<1>3. /\ s \in JobRecord /\ s.request = r.request /\ s.createdAt = r.createdAt
      /\ s.startedAt = r.startedAt /\ s.completed = r.completed /\ s.failed = r.failed
      /\ s.status = r.status /\ s.updatedAt = NowFor(r) /\ s.finishedAt = r.finishedAt
      /\ ~s.current /\ s.error = r.error
  <2> HIDE DEF t
  <2>1. s = [t EXCEPT !.updatedAt = NowFor(t)]
    BY DEF Touch
  <2>2. /\ t.request = r.request /\ t.createdAt = r.createdAt
        /\ t.startedAt = r.startedAt /\ t.completed = r.completed /\ t.failed = r.failed
        /\ t.status = r.status /\ t.finishedAt = r.finishedAt /\ ~t.current
        /\ t.error = r.error
    BY DEF JobRecord, t
  <2> QED
    BY <1>1, <1>2, <2>1, <2>2 DEF JobRecord
<1>4. r.status \notin Terminal /\ r.status # "ABSENT" /\ r.startedAt # NoTime
  BY DEF Terminal, Sound
<1>5. /\ r.createdAt \in Nat /\ r.updatedAt \in Nat /\ NowFor(r) \in Nat /\ r.startedAt \in Nat
      /\ r.createdAt <= r.updatedAt /\ r.createdAt <= r.startedAt /\ r.startedAt <= r.updatedAt
      /\ r.request \in Payloads /\ r.finishedAt = NoTime /\ r.createdAt \in Time
      /\ Repetitions[r.request] \in Nat \ {0} /\ r.completed \in Nat /\ r.failed \in Nat
      /\ r.completed + r.failed <= Repetitions[r.request]
  BY <1>2, <1>4, TimeIs, ExecutorAssumption DEF Sound, JobRecord, ExecutorAssumption
<1>6. r.createdAt <= NowFor(r) /\ r.startedAt <= NowFor(r)
  BY <1>2, <1>5
<1> HIDE DEF s, t
<1>7. CASE r.status = "CANCEL_REQUESTED"
  <2>1. Settled(r, result) = FinishCancelled(s)
    BY <1>3, <1>7 DEF Settled, s, t
  <2>2. Sound(s)
    BY <1>2, <1>3, <1>4, <1>5, <1>6, <1>7 DEF Sound
  <2> QED
    BY <1>3, <1>4, <2>1, <2>2, CancelledIsSound
<1>8. CASE r.status = "RUNNING" /\ result # "ok"
  <2> DEFINE c == IF result = "broken" THEN "EXECUTOR_INDISPONIVEL" ELSE "DIAGNOSTICO_INVALIDO"
             e == FinishTerminal([f EXCEPT !.status = "FAILED", !.error = c])
  <2>1. Settled(r, result) = e
    BY <1>3, <1>8 DEF Settled, Fail, s, t
  <2>2. r.failed = 0 /\ r.completed < Repetitions[r.request]
    BY <1>8 DEF Sound
  <2>3. c \in {"EXECUTOR_INDISPONIVEL", "DIAGNOSTICO_INVALIDO"}
    OBVIOUS
  <2> HIDE DEF c
  <2> DEFINE h == [f EXCEPT !.status = "FAILED", !.error = c]
  <2>4. /\ h \in JobRecord /\ h.request = r.request /\ h.createdAt = r.createdAt
        /\ h.startedAt = r.startedAt /\ h.completed = r.completed /\ h.failed = 1
        /\ h.status = "FAILED" /\ h.updatedAt = NowFor(r)
    <3>1. /\ f \in JobRecord /\ f.request = s.request /\ f.createdAt = s.createdAt
          /\ f.startedAt = s.startedAt /\ f.completed = s.completed /\ f.failed = s.failed + 1
          /\ f.updatedAt = s.updatedAt
      BY <1>3 DEF JobRecord
    <3> HIDE DEF f
    <3>2. /\ h \in JobRecord /\ h.request = f.request /\ h.createdAt = f.createdAt
          /\ h.startedAt = f.startedAt /\ h.completed = f.completed /\ h.failed = f.failed
          /\ h.status = "FAILED" /\ h.updatedAt = f.updatedAt
      <4>1. "FAILED" \in Terminal
        BY DEF Terminal
      <4>2. h = Marked(f, "FAILED", c)
        BY DEF Marked
      <4> HIDE DEF h
      <4> QED
        BY <2>3, <3>1, <4>1, <4>2, MarkedFields
    <3> HIDE DEF h
    <3> QED
      BY <1>3, <2>2, <3>1, <3>2
  <2>5. e = FinishTerminal(h)
    OBVIOUS
  <2> HIDE DEF h, e
  <2>6. /\ e.request = h.request /\ e.createdAt = h.createdAt /\ e.startedAt = h.startedAt
        /\ e.completed = h.completed /\ e.failed = h.failed /\ e.status = h.status /\ ~e.current
        /\ e.updatedAt = NowFor(h) /\ e.finishedAt = NowFor(h)
    BY <2>4, <2>5, FinishFields
  <2>7. NowFor(h) \in Time /\ NowFor(r) <= NowFor(h)
    <3>1. NowFor(h) \in Time /\ h.updatedAt <= NowFor(h)
      BY <2>4, NowForIs
    <3> QED
      BY <2>4, <3>1
  <2>8. NowFor(h) \in Nat /\ r.createdAt <= NowFor(h) /\ r.startedAt <= NowFor(h)
    <3>1. NowFor(h) \in Nat
      BY <2>7, TimeIs
    <3> QED
      BY <1>5, <1>6, <2>7, <3>1
  <2>9. "FAILED" \in Terminal
    BY DEF Terminal
  <2>10. Sound(e)
    BY <1>4, <1>5, <2>2, <2>4, <2>6, <2>7, <2>8, <2>9 DEF Sound
  <2>11. EndsWell(e)
    <3>1. f \in JobRecord
      BY <1>3 DEF JobRecord
    <3> HIDE DEF f
    <3>2. EndsWell(FinishTerminal(h))
      BY <2>3, <2>9, <3>1, FinishedEndsWell DEF h
    <3> QED
      BY <2>5, <3>2
  <2> QED
    BY <2>1, <2>10, <2>11
<1>9. CASE r.status = "RUNNING" /\ result = "ok"
  <2>1. Settled(r, result) = g
    BY <1>3, <1>9 DEF Settled, s, t
  <2>2. r.failed = 0 /\ r.completed < Repetitions[r.request]
    BY <1>9 DEF Sound
  <2>3. \/ n = "AGGREGATING" /\ r.completed + 1 = Repetitions[r.request]
        \/ n = "RUNNING" /\ r.completed + 1 # Repetitions[r.request]
    OBVIOUS
  <2> HIDE DEF n
  <2>4. /\ g.request = r.request /\ g.createdAt = r.createdAt
        /\ g.startedAt = r.startedAt /\ g.completed = r.completed + 1 /\ g.failed = 0
        /\ g.status = n /\ g.updatedAt = NowFor(r) /\ g.finishedAt = NoTime
        /\ g.error = r.error /\ ~g.current
    BY <1>3, <1>5, <2>2 DEF JobRecord
  <2> HIDE DEF g
  <2>5. "RUNNING" \notin Terminal /\ "AGGREGATING" \notin Terminal
    BY DEF Terminal
  <2>6. r.completed + 1 <= Repetitions[r.request]
        /\ (r.completed + 1 # Repetitions[r.request] => r.completed + 1 < Repetitions[r.request])
    BY <1>5, <2>2
  <2>7. Sound(g)
    BY <1>2, <1>4, <1>5, <1>6, <2>3, <2>4, <2>5, <2>6 DEF Sound
  <2>8. r.error = "none"
    BY <1>9 DEF EndsWell
  <2>9. EndsWell(g)
    BY <2>3, <2>4, <2>8 DEF EndsWell
  <2> QED
    BY <2>1, <2>7, <2>9
<1> QED
  BY <1>7, <1>8, <1>9

LEMMA AggregatedIsSound ==
    ASSUME TypeOK, NEW r \in JobRecord, Sound(r), EndsWell(r), NEW valid \in BOOLEAN,
           r.status \in {"AGGREGATING", "CANCEL_REQUESTED"}
    PROVE  Sound(Aggregated(r, valid)) /\ EndsWell(Aggregated(r, valid))
<1>1. CASE r.status = "AGGREGATING"
  <2> DEFINE e == FinishTerminal([r EXCEPT !.status = "SUCCEEDED", !.error = "none"])
  <2>1. r.error = "none"
    BY <1>1 DEF EndsWell
  <2>2. [r EXCEPT !.status = "SUCCEEDED"] = [r EXCEPT !.status = "SUCCEEDED", !.error = "none"]
    BY <2>1 DEF JobRecord
  <2>3. "SUCCEEDED" \in Terminal
    BY DEF Terminal
  <2>4. r.completed = Repetitions[r.request] /\ r.failed = 0
    BY <1>1 DEF EndsWell
  <2>5. Sound(e)
    BY <1>1, <2>3, FinishedIsSound
  <2>6. EndsWell(e)
    BY <2>3, <2>4, FinishedEndsWell
  <2>7. e = FinishTerminal([r EXCEPT !.status = "SUCCEEDED"])
    BY <2>2
  <2> HIDE DEF e
  <2> QED
    BY <1>1, <2>5, <2>6, <2>7, FailedIsSound DEF Aggregated
<1>2. CASE r.status = "CANCEL_REQUESTED"
  BY <1>2, CancelledIsSound DEF Aggregated
<1> QED
  BY <1>1, <1>2

\* Housekeeping, and then one record is written.
LEMMA OneMoreSound ==
    ASSUME Agreed, AllSound, NEW gone \in Evictions, NEW j \in Jobs, NEW r,
           Sound(r), EndsWell(r), jobs' = [JobsWithout(gone) EXCEPT ![j] = r]
    PROVE  AllSound'
<1>1. \A i \in Jobs : JobsWithout(gone)[i] = jobs[i] \/ JobsWithout(gone)[i] = NoJob
  BY DEF JobsWithout
<1>2. \A i \in Jobs : jobs'[i] = r \/ jobs'[i] = jobs[i] \/ jobs'[i] = NoJob
  BY <1>1 DEF JobsWithout
<1> QED
  BY <1>2, NoJobIsSound DEF AllSound

LEMMA KeptSound ==
    ASSUME Agreed, AllSound, NEW gone \in Evictions
    PROVE  \A j \in Jobs : /\ JobsWithout(gone)[j] \in JobRecord
                           /\ Sound(JobsWithout(gone)[j])
                           /\ EndsWell(JobsWithout(gone)[j])
<1>1. \A i \in Jobs : JobsWithout(gone)[i] = jobs[i] \/ JobsWithout(gone)[i] = NoJob
  BY DEF JobsWithout
<1> QED
  BY <1>1, NoJobIsSound DEF AllSound, Agreed, TypeOK

LEMMA CommandsSound ==
    ASSUME Agreed, AllSound,
           \/ \E j \in Jobs, p \in Payloads : Submit(j, p)
           \/ \E o, j \in Jobs : Retry(o, j)
           \/ \E j \in Jobs : Cancel(j)
           \/ Read \/ Close
    PROVE  AllSound'
<1>0. TypeOK
  BY DEF Agreed
<1>1. ASSUME NEW j \in Jobs, NEW p \in Payloads, Submit(j, p)
      PROVE  AllSound'
  <2>1. PICK gone \in Evictions :
          jobs' = [JobsWithout(gone) EXCEPT ![j] = NewJob(p, None)]
    BY <1>1 DEF Submit, Accept
  <2>2. Sound(NewJob(p, None)) /\ EndsWell(NewJob(p, None))
    BY <1>0, NewJobIsSound
  <2> QED
    BY <2>1, <2>2, OneMoreSound
<1>2. ASSUME NEW o \in Jobs, NEW j \in Jobs, Retry(o, j)
      PROVE  AllSound'
  <2>1. PICK gone \in Evictions :
          /\ JobsWithout(gone)[o].status \in {"FAILED", "CANCELLED"}
          /\ jobs' = [JobsWithout(gone) EXCEPT ![j] = NewJob(JobsWithout(gone)[o].request, o)]
    BY <1>2 DEF Retry, Accept
  <2>2. JobsWithout(gone)[o].request \in Payloads
    BY <2>1, KeptSound DEF Sound
  <2>3. /\ Sound(NewJob(JobsWithout(gone)[o].request, o))
        /\ EndsWell(NewJob(JobsWithout(gone)[o].request, o))
    BY <1>0, <2>2, NewJobIsSound
  <2> QED
    BY <2>1, <2>3, OneMoreSound
<1>3. ASSUME NEW j \in Jobs, Cancel(j)
      PROVE  AllSound'
  <2>1. PICK gone \in Evictions :
          \/ CancelWaiting(JobsWithout(gone), j) \/ CancelStray(JobsWithout(gone), j)
          \/ CancelUnderWay(JobsWithout(gone), j) \/ CancelAgain(JobsWithout(gone), j)
    BY <1>3 DEF Cancel
  <2> DEFINE r == JobsWithout(gone)[j]
  <2>2. r \in JobRecord /\ Sound(r) /\ EndsWell(r)
    BY KeptSound
  <2>3. CASE CancelAgain(JobsWithout(gone), j)
    BY <2>3, KeptSound DEF CancelAgain, AllSound
  <2>4. CASE CancelWaiting(JobsWithout(gone), j)
    <3>1. /\ Sound(FinishCancelled(r)) /\ EndsWell(FinishCancelled(r))
          /\ jobs' = [JobsWithout(gone) EXCEPT ![j] = FinishCancelled(r)]
      BY <1>0, <2>2, <2>4, CancelledIsSound DEF CancelWaiting, IsWaiting
    <3> QED
      BY <3>1, OneMoreSound
  <2>5. CASE CancelStray(JobsWithout(gone), j) \/ CancelUnderWay(JobsWithout(gone), j)
    <3>1. r.status \in Active
      BY <2>5 DEF CancelStray, CancelUnderWay, IsWaiting, Active
    <3>2. /\ Sound(RequestCancel(r)) /\ EndsWell(RequestCancel(r))
          /\ Sound([r EXCEPT !.status = "CANCEL_REQUESTED"])
          /\ EndsWell([r EXCEPT !.status = "CANCEL_REQUESTED"])
      BY <1>0, <2>2, <3>1, RequestedIsSound
    <3>3. \/ jobs' = [JobsWithout(gone) EXCEPT ![j] = RequestCancel(r)]
          \/ jobs' = [JobsWithout(gone) EXCEPT ![j] = [r EXCEPT !.status = "CANCEL_REQUESTED"]]
      BY <2>5 DEF CancelStray, CancelUnderWay
    <3> QED
      BY <3>2, <3>3, OneMoreSound
  <2> QED
    BY <2>1, <2>3, <2>4, <2>5
<1>4. CASE Read
  <2>1. PICK gone \in Evictions : jobs' = JobsWithout(gone)
    BY <1>4 DEF Read
  <2> QED
    BY <2>1, KeptSound DEF AllSound
<1>5. CASE Close
  <2>1. jobs' = [j \in Jobs |-> Closed(jobs[j])]
    BY <1>5 DEF Close
  <2>2. ASSUME NEW j \in Jobs
        PROVE  Sound(Closed(jobs[j])) /\ EndsWell(Closed(jobs[j]))
    <3>1. jobs[j] \in JobRecord /\ Sound(jobs[j]) /\ EndsWell(jobs[j])
      BY <1>0 DEF TypeOK, AllSound
    <3>2. IsWaiting(jobs[j]) => jobs[j].status # "ABSENT"
      BY DEF IsWaiting
    <3>3. jobs[j].status \in {"RUNNING", "AGGREGATING"} => jobs[j].status \in Active
      BY DEF Active
    <3> QED
      BY <1>0, <3>1, <3>2, <3>3, CancelledIsSound, RequestedIsSound DEF Closed
  <2> QED
    BY <2>1, <2>2 DEF AllSound
<1> QED
  BY <1>1, <1>2, <1>3, <1>4, <1>5

LEMMA NextSound ==
    ASSUME Inv, AllSound, [Next]_vars
    PROVE  AllSound'
<1>0. TypeOK /\ Agreed
  BY DEF Inv, Agreed
<1>1. ASSUME jobs' = jobs
      PROVE  AllSound'
  BY <1>1 DEF AllSound
<1>2. CASE DispatcherLoop
  <2>1. PICK gone \in Evictions : jobs' = JobsWithout(gone) \/ DispatcherTakes(JobsWithout(gone))
    BY <1>2 DEF DispatcherLoop
  <2>2. CASE jobs' = JobsWithout(gone)
    BY <1>0, <2>2, KeptSound DEF AllSound
  <2>3. CASE DispatcherTakes(JobsWithout(gone))
    <3>1. queue # <<>> /\ queue \in Seq(Jobs)
      BY <1>0, <2>3 DEF DispatcherTakes, Blocked, TypeOK
    <3>2. Head(queue) \in Jobs
      BY <3>1
    <3> DEFINE j == Head(queue)
               r == JobsWithout(gone)[j]
    <3>3. r.status \in Waiting /\ jobs' = [JobsWithout(gone) EXCEPT ![j] = Started(r)]
      BY <2>3 DEF DispatcherTakes, Dispatchable
    <3>4. Sound(Started(r)) /\ EndsWell(Started(r))
      BY <1>0, <3>2, <3>3, KeptSound, StartedIsSound
    <3> QED
      BY <1>0, <3>2, <3>3, <3>4, OneMoreSound
  <2> QED
    BY <2>1, <2>2, <2>3
<1>3. ASSUME NEW j \in Jobs, NEW built \in BOOLEAN, RecoverEnd(j, built)
      PROVE  AllSound'
  <2>1. \/ jobs' = jobs
        \/ jobs' = [i \in Jobs |-> IF IsWaiting(jobs[i]) THEN Fail(jobs[i], "EXECUTOR_INDISPONIVEL")
                                                         ELSE jobs[i]]
    BY <1>3 DEF RecoverEnd
  <2>2. ASSUME NEW i \in Jobs, IsWaiting(jobs[i])
        PROVE  /\ Sound(Fail(jobs[i], "EXECUTOR_INDISPONIVEL"))
               /\ EndsWell(Fail(jobs[i], "EXECUTOR_INDISPONIVEL"))
    <3>1. jobs[i] \in JobRecord /\ Sound(jobs[i]) /\ jobs[i].status # "ABSENT"
      BY <1>0, <2>2 DEF TypeOK, AllSound, IsWaiting
    <3> QED
      BY <1>0, <3>1, FailedIsSound
  <2>3. CASE jobs' = [i \in Jobs |-> IF IsWaiting(jobs[i]) THEN Fail(jobs[i], "EXECUTOR_INDISPONIVEL")
                                                         ELSE jobs[i]]
    BY <2>2, <2>3 DEF AllSound
  <2> QED
    BY <1>1, <2>1, <2>3
<1>4. ASSUME NEW j \in Jobs, Settle(j)
      PROVE  AllSound'
  <2>1. stage[j] = "settle" /\ stage[j] \in Dispatched
    BY <1>4 DEF Settle, Dispatched
  <2>2. jobs[j].status \in {"RUNNING", "CANCEL_REQUESTED"} /\ jobs[j].current
    BY <2>1 DEF Inv, JobsAgree, StageAgrees
  <2>3. jobs' = [jobs EXCEPT ![j] = Settled(jobs[j], outcome[j])]
    BY <1>4, <2>2 DEF Settle
  <2>4. jobs[j] \in JobRecord /\ outcome[j] \in Outcomes /\ Sound(jobs[j]) /\ EndsWell(jobs[j])
    BY <1>0 DEF TypeOK, AllSound
  <2>5. Sound(Settled(jobs[j], outcome[j])) /\ EndsWell(Settled(jobs[j], outcome[j]))
    BY <1>0, <2>2, <2>4, SettledIsSound
  <2> QED
    BY <1>0, <2>3, <2>5 DEF AllSound, TypeOK
<1>5. ASSUME NEW j \in Jobs, NEW valid \in BOOLEAN, AggregateEnd(j, valid)
      PROVE  AllSound'
  <2>1. \/ jobs' = jobs
        \/ jobs[j].status # "ABSENT" /\ jobs' = [jobs EXCEPT ![j] = Aggregated(jobs[j], valid)]
    BY <1>5 DEF AggregateEnd
  <2>2. jobs[j] \in JobRecord /\ Sound(jobs[j]) /\ EndsWell(jobs[j])
    BY <1>0 DEF TypeOK, AllSound
  <2>3. jobs[j].status \in {"AGGREGATING", "CANCEL_REQUESTED"}
    BY <1>5 DEF AggregateEnd, Inv, JobsAgree, StageAgrees
  <2>4. Sound(Aggregated(jobs[j], valid)) /\ EndsWell(Aggregated(jobs[j], valid))
    BY <1>0, <2>2, <2>3, AggregatedIsSound
  <2> QED
    BY <1>0, <1>1, <2>1, <2>4 DEF AllSound, TypeOK
<1>6. ASSUME \/ DispatcherTimesOut
             \/ \E j \in Jobs : HandOff(j) \/ RecoverBegin(j)
             \/ \E j \in Jobs, result \in Outcomes : FutureDone(j, result)
             \/ \E t \in Time : ClockChanges(t)
             \/ UNCHANGED vars
      PROVE  AllSound'
  <2>1. jobs' = jobs
    BY <1>6 DEF DispatcherTimesOut, HandOff, RecoverBegin, FutureDone, ClockChanges, vars
  <2> QED
    BY <1>1, <2>1
<1> QED
  BY <1>0, <1>2, <1>3, <1>4, <1>5, <1>6, CommandsSound DEF Next, Callback

\* Every snapshot of a job satisfies what its contract refuses otherwise, however the clock is
\* set back between two updates: no read of a kept job fails.
THEOREM SnapshotsAreValid == Spec => []SnapshotValid
<1>1. Init => AllSound
  BY NoJobIsSound DEF Init, AllSound
<1>2. Inv /\ AllSound /\ [Next]_vars => AllSound'
  BY NextSound
<1>3. ASSUME Inv, AllSound, NEW j \in Jobs, jobs[j].status # "ABSENT"
      PROVE  /\ jobs[j].completed + jobs[j].failed <= Repetitions[jobs[j].request]
             /\ Ordered(jobs[j])
             /\ jobs[j].startedAt = NoTime =>
                  /\ jobs[j].status \notin {"RUNNING", "AGGREGATING"}
                  /\ jobs[j].completed = 0 /\ jobs[j].failed = 0
             /\ (jobs[j].status = "CANCEL_REQUESTED" /\ jobs[j].startedAt = NoTime) =>
                  ~jobs[j].current
             /\ jobs[j].status = "QUEUED" => jobs[j].startedAt = NoTime /\ ~jobs[j].current
             /\ jobs[j].status = "AGGREGATING" =>
                  jobs[j].completed = Repetitions[jobs[j].request]
             /\ jobs[j].status \in Terminal <=> jobs[j].finishedAt # NoTime
             /\ jobs[j].status = "SUCCEEDED" =>
                  /\ jobs[j].completed = Repetitions[jobs[j].request]
                  /\ jobs[j].failed = 0 /\ ~jobs[j].current
             /\ jobs[j].status = "FAILED" <=> jobs[j].error # "none"
  <2> DEFINE r == jobs[j]
  <2>1. r \in JobRecord /\ Sound(r) /\ EndsWell(r) /\ r.status # "ABSENT"
    BY <1>3 DEF Inv, TypeOK, AllSound
  <2> HIDE DEF r
  <2>2. /\ r.createdAt \in Nat /\ r.updatedAt \in Nat /\ r.updatedAt # NoTime
        /\ r.startedAt \in Int /\ r.createdAt <= r.updatedAt
        /\ r.startedAt # NoTime => r.createdAt <= r.startedAt /\ r.startedAt <= r.updatedAt
    BY <2>1, TimesAre
  <2>3. r.finishedAt = (IF r.status \in Terminal THEN r.updatedAt ELSE NoTime)
    BY <2>1 DEF Sound
  <2>4. Ordered(r)
    <3> DEFINE started == IF r.startedAt = NoTime THEN r.createdAt ELSE r.startedAt
               finished == IF r.finishedAt = NoTime THEN r.updatedAt ELSE r.finishedAt
    <3>1. finished = r.updatedAt /\ r.createdAt <= started /\ started <= r.updatedAt
      BY <2>2, <2>3
    <3> QED
      BY <2>2, <3>1 DEF Ordered
  <2>5. r.status \in Terminal <=> r.finishedAt # NoTime
    BY <2>2, <2>3
  <2> QED
    BY <2>1, <2>4, <2>5 DEF Sound, EndsWell, r
<1>4. Inv /\ AllSound => SnapshotValid
  BY <1>3, Zenon DEF SnapshotValid
<1> QED
  BY <1>1, <1>2, <1>4, Invariance, PTL DEF Spec

=============================================================================
