------------------------- MODULE DiagnosticExecutor -------------------------
(***************************************************************************)
(* The in-memory coordinator of diagnostic jobs, servidor/diagnostics/     *)
(* executor.py.  HTTP threads submit, cancel, retry, read and close; one   *)
(* dispatcher thread takes jobs from a FIFO queue and hands one repetition *)
(* at a time to a process pool; the pool's threads (or the dispatcher      *)
(* itself, when a future is already done) run the completion callback.     *)
(* Every action below is one critical section of the executor's lock, or   *)
(* one step taken between two of them.                                     *)
(*                                                                         *)
(* A definition named X_slip is X with a mistake a maintainer could make;  *)
(* nothing uses it.  It stands just before X, to show in a run that the    *)
(* properties would notice.                                                *)
(***************************************************************************)
EXTENDS Integers, Sequences, FiniteSets, FiniteSetsExt

CONSTANTS
    Jobs,               \* job keys: pairs of an owner and an idempotency key
    Owners,             \* authenticated users
    Owner,              \* the owner of each job key
    Payloads,           \* what a command asks for (request and fingerprint)
    Repetitions,        \* sampling.count of each payload
    RequestBytes,       \* size of the request kept with a finished job
    EnvelopeBytes,      \* size of the result kept with a succeeded job
    MaxWorkers, MaxJobsPerOwner, MaxJobsGlobal,
    Retention, MaxTerminalJobs, MaxRetainedBytes,
    MaxTime,            \* bound on the wall clock
    MaxPools,           \* bound on the number of pools ever built
    None                \* no job, no payload, no binding

ASSUME ExecutorAssumption ==
    /\ IsFiniteSet(Jobs)
    /\ Owner \in [Jobs -> Owners]
    /\ Repetitions \in [Payloads -> Nat \ {0}]
    /\ RequestBytes \in [Payloads -> Nat]
    /\ EnvelopeBytes \in [Payloads -> Nat]
    /\ MaxWorkers \in Nat \ {0}
    /\ MaxJobsPerOwner \in Nat \ {0} /\ MaxJobsGlobal \in Nat \ {0}
    /\ Retention \in Nat \ {0}
    /\ MaxTerminalJobs \in Nat \ {0} /\ MaxRetainedBytes \in Nat \ {0}
    /\ MaxTime \in Nat /\ MaxPools \in Nat \ {0}
    /\ None \notin Jobs \cup Payloads

VARIABLES
    jobs,        \* _jobs: the _Job record of each key
    binding,     \* _idempotency: the command bound to each key
    queue,       \* _queue
    running,     \* _running
    recovering, unavailable, closed,
    pool,        \* which pool _pool is: the first, the second, ...
    clock,       \* the wall clock, which may be set back
    stage,       \* where the repetition of a job is, outside the lock
    outcome,     \* what its future holds once it is done
    poolOf,      \* the pool captured when it was dispatched
    dispatcher,  \* awake, asleep in the condition, away from it, or stopped
    hand,        \* the job the dispatcher is away with
    alarm        \* when the sleep of the dispatcher times out

vars == <<jobs, binding, queue, running, recovering, unavailable, closed, pool,
          clock, stage, outcome, poolOf, dispatcher, hand, alarm>>

Waiting  == {"QUEUED", "RUNNING"}
Active   == {"QUEUED", "RUNNING", "AGGREGATING", "CANCEL_REQUESTED"}
\* _ACTIVE without the status of a job being cancelled.
Terminal_slip == {"SUCCEEDED", "FAILED", "CANCELLED", "CANCEL_REQUESTED"}

Terminal == {"SUCCEEDED", "FAILED", "CANCELLED"}
NoTime   == -1
Time     == 0..MaxTime

\* A repetition is away from the idle stage from the moment the dispatcher takes
\* its job until the callback is over.  It counts in _running until "settle" ends.
Dispatched == {"handoff", "worker", "lost", "replacing", "settle"}
Stages     == Dispatched \cup {"idle", "aggregating"}
Outcomes   == {"ok", "error", "broken"}

JobRecord ==
    [status : Active \cup Terminal \cup {"ABSENT"},
     request : Payloads \cup {None},
     retryOf : Jobs \cup {None},
     completed : Nat, failed : Nat, current : BOOLEAN,
     error : {"none", "EXECUTOR_INDISPONIVEL", "DIAGNOSTICO_INVALIDO"},
     createdAt : Time \cup {NoTime}, startedAt : Time \cup {NoTime},
     updatedAt : Time \cup {NoTime}, finishedAt : Time \cup {NoTime}]

Bindings == [kind : {"SUBMIT", "RETRY"}, payload : Payloads, retryOf : Jobs \cup {None}]

ASSUME NoneAssumption == None \notin Bindings

NoJob ==
    [status |-> "ABSENT", request |-> None, retryOf |-> None,
     completed |-> 0, failed |-> 0, current |-> FALSE, error |-> "none",
     createdAt |-> NoTime, startedAt |-> NoTime,
     updatedAt |-> NoTime, finishedAt |-> NoTime]

NewJob(p, original) ==
    [NoJob EXCEPT !.status = "QUEUED", !.request = p, !.retryOf = original,
                  !.createdAt = clock, !.updatedAt = clock]

Init ==
    /\ jobs = [j \in Jobs |-> NoJob]
    /\ binding = [j \in Jobs |-> None]
    /\ queue = <<>>
    /\ running = 0
    /\ recovering = FALSE /\ unavailable = FALSE /\ closed = FALSE
    /\ pool = 1
    /\ clock = 0
    /\ stage = [j \in Jobs |-> "idle"]
    /\ outcome = [j \in Jobs |-> "ok"]
    /\ poolOf = [j \in Jobs |-> 1]
    /\ dispatcher = "awake" /\ hand = None /\ alarm = NoTime

-----------------------------------------------------------------------------
(* Times and terminal records *)

NowFor_slip(r) == clock

\* The wall clock, but never before the last update of the job.
NowFor(r) == IF clock > r.updatedAt THEN clock ELSE r.updatedAt

Touch(r) == [r EXCEPT !.updatedAt = NowFor(r)]

FinishTerminal(r) ==
    [r EXCEPT !.updatedAt = NowFor(r), !.finishedAt = NowFor(r), !.current = FALSE]

FinishCancelled(r) == FinishTerminal([r EXCEPT !.status = "CANCELLED", !.error = "none"])

Fail(r, code) == FinishTerminal([r EXCEPT !.status = "FAILED", !.error = code])

RequestCancel(r) == Touch([r EXCEPT !.status = "CANCEL_REQUESTED"])

\* A job the pool does not hold: in the queue, or between two repetitions.
IsWaiting(r) == r.status = "QUEUED" \/ (r.status = "RUNNING" /\ ~r.current)

-----------------------------------------------------------------------------
(* Retention *)

TerminalJobs == {j \in Jobs : jobs[j].status \in Terminal}
Expired      == {j \in TerminalJobs : clock - jobs[j].finishedAt >= Retention}

RetainedBytes(j) ==
    RequestBytes[jobs[j].request]
      + (IF jobs[j].status = "SUCCEEDED" THEN EnvelopeBytes[jobs[j].request] ELSE 0)

OverLimit(kept) ==
    \/ Cardinality(kept) > MaxTerminalJobs
    \/ MapThenSumSet(RetainedBytes, kept) > MaxRetainedBytes

\* What one housekeeping pass removes: every expired job, and then the jobs that
\* finished first until both limits hold.  Equal finishing times are a free choice.
Evictions ==
    {gone \in SUBSET TerminalJobs :
        LET kept  == TerminalJobs \ gone
            early == gone \ Expired
        IN  /\ Expired \subseteq gone
            /\ ~OverLimit(kept)
            /\ \A e \in early, k \in kept : jobs[e].finishedAt <= jobs[k].finishedAt
            /\ early # {} =>
                 \E last \in early :
                    /\ \A e \in early : jobs[e].finishedAt <= jobs[last].finishedAt
                    /\ OverLimit(kept \cup {last})}

JobsWithout(gone)     == [j \in Jobs |-> IF j \in gone THEN NoJob ELSE jobs[j]]

BindingsWithout_slip(gone) == binding
BindingsWithout(gone) == [j \in Jobs |-> IF j \in gone THEN None ELSE binding[j]]

-----------------------------------------------------------------------------
(* The condition variable *)

\* notify_all: a sleeping dispatcher wakes up and runs its loop again.
Notify ==
    /\ dispatcher' = IF dispatcher = "asleep" THEN "awake" ELSE dispatcher
    /\ alarm' = NoTime
    /\ UNCHANGED hand

NoNotify == UNCHANGED <<dispatcher, hand, alarm>>

\* The callback ends and wakes up nobody.
CallbackReturns_slip(j, notified) ==
    IF hand = j THEN dispatcher' = "awake" /\ hand' = None /\ alarm' = NoTime ELSE NoNotify

\* The end of a callback: the dispatcher that was running it goes back to its loop.
CallbackReturns(j, notified) ==
    IF hand = j
    THEN dispatcher' = "awake" /\ hand' = None /\ alarm' = NoTime
    ELSE IF notified THEN Notify ELSE NoNotify

poolVars == <<recovering, unavailable, pool>>
taskVars == <<stage, outcome, poolOf>>

-----------------------------------------------------------------------------
(* Commands of the HTTP threads.  Each begins with a housekeeping pass; "js"  *)
(* and "bs" are the jobs and the bindings that pass leaves.                   *)

ActiveIn(js) == {j \in Jobs : js[j].status \in Active}

HasRoom(js, j) ==
    /\ Cardinality(ActiveIn(js)) < MaxJobsGlobal
    /\ Cardinality({i \in ActiveIn(js) : Owner[i] = Owner[j]}) < MaxJobsPerOwner

\* A key that is free, or bound to this very command with its job gone.
KeyIsFree(js, bs, j, command) ==
    bs[j] = None \/ (bs[j] = command /\ js[j].status = "ABSENT")

\* _submit_locked, when it accepts the command: the key becomes the job id.
Accept(js, bs, j, command) ==
    /\ ~closed /\ ~unavailable
    /\ KeyIsFree(js, bs, j, command)
    /\ HasRoom(js, j)
    /\ jobs' = [js EXCEPT ![j] = NewJob(command.payload, command.retryOf)]
    /\ binding' = [bs EXCEPT ![j] = command]
    /\ queue' = Append(queue, j)
    /\ Notify
    /\ UNCHANGED <<running, closed, clock, poolVars, taskVars>>

Submit(j, p) ==
    \E gone \in Evictions :
        Accept(JobsWithout(gone), BindingsWithout(gone), j,
               [kind |-> "SUBMIT", payload |-> p, retryOf |-> None])

Retry(original, j) ==
    /\ Owner[original] = Owner[j]
    /\ \E gone \in Evictions :
        LET r == JobsWithout(gone)[original]
        IN  /\ r.status \in {"FAILED", "CANCELLED"}
            /\ Accept(JobsWithout(gone), BindingsWithout(gone), j,
                      [kind |-> "RETRY", payload |-> r.request, retryOf |-> original])

\* get, result, a replayed or refused submit or retry, a late cancel: whatever
\* they answer, all they change is what the housekeeping pass removes.
Read ==
    \E gone \in Evictions :
        /\ gone # {}
        /\ jobs' = JobsWithout(gone)
        /\ binding' = BindingsWithout(gone)
        /\ NoNotify
        /\ UNCHANGED <<queue, running, closed, clock, poolVars, taskVars>>

QueuedAt(j) == {i \in DOMAIN queue : queue[i] = j}

\* deque.remove: the first occurrence goes, the others keep their order.
Unqueue(j) ==
    LET at == Min(QueuedAt(j))
    IN  [i \in 1..(Len(queue) - 1) |-> IF i < at THEN queue[i] ELSE queue[i + 1]]

\* Left to the dispatcher to skip.
CancelWaiting_slip(js, j) ==
    /\ IsWaiting(js[j]) /\ QueuedAt(j) # {}
    /\ jobs' = [js EXCEPT ![j] = FinishCancelled(js[j])]
    /\ UNCHANGED queue

\* A waiting job leaves the queue and is over.
CancelWaiting(js, j) ==
    /\ IsWaiting(js[j]) /\ QueuedAt(j) # {}
    /\ jobs' = [js EXCEPT ![j] = FinishCancelled(js[j])]
    /\ queue' = Unqueue(j)

\* The branch for a waiting job that the queue does not hold.
CancelStray(js, j) ==
    /\ IsWaiting(js[j]) /\ QueuedAt(j) = {}
    /\ jobs' = [js EXCEPT ![j] = IF js[j].status = "QUEUED"
                                 THEN [js[j] EXCEPT !.status = "CANCEL_REQUESTED"]
                                 ELSE RequestCancel(js[j])]
    /\ UNCHANGED queue

\* A job whose repetition or aggregation is under way ends when that is over.
CancelUnderWay(js, j) ==
    /\ js[j].status \in {"RUNNING", "AGGREGATING"} /\ ~IsWaiting(js[j])
    /\ jobs' = [js EXCEPT ![j] = RequestCancel(js[j])]
    /\ UNCHANGED queue

CancelAgain(js, j) ==
    /\ js[j].status = "CANCEL_REQUESTED"
    /\ jobs' = js
    /\ UNCHANGED queue

Cancel(j) ==
    \E gone \in Evictions :
        LET js == JobsWithout(gone)
        IN  /\ \/ CancelWaiting(js, j) \/ CancelStray(js, j)
               \/ CancelUnderWay(js, j) \/ CancelAgain(js, j)
            /\ binding' = BindingsWithout(gone)
            /\ Notify
            /\ UNCHANGED <<running, closed, clock, poolVars, taskVars>>

\* Jobs between two repetitions are taken for jobs under way.
Closed_slip(r) ==
    IF r.status = "QUEUED" THEN FinishCancelled(r)
    ELSE IF r.status = "AGGREGATING" \/ r.current THEN RequestCancel(r)
    ELSE r

\* What close does to one job, in the critical section that sets _closed.
Closed(r) ==
    IF IsWaiting(r) THEN FinishCancelled(r)
    ELSE IF r.status \in {"RUNNING", "AGGREGATING"} THEN RequestCancel(r)
    ELSE r

Close ==
    /\ ~closed
    /\ closed' = TRUE
    /\ jobs' = [j \in Jobs |-> Closed(jobs[j])]
    /\ queue' = <<>>
    /\ Notify
    /\ UNCHANGED <<binding, running, clock, poolVars, taskVars>>

-----------------------------------------------------------------------------
(* The dispatcher's loop.  Each turn begins with a housekeeping pass.       *)

Deadlines_slip(js) ==
    {js[j].finishedAt + Retention : j \in {i \in Jobs : js[i].status = "SUCCEEDED"}}

Deadlines(js) ==
    {js[j].finishedAt + Retention : j \in {i \in Jobs : js[i].status \in Terminal}}

Blocked == recovering \/ queue = <<>> \/ running >= MaxWorkers

DispatcherStops ==
    /\ closed
    /\ dispatcher' = "stopped"
    /\ UNCHANGED <<queue, running, taskVars, hand, alarm>>

DispatcherSleeps(js) ==
    /\ ~closed /\ Blocked
    /\ dispatcher' = "asleep"
    /\ \/ Deadlines(js) = {} /\ alarm' = NoTime
       \/ \E first \in Deadlines(js) :
            (\A d \in Deadlines(js) : first <= d) /\ alarm' = first
    /\ UNCHANGED <<queue, running, taskVars, hand>>

Dispatchable(r) == r.status \in Waiting /\ ~r.current

\* The head of the queue is no longer a job to run: drop it and loop.
DispatcherSkips(js) ==
    /\ ~closed /\ ~Blocked
    /\ ~Dispatchable(js[Head(queue)])
    /\ queue' = Tail(queue)
    /\ UNCHANGED <<running, taskVars, dispatcher, hand, alarm>>

Started(r) ==
    [r EXCEPT !.status = "RUNNING", !.current = TRUE, !.updatedAt = NowFor(r),
              !.startedAt = IF r.startedAt = NoTime THEN NowFor(r) ELSE r.startedAt]

DispatcherTakes(js) ==
    LET j == Head(queue)
    IN  /\ ~closed /\ ~Blocked
        /\ Dispatchable(js[j])
        /\ jobs' = [js EXCEPT ![j] = Started(js[j])]
        /\ queue' = Tail(queue)
        /\ running' = running + 1
        /\ stage' = [stage EXCEPT ![j] = "handoff"]
        /\ poolOf' = [poolOf EXCEPT ![j] = pool]
        /\ dispatcher' = "away" /\ hand' = j
        /\ UNCHANGED <<outcome, alarm>>

DispatcherLoop ==
    /\ dispatcher = "awake"
    /\ \E gone \in Evictions :
        LET js == JobsWithout(gone)
        IN  /\ \/ /\ DispatcherStops \/ DispatcherSleeps(js) \/ DispatcherSkips(js)
                  /\ jobs' = js
               \/ DispatcherTakes(js)
            /\ binding' = BindingsWithout(gone)
            /\ UNCHANGED <<closed, clock, poolVars>>

\* condition.wait returns on its timeout.
DispatcherTimesOut ==
    /\ dispatcher = "asleep" /\ alarm # NoTime
    /\ dispatcher' = "awake" /\ alarm' = NoTime
    /\ UNCHANGED <<jobs, binding, queue, running, closed, clock, hand, poolVars, taskVars>>

-----------------------------------------------------------------------------
(* The life of a dispatched repetition, outside the lock *)

\* The pool holds the task and the callback is registered: the dispatcher is free.
HandOff(j) ==
    /\ stage[j] = "handoff"
    /\ stage' = [stage EXCEPT ![j] = "worker"]
    /\ dispatcher' = "awake" /\ hand' = None
    /\ UNCHANGED <<jobs, binding, queue, running, closed, clock, alarm,
                   outcome, poolOf, poolVars>>

\* The future is done: a result, an error, or a broken pool.  When it is done
\* before its callback is registered (a submission that raised, a fast worker),
\* the dispatcher itself runs the callback.
FutureDone(j, result) ==
    /\ stage[j] \in {"handoff", "worker"}
    /\ stage' = [stage EXCEPT ![j] = IF result = "broken" THEN "lost" ELSE "settle"]
    /\ outcome' = [outcome EXCEPT ![j] = result]
    /\ NoNotify
    /\ UNCHANGED <<jobs, binding, queue, running, closed, clock, poolOf, poolVars>>

\* Whichever pool the failure came from.
NothingToRecover_slip(j) == closed \/ recovering \/ unavailable

NothingToRecover(j) == closed \/ recovering \/ pool # poolOf[j] \/ unavailable

\* First critical section of _recover_pool.
RecoverBegin(j) ==
    /\ stage[j] = "lost"
    /\ IF NothingToRecover(j)
       THEN /\ stage' = [stage EXCEPT ![j] = "settle"]
            /\ UNCHANGED recovering
       ELSE /\ stage' = [stage EXCEPT ![j] = "replacing"]
            /\ recovering' = TRUE
    /\ NoNotify
    /\ UNCHANGED <<jobs, binding, queue, running, closed, clock, outcome, poolOf,
                   pool, unavailable>>

\* Second critical section of _recover_pool; the new pool was built, or not.
RecoverEnd(j, built) ==
    /\ stage[j] = "replacing"
    /\ built => pool < MaxPools
    /\ IF closed
       THEN UNCHANGED <<jobs, queue, pool, unavailable>>
       ELSE IF built
       THEN /\ pool' = pool + 1
            /\ UNCHANGED <<jobs, queue, unavailable>>
       ELSE /\ unavailable' = TRUE
            /\ jobs' = [i \in Jobs |-> IF IsWaiting(jobs[i])
                                       THEN Fail(jobs[i], "EXECUTOR_INDISPONIVEL")
                                       ELSE jobs[i]]
            /\ queue' = <<>>
            /\ UNCHANGED pool
    /\ recovering' = FALSE
    /\ stage' = [stage EXCEPT ![j] = "settle"]
    /\ Notify
    /\ UNCHANGED <<binding, running, closed, clock, outcome, poolOf>>

\* What the first critical section of _completed does to the record of the job.
Settled(r, result) ==
    LET s == Touch([r EXCEPT !.current = FALSE])
    IN  IF s.status = "CANCEL_REQUESTED" THEN FinishCancelled(s)
        ELSE IF result # "ok"
        THEN Fail([s EXCEPT !.failed = @ + 1],
                  IF result = "broken" THEN "EXECUTOR_INDISPONIVEL"
                                       ELSE "DIAGNOSTICO_INVALIDO")
        ELSE [s EXCEPT !.completed = @ + 1,
                       !.status = IF r.completed + 1 = Repetitions[r.request]
                                  THEN "AGGREGATING" ELSE "RUNNING"]

\* The callback is in that critical section; "present" when the job still exists.
Settle(j) ==
    LET present == jobs[j].status # "ABSENT"
        r == IF present THEN Settled(jobs[j], outcome[j]) ELSE jobs[j]
    IN  /\ stage[j] = "settle"
        /\ running' = running - 1
        /\ jobs' = [jobs EXCEPT ![j] = r]
        /\ queue' = IF r.status = "RUNNING" THEN Append(queue, j) ELSE queue
        /\ outcome' = [outcome EXCEPT ![j] = "ok"]
        /\ poolOf' = [poolOf EXCEPT ![j] = 1]
        /\ IF r.status = "AGGREGATING"
           THEN /\ stage' = [stage EXCEPT ![j] = "aggregating"]
                /\ Notify
           ELSE /\ stage' = [stage EXCEPT ![j] = "idle"]
                /\ CallbackReturns(j, TRUE)
        /\ UNCHANGED <<binding, closed, clock, poolVars>>

Aggregated_slip(r, valid) ==
    IF valid THEN FinishTerminal([r EXCEPT !.status = "SUCCEEDED"])
    ELSE Fail(r, "DIAGNOSTICO_INVALIDO")

\* The second critical section: the envelope was aggregated outside the lock.
Aggregated(r, valid) ==
    IF r.status = "CANCEL_REQUESTED" THEN FinishCancelled(r)
    ELSE IF ~valid THEN Fail(r, "DIAGNOSTICO_INVALIDO")
    ELSE FinishTerminal([r EXCEPT !.status = "SUCCEEDED"])

AggregateEnd(j, valid) ==
    LET present == jobs[j].status # "ABSENT"
    IN  /\ stage[j] = "aggregating"
        /\ jobs' = IF present THEN [jobs EXCEPT ![j] = Aggregated(@, valid)] ELSE jobs
        /\ stage' = [stage EXCEPT ![j] = "idle"]
        /\ CallbackReturns(j, present)
        /\ UNCHANGED <<binding, queue, running, closed, clock, outcome, poolOf, poolVars>>

\* Time passes, or the wall clock is set back.
ClockChanges(t) ==
    /\ t # clock
    /\ clock' = t
    /\ NoNotify
    /\ UNCHANGED <<jobs, binding, queue, running, closed, poolVars, taskVars>>

Callback(j) ==
    \/ RecoverBegin(j)
    \/ \E built \in BOOLEAN : RecoverEnd(j, built)
    \/ Settle(j)
    \/ \E valid \in BOOLEAN : AggregateEnd(j, valid)

Next ==
    \/ \E j \in Jobs, p \in Payloads : Submit(j, p)
    \/ \E o, j \in Jobs : Retry(o, j)
    \/ \E j \in Jobs : Cancel(j)
    \/ Read
    \/ Close
    \/ DispatcherLoop
    \/ DispatcherTimesOut
    \/ \E j \in Jobs : HandOff(j)
    \/ \E j \in Jobs, result \in Outcomes : FutureDone(j, result)
    \/ \E j \in Jobs : Callback(j)
    \/ \E t \in Time : ClockChanges(t)

Spec == Init /\ [][Next]_vars

\* The threads the process owns run: the dispatcher, the pool that ends every
\* repetition it was given (pure, bounded work), and the callbacks.  Nothing is
\* assumed of the users, of the clock, or of a timed wait.
Fairness ==
    /\ WF_vars(DispatcherLoop)
    /\ \A j \in Jobs :
        /\ WF_vars(HandOff(j) \/ \E result \in Outcomes : FutureDone(j, result))
        /\ WF_vars(Callback(j))

FairSpec == Spec /\ Fairness
-----------------------------------------------------------------------------
TypeOK ==
    /\ jobs \in [Jobs -> JobRecord]
    /\ binding \in [Jobs -> Bindings \cup {None}]
    /\ queue \in Seq(Jobs)
    /\ running \in Nat
    /\ recovering \in BOOLEAN /\ unavailable \in BOOLEAN /\ closed \in BOOLEAN
    /\ pool \in 1..MaxPools
    /\ clock \in Time
    /\ stage \in [Jobs -> Stages]
    /\ outcome \in [Jobs -> Outcomes]
    /\ poolOf \in [Jobs -> 1..MaxPools]
    /\ dispatcher \in {"awake", "asleep", "away", "stopped"}
    /\ hand \in Jobs \cup {None}
    /\ alarm \in Int

InFlight == {j \in Jobs : stage[j] \in Dispatched}

\* A job waits in the queue exactly once while it is waiting, and never otherwise:
\* none is forgotten, and none is dispatched twice (cancel, settle and recovery all
\* touch the deque from different threads).
QueueExact ==
    /\ \A i, k \in DOMAIN queue : queue[i] = queue[k] => i = k
    /\ \A j \in Jobs : IsWaiting(jobs[j]) <=> \E i \in DOMAIN queue : queue[i] = j

\* _running is the number of repetitions outside the lock, whatever way each one
\* ends, so no worker slot leaks and the limit on workers holds.
RunningExact ==
    /\ running = Cardinality(InFlight)
    /\ running <= MaxWorkers

\* A callback always finds the job it was started for, in a state that agrees with
\* the step the callback is at: housekeeping never removes a job under its feet.
CallbackFindsItsJob ==
    \A j \in Jobs :
        /\ stage[j] \in Dispatched => /\ jobs[j].status \in {"RUNNING", "CANCEL_REQUESTED"}
                                      /\ jobs[j].current
        /\ stage[j] = "aggregating" => jobs[j].status \in {"AGGREGATING", "CANCEL_REQUESTED"}
        /\ stage[j] = "idle" => jobs[j].status \notin {"AGGREGATING", "CANCEL_REQUESTED"}

\* The dispatcher never sleeps on work it could do, nor through a close: every
\* critical section that creates work, frees a slot or ends a recovery notifies.
NoLostWakeup == dispatcher = "asleep" => Blocked /\ ~closed

\* While the dispatcher sleeps, its timeout covers every finished job: none
\* outlives its retention because nobody calls.
NoMissedExpiry ==
    dispatcher = "asleep" =>
        \A j \in TerminalJobs :
            alarm # NoTime /\ alarm <= jobs[j].finishedAt + Retention

\* A key is bound exactly while its job is kept, to the command of that job: a
\* replay finds the job, and an evicted key is free again.
BindingExact ==
    \A j \in Jobs :
        IF jobs[j].status = "ABSENT" THEN binding[j] = None
        ELSE /\ binding[j] # None
             /\ binding[j].payload = jobs[j].request
             /\ binding[j].retryOf = jobs[j].retryOf

\* The capacity limits hold for all active jobs, those being cancelled included.
Capacity ==
    /\ Cardinality(ActiveIn(jobs)) <= MaxJobsGlobal
    /\ \A o \in Owners : Cardinality({j \in ActiveIn(jobs) : Owner[j] = o}) <= MaxJobsPerOwner

\* What JobSnapshot and JobProgress refuse (servidor/contracts/diagnostics.py): a
\* record that violates this answers every read of its job with an error.  The
\* clock may be set back between any two of its updates.
Ordered(r) ==
    LET started  == IF r.startedAt = NoTime THEN r.createdAt ELSE r.startedAt
        finished == IF r.finishedAt = NoTime THEN r.updatedAt ELSE r.finishedAt
    IN  r.createdAt <= started /\ started <= r.updatedAt /\ r.updatedAt <= finished

SnapshotValid ==
    \A j \in Jobs :
        LET r     == jobs[j]
            total == Repetitions[r.request]
        IN  r.status # "ABSENT" =>
              /\ r.completed + r.failed <= total
              /\ Ordered(r)
              /\ (r.startedAt = NoTime) =>
                   r.status \notin {"RUNNING", "AGGREGATING"} /\ r.completed = 0 /\ r.failed = 0
              /\ (r.status = "CANCEL_REQUESTED" /\ r.startedAt = NoTime) => ~r.current
              /\ r.status = "QUEUED" => r.startedAt = NoTime /\ ~r.current
              /\ r.status = "AGGREGATING" => r.completed = total
              /\ r.status \in Terminal <=> r.finishedAt # NoTime
              /\ r.status = "SUCCEEDED" => r.completed = total /\ r.failed = 0 /\ ~r.current
              /\ r.status = "FAILED" <=> r.error # "none"

\* Once the executor is closed nothing waits for a dispatch, and the dispatcher never
\* takes another repetition.
ClosedStaysIdle == closed => queue = <<>> /\ \A j \in Jobs : ~IsWaiting(jobs[j])

\* A cancellation that was accepted is never lost: whatever the worker, the
\* aggregation or the recovery of the pool answers later, the job ends CANCELLED,
\* and a finished job keeps its status until it is removed.
CancelSticks ==
    [][\A j \in Jobs :
        /\ jobs[j].status = "CANCEL_REQUESTED" =>
             jobs'[j].status \in {"CANCEL_REQUESTED", "CANCELLED"}
        /\ jobs[j].status \in Terminal =>
             jobs'[j].status \in {jobs[j].status, "ABSENT", "QUEUED"}]_vars

\* A pool is replaced once, and only while the executor can still use it: a failure
\* reported late by a pool that is gone neither replaces the current one nor makes
\* the executor unavailable, and a closed executor builds nothing.
OnlyTheBrokenPoolIsReplaced ==
    [][(pool' # pool \/ unavailable' # unavailable) =>
         /\ ~closed
         /\ \E j \in Jobs : stage[j] = "replacing" /\ poolOf[j] = pool]_vars

\* The executor implements the lifecycle each of its users relies on.
PhaseOf(status) ==
    CASE status = "ABSENT" -> "absent"
      [] status \in {"QUEUED", "RUNNING", "AGGREGATING"} -> "pending"
      [] status = "CANCEL_REQUESTED" -> "cancelling"
      [] status = "SUCCEEDED" -> "succeeded"
      [] status = "FAILED" -> "failed"
      [] status = "CANCELLED" -> "cancelled"

Lifecycle == INSTANCE JobLifecycle WITH phase <- [j \in Jobs |-> PhaseOf(jobs[j].status)]

ImplementsLifecycle == Lifecycle!Spec

\* Every accepted job ends, whatever users cancel and close and however pools fail.
EveryJobEnds == \A j \in Jobs : (jobs[j].status \in Active) ~> (jobs[j].status \notin Active)

\* close drains: the dispatcher stops and every repetition under way is accounted for.
CloseDrains == closed ~> (dispatcher = "stopped" /\ running = 0 /\ ActiveIn(jobs) = {})
=============================================================================
