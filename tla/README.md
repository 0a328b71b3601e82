# MOTOR-DE-FLUXO: specifications

TLA+ models of the parts of MOTOR-DE-FLUXO whose correctness depends on the order in
which things happen, TLC runs that check them on small instances, and theorems that
TLAPS proves for every value of the constants. Paths are relative to the repository.

- [1. The system](#1-the-system)
- [2. What is modelled](#2-what-is-modelled)
- [3. The runs](#3-the-runs)
- [4. Fairness](#4-fairness)
- [5. The proofs](#5-the-proofs)
- [6. Not modelled](#6-not-modelled)
- [7. What could follow](#7-what-could-follow)
- [8. Observations](#8-observations)

## 1. The system

The program simulates multilateral netting of cross-border flows. A pure Python engine
(`motor/`) nets the orders of a pool of clients day by day and prices the result. A
FastAPI server (`servidor/`) runs the engine: single previews synchronously, Monte Carlo
diagnostics as jobs in a process pool. A React application (`web/src/`) keeps each
account's studies in IndexedDB, in the browser, where several tabs may share it; it is
the only thing that persists.

```
 tab A ──┐ BroadcastChannel                          HTTP threads      process pool
 tab B ──┴─ study controller ── execution services ─────► executor ─────► service ──► motor
                 │                       │            (jobs in memory)             geracao
            repository (IndexedDB, one database per account)                      netting P0
                 └─ studies, executions, cases, profiles, conversations, demo      custo
```

| Component | State it keeps | Operations | What is hard | What makes it correct |
|---|---|---|---|---|
| Diagnostic executor, `servidor/diagnostics/executor.py` | jobs, FIFO queue, idempotency bindings, count of running repetitions, the current pool, closed/recovering/unavailable | submit, retry, get, result, cancel, close; dispatcher thread; completion callbacks; replacement of a broken pool; retention | a lock and a condition shared by HTTP threads, the dispatcher and the pool's threads; late answers of cancelled jobs and of pools that are gone; a clock that may be set back | every job ends and is dispatched once per repetition, no slot leaks, no wake-up is lost, cancellation wins, keys are bound exactly, a read is never invalid |
| Netting P0, `motor/netting.py` | open orders, what is pending of each, a hand-kept count of deadlines, cycles | one sequential function | partial coverage over several cycles, three filters over one sorted list, double computation of the matched volume, the last day | value is conserved, deadlines and window hold, each cycle matches the minimum of its sides, urgency is respected, it returns without raising |
| Cost, generation, sweeps, analysis, `motor/custo.py`, `geracao.py`, `simulacao.py`, `analise/` | none | pure numeric functions | floating point, seeds | reference formulas |
| Diagnostic service, preparation, preview, replay, `servidor/` | none | request in, envelope out | validation of large documents | determinism |
| Local repository, `web/src/storage/indexedDbApplicationRepository.ts` | stores studies, executions, summaries, operations, cases, import batches and events, profiles, demo marker | read-write transactions with compare-and-swap on a revision and replay by operation id | tabs interleave transactions; validation cannot run inside a transaction, so data is read, validated and read again; calls are repeated after a lost answer | a revision names one content, evidence is never lost or reordered, rows, catalogue and idempotency records agree |
| Study controller, `web/src/study/studyController.ts` | the document shown, the queue of edits, the revision it believes stored and the highest it was told of, its epochs | edit, flush and drain, load, new study, session, attach, append, detached save, restore, purge, demonstration, broadcast | every call is a promise between whose start and answer the tab goes on; conflicts; broadcasts that arrive late or never | no change is dropped in silence or overwritten; a tab that says SAVED shows one stored revision |
| Execution services, `web/src/diagnostics/diagnosticExecutionService.ts` with `web/src/pages/StudyDiagnosticPage.tsx` | a reservation in the study, the job of the attempt, the page that follows it | reserve, submit, poll, fetch, cancel, repeat, resume, append the ending, save it behind the page's back | a tab closed between any two steps, a request or its answer lost, a server that forgets its jobs, another tab that resumes the same attempt | a job is asked for only once its reservation is stored, an attempt has one ending and the right one, every run ends |
| Batch of combinations, `web/src/diagnostics/runDiagnosticPool.ts` with `StudyDiagnosticPage.runAll` | two workers, a queue of commits, flags that stop them | take, compute, commit, recover from a conflict, cancel | computations at once and commits one by one; a conflict whose append was stored; endings that wait behind a failed commit | what counts as concluded is stored, nothing is stored after a failed commit, the batch ends |
| Conversations, `web/src/chat/`, `servidor/chat/` | conversations and messages; the question a tab is sending | send, repeat, cancel, create, delete, select, recover | answers after the conversation changed, was recovered by another tab or deleted; a failure that cannot be stored | one answer per question, history stays, no answer is waited for for ever |
| Import, profiles, companies, `web/src/importer/`, `cases/`, `profiles/`, `companies/` | cases, batches, events, versions | confirm, correct, revert, append a version, delete a company | deletion in another tab | a confirmed case is one transaction |
| Authentication, API client, preview, pages, presentation, replay page, scripts | view state | | | |

The HTTP routes call the executor and translate its errors. The executor calls
`service.execute_repetition` in the pool and aggregates the results itself. The web
client edits the study through the controller of its tab, which saves with
compare-and-swap through the repository and tells the other tabs. A run of a diagnosis
reserves an attempt with such an edit, posts the request, polls the job and edits the
study once more with the ending. Conversations have a repository of their own in the same
database, and no broadcasts.

The hazards that come out of this inventory are in `PROJECT.json`, each at its line,
with the properties that would catch it.

## 2. What is modelled

Every module says in its header what a state and an action are. `PROJECT.json` maps each
definition to the lines it stands for. A definition named `X_slip` is `X` with a mistake
a maintainer could make: no specification uses it. Put in the place of `X`, it makes the
property that `PROJECT.json` pairs with it fail, which shows that the property depends on
that code.

The modules stack as the program does. What one of them does in several actions another
may take as one: the detailed module is where the steps between are checked.

| Module | Its neighbour below | What it takes from there |
|---|---|---|
| `DiagnosticBatch` | `DiagnosticAttempts` | a computation is a run that ends (`EveryRunEnds`) |
| `DiagnosticAttempts` | `StudyTabs`; `JobLifecycle` (`INSTANCE`) | a tab's document, queue and compare-and-swap; the phases of a job |
| `StudyTabs` | `StudyRepository` | a write is one transaction on the revision, and keeps the executions |
| `DiagnosticExecutor` | implements `JobLifecycle` | |

### DiagnosticExecutor and JobLifecycle

`DiagnosticExecutor` models `executor.py` whole: each critical section of the lock is one
action, and so is each step between two of them.

| Code | Model |
|---|---|
| `_jobs`, `_idempotency`, `_queue`, `_running` | `jobs`, `binding`, `queue`, `running` |
| `_pool`, `_recovering`, `_unavailable`, `_closed` | `pool`, `recovering`, `unavailable`, `closed` |
| where a repetition is outside the lock, and what its future holds | `stage`, `outcome`, `poolOf` |
| the dispatcher's frame and its wait in the condition | `dispatcher`, `hand`, `alarm` |
| `submit`, `retry`, `get`/`result`, `cancel`, `close` | `Submit`, `Retry`, `Read`, `Cancel`, `Close` |
| `_dispatch_loop` up to and after the release of the lock | `DispatcherLoop`, `DispatcherTimesOut`, `HandOff` |
| `_completed`, `_recover_pool` | `FutureDone`, `RecoverBegin`, `RecoverEnd`, `Settle`, `AggregateEnd`, grouped as `Callback` |
| `_expire_locked` | part of every action that calls it, as in the code |

A job is named by its owner and idempotency key. Requests, fingerprints and envelopes are
members of small sets with a size and a number of repetitions. A result is `ok`, an
`error` or a `broken` pool. A command that is refused changes nothing but what its
housekeeping evicts. The wall clock moves both ways; the order of timestamps comes from
`NowFor`, as in `_now_for`.

`JobLifecycle` is what a user of the executor relies on: a job is absent, pending,
cancelling, or ended in one of three ways, and which steps lead from one to the other.
`ImplementsLifecycle` says that the executor implements it under a refinement mapping.

### NettingP0

`executar_p0`, turn by turn of its loops. Amounts are whole numbers of the smallest unit,
since the code uses exact `Decimal` amounts and only adds, subtracts and compares them. `abertas` is a
set because the code's list is always sorted by a total priority. The list of allocations
is kept as its totals by order and kind. The internal checks of the function lead to
`pc = "falhou"` instead of an exception.

`Dia` is one turn of the day loop (arrivals, the decision to close, the gross sides);
`CasaCliente` and `CasaTodos` set a match up; `Consome` takes one order of one side of a
match, `FimDaFila` ends a side; `Fecha` remits what is due and books the cycle; `Confere`
is the end of the function.

### StudyRepository

The part of the repository that keeps studies. A read-write transaction is one action,
because IndexedDB serialises those that share a store; one that aborts changes nothing.
`installDemoStudy` is the exception the code makes: a read transaction, a validation
outside any transaction, and a write transaction that compares what was read, hence
several actions.

| Code | Model |
|---|---|
| stores `studies`, `executions`, `study_summaries`, `operations`, demo marker in `meta` | `studies`, `executions`, `summaries`, `operations`, `marker` |
| the local variables of `installDemoStudy` | `installing` |
| `saveStudy`, `appendDiagnosticAttempt`, `restoreStudy`, `purgeStudy` | actions of the same names |
| `installDemoStudy` | `InstallDemoStudy`, `InstallReads`, `InstallRetries`, `InstallAnswers`, `InstallRestores`, `InstallPublishes` |
| `assembleStudy`, `validateStudyDocument`, `summaryRow`, `isInterruptionTransition` | `History`, `Valid`, `SummaryOf`, `Interrupts` |

Callers are not trusted: a save may offer any document that passes validation, with any
revision the study has had, so the guards of the transaction, not the callers' manners,
are what keeps the data right. Of a document the model keeps its scenarios, its deletion,
its revision and its executions; of an execution its scenario, attempt, kind and whether
it is open, ended or interrupted. One database is one account, so the checks of ownership
are left out. A repeated operation id changes nothing (the code answers from the record
or refuses). The companies, cases and profiles that an install adds are left out.

### StudyTabs

The controllers of several tabs over one stored study, and the broadcasts between them.
A controller is single-threaded: what it does between two `await`s is one action. A call
to the repository is a record in `calls[t]` that is started, takes effect (`Commit`,
`Read` or `StorageFails`) and is answered in three actions, and the tab goes on between.

| Code | Model |
|---|---|
| `#state`, `#pending`, `#persistedRevision`, `#requiredRevision`, `#autosave` | `tab[t]` |
| the promises in course, and what their continuations compare epochs and objects for | `calls[t]`, with `calm` (no conflict since) and `same` (the same document object) |
| `BroadcastChannel` | `mailbox[t]`, a set: late, in any order, or never |
| `edit`, `flush` and `#drain` | `Edit`, `StartDrain`, `AnswerDrain` |
| `loadStudy`, `readStudy`, `startNewStudy`, `switchSession` | `ReuseStudy`, `LoadStudy`, `AnswerLoad`, `ReadStudy`, `AnswerRead`, `StartNewStudy`, `SwitchSession`; `#acceptReadResult` is `Acceptable` |
| `attachProfileToCurrentStudy`, `appendDiagnosticAttempt`, `saveDetachedStudy`, `restoreStudy`, `purgeStudy`, `restoreDemoStudy` | `Attach`, `AppendAttempt`, `WriteDetached`, `Purge`, `InstallDemo`, each with its answer |
| `#acceptBroadcast` before and after its read | `Deliver`, `AnswerReload` |
| `applySource` of `StudyPortfolioPage.tsx`, and its commands for levers, variations, combinations, names and removals (lines 156 to 225), which edit the study of the last rendering after hashing it | `Compose`, `EditComposed` |

A document is its revision and the set of the changes it contains; each change is made
once, so a revision that lost one shows. A change of session keeps only the writes on
their way, as orphans. What happens when a tab closes is the same.

### DiagnosticAttempts

The runs of one study's diagnostics in several tabs: `executeStudyDiagnostic`,
`cancelStudyDiagnostic`, `retryStudyDiagnostic` and `persistTerminal`, called as
`StudyDiagnosticPage` calls them, from the button, the page that is opened and the
broadcast that arrives. A run is of one scenario, and finds only that scenario's
unfinished attempt. What a run does between two `await`s is one action.

| Code | Model |
|---|---|
| the stored study; what the tab's controller shows and queues | `study`; `tab[t]` |
| `document.scenarios`, `document.executions` | `scenarios`, and `records` with the scenario of each |
| `removeScenario` | `DeleteScenario`: the scenario leaves `scenarios`, which hides its records (`Shows`); `Has` remembers that they were there |
| the frame of a run in course, and whether its page is still mounted | `run[s]` |
| the jobs on the server | `job`, in the phases of `JobLifecycle` |
| `complete` of the page | `Reports`; `unkept` collects the attempts it calls over before the study had their ending |

Faults are events: an edit of another page, a scenario removed there, a page left or opened
again, a tab closed, a request or an answer lost, a job forgotten by retention, a restart of
the server. The number of runs in course is the number of `Slots`; who follows whom is not
bounded.

Left out on purpose:

- what the page shows of the job while it polls (`transientState`): an ended phase too
  appears there as soon as a poll tells it, before the study has the ending. It decides
  which buttons are offered, and the commands behind them read the study; no property
  speaks of it, `CompletedIsStored` is about `complete`.
- which scenario is the base, and may not be removed. A behaviour of the code keeps
  one of them; in the model any may go, so it has more behaviours than the code when there
  are two removals, and the same when there is one, as in the runs.
- a run whose page was left reports nothing, although the code's does if the same screen is
  open again when it ends (observation 3).
- edits of other pages are of the document shown; `StudyTabs` has the late ones.
- studies that compare portfolios, whose runs are in `DiagnosticBatch`. `runAll` of any
  other study calls `executeStudyDiagnostic` for one scenario after the other.

### DiagnosticBatch

`runAll` of the page over `runDiagnosticPool`: two workers, the queue of commits
(`commitTail`), the one retry after a conflict, and the flags that stop. An append is
called, committed and answered in three actions, since the broadcast of another tab and
the read that follows it may come between any two: that is how an append that was stored
is reported as a conflict. The other tab appends results of its own or changes a
combination.

### Conversations

The conversations about one study in several tabs: `sendChatMessage`, the repository's
compare-and-swap, and of `ChatProvider` what loads, refreshes, creates, deletes, selects,
sends, cancels and recovers. A question goes through `Ask`, `FirstSave` (question and
PENDING answer stored), `Respond` or `Refuse` (the server), `SaveAnswer` and, after a
failure, up to three `SaveFailure`. A tab shows copies; `fresh` is `reopenPending`, what it
may recover since it loaded. Texts, citations and contexts are left out: a message is its
role, status and id.

## 3. The runs

Deadlock is not checked: each of these systems may stop rightly, or stops at its bounds. A
closed executor has nothing left, a function has returned, a repository has used up its
operation ids, tabs have made every change, attempts and faults are spent, a batch is over,
every question was asked. That nothing stops too early is said by `EveryJobEnds`,
`CloseDrains`, `EditsSettle`, `EveryRunEnds`, `BatchEnds` and `EveryAnswerSettles`.

| Run | Instance | What it shows |
|---|---|---|
| `executor` | 2 jobs of 2 repetitions, 2 slots, 2 pools, a clock that moves forward and back, retention of 1 | The queue is exact, no wake-up is lost, only the pool in use that broke is replaced, keys are bound exactly while their job is kept, a sleeping dispatcher never outlasts a retention, every snapshot passes the contract's own validation. |
| `executor_liveness` | 2 jobs of 2 repetitions, 1 slot, 2 pools, no symmetry | `JobLifecycle` is implemented, every accepted job ends and a close drains. |
| `netting` | 2 orders OUT against 2 IN of 2 clients, values 1 and 3, 4 days, window 2 | Conservation, deadlines, no internal check fails, the matched volume is the minimum of the sides, nothing is remitted early, urgency is respected. |
| `repository_history` | 1 study, 2 scenarios, 5 executions (a preview and its terminal, two rival reservations and a terminal of one diagnostic), 4 operations, any purges | Sequences are dense, the catalogue is exact, what is stored is valid, evidence is kept. |
| `repository_demo` | 2 installs in two tabs, a user's study, 2 operations, any purges | A revision names one content, records agree with what they answer for, there is one demonstration. |
| `tabs_safety` | 2 tabs, 3 changes (one of them an execution), one command in course in each tab, every command that saves | No change vanishes, nothing is overwritten, a tab that says SAVED shows a stored revision. |
| `tabs_liveness` | 2 tabs, 2 changes; one tab purges, changes session, installs the demonstration, attaches and reads, the other composes and its storage may fail | Edits that wait are saved, or given up by their user, or the tab says CONFLICT or STORAGE_FAILURE. |
| `attempts` | 2 tabs, 2 scenarios, 2 runs in course, 2 attempts, 1 fault of any kind | Jobs are asked for after their reservation is stored; an attempt has one ending, and its job's own if it is a success or a cancellation; of a scenario only repetitions overlap; what a run reports to its page as over is stored. |
| `attempts_liveness` | the same with 1 attempt, no symmetry | Every run ends. |
| `attempts_race` | the same with 1 attempt | **Violated**: an attempt is recorded as INTERRUPTED although its job is not lost (`findings`, observation 2). |
| `batch` | 2 combinations, 2 workers, 2 changes by the other tab, 1 computation that fails, a cancellation and a page left | What counts as concluded is stored, a batch left alone loses nothing, nothing is stored after a failed commit, the batch ends. |
| `conversations` | 2 tabs, 3 conversations of which a study holds 2, 2 answers, 1 page left, tab closed, deletion or failure of storage | One answer per question, a tab shows what was stored, history stays, no answer is waited for for ever. |

Why these bounds.

- Executor: each hazard involves a job that holds a slot and one that waits, or two
  repetitions of one job; two slots let two callbacks meet, two pools let a late failure
  of the first meet the second, two repetitions send a job back to the queue. `MaxTime`
  is 1 where retention is 1, so a job may expire, or not, or be younger than a clock set
  back. With `MaxTerminalJobs` 1 the limit on bytes never bites before the one on jobs:
  that eviction by size keeps `BindingExact` is shown by its theorem only.
- Netting: 2 + 2 uneven orders are the fewest where one is covered in part twice and a
  remainder falls due on a deadline that is not its own.
- Repository: four operations are a creation, a removal of a scenario, a later append and
  one more save, and the executions are two of each kind of conflict the validation
  knows. Two installs with two operations and purges reach the third, last retry.
  `MaxExecutions` bounds only documents offered to a save: an append may exceed it.
- Tabs: three changes are two queued in one tab and one of the other; a second call in
  course in the same tab would be a second click before the answer to the first. Drains,
  reads after a broadcast and orphans are not counted, so several are in course at once.
- Attempts: two runs are two tabs that follow one attempt, or a run and its cancellation
  or repetition; two attempts are a repetition, or two tabs that both would reserve. Two
  scenarios let two runs of one study both reserve rightly, and one of them go while it is
  followed. One
  fault is enough for each hazard in the list; two did not show more in smaller runs.
- Batch: two combinations keep both workers busy; two changes by the other tab are the
  one that makes a conflict and the late read that disturbs the second append.
- Conversations: two answers are a question and its repetition or the question of the
  other tab; three conversations make one that is created after one was deleted at the
  limit of two; three tries are the code's.

Symmetry is used where no property is temporal beyond `[][A]_vars` and the permuted ids
are interchangeable: jobs of one owner, operation ids, tabs and changes, slots, scenarios. The
theorems do away with the bounds where there is a proof.

## 4. Fairness

`FairSpec` of the executor assumes weak fairness of the dispatcher's loop, of its
hand-over, of the completion of a future, and of the steps of a callback: these run on
threads of the process, which the operating system schedules and nothing else suspends. A
future always completes because the pool either runs the repetition or breaks. Nothing is
assumed of users, of the clock, or of the timed wait: liveness may not depend on the
dispatcher's time-out, or a lost wake-up would be hidden by it.

`Spec` of the netting has weak fairness of `Next`: a sequential function runs.

In the browser a timer fires, a transaction commits or aborts, and the continuation of a
promise runs, as long as the tab is open. Hence weak fairness of: the autosave timer, the
drain and the attachment of `StudyTabs`; `Save` and `Service` of `DiagnosticAttempts`,
whose requests end because the client gives them up in time, and the ends of jobs, which
`EveryJobEnds` of the executor justifies; `Works` of `DiagnosticBatch`, whose computation
ends by `EveryRunEnds`; `SendChatMessage` of `Conversations`, whose request has a
time-out. Nothing is assumed of users, of other tabs, of the channel, of the database
beyond ending its transactions, or of the server beyond ending its jobs.

The repository states no liveness: it promises none.

## 5. The proofs

| Module | Proves |
|---|---|
| `DiagnosticExecutorProofs` | all the invariants of the executor, the action properties, and the refinement of `JobLifecycle`; also, in no run, `Capacity`, `RunningExact`, `CallbackFindsItsJob`, `ClosedStaysIdle` and `CancelSticks` |
| `NettingP0Proofs` | all the invariants of the netting run and its action properties; also, in no run, `DueExact`, `WindowHolds` and `SidesBalance` |
| `StudyRepositoryProofs` | all the invariants of the two repository runs and their action properties |
| `ConversationsProofs` | the invariants `OneAnswerEach` and `ShowsStored` and the action property `HistoryStays` |
| `DiagnosticAttemptsProofs` | the five invariants of the attempts: `ReservedFirst`, `OneEnding`, `EndingsAgree`, `OneAtATime`, `CompletedIsStored` |
| `StudyTabsProofs` | the invariants `ShowsARevision` and `NoChangeVanishes` and the action property `NothingIsOverwritten`, the last two where no tab composes; also, in no run, the types |
| `DiagnosticBatchProofs` | the invariants `CompletedIsStored` and `FailsForACause` and the action property `StopsAtCommitFailure`; also, in no run, that a result is stored once (`StoredOnce`) and the types |

Assumptions: `ExecutorAssumption` and `NoneAssumption` (finite keys, positive limits,
`None` outside the sets), `NettingAssumption` (finite orders and clients, an admissible
scenario), `RepositoryAssumption`,
`PackageAssumption` (the package is a valid document, as `materializeDemoPackage` checks)
and `NoneAssumption` of the repository, `ConversationsAssumption` and `AttemptsAssumption` (limits are natural numbers),
`BatchAssumption` (the combinations are numbered, there are two workers), `TabsAssumption`
(what a tab may use, a natural number of calls) and `NoneAssumption` of the tabs; TLC evaluates them in
every run.

**Executor.** The properties are not inductive one by one, since each callback relies on the state
of its job, and that on where the other threads are. `Inv` adds what they
share: `JobsAgree` ties, job by job, its status to its place in the queue, its stage and
its binding; `RecoveryExact` says that one callback at a time replaces a pool, the one in
use; `ClosedExact` what a close leaves behind. The proof has one lemma for each action
(`...Agrees`) on `JobsAgree`, and then one for each of the other conjuncts over all the
actions (`NextRunning`, `NextRecovery`, `NextSleep`, `NextExpiry`, `NextClosed`,
`NextCapacity`). The refinement follows from what each action does to the phases
(`...Moves`). `SnapshotValid` needs what holds of a
record by itself, at every time it may be read: `Sound` (its times are in order and its
counters within its command, whatever the clock does) and `EndsWell` (why it failed, what it
aggregated); each operator that writes a record keeps them (`...IsSound`).

**Netting.** `Soma` is a cardinality, so that sums over sets of orders can be reasoned
about without recursion; the first lemmas say how it splits and how an update changes
it. `IInv` adds to the properties what holds in the middle of a match: `Match` (what a
queue still has to give fits in it, and the volume is one of the sides), `Sides` (a client
that could still match itself is still to be matched), `Balance` and `Matched` (the books
of the cycle and of the run, with what a side has yet to give), `Batch` and `Control`.
From it follow the checks that never fail, the deadlines, and the minimum.

**Repository.** The rows of a study are its history laid out (`Lays`): each at the place of its
record. `Laid` says so of every study, and `LaysBack` that the history is read back from the
rows as it was. Every transaction that leaves a study stored is then one step, `Stores`: it
lays out a history again, the document offered, the one found with an attempt added
(`WithPair`), the one found, or the package, and writes a row, a summary and a record that
agree with it. Five lemmas (`...Stores`) say that the code's transactions are such steps,
and one (`StoresKeep`) that such a step keeps `CatalogExact`, `StoredValid` and `RecordsFit`.
That an append may validate its pair alone is `PairValid`; that the rows which stay keep their
order when those of a removed scenario go is `SlideKeepsOrder`, a count of the rows before.

**Conversations.** A save is accepted by its revision alone. What makes it right is that
nobody holds, under the stored revision, anything but what is stored (`Copy`): in a list, in
a question about to be saved (`Asks`), in a request on its way (`SendExact`). So whoever is
accepted has edited the stored conversation, and the step is one of four that a conversation
may take (`Legal`): `AskedKeeps` and `EndedKeeps` say that a question, its repetition and an
ending keep its form. `StepKeeps` is the frame that all the actions share: copies stay
copies through legal steps.

**Attempts.** Any copy of the study may become the stored one: the base of a tab, its pending
edits, the document a run holds. So what holds of the stored study is proved of every copy
(`Fits`: it is sound by itself, agrees with the server, and has no success or cancellation
of an attempt nobody asked the server for yet; `Sound` speaks of the unfinished attempts of each scenario,
and of the records as they were appended, hidden ones included, so that a removal only takes
scenarios away: `FewerScenarios`), and likewise of every ending a run still has
in hand (`EndingFits`). `IInv` adds `AskedOnce` (an attempt not asked for yet is known to one
run and not to the server), `Placed` (what a run knows at the step it is at) and `BasesOld`
(no base is ahead of the store). `StepKeeps` is the frame the actions share: the copies stay
fit through what the server and the other runs do. `ReserveKeeps` is the one step that makes
an attempt.

**Batch.** `CompletedIsStored` rests on who may store: the worker at the head of the queue and
no other (`QueueExact`), of the combination that it alone took (`ItemsApart`). `StoredKnown`
says what such a worker knows of its own result at each phase: before its append is answered
and after a refusal there is none, in a document it has read again it sees its result if
there is one. So a repeated commit appends nothing twice (`StoredOnce`). `NoneCommits` says
that after a failed commit nobody is at the head any more, and `Alone` describes the quiet
batch, step by step, in which no append can be refused. Every action is one of seven moves of a worker
(`Stays`, `Picks`, `Leaves`, `Joins`, `Starts`, `Stores`, `Rereads`), by one lemma each, and each
conjunct is proved once for each move.

**Tabs.** Every step is `Local`, in one tab, which leaves the history as it is, or `Stores`, which
adds a revision (`StepIs`); the `...Local` lemmas put each action in one of these, and reduce
what a tab may become to seven moves (`TabMove`) and what its calls may become to two
(`CallsMove`). Three layers follow. `Shape`: a queue is a chain of successors, a drain in course
saves its head, a read that ended has a stored revision, and what a tab shows is stored, or
queued, or the tab does not say SAVED. It is inductive whatever the tabs do, and gives the types and
`ShowsARevision`. `AllRooted`: each document that waits or is on its way contains the stored
revision it would follow, or the queued edit that must be stored first, or lacks an execution of
it and will be refused for that (`Lacks`); the execution that an append brings is in nothing
stored before it (`AppendFresh`). With it revisions only grow (`Grows`), which gives
`NothingIsOverwritten`. `KeepsChanges`: a step leaves each change it finds in the last revision, in
`dropped`, in a queue or in a call; one lemma for each action (`...Keeps`), and `Grows` for the
revisions, give `NoChangeVanishes`.

Both of the last two theorems suppose that `"compose"` is in no tab's `Commands`, as in the run
that checks the two properties. `Compose` stands for `applySource` and for the other commands of
`StudyPortfolioPage.tsx` that edit a document captured before a wait: what is shown is that no
command of the controller overwrites or loses a change as long as pages edit the document that
is shown. The supposition cannot be dropped: such an edit can overwrite what another tab
stored meanwhile (section 8, number 6); with it TLC finds both properties violated. `ShowsARevision` and the types are proved without it.

Only model-checked: the liveness properties (`EveryJobEnds`, `CloseDrains`, `EditsSettle`,
`EveryRunEnds`, `BatchEnds`, `EveryAnswerSettles`), since fairness is out of the prover's reach, and
the counterexample of `attempts_race`. Every invariant and action property of the passing runs
is stated by a theorem. The inductive invariant of the tabs was checked by TLC on the instance of `tabs_safety` before it
was proved. Two definitions of `StudyTabs` were made exact for the proofs, without changing what
TLC computes: the status after a save was a `CASE` whose guards overlap, where TLA+ leaves the
choice open, and is now an `IF`; `Unsaved` has its parentheses.

## 6. Not modelled

`PROJECT.json` lists every component with its status. The reasons:

- numeric and statistical code (`custo`, `geracao`, `simulacao`, `analise`, the statistics
  of profiles, portfolios and comparisons): real numbers and sampling, where a model would
  repeat the formula;
- stateless translation and validation (routes, contracts, preparation, preview, replay,
  hypotheses, levers, parsing and eligibility of imports, studies as files): no order of
  events to get wrong;
- rendering (`pages/`, `components/`, `presentation/`, `communication/`, the playback of
  the replay page), generated code (`api/generated.ts`, `generated/validators/`), fixtures
  and the bridge of the end-to-end tests: no behaviour of the product's own;
- libraries and services (identity provider, chat model, `ProcessPoolExecutor`): the
  executor's model has a pool that completes every future or breaks; of the server's chat,
  `Conversations` keeps that a request is answered, refused or given up;
- of the repository: companies, cases, imports and profiles are single transactions over
  one aggregate, none of which reads what another wrote beyond its own compare-and-swap;
  the one-off cleanup `removeLegacyAutomaticDemo` has no caller in production; schema
  upgrades and migrations run inside the version-change transaction, before any tab has
  the database;
- `executionService.ts`: `executeStudyScenario` is called by tests only;
- `PreviewProvider`: one debounced request, whose late answers a counter drops;
- `draftRecovery.ts`: a copy of unsaved text in the tab's session storage, read by one page.

These are most of the repository's lines: what is mapped is the code in which an order of
events can be wrong.

## 7. What could follow

- A proof that the tabs, with the transactions of `StudyRepository` behind them, write only
  what it accepts: the two modules are related by their guards, not by a refinement.
- The aggregate of companies, cases and profiles in `StudyRepository`, so that an install
  and a purge of the demonstration are whole, and `deleteCompany` in another tab meets an
  import in course.
- A second study in `DiagnosticAttempts`, for runs that end behind a page that shows
  another one.

## 8. Observations

Met while modelling. Only number 2 is stated as a finding with a run of its own; the others
are facts of the code that a maintainer may want to know, each visible in the models.

1. `docs/architecture.md:104` says "Execuções são append-only." A save whose document has
   no longer a scenario deletes its executions (`saveStudy`,
   `indexedDbApplicationRepository.ts:1465`); `EvidenceKept` states what is kept.
2. A reservation is saved and broadcast before its request is sent
   (`diagnosticExecutionService.ts:225`), and a page in another tab resumes it at once
   (`StudyDiagnosticPage.tsx:249`): its poll may overtake the request, and an attempt whose
   job then runs is recorded as INTERRUPTED.
3. A lost answer to a submission is recorded as FAILED though the job runs
   (`diagnosticExecutionService.ts:136`). A repetition that the server refuses leaves a
   QUEUED reservation without a job. `retryStudyDiagnostic` does not look for an unfinished
   attempt: there may be two, and the run follows the first. A run left while it saves
   ends as if it had stored its ending although the edit was discarded with the selection; if
   the same screen is open again by then, `complete` shows it (`StudyDiagnosticPage.tsx:202`).
   The page shows an ended phase as soon as a poll tells it, before it is stored (`:194`).
   Removing a scenario takes away reservations whose jobs still run. A detached save
   that is refused loses the ending until the attempt is resumed. `cancel()` of the page
   has no `catch`.
4. `flush` resolves when the drain in course ends in a conflict or in an error, with edits
   still in the queue (`studyController.ts:697`). An edit made while `loadStudy` reads may
   be drained before the answer, which is then shown over it (`:295`). A failed load leaves
   the tab DIRTY with an empty queue. The late answer of a load, an attachment or a detached
   save puts a clean tab back below a revision it was told of.
5. A tab may say SAVED with an edit in the queue that no timer saves. An attachment that ends
   after the edit was refused or failed puts SAVED over CONFLICT or STORAGE_FAILURE
   (`studyController.ts:441`), and so does the answer of a load over an edit made and refused while
   it read (`:298`). The next edit or flush sends the queue again. `EditsSettle` therefore starts
   from edits of a tab that says DIRTY or SAVING; and its run lets the storage fail in one tab and
   attaches in the other, since an attachment also puts SAVING over STORAGE_FAILURE (`:428`).
6. `applySource` (`StudyPortfolioPage.tsx:139`) edits the study it captured before it
   waited for the server, and `edit` compares revision numbers only
   (`studyController.ts:548`). If the edit it started from was refused and the study loaded
   again meanwhile, the other tab's revision is overwritten with no conflict, although
   `docs/superpowers/specs/2026-09-20-frontend-etapa-4-design.md:895` says "Conflito de duas
   abas não faz last-write-wins". The commands for levers, variations, names and removals
   (`:156` to `:225`) capture the study likewise and wait for hashes; the one for combinations looks
   at the revision again (`:194`), but hashes once more after that. `NothingIsOverwritten` and
   `NoChangeVanishes` are therefore checked and proved without such commands.
7. Batch: after a conflict and a reload, a late read of a broadcast during the second
   append marks a conflict: the append is stored, and the combination is reported as failed
   (`StudyDiagnosticPage.tsx:331`, `studyController.ts:484`). A late read between two commits
   leaves the tab in CONFLICT, and the next one fails without a retry.
8. Conversations: the recovery in one tab fails the live request of another, whose answer is
   dropped, though `repository.ts:189` says that reads must not; after that two requests may
   be active for one conversation, though `chatService.ts:33` says one. A tab that learns of
   a PENDING answer through a conflict never recovers it until it loads again, and refuses
   to ask meanwhile. Two tabs that open a study without conversations both create one. Of
   the three tries to store a failure one is enough when nobody else writes.
9. A `retry` repeated after its original was evicted is answered `JOB_NAO_ENCONTRADO`
   although the job it made exists: the original is looked up before the key
   (`executor.py:374`).
10. A job handed to a pool that was retired in the meantime ends `DIAGNOSTICO_INVALIDO`
    and not `EXECUTOR_INDISPONIVEL`: the pool refuses it with an error that is not the one
    of a broken pool.
11. A save repeated after later saves is answered with the metadata it wrote and the
    execution rows of now (`assembleOperationStudy`): a reservation interrupted since shows
    as interrupted at the earlier revision, and a scenario removed since makes it an error.
12. `purgeStudy` leaves the conversations of the study, and `deleteCompany` the idempotency
    records of the company's cases and profiles.
