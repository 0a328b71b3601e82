------------------------- MODULE DiagnosticAttempts -------------------------
(***************************************************************************)
(* The diagnostic runs of one study of one account, in several tabs:       *)
(* web/src/diagnostics/diagnosticExecutionService.ts, called by            *)
(* web/src/pages/StudyDiagnosticPage.tsx, over the study controllers and   *)
(* the server's executor.                                                  *)
(*                                                                         *)
(* A run is of one scenario of the study.  It reserves an attempt in the   *)
(* stored study, submits it, polls the server until its job ends, and      *)
(* appends the ending.  Cancelling and repeating are runs too: each does   *)
(* its request and then follows the first unfinished attempt of the        *)
(* scenario as a run that finds one does.  What a run does between two     *)
(* awaits is one action; a request and its answer are one action, and a    *)
(* fault loses the one or the other.                                       *)
(*                                                                         *)
(* A scenario can be removed, and its attempts go with it: a document      *)
(* names the scenarios it has, and a record of another scenario is gone    *)
(* from it, although the model still knows that it was there (Shows and    *)
(* Has).  The base is a scenario that nobody happens to remove; none is    *)
(* added here.                                                             *)
(*                                                                         *)
(* The page shows the phase of the job as each poll tells it, an ended one *)
(* included; nothing reads that, and the model leaves it out.  It has what *)
(* the page says when a run returns (complete).                            *)
(*                                                                         *)
(* Of a controller the model keeps the stored document it shows, the edits *)
(* on top of it and their compare-and-swap: its calls are one action here, *)
(* and StudyTabs has what happens inside them.  Of the server it keeps the *)
(* phase of each job, as JobLifecycle has it, and its restarts.  A study   *)
(* that compares portfolios runs its diagnostics otherwise.                *)
(*                                                                         *)
(* A definition named X_slip is X with a mistake a maintainer could make;  *)
(* nothing uses it.                                                        *)
(***************************************************************************)
EXTENDS Naturals, Sequences, SequencesExt, FiniteSets

CONSTANTS
    Tabs,
    Scenarios,    \* of the study, at first
    Slots,        \* bound: the runs in course in all tabs, one in each slot
    MaxAttempts,  \* bound: attempts reserved
    MaxEvents     \* bound: edits of the study that are none of a run, scenarios removed,
                  \* pages left, opened again or closed, requests lost or refused, jobs
                  \* forgotten, restarts of the server

ASSUME AttemptsAssumption == {MaxAttempts, MaxEvents} \subseteq Nat

VARIABLES
    study,   \* the stored revision
    tab,     \* what each controller holds of it
    run,     \* the runs in course
    issued,  \* attempts made so far: 1, 2, ...
    job,     \* the job of each attempt; "absent": the server does not know it (any more)
    unkept,  \* attempts a page said to be over, by complete, before the study had their ending
    events   \* what has happened of MaxEvents

vars == <<study, tab, run, issued, job, unkept, events>>

Attempts  == 1..MaxAttempts
Lifecycle == INSTANCE JobLifecycle WITH Jobs <- Attempts, phase <- job

Endings   == {"SUCCEEDED", "FAILED", "UNFETCHED", "CANCELLED", "INTERRUPTED"}
\* What a reservation repeats (0: nothing) is not in the code's record of it.
Records   == [attempt : Attempts, scenario : Scenarios, repeats : 0..MaxAttempts,
              status : Endings \cup {"QUEUED"}]
Documents == [revision : Nat, scenarios : SUBSET Scenarios, records : Seq(Records)]

Nothing == [revision |-> 0, scenarios |-> {}, records |-> <<>>]   \* no document

Idle == [tab |-> "none", kind |-> "none", scenario |-> "none", mounted |-> FALSE, phase |-> "idle",
         attempt |-> 0, again |-> 0, held |-> Nothing, ending |-> "none"]

Awaiting == {"flush", "resume", "reserving", "persisting", "saving"}  \* the end of a flush
Phases   == Awaiting \cup {"idle", "building", "submitting", "retrying", "cancelling",
                           "polling", "fetching", "appending", "detaching"}

Init ==
    /\ study = [revision |-> 1, scenarios |-> Scenarios, records |-> <<>>]
    /\ tab = [t \in Tabs |-> [base |-> study, pending |-> <<>>]]
    /\ run = [s \in Slots |-> Idle]
    /\ issued = 0
    /\ job = [a \in Attempts |-> "absent"]
    /\ unkept = {}
    /\ events = 0

-----------------------------------------------------------------------------
(* The attempts of a document *)

\* It has the record, or had it until the scenario was removed.
Has(document, a, statuses) ==
    \E i \in DOMAIN document.records :
        document.records[i].attempt = a /\ document.records[i].status \in statuses

\* It has the record.
Shows(document, a, statuses) ==
    \E i \in DOMAIN document.records :
        /\ document.records[i].attempt = a /\ document.records[i].status \in statuses
        /\ document.records[i].scenario \in document.scenarios

Unfinished(document, c) ==
    {i \in DOMAIN document.records :
        /\ document.records[i].status = "QUEUED"
        /\ document.records[i].scenario = c /\ c \in document.scenarios
        /\ ~Shows(document, document.records[i].attempt, Endings)}

\* activeReservation: the first one of the scenario without an ending, 0 if there is none.
ActiveReservation(document, c) ==
    LET unfinished == Unfinished(document, c)
    IN  IF unfinished = {} THEN 0
        ELSE document.records[CHOOSE i \in unfinished : \A j \in unfinished : i <= j].attempt

Reservation(a, c, b) == [attempt |-> a, scenario |-> c, repeats |-> b, status |-> "QUEUED"]
Ending(a, c, status) == [attempt |-> a, scenario |-> c, repeats |-> 0, status |-> status]

\* appendDiagnosticExecution, of a record it accepts.
With(document, record) ==
    [document EXCEPT !.revision = @ + 1, !.records = Append(@, record)]

\* It accepts an ending of a reservation like it that has none.
Appendable(document, a, c) ==
    /\ c \in document.scenarios
    /\ \E i \in DOMAIN document.records :
          /\ document.records[i].attempt = a /\ document.records[i].scenario = c
          /\ document.records[i].status = "QUEUED"
    /\ ~Shows(document, a, Endings)

-----------------------------------------------------------------------------
(* The controller of a tab *)

Shown(t) == IF tab[t].pending = <<>> THEN tab[t].base ELSE Last(tab[t].pending)

\* flush has nothing left to save.
Quiet(t) == tab[t].pending = <<>>

\* edit takes only the successor of what is shown.
Editable(t, document) == Shown(t) # Nothing /\ document.revision = Shown(t).revision + 1
Edited(t, document)   == tab' = [tab EXCEPT ![t].pending = Append(@, document)]

Event == events < MaxEvents /\ events' = events + 1

Of(t)      == {s \in Slots : run[s].tab = t}
Step(s, r) == run' = [run EXCEPT ![s] = r]
Ends(s)    == Step(s, Idle)

\* A run that flushed when a save is refused throws.
Thrown(t) ==
    run' = [s \in Slots |-> IF s \in Of(t) /\ run[s].phase \in Awaiting THEN Idle ELSE run[s]]

\* No execution is changed or taken out, except with its scenario: then it is hidden, and the
\* others do not move.
Kept(document) == IsPrefix(study.records, document.records)

Save(t) ==
    /\ ~Quiet(t)
    /\ LET document == Head(tab[t].pending)
       IN  \/ /\ document.revision = study.revision + 1 /\ Kept(document)
              /\ study' = document
              /\ tab' = [tab EXCEPT ![t] = [base |-> document, pending |-> Tail(@.pending)]]
              /\ UNCHANGED run
           \/ /\ ~(document.revision = study.revision + 1 /\ Kept(document))
              /\ \E s \in Of(t) : run[s].phase \in Awaiting
              /\ Thrown(t)
              /\ UNCHANGED <<study, tab>>
    /\ UNCHANGED <<issued, job, unkept, events>>

\* A broadcast: a tab with nothing pending reads the study again.
Told(t) ==
    /\ Quiet(t) /\ tab[t].base # Nothing /\ tab[t].base.revision < study.revision
    /\ tab' = [tab EXCEPT ![t].base = study]
    /\ UNCHANGED <<study, run, issued, job, unkept, events>>

\* An edit by another page of the tab.
Elsewhere(t) == Event /\ Shown(t) # Nothing /\ \A s \in Of(t) : ~run[s].mounted

\* One that leaves the attempts alone.
UserEdit(t) ==
    /\ Elsewhere(t)
    /\ Edited(t, [Shown(t) EXCEPT !.revision = @ + 1])
    /\ UNCHANGED <<study, run, issued, job, unkept>>

\* removeScenario: its attempts go too, whatever runs follow them.
DeleteScenario(t, c) ==
    /\ Elsewhere(t)
    /\ c \in Shown(t).scenarios
    /\ Edited(t, [Shown(t) EXCEPT !.revision = @ + 1, !.scenarios = @ \ {c}])
    /\ UNCHANGED <<study, run, issued, job, unkept>>

-----------------------------------------------------------------------------
(* The page *)

\* The page is left, or shows another scenario: its runs go on, except those that wait for their
\* reservation to be saved, which are told that the selection changed.
Unmounted(t) ==
    run' = [s \in Slots |->
        IF s \notin Of(t) THEN run[s]
        ELSE IF run[s].phase = "reserving" THEN Idle ELSE [run[s] EXCEPT !.mounted = FALSE]]

\* It is opened (again): a study that is shown and saved is not read again.
Open(t) ==
    /\ tab[t].base = Nothing \/ Event
    /\ tab[t].base = Nothing => UNCHANGED events
    /\ tab' = [tab EXCEPT ![t] = [base    |-> IF Quiet(t) /\ @.base # Nothing THEN @.base ELSE study,
                                  pending |-> <<>>]]
    /\ Unmounted(t)
    /\ UNCHANGED <<study, issued, job, unkept>>

\* Another study is opened.
Leave(t) ==
    /\ tab[t].base # Nothing /\ Event
    /\ tab' = [tab EXCEPT ![t] = [base |-> Nothing, pending |-> <<>>]]
    /\ Unmounted(t)
    /\ UNCHANGED <<study, issued, job, unkept>>

\* The tab is closed, or the account signs out.
Close(t) ==
    /\ tab[t].base # Nothing /\ Event
    /\ tab' = [tab EXCEPT ![t] = [base |-> Nothing, pending |-> <<>>]]
    /\ run' = [s \in Slots |-> IF s \in Of(t) THEN Idle ELSE run[s]]
    /\ UNCHANGED <<study, issued, job, unkept>>

Free == {s \in Slots : run[s] = Idle}

\* The page is at a run of these kinds.
Busy(t, kinds) == \E s \in Slots : run[s].tab = t /\ run[s].mounted /\ run[s].kind \in kinds

\* The page shows one scenario: to show another it leaves the runs that it is at (Open).
Begin(t, kind, c, again) ==
    /\ Shown(t) # Nothing
    /\ \A s \in Slots : run[s].tab = t /\ run[s].mounted => run[s].scenario = c
    /\ \E s \in Free :
          Step(s, [Idle EXCEPT !.tab = t, !.kind = kind, !.scenario = c, !.mounted = TRUE,
                               !.phase = IF kind = "run" THEN "resume" ELSE "flush",
                               !.again = again])
    /\ UNCHANGED <<study, tab, issued, job, unkept, events>>

\* The button, or the page that finds a reservation (executeStudyDiagnostic).
\* (With no attempt left it would only meet the bound.)
StartRun(t, c) ==
    /\ ~Busy(t, {"run", "retry"}) /\ c \in Shown(t).scenarios
    /\ ~(issued = MaxAttempts /\ ActiveReservation(Shown(t), c) = 0)
    /\ Begin(t, "run", c, 0)

\* The button is there while an attempt is unfinished.
StartCancel(t, c) ==
    /\ ~Busy(t, {"cancel"})
    /\ ActiveReservation(Shown(t), c) # 0
    /\ Begin(t, "cancel", c, 0)

\* An attempt is repeated for the scenario that it is of.
StartRetry(t, a) ==
    /\ ~Busy(t, {"run", "retry", "cancel"}) /\ issued < MaxAttempts
    /\ Shows(Shown(t), a, Endings)
    /\ \E i \in DOMAIN Shown(t).records :
          /\ Shown(t).records[i].attempt = a
          /\ Begin(t, "retry", Shown(t).records[i].scenario, a)

-----------------------------------------------------------------------------
(* A run, up to its request *)

Bad == {"FAILED", "UNFETCHED", "CANCELLED"}

\* cancelStudyDiagnostic and retryStudyDiagnostic choose what they are about.
CommandChosen(s) ==
    LET r == run[s]
        d == Shown(r.tab)
        active == ActiveReservation(d, r.scenario)
    IN  /\ r.phase = "flush" /\ Quiet(r.tab)
        /\ \/ /\ r.kind = "cancel" /\ active # 0
              /\ Step(s, [r EXCEPT !.phase = "cancelling", !.attempt = active])
           \/ /\ r.kind = "retry" /\ Shows(d, r.again, Bad)
              /\ Step(s, [r EXCEPT !.phase = "building", !.held = d])
           \/ /\ IF r.kind = "cancel" THEN active = 0 ELSE ~Shows(d, r.again, Bad)
              /\ Ends(s)
        /\ UNCHANGED <<study, tab, issued, job, unkept, events>>

\* executeStudyDiagnostic: an unfinished attempt of the scenario is followed, else one is
\* built; a scenario that was removed has neither.
Captured(s) ==
    LET r == run[s]
        d == Shown(r.tab)
        active == ActiveReservation(d, r.scenario)
    IN  /\ r.phase = "resume" /\ Quiet(r.tab)
        /\ IF active # 0
           THEN Step(s, [r EXCEPT !.phase = "polling", !.attempt = active, !.held = d])
           ELSE IF r.scenario \in d.scenarios /\ r.kind = "run" /\ issued < MaxAttempts
           THEN Step(s, [r EXCEPT !.phase = "building", !.held = d])
           ELSE Ends(s)
        /\ UNCHANGED <<study, tab, issued, job, unkept, events>>

\* The study shown by then is edited.
Reserve_slip(s) ==
    LET r == run[s]
        document == With(Shown(r.tab), Reservation(issued + 1, r.scenario, r.again))
    IN  /\ r.phase = "building" /\ Shown(r.tab) # Nothing
        /\ issued < MaxAttempts /\ Edited(r.tab, document) /\ issued' = issued + 1
        /\ Step(s, [r EXCEPT !.phase = "reserving", !.attempt = issued + 1, !.held = Nothing])
        /\ UNCHANGED <<study, job, unkept, events>>

\* The request is built, or not; the study captured before is edited if nothing followed it.
Reserve(s) ==
    LET r == run[s]
        document == With(r.held, Reservation(issued + 1, r.scenario, r.again))
    IN  /\ r.phase = "building"
        /\ \/ /\ issued < MaxAttempts /\ Editable(r.tab, document)
              /\ Edited(r.tab, document) /\ issued' = issued + 1
              /\ Step(s, [r EXCEPT !.phase = "reserving", !.attempt = issued + 1, !.held = Nothing])
           \/ /\ r.kind = "run" \/ issued = MaxAttempts \/ ~Editable(r.tab, document)
              /\ Ends(s) /\ UNCHANGED <<tab, issued>>
        /\ UNCHANGED <<study, job, unkept, events>>

\* The reservation is not waited for.
Reserved_slip(s) ==
    LET r == run[s]
    IN  /\ r.phase = "reserving"
        /\ Step(s, [r EXCEPT !.phase = IF r.kind = "run" THEN "submitting" ELSE "retrying",
                                !.held = Shown(r.tab)])
        /\ UNCHANGED <<study, tab, issued, job, unkept, events>>

Reserved(s) ==
    LET r == run[s]
    IN  /\ r.phase = "reserving" /\ Quiet(r.tab)
        /\ Step(s, [r EXCEPT !.phase = IF r.kind = "run" THEN "submitting" ELSE "retrying",
                                !.held = Shown(r.tab)])
        /\ UNCHANGED <<study, tab, issued, job, unkept, events>>

-----------------------------------------------------------------------------
(* Requests: what the server does, and what comes back *)

Requested == UNCHANGED <<study, tab, issued, unkept>>

\* The server accepts the attempt.  If no acknowledgement comes, the run takes it for failed.
Submit(s) ==
    LET r == run[s]
    IN  /\ r.phase = "submitting"
        /\ \/ /\ job' = [job EXCEPT ![r.attempt] = "pending"]
              /\ Step(s, [r EXCEPT !.phase = "polling"])
              /\ UNCHANGED events
           \/ /\ Event
              /\ job' \in {job, [job EXCEPT ![r.attempt] = "pending"]}
              /\ Step(s, [r EXCEPT !.phase = "persisting", !.ending = "FAILED"])
        /\ Requested

\* A job that ended badly is repeated; one whose result could not be fetched is submitted
\* anew.  Anything else leaves the reservation behind.
Repeat(s) ==
    LET r == run[s]
        repeatable == Has(r.held, r.again, {"UNFETCHED"}) \/ job[r.again] \in {"failed", "cancelled"}
    IN  /\ r.phase = "retrying"
        /\ \/ /\ repeatable
              /\ job' = [job EXCEPT ![r.attempt] = "pending"]
              /\ Step(s, [r EXCEPT !.phase = "resume"])
              /\ UNCHANGED events
           \/ ~repeatable /\ Ends(s) /\ UNCHANGED <<job, events>>
           \/ /\ Event /\ Ends(s)
              /\ job' \in {job} \cup IF repeatable THEN {[job EXCEPT ![r.attempt] = "pending"]} ELSE {}
        /\ Requested

\* A job that waits is cancelled at once, one that runs when its repetition ends; one that
\* ended or is gone cannot be.
Cancel(s) ==
    LET r == run[s]
        stops == job[r.attempt] \in {"pending", "cancelling"}
        after == IF job[r.attempt] = "pending" THEN {"cancelling", "cancelled"} ELSE {job[r.attempt]}
    IN  /\ r.phase = "cancelling"
        /\ \/ /\ stops /\ UNCHANGED events
              /\ Step(s, [r EXCEPT !.phase = "resume"])
              /\ \E p \in after : job' = [job EXCEPT ![r.attempt] = p]
           \/ /\ ~stops /\ UNCHANGED <<events, job>> /\ Ends(s)
           \/ /\ Event /\ Ends(s)
              /\ job' \in {job} \cup IF job[r.attempt] = "pending"
                                     THEN {[job EXCEPT ![r.attempt] = p] : p \in after} ELSE {}
        /\ Requested

\* A request to stop is taken for the stop.
Poll_slip(s) ==
    LET r == run[s]
        Found(phase, status) == job[r.attempt] = phase /\
            Step(s, [r EXCEPT !.phase = "persisting", !.ending = status])
    IN  /\ r.phase = "polling"
        /\ \/ /\ \/ Found("absent", "INTERRUPTED") \/ Found("failed", "FAILED")
                 \/ Found("cancelling", "CANCELLED") \/ Found("cancelled", "CANCELLED")
                 \/ job[r.attempt] = "succeeded" /\ Step(s, [r EXCEPT !.phase = "fetching"])
              /\ UNCHANGED events
           \/ Event /\ Ends(s)
        /\ UNCHANGED job /\ Requested

\* A job the server does not know is asked for again.
Poll_slip2(s) ==
    LET r == run[s]
        Found(phase, status) == job[r.attempt] = phase /\
            Step(s, [r EXCEPT !.phase = "persisting", !.ending = status])
    IN  /\ r.phase = "polling"
        /\ \/ /\ \/ Found("failed", "FAILED") \/ Found("cancelled", "CANCELLED")
                 \/ job[r.attempt] = "succeeded" /\ Step(s, [r EXCEPT !.phase = "fetching"])
              /\ UNCHANGED events
           \/ Event /\ Ends(s)
        /\ UNCHANGED job /\ Requested

\* A job the server does not know counts as lost in a restart.
Poll(s) ==
    LET r == run[s]
        Found(phase, status) == job[r.attempt] = phase /\
            Step(s, [r EXCEPT !.phase = "persisting", !.ending = status])
    IN  /\ r.phase = "polling"
        /\ \/ /\ \/ Found("absent", "INTERRUPTED") \/ Found("failed", "FAILED")
                 \/ Found("cancelled", "CANCELLED")
                 \/ job[r.attempt] = "succeeded" /\ Step(s, [r EXCEPT !.phase = "fetching"])
              /\ UNCHANGED events
           \/ Event /\ Ends(s)
        /\ UNCHANGED job /\ Requested

\* The result: it may be gone by now, be refused for good, or be asked for again later.
Fetch(s) ==
    LET r == run[s]
        Persists(status) == Step(s, [r EXCEPT !.phase = "persisting", !.ending = status])
    IN  /\ r.phase = "fetching"
        /\ \/ job[r.attempt] = "succeeded" /\ Persists("SUCCEEDED") /\ UNCHANGED events
           \/ job[r.attempt] = "absent" /\ Persists("INTERRUPTED") /\ UNCHANGED events
           \/ Event /\ (Ends(s) \/ Persists("UNFETCHED"))
        /\ UNCHANGED job /\ Requested

-----------------------------------------------------------------------------
(* persistTerminal *)

\* The page says that the attempt is over.
Reports(s) ==
    LET r == run[s]
    IN  unkept' = IF r.mounted /\ ~Has(study', r.attempt, Endings) THEN unkept \cup {r.attempt}
                  ELSE unkept

\* The study shown gets the ending, unless somebody recorded one; a study that is not shown
\* any more gets it behind the page's back.
Persist(s) ==
    LET r == run[s]
        d == Shown(r.tab)
        onto == IF d = Nothing THEN r.held ELSE d
        next == IF d = Nothing THEN "detaching" ELSE "appending"
    IN  /\ r.phase = "persisting" /\ Quiet(r.tab)
        /\ UNCHANGED <<study, tab, issued, job, events>>
        /\ IF Shows(d, r.attempt, Endings)
           THEN Ends(s) /\ Reports(s)
           ELSE /\ UNCHANGED unkept
                /\ IF Appendable(onto, r.attempt, r.scenario)
                   THEN Step(s, [r EXCEPT !.phase = next,
                                          !.held = With(onto, Ending(r.attempt, r.scenario, r.ending))])
                   ELSE Ends(s)

AppendEnding(s) ==
    LET r == run[s]
    IN  /\ r.phase = "appending"
        /\ IF Editable(r.tab, r.held)
           THEN Edited(r.tab, r.held) /\ Step(s, [r EXCEPT !.phase = "saving", !.held = Nothing])
           ELSE Ends(s) /\ UNCHANGED tab
        /\ UNCHANGED <<study, issued, job, unkept, events>>

\* The page is told before the edit is saved.
Saved_slip(s) ==
    /\ run[s].phase = "saving"
    /\ UNCHANGED <<study, tab, issued, job, events>>
    /\ Ends(s) /\ Reports(s)

Saved(s) ==
    /\ run[s].phase = "saving" /\ Quiet(run[s].tab)
    /\ UNCHANGED <<study, tab, issued, job, events>>
    /\ Ends(s) /\ Reports(s)

\* The ending is put on the study as stored by now.
Detach_slip(s) ==
    LET r == run[s]
    IN  /\ r.phase = "detaching"
        /\ Ends(s)
        /\ study' = With(study, Last(r.held.records)) /\ Reports(s)
        /\ UNCHANGED <<tab, issued, job, events>>

\* saveDetachedStudy: refused if the study went on meanwhile.
Detach(s) ==
    LET r == run[s]
    IN  /\ r.phase = "detaching"
        /\ Ends(s)
        /\ IF r.held.revision = study.revision + 1 /\ Kept(r.held)
           THEN study' = r.held /\ Reports(s)
           ELSE UNCHANGED <<study, unkept>>
        /\ UNCHANGED <<tab, issued, job, events>>

-----------------------------------------------------------------------------
(* The server *)

JobEnds(a) ==
    /\ job[a] \in {"pending", "cancelling"}
    /\ \E p \in Lifecycle!After(job[a]) \cap Lifecycle!Endings :
          /\ p = "cancelled" => job[a] = "cancelling"
          /\ job' = [job EXCEPT ![a] = p]
    /\ UNCHANGED <<study, tab, run, issued, unkept, events>>

Forget(a) ==
    /\ Event /\ job[a] \in Lifecycle!Endings
    /\ job' = [job EXCEPT ![a] = "absent"]
    /\ UNCHANGED <<study, tab, run, issued, unkept>>

\* The queue and the results are in memory.
Restart ==
    /\ Event
    /\ \E a \in Attempts : job[a] # "absent"
    /\ job' = [a \in Attempts |-> "absent"]
    /\ UNCHANGED <<study, tab, run, issued, unkept>>

-----------------------------------------------------------------------------
(* The specification *)

Service(s) ==
    \/ CommandChosen(s) \/ Captured(s) \/ Reserve(s) \/ Reserved(s)
    \/ Submit(s) \/ Repeat(s) \/ Cancel(s) \/ Poll(s) \/ Fetch(s)
    \/ Persist(s) \/ AppendEnding(s) \/ Saved(s) \/ Detach(s)

User(t) ==
    \/ UserEdit(t) \/ Open(t) \/ Leave(t) \/ Close(t)
    \/ \E c \in Scenarios : DeleteScenario(t, c)
    \/ /\ Free # {}
       /\ \/ \E c \in Scenarios : StartRun(t, c) \/ StartCancel(t, c)
          \/ \E a \in Attempts : StartRetry(t, a)

Next ==
    \/ \E t \in Tabs :
          User(t) \/ Save(t) \/ Told(t)
    \/ \E s \in Slots : Service(s)
    \/ \E a \in Attempts : JobEnds(a) \/ Forget(a)
    \/ Restart

Spec == Init /\ [][Next]_vars

\* A flush saves what there is, a run goes on when what it awaits comes, a job that is not
\* cancelled ends (JobLifecycle).
FairSpec ==
    /\ Spec
    /\ \A t \in Tabs : WF_vars(Save(t))
    /\ \A s \in Slots : WF_vars(Service(s))
    /\ \A a \in Attempts : WF_vars(JobEnds(a))

-----------------------------------------------------------------------------
(* Properties *)

\* What the variables hold.
TypeOK ==
    /\ study \in Documents /\ issued \in 0..MaxAttempts /\ events \in 0..MaxEvents
    /\ tab \in [Tabs -> [base : Documents, pending : Seq(Documents)]]
    /\ run \in [Slots -> [tab      : Tabs \cup {"none"},
                          kind     : {"none", "run", "cancel", "retry"},
                          scenario : Scenarios \cup {"none"},
                          mounted  : BOOLEAN,
                          phase    : Phases,
                          attempt  : 0..MaxAttempts,
                          again    : 0..MaxAttempts,
                          held     : Documents,
                          ending   : Endings \cup {"none"}]]
    /\ job \in [Attempts -> Lifecycle!Phases]
    /\ unkept \subseteq Attempts

\* No computation is asked of the server before its attempt is stored: whatever tab is closed,
\* whatever answer is lost, the study knows of every job, unless the job's scenario has been
\* removed since (executeStudyDiagnostic, retryStudyDiagnostic).
ReservedFirst == \A a \in Attempts : job[a] # "absent" => Has(study, a, {"QUEUED"})

\* An attempt has one reservation and at most one ending, of one scenario and the ending last,
\* though several tabs and runs may follow it to its end (persistTerminal, saveDetachedStudy).
OneEnding ==
    \A j \in DOMAIN study.records : \A i \in 1..(j - 1) :
        study.records[i].attempt = study.records[j].attempt =>
            /\ study.records[i].status = "QUEUED" /\ study.records[j].status \in Endings
            /\ study.records[i].scenario = study.records[j].scenario

\* A success or a cancellation is recorded only of a job that ended so, as long as the server
\* knows the job (computeTerminal).  A failure or an interruption may be recorded of any.
EndingsAgree ==
    \A i \in DOMAIN study.records :
        /\ study.records[i].status = "SUCCEEDED" =>
               job[study.records[i].attempt] \in {"succeeded", "absent"}
        /\ study.records[i].status = "CANCELLED" =>
               job[study.records[i].attempt] \in {"cancelled", "absent"}

\* An attempt is reserved beside an unfinished one of its scenario only to repeat one that ended
\* badly: two runs of two tabs, or one run that overtakes another, never both reserve
\* (executeStudyDiagnostic, activeReservation).  Runs of two scenarios do.
OneAtATime ==
    \A c \in Scenarios : \A i, j \in Unfinished(study, c) :
        i < j => Has(study, study.records[j].repeats, Bad)

\* When a run returns to a page that was not left meanwhile, and the page says that the attempt
\* is over, the study has an ending of it (persistTerminal, complete).  What the page shows of
\* the polls before that is no such report.
CompletedIsStored == unkept = {}

\* A run ends: it is reported, overtaken, refused or told of a fault, and polls no job for
\* ever, not even one lost in a restart (computeTerminal).
EveryRunEnds == \A s \in Slots : run[s] # Idle ~> run[s] = Idle

\* What docs/architecture.md says of INTERRUPTED: the job of the reservation is gone.
InterruptedWasLost ==
    \A a \in Attempts : Has(study, a, {"INTERRUPTED"}) => job[a] = "absent"
=============================================================================
