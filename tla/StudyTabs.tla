----------------------------- MODULE StudyTabs -----------------------------
(***************************************************************************)
(* The study controllers of the tabs of one browser, all of one account,   *)
(* web/src/study/studyController.ts, over one stored study.                *)
(*                                                                         *)
(* A controller is single-threaded: what it does between two awaits is one *)
(* action.  A call to the repository is started, takes effect in the       *)
(* database (one transaction, a compare-and-swap on the revision, as       *)
(* StudyRepository has it) and is answered in three actions, and the tab   *)
(* goes on between them: documents are validated and hashed before and     *)
(* after the transaction.  Broadcasts arrive late, in any order or never:   *)
(* nothing obliges the channel to deliver what is in a mailbox.            *)
(*                                                                         *)
(* Of a document the model keeps its revision and the set of changes it    *)
(* contains; each change is made once, so that a revision that lost a      *)
(* change shows.  Epochs are kept as what the code asks of them: a call    *)
(* whose selection or session is gone becomes an orphan, which may still   *)
(* write and whose answer is ignored; calm and same say whether the        *)
(* conflict version and the document object are those of the start.        *)
(*                                                                         *)
(* A definition named X_slip is X with a mistake a maintainer could make;  *)
(* nothing uses it.                                                        *)
(***************************************************************************)
EXTENDS Naturals, Sequences, SequencesExt, FiniteSets

CONSTANTS
    Tabs,
    Changes,    \* bound: the changes users make, each of them once
    Evidence,   \* those that add an execution
    MaxCalls,   \* bound: calls a user may have started in one tab
    Commands,   \* bound: the commands each tab uses, besides edit, flush and loadStudy
    None

ASSUME TabsAssumption ==
    /\ MaxCalls \in Nat
    /\ \A t \in Tabs : Commands[t] \subseteq {"attach", "append", "detached", "restore", "demo", "purge", "switch", "failure", "compose", "read"}
    /\ None \notin Changes /\ Evidence \subseteq Changes

VARIABLES
    history,    \* the contents of revisions 1, 2, ... of the study
    purged,
    tab,        \* what each controller holds
    calls,      \* its calls to the repository, in course
    mailbox,    \* broadcasts sent to it and not delivered
    made,       \* changes made so far
    dropped     \* changes given up: refused to their caller, or discarded by their user

vars == <<history, purged, tab, calls, mailbox, made, dropped>>

Contents  == SUBSET Changes
Documents == [revision : Nat \ {0}, content : Contents]
Save      == {s \in [expected : Nat, document : Documents] : s.document.revision = s.expected + 1}

\* null is no document.
ASSUME NoneAssumption == None \notin Documents

Statuses  == {"IDLE", "DIRTY", "SAVING", "SAVED", "CONFLICT", "STORAGE_FAILURE"}

Bound  == {"drain", "attach", "append", "load", "demo"}  \* ignored once the selection changed
Writes == {"drain", "attach", "append", "detached", "restore", "purge", "orphan"}
Reads  == {"load", "reload", "demo", "read"}
Kinds  == Bound \cup Writes \cup Reads \cup {"compose"}
Phases == {"preparing", "sent", "done", "refused", "failed"}

TypeOK ==
    /\ history \in Seq(Contents)
    /\ purged \in BOOLEAN
    /\ tab \in [Tabs -> [status : Statuses, document : Documents \cup {None},
                         pending : Seq(Save), persisted : Nat, required : Nat,
                         autosave : BOOLEAN]]
    /\ \A t \in Tabs : \A c \in calls[t] :
         /\ c.kind \in Kinds /\ c.phase \in Phases
         /\ c.base \in Nat /\ c.document \in Documents \cup {None}
         /\ c.calm \in BOOLEAN /\ c.same \in BOOLEAN
    /\ mailbox \in [Tabs -> SUBSET Nat]
    /\ made \subseteq Changes /\ dropped \subseteq made

Call(kind, phase, base, document) ==
    [kind |-> kind, phase |-> phase, base |-> base, document |-> document,
     calm |-> TRUE, same |-> TRUE]

Blank == [status |-> "IDLE", document |-> None, pending |-> <<>>, persisted |-> 0,
          required |-> 0, autosave |-> FALSE]

\* The study is saved and nobody has it open.  (Its creation, an edit with no document,
\* goes through the same queue expecting revision 0, and nobody else knows its id.)
Init ==
    /\ history = <<{}>> /\ purged = FALSE
    /\ tab = [t \in Tabs |-> Blank]
    /\ calls = [t \in Tabs |-> {}]
    /\ mailbox = [t \in Tabs |-> {}]
    /\ made = {} /\ dropped = {}

-----------------------------------------------------------------------------
(* What several handlers share *)

Stored == IF purged THEN None ELSE [revision |-> Len(history), content |-> Last(history)]

\* The edits of the queue, and the change a call brings, that the study does not have.
Unsaved(t) ==
    (UNION {tab[t].pending[i].document.content : i \in DOMAIN tab[t].pending}) \ Last(history)
Brought(c) == IF c.document = None THEN {} ELSE c.document.content \ Last(history)

Successor(document, change) ==
    [revision |-> document.revision + 1, content |-> document.content \cup {change}]

Change(x) == x \notin made /\ made' = made \cup {x}

MayStart(t) == Cardinality({c \in calls[t] : c.kind # "reload"}) < MaxCalls

\* #selectionEpoch += 1: the calls that are bound to the selection are answered in vain,
\* and those that have not reached the database still will.
Reselected(cs) ==
    {c \in cs : c.kind \notin Bound} \cup
    {Call("orphan", "sent", c.base, c.document) :
        c \in {d \in cs : d.kind \in Bound \cap Writes /\ d.phase = "sent"}}

\* A new document object is published; the conflict version is incremented.
Replaced(cs) ==
    {[c EXCEPT !.same = @ /\ c.kind \notin {"append", "reload", "demo"}] : c \in cs}
Disturbed(cs) == {[c EXCEPT !.calm = @ /\ c.kind \notin {"drain", "append"}] : c \in cs}

\* #acceptStoredRevision
Satisfied(required, revision) == IF revision >= required THEN 0 ELSE required

Broadcast(t, revision) ==
    mailbox' = [u \in Tabs |-> IF u = t THEN mailbox[u] ELSE mailbox[u] \cup {revision}]

Unwritten == UNCHANGED <<history, purged>>

-----------------------------------------------------------------------------
(* Edits and their queue *)

\* edit takes only what follows the last queued revision, or the one the tab believes stored.
Previous(t) == IF tab[t].pending = <<>> THEN tab[t].persisted
               ELSE Last(tab[t].pending).document.revision

Enqueued(t, document) ==
    [tab[t] EXCEPT !.pending  = Append(@, [expected |-> Previous(t), document |-> document]),
                   !.document = document, !.status = "DIRTY", !.autosave = TRUE]

\* A page, or an execution that ends in the background, edits the document shown.
Edit(t, x) ==
    /\ tab[t].document # None /\ tab[t].document.revision = Previous(t) /\ Change(x)
    /\ tab' = [tab EXCEPT ![t] = Enqueued(t, Successor(tab[t].document, x))]
    /\ calls' = [calls EXCEPT ![t] = Replaced(@)]
    /\ UNCHANGED <<mailbox, dropped>> /\ Unwritten

\* A page asks the server for a portfolio, and edits the document it showed when it asked.  The
\* commands that apply levers, add variations and combinations, rename and remove scenarios do
\* the same over shorter waits (combinations look at the revision again, before the last one).
Compose(t, x) ==
    /\ "compose" \in Commands[t] /\ MayStart(t) /\ tab[t].document # None /\ Change(x)
    /\ calls' = [calls EXCEPT ![t] =
         @ \cup {Call("compose", "preparing", 0, Successor(tab[t].document, x))}]
    /\ UNCHANGED <<tab, mailbox, dropped>> /\ Unwritten

EditComposed(t, c) ==
    LET accepted == tab[t].document # None /\ c.document.revision = Previous(t) + 1
    IN  /\ c.kind = "compose"
        /\ tab' = [tab EXCEPT ![t] = IF accepted THEN Enqueued(t, c.document) ELSE @]
        /\ calls' = [calls EXCEPT ![t] = IF accepted THEN Replaced(@ \ {c}) ELSE @ \ {c}]
        /\ dropped' = IF accepted THEN dropped ELSE dropped \cup Brought(c)
        /\ UNCHANGED <<mailbox, made>> /\ Unwritten

Draining(t) == \E c \in calls[t] : c.kind = "drain"

Drained(held) ==
    Call("drain", "sent", Head(held.pending).expected, Head(held.pending).document)

\* flush, and the autosave timer: start a drain unless one is in course.
StartDrain(t) ==
    /\ tab[t].autosave \/ tab[t].pending # <<>>
    /\ IF Draining(t) \/ tab[t].pending = <<>>
       THEN /\ tab' = [tab EXCEPT ![t].autosave = FALSE]
            /\ UNCHANGED calls
       ELSE /\ tab' = [tab EXCEPT ![t].autosave = FALSE, ![t].status = "SAVING"]
            /\ calls' = [calls EXCEPT ![t] = @ \cup {Drained(tab[t])}]
    /\ UNCHANGED <<mailbox, made, dropped>> /\ Unwritten

\* A drain saves one edit and stops.
DrainSaved_slip(t, c) ==
    LET held == tab[t]
        rest == Tail(held.pending)
    IN  /\ tab' = [tab EXCEPT ![t] =
             [held EXCEPT !.pending = rest, !.persisted = c.document.revision,
                          !.status = IF rest = <<>> THEN "SAVED" ELSE "DIRTY"]]
        /\ calls' = [calls EXCEPT ![t] = Replaced(@ \ {c})]
        /\ Broadcast(t, c.document.revision)

\* A save of the queue succeeded: the next one follows at once, unless the tab was told of
\* another revision in the meantime.
DrainSaved(t, c) ==
    LET held     == tab[t]
        conflict == ~c.calm \/ held.status = "CONFLICT"
        rest     == Tail(held.pending)
        kept     == [held EXCEPT
                       !.pending = rest, !.persisted = c.document.revision,
                       !.required = Satisfied(@, c.document.revision),
                       !.status = IF conflict THEN "CONFLICT"
                                  ELSE IF rest = <<>> THEN "SAVED" ELSE "SAVING"]
        others   == IF held.document # None /\ held.document.revision = c.document.revision
                    THEN Replaced(calls[t] \ {c}) ELSE calls[t] \ {c}
    IN  /\ tab' = [tab EXCEPT ![t] = kept]
        /\ calls' = [calls EXCEPT ![t] =
             IF conflict \/ rest = <<>> THEN others ELSE others \cup {Drained(kept)}]
        /\ Broadcast(t, c.document.revision)

\* The edit that was refused leaves the queue.
Fails_slip(t, c) ==
    /\ c.phase \in {"refused", "failed"}
    /\ tab' = [tab EXCEPT ![t].status = "CONFLICT", ![t].pending = <<>>]
    /\ calls' = [calls EXCEPT ![t] = @ \ {c}]
    /\ dropped' = IF c.kind = "drain" THEN dropped ELSE dropped \cup Brought(c)
    /\ UNCHANGED mailbox

\* A write was refused by the compare-and-swap, or failed.  The queue stays as it is; any
\* other caller is told.
Fails(t, c) ==
    /\ c.phase \in {"refused", "failed"}
    /\ tab' = [tab EXCEPT ![t].status =
         IF c.phase = "refused" /\ c.kind # "detached"
         THEN "CONFLICT" ELSE "STORAGE_FAILURE"]
    /\ calls' = [calls EXCEPT ![t] = @ \ {c}]
    /\ dropped' = IF c.kind = "drain" THEN dropped ELSE dropped \cup Brought(c)
    /\ UNCHANGED mailbox

AnswerDrain(t, c) ==
    /\ c.kind = "drain"
    /\ \/ c.phase = "done" /\ DrainSaved(t, c) /\ UNCHANGED dropped
       \/ Fails(t, c)
    /\ UNCHANGED made /\ Unwritten

-----------------------------------------------------------------------------
(* Selection and session *)

\* The queue is discarded with the selection, and what was not sent yet.  An orphan may
\* write all the same.
GivenUp(t) ==
    Unsaved(t) \cup
    UNION {Brought(c) : c \in {d \in calls[t] : d.kind \in Bound /\ d.phase \notin {"sent", "done"}}}

Deselect(t) ==
    /\ calls' = [calls EXCEPT ![t] = Reselected(@)]
    /\ dropped' = dropped \cup GivenUp(t)

Reusable(t) ==
    /\ tab[t].document # None /\ tab[t].status = "SAVED" /\ tab[t].pending = <<>>
    /\ tab[t].document.revision >= tab[t].required

\* loadStudy: what is shown is good enough, or it is read again.
ReuseStudy(t) ==
    /\ Reusable(t)
    /\ Deselect(t)
    /\ UNCHANGED <<tab, mailbox, made>> /\ Unwritten

LoadStudy(t) ==
    /\ ~Reusable(t) /\ MayStart(t)
    /\ tab' = [tab EXCEPT ![t].pending = <<>>, ![t].autosave = FALSE]
    /\ calls' = [calls EXCEPT ![t] = Reselected(@) \cup {Call("load", "sent", 0, None)}]
    /\ dropped' = dropped \cup GivenUp(t)
    /\ UNCHANGED <<mailbox, made>> /\ Unwritten

\* #acceptReadResult: not older than what the tab has been told of.
Acceptable(t, document) ==
    IF document = None THEN tab[t].required = 0 ELSE document.revision >= tab[t].required

\* A read that is not acceptable is not shown.
AnswerLoad(t, c) ==
    LET shown == c.phase = "done" /\ Acceptable(t, c.document)
    IN  /\ c.kind = "load" /\ c.phase \in {"done", "failed"}
        /\ calls' = [calls EXCEPT ![t] = IF shown THEN Replaced(@ \ {c}) ELSE @ \ {c}]
        /\ \/ ~shown /\ UNCHANGED tab
           \/ /\ shown /\ c.document = None
              /\ tab' = [tab EXCEPT ![t] =
                   [tab[t] EXCEPT !.persisted = 0, !.status = "IDLE", !.document = None]]
           \/ /\ shown /\ c.document # None
              /\ tab' = [tab EXCEPT ![t] =
                   [tab[t] EXCEPT !.required = 0, !.persisted = c.document.revision,
                                  !.status = "SAVED", !.document = c.document]]
        /\ UNCHANGED <<mailbox, made, dropped>> /\ Unwritten

\* startNewStudy; the study that follows is another one.
StartNewStudy(t) ==
    /\ tab[t].document # None
    /\ tab' = [tab EXCEPT ![t] = [Blank EXCEPT !.required = tab[t].required]]
    /\ Deselect(t)
    /\ UNCHANGED <<mailbox, made>> /\ Unwritten

\* switchSession and back to the same account, or the page closed and opened again: all
\* that is left are the writes on their way.
SwitchSession(t) ==
    /\ "switch" \in Commands[t]
    /\ tab[t] # Blank \/ calls[t] # {} \/ mailbox[t] # {}
    /\ tab' = [tab EXCEPT ![t] = Blank]
    /\ calls' = [calls EXCEPT ![t] =
         {Call("orphan", "sent", c.base, c.document) :
             c \in {d \in @ : d.kind \in Writes /\ d.phase = "sent"}}]
    /\ mailbox' = [mailbox EXCEPT ![t] = {}]
    /\ dropped' = dropped \cup Unsaved(t) \cup UNION {Brought(c) : c \in calls[t]}
    /\ UNCHANGED made /\ Unwritten

\* restoreDemoStudy, of the demonstration that is already installed: it is read back, and
\* shown if the user did nothing else meanwhile.
InstallDemo(t) ==
    /\ "demo" \in Commands[t] /\ MayStart(t)
    /\ ~\E c \in calls[t] : c.kind = "demo"
    /\ calls' = [calls EXCEPT ![t] = @ \cup {Call("demo", "sent", 0, None)}]
    /\ UNCHANGED <<tab, mailbox, made, dropped>> /\ Unwritten

AnswerDemo(t, c) ==
    LET wanted == c.same /\ tab[t].pending = <<>>
    IN  /\ c.kind = "demo" /\ c.phase \in {"done", "failed"}
        /\ IF c.phase = "done" /\ wanted
           THEN /\ tab' = [tab EXCEPT ![t] =
                     IF c.document = None THEN [Blank EXCEPT !.required = tab[t].required] ELSE
                     [tab[t] EXCEPT !.autosave = FALSE, !.persisted = c.document.revision,
                                    !.status = "SAVED", !.document = c.document,
                                    !.required = Satisfied(tab[t].required, c.document.revision)]]
                /\ calls' = [calls EXCEPT ![t] = Replaced(Reselected(@ \ {c}))]
                /\ dropped' = dropped \cup GivenUp(t)
           ELSE /\ tab' = [tab EXCEPT ![t].status =
                     IF c.phase = "failed" /\ c.same THEN "STORAGE_FAILURE" ELSE @]
                /\ calls' = [calls EXCEPT ![t] = @ \ {c}]
                /\ UNCHANGED dropped
        /\ UNCHANGED <<mailbox, made>> /\ Unwritten

-----------------------------------------------------------------------------
(* Commands that write without the queue *)

Command(t, kind, phase, base, document) ==
    /\ kind \in Commands[t] /\ MayStart(t)
    /\ calls' = [calls EXCEPT ![t] = @ \cup {Call(kind, phase, base, document)}]
    /\ UNCHANGED <<mailbox, dropped>> /\ Unwritten

\* attachProfileToCurrentStudy: the evidence is hashed first, and only then the tab saves.
Attach(t, x) ==
    /\ tab[t].status = "SAVED" /\ tab[t].document # None /\ Change(x)
    /\ Command(t, "attach", "preparing", tab[t].document.revision, Successor(tab[t].document, x))
    /\ UNCHANGED tab

SendAttached(t, c) ==
    /\ c.kind = "attach" /\ c.phase = "preparing"
    /\ tab' = [tab EXCEPT ![t].status = "SAVING"]
    /\ calls' = [calls EXCEPT ![t] = (@ \ {c}) \cup {[c EXCEPT !.phase = "sent"]}]
    /\ UNCHANGED <<mailbox, made, dropped>> /\ Unwritten

AnswerAttach(t, c) ==
    /\ c.kind = "attach"
    /\ \/ /\ c.phase = "done"
          /\ tab' = [tab EXCEPT ![t] =
               [tab[t] EXCEPT !.persisted = c.document.revision, !.status = "SAVED",
                              !.required = Satisfied(tab[t].required, c.document.revision),
                              !.document = c.document]]
          /\ calls' = [calls EXCEPT ![t] = Replaced(@ \ {c})]
          /\ Broadcast(t, c.document.revision) /\ UNCHANGED dropped
       \/ Fails(t, c)
    /\ UNCHANGED made /\ Unwritten

\* appendDiagnosticAttempt
AppendAttempt(t, x) ==
    /\ x \in Evidence
    /\ tab[t].status = "SAVED" /\ tab[t].document # None /\ tab[t].pending = <<>> /\ Change(x)
    /\ Command(t, "append", "sent", tab[t].document.revision, Successor(tab[t].document, x))
    /\ tab' = [tab EXCEPT ![t].status = "SAVING"]

\* Edits made meanwhile are no conflict.
AnswerAppend_slip(t, c) ==
    /\ c.kind = "append"
    /\ \/ /\ c.phase = "done"
          /\ tab' = [tab EXCEPT ![t] =
               [@ EXCEPT !.persisted = c.document.revision,
                         !.status = IF c.calm /\ @ # "CONFLICT" THEN "SAVED" ELSE "CONFLICT",
                         !.document = IF c.same THEN c.document ELSE @]]
          /\ calls' = [calls EXCEPT ![t] =
               IF c.same THEN Replaced(@ \ {c}) ELSE @ \ {c}]
          /\ Broadcast(t, c.document.revision) /\ UNCHANGED dropped
       \/ Fails(t, c)
    /\ UNCHANGED made /\ Unwritten

AnswerAppend(t, c) ==
    /\ c.kind = "append"
    /\ \/ /\ c.phase = "done"
          /\ tab' = [tab EXCEPT ![t] =
               [tab[t] EXCEPT !.persisted = c.document.revision,
                              !.required = Satisfied(tab[t].required, c.document.revision),
                              !.status = IF c.calm /\ c.same /\ tab[t].status # "CONFLICT"
                                         THEN "SAVED" ELSE "CONFLICT",
                              !.document = IF c.same THEN c.document ELSE tab[t].document]]
          /\ calls' = [calls EXCEPT ![t] =
               IF c.same THEN Replaced(@ \ {c}) ELSE @ \ {c}]
          /\ Broadcast(t, c.document.revision) /\ UNCHANGED dropped
       \/ Fails(t, c)
    /\ UNCHANGED made /\ Unwritten

\* saveDetachedStudy and restoreStudy: of a revision the caller read before.
WriteDetached(t, x) ==
    /\ Change(x)
    /\ \E kind \in {"detached", "restore"}, r \in DOMAIN history :
         Command(t, kind, "sent", r, [revision |-> r + 1, content |-> history[r] \cup {x}])
    /\ UNCHANGED tab

AnswerDetached(t, c) ==
    /\ c.kind \in {"detached", "restore"}
    /\ \/ /\ c.phase = "done"
          /\ LET shown == tab[t].document # None /\ tab[t].status = "SAVED"
             IN  /\ tab' = [tab EXCEPT ![t] =
                      [tab[t] EXCEPT !.required = Satisfied(tab[t].required, c.document.revision),
                                     !.persisted = IF shown THEN c.document.revision ELSE tab[t].persisted,
                                     !.document = IF shown THEN c.document ELSE tab[t].document]]
                 /\ calls' = [calls EXCEPT ![t] =
                      IF shown THEN Replaced(@ \ {c}) ELSE @ \ {c}]
          /\ Broadcast(t, c.document.revision) /\ UNCHANGED dropped
       \/ c.kind = "detached" /\ Fails(t, c)
       \/ /\ c.kind = "restore" /\ c.phase \in {"refused", "failed"}
          /\ calls' = [calls EXCEPT ![t] = @ \ {c}]
          /\ dropped' = dropped \cup Brought(c)
          /\ UNCHANGED <<tab, mailbox>>
    /\ UNCHANGED made /\ Unwritten

Purge(t) ==
    /\ ~purged /\ Command(t, "purge", "sent", 0, None)
    /\ UNCHANGED <<tab, made>>

AnswerPurge(t, c) ==
    /\ c.kind = "purge" /\ c.phase \in {"done", "failed"}
    /\ IF c.phase = "done" /\ tab[t].document # None
       THEN /\ tab' = [tab EXCEPT ![t] = Blank]
            /\ calls' = [calls EXCEPT ![t] = Reselected(@ \ {c})]
            /\ dropped' = dropped \cup GivenUp(t)
       ELSE /\ tab' = [tab EXCEPT ![t].required = IF c.phase = "done" THEN 0 ELSE @]
            /\ calls' = [calls EXCEPT ![t] = @ \ {c}]
            /\ UNCHANGED dropped
    /\ UNCHANGED <<mailbox, made>> /\ Unwritten

\* readStudy, by a page that lists the studies: what the tab shows is left alone.
ReadStudy(t) ==
    /\ ~Reusable(t) /\ Command(t, "read", "sent", 0, None)
    /\ UNCHANGED <<tab, made>>

AnswerRead(t, c) ==
    /\ c.kind = "read" /\ c.phase \in {"done", "failed"}
    /\ tab' = [tab EXCEPT ![t].required =
         IF c.phase = "done" /\ c.document # None THEN Satisfied(@, c.document.revision) ELSE @]
    /\ calls' = [calls EXCEPT ![t] = @ \ {c}]
    /\ UNCHANGED <<mailbox, made, dropped>> /\ Unwritten

-----------------------------------------------------------------------------
(* Broadcasts *)

\* #acceptBroadcast, up to its read.
Deliver(t, revision) ==
    LET ignored == tab[t].document = None \/ revision <= tab[t].persisted
        told    == [tab[t] EXCEPT !.required = IF revision > @ THEN revision ELSE @]
    IN  /\ revision \in mailbox[t]
        /\ mailbox' = [mailbox EXCEPT ![t] = @ \ {revision}]
        /\ IF ignored \/ tab[t].status = "SAVED"
           THEN /\ tab' = [tab EXCEPT ![t] = told]
                /\ calls' = [calls EXCEPT ![t] = IF ignored THEN @ ELSE
                     @ \cup {Call("reload", "sent", revision, None)}]
           ELSE /\ tab' = [tab EXCEPT ![t] = [told EXCEPT !.status = "CONFLICT"]]
                /\ calls' = [calls EXCEPT ![t] = Disturbed(@)]
        /\ UNCHANGED <<made, dropped>> /\ Unwritten

\* #acceptBroadcast, after its read: shown if the tab is as it was, a conflict if it is not,
\* and ignored if it is older than what the tab has been told of since.
AnswerReload(t, c) ==
    LET least  == IF tab[t].required = 0 THEN c.base ELSE tab[t].required
        late   == c.document = None \/ (c.document # None /\ c.document.revision < least)
        as_was == tab[t].status = "SAVED" /\ c.same
    IN  /\ c.kind = "reload"
        /\ \/ /\ c.phase = "done" /\ ~late /\ as_was
              /\ tab' = [tab EXCEPT ![t] =
                   [tab[t] EXCEPT !.persisted = c.document.revision, !.document = c.document,
                                  !.required = Satisfied(tab[t].required, c.document.revision)]]
              /\ calls' = [calls EXCEPT ![t] = Replaced(@ \ {c})]
           \/ /\ c.phase = "done" /\ ~late /\ ~as_was /\ tab[t].document # None
              /\ tab' = [tab EXCEPT ![t].status = "CONFLICT"]
              /\ calls' = [calls EXCEPT ![t] = Disturbed(@ \ {c})]
           \/ /\ c.phase = "done" /\ (late \/ (~as_was /\ tab[t].document = None))
              /\ calls' = [calls EXCEPT ![t] = @ \ {c}]
              /\ UNCHANGED tab
           \/ /\ c.phase = "failed"
              /\ tab' = [tab EXCEPT ![t].status = "STORAGE_FAILURE"]
              /\ calls' = [calls EXCEPT ![t] = @ \ {c}]
        /\ UNCHANGED <<mailbox, made, dropped>> /\ Unwritten

-----------------------------------------------------------------------------
(* The database *)

Answered(t, c, phase, document) ==
    calls' = [calls EXCEPT ![t] = IF c.kind = "orphan" THEN @ \ {c}
                ELSE (@ \ {c}) \cup {[c EXCEPT !.phase = phase, !.document = document]}]

\* The transaction of a write: saveStudy, appendDiagnosticAttempt, restoreStudy, purgeStudy.
Accepts(c)   == ~purged /\ c.base = Len(history)
\* Executions are compared by their number only.
Preserves_slip(c) ==
    Cardinality(Last(history) \cap Evidence) <= Cardinality(c.document.content)
Preserves(c) == Last(history) \cap Evidence \subseteq c.document.content

Commit(t, c) ==
    /\ c.kind \in Writes /\ c.phase = "sent"
    /\ \/ /\ c.document = None
          /\ purged' = TRUE /\ Answered(t, c, "done", None)
          /\ UNCHANGED <<history, dropped>>
       \/ /\ c.document # None /\ Accepts(c) /\ Preserves(c)
          /\ history' = Append(history, c.document.content)
          /\ Answered(t, c, "done", c.document)
          /\ UNCHANGED <<purged, dropped>>
       \/ /\ c.document # None /\ ~(Accepts(c) /\ Preserves(c))
          /\ Answered(t, c, IF Accepts(c) \/ (c.kind = "append" /\ purged) THEN "failed" ELSE "refused",
                      c.document)
          /\ dropped' = IF c.kind = "orphan" THEN dropped \cup Brought(c) ELSE dropped
          /\ Unwritten
    /\ UNCHANGED <<tab, mailbox, made>>

\* getStudy, and the last read of an install.
Read(t, c) ==
    /\ c.kind \in Reads /\ c.phase = "sent"
    /\ Answered(t, c, "done", Stored)
    /\ UNCHANGED <<tab, mailbox, made, dropped>> /\ Unwritten

\* The transaction aborts, for want of room or because the database was closed.
StorageFails(t, c) ==
    /\ "failure" \in Commands[t] /\ c.phase = "sent"
    /\ Answered(t, c, "failed", c.document)
    /\ dropped' = IF c.kind = "orphan" THEN dropped \cup Brought(c) ELSE dropped
    /\ UNCHANGED <<tab, mailbox, made>> /\ Unwritten

-----------------------------------------------------------------------------
(* The specification *)

Answer(t, c) ==
    \/ AnswerDrain(t, c) \/ AnswerLoad(t, c) \/ AnswerDemo(t, c) \/ AnswerAttach(t, c)
    \/ AnswerAppend(t, c) \/ AnswerDetached(t, c) \/ AnswerPurge(t, c) \/ AnswerReload(t, c)
    \/ AnswerRead(t, c)

User(t) ==
    \/ ReuseStudy(t) \/ LoadStudy(t) \/ StartNewStudy(t) \/ SwitchSession(t)
    \/ InstallDemo(t) \/ Purge(t) \/ ReadStudy(t)
    \/ \E x \in Changes : Edit(t, x) \/ Compose(t, x) \/ Attach(t, x) \/ AppendAttempt(t, x) \/ WriteDetached(t, x)

Next ==
    \E t \in Tabs :
        \/ User(t) \/ StartDrain(t)
        \/ \E c \in calls[t] :
              Commit(t, c) \/ Read(t, c) \/ StorageFails(t, c) \/ SendAttached(t, c) \/ EditComposed(t, c)
              \/ Answer(t, c)
        \/ \E revision \in mailbox[t] : Deliver(t, revision)

Spec == Init /\ [][Next]_vars

\* Autosaves fire, transactions end and promises are resolved.  Nothing is asked of users, of
\* other tabs, or of the channel.
FairSpec ==
    Spec /\ \A t \in Tabs : /\ WF_vars(tab[t].autosave /\ StartDrain(t))
                          /\ WF_vars(\E c \in calls[t] : c.kind = "drain" /\ (Commit(t, c) \/ AnswerDrain(t, c)))
                          /\ WF_vars(\E c \in calls[t] : c.kind = "attach" /\ (SendAttached(t, c) \/ Commit(t, c) \/ AnswerAttach(t, c)))

-----------------------------------------------------------------------------
(* Properties *)

\* No update is lost: whatever the tabs believe when they write, a revision contains all
\* that the one before contains.  (While every edit is of the document shown: a page that
\* edits the one it showed before a long wait can overwrite the other tab's, if the edit it
\* started from was refused and the study loaded again in between.)
NothingIsOverwritten == [][history' # history => Last(history) \subseteq Last(history')]_history

\* No change vanishes: it is stored, waits in a tab's queue, is on its way, or was given up
\* with its author told (a refusal, or a document discarded by its user).
NoChangeVanishes ==
    made \subseteq Last(history) \cup dropped
        \cup UNION {Unsaved(t) \cup UNION {Brought(c) : c \in calls[t]} : t \in Tabs}

\* A tab without pending edits that says SAVED shows what was stored under the revision of
\* its document, never a mixture of two, and bases its next edit on a stored revision.  (It
\* may be an older one: an edit accepted while a read was in course is stored, and the
\* answer of the read shown over it, lines 295-303.)
ShowsARevision ==
    \A t \in Tabs :
        tab[t].status = "SAVED" /\ tab[t].pending = <<>> /\ tab[t].document # None =>
            /\ {tab[t].persisted, tab[t].document.revision} \subseteq DOMAIN history
            /\ tab[t].document.content = history[tab[t].document.revision]

\* Saving ends: edits that wait while the tab says that it saves, or will, are stored or
\* discarded with what their user gave up, or the tab says in words that they are not
\* (#drain, attachProfileToCurrentStudy, which may put SAVED over them in the meantime).
EditsSettle ==
    \A t \in Tabs :
        tab[t].pending # <<>> /\ tab[t].status \in {"DIRTY", "SAVING"}
            ~> tab[t].pending = <<>> \/ tab[t].status \in {"CONFLICT", "STORAGE_FAILURE"}
=============================================================================
