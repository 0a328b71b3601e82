----------------------------- MODULE Conversations -----------------------------
(***************************************************************************)
(* The conversations about one study of one account, in several tabs:      *)
(* web/src/chat/chatService.ts and ChatProvider.tsx over                   *)
(* web/src/chat/repository.ts.                                             *)
(*                                                                         *)
(* A question is stored with an answer that is PENDING, then the server is *)
(* asked, then the answer is stored as SUCCEEDED or FAILED.  A tab shows   *)
(* copies of the stored conversations, saves with compare-and-swap, and    *)
(* recovers what it finds PENDING when it loads.                           *)
(*                                                                         *)
(* A transaction and its answer are one action.  So are a refused save and *)
(* the read that follows it: revisions only rise, so the save would be     *)
(* refused at the time of the read as well.  Every call has an operation   *)
(* id of its own, so no call of these is a repetition.  Texts, citations   *)
(* and times are left out: a question is known by its first answer, and    *)
(* any conversation may be the first of a list.                            *)
(*                                                                         *)
(* A definition named X_slip is X with a mistake a maintainer could make;  *)
(* nothing uses it.                                                        *)
(***************************************************************************)
EXTENDS Naturals, Sequences, SequencesExt, FiniteSets

CONSTANTS
    Tabs,
    Limit,             \* conversations of a study: 20
    MaxMessages,       \* messages of a conversation that takes one more question: 98
    MaxTries,          \* tries to store a failure: 3
    MaxConversations,  \* bound: conversations created
    MaxAnswers,        \* bound: answers asked for
    MaxEvents          \* bound: pages left, tabs closed, conversations
                       \* deleted, storage that fails

ASSUME ConversationsAssumption ==
    {Limit, MaxMessages, MaxTries, MaxConversations, MaxAnswers, MaxEvents} \subseteq Nat

VARIABLES
    stored,  \* each conversation in the browser's database
    created, \* conversations created so far: 1, 2, ...
    view,    \* what each tab shows
    send,    \* the question each tab is sending
    issued,  \* answers asked for: 1, 2, ...
    left,    \* answers nobody waits for any more, their tab or its storage gone
    events   \* what has happened of MaxEvents

vars == <<stored, created, view, send, issued, left, events>>

Conversations == 1..MaxConversations

Answers   == 1..MaxAnswers
Endings   == {"SUCCEEDED", "FAILED"}
Messages  == [role : {"USER", "ASSISTANT"}, id : Answers, status : Endings \cup {"PENDING"}]
Documents == [revision : Nat, messages : Seq(Messages)]
Phases    == {"idle", "starting", "asking", "answering", "failing"}

Views     == [ready  : BOOLEAN,                        \* its study is loaded
              shown  : [Conversations -> Documents],
              active : 0..MaxConversations,
              fresh  : SUBSET (Conversations \X Nat)]  \* what it may recover
Sendings  == [phase : Phases, conversation : 0..MaxConversations, held : Documents,
              answer : 0..MaxAnswers, tries : Nat, aborted : BOOLEAN,
              here : BOOLEAN]                          \* its page is still open

None  == [revision |-> 0, messages |-> <<>>]   \* no conversation
Blank == [ready |-> FALSE, shown |-> [c \in Conversations |-> None],
          active |-> 0, fresh |-> {}]
Idle  == [phase |-> "idle", conversation |-> 0, held |-> None, answer |-> 0,
          tries |-> 0, aborted |-> FALSE, here |-> FALSE]

Init ==
    /\ stored = [c \in Conversations |-> None]
    /\ created = 0
    /\ view = [t \in Tabs |-> Blank]
    /\ send = [t \in Tabs |-> Idle]
    /\ issued = 0
    /\ left = {}
    /\ events = 0

-----------------------------------------------------------------------------
(* Documents *)

Listed(list) == {c \in Conversations : list[c] # None}

PendingIn(document) == {m \in Range(document.messages) : m.status = "PENDING"}

Question(a)         == [role |-> "USER", id |-> a, status |-> "SUCCEEDED"]
Answer(a, status)   == [role |-> "ASSISTANT", id |-> a, status |-> status]

Asked_slip(document, a, again) ==
    [revision |-> document.revision + 1,
     messages |-> (IF again THEN document.messages
                   ELSE Append(document.messages, Question(a))) \o <<Answer(a, "PENDING")>>]

\* The messages after a question, new or that of the last answer again.
Asked(document, a, again) ==
    [revision |-> document.revision + 1,
     messages |-> (IF again THEN Front(document.messages)
                   ELSE Append(document.messages, Question(a))) \o <<Answer(a, "PENDING")>>]

\* The answers of the set have ended.
Ended(document, answers, status) ==
    [revision |-> document.revision + 1,
     messages |-> [i \in DOMAIN document.messages |->
         IF document.messages[i].role = "ASSISTANT" /\ document.messages[i].id \in answers
         THEN Answer(document.messages[i].id, status)
         ELSE document.messages[i]]]

Repeatable(document) ==
    /\ document.messages # <<>>
    /\ Last(document.messages).role = "ASSISTANT"
    /\ Last(document.messages).status = "FAILED"

-----------------------------------------------------------------------------
(* The database *)

Accepts_slip(c, document) == stored[c].revision <= document.revision

\* saveChatConversation of a document that exists: no other revision came in between.
Accepts(c, document) == stored[c].revision + 1 = document.revision
Put(c, document)     == stored' = [stored EXCEPT ![c] = document]

-----------------------------------------------------------------------------
(* What a tab shows *)

\* The first of a list becomes the active one, if there is any.
First(list) == IF Listed(list) = {} THEN {0} ELSE Listed(list)

\* applySaved: a newer copy of a conversation of the list.
Applied(t, c, document) ==
    IF view[t].shown[c] # None /\ document # None
       /\ view[t].shown[c].revision <= document.revision
    THEN [view[t] EXCEPT !.shown[c] = document]
    ELSE view[t]

Shows(t, v) == view' = [view EXCEPT ![t] = v]

\* The same, of a send: not after its page was left.
OnSaved(t, c, document) == Shows(t, IF send[t].here THEN Applied(t, c, document) ELSE view[t])

RefreshConversations(t) ==
    \E active \in IF view[t].active \in Listed(stored) THEN {view[t].active} ELSE First(stored) :
        Shows(t, [view[t] EXCEPT !.shown = stored, !.active = active])

Busy(t) == send[t].phase # "idle"

Event == events < MaxEvents /\ events' = events + 1

Sends(t, s) == send' = [send EXCEPT ![t] = s]
Done(t)     == Sends(t, Idle)

\* A page opens, or shows the study again; what it finds PENDING it may recover.
Load(t) ==
    /\ ~view[t].ready
    /\ \E active \in First(stored) :
           Shows(t, [ready |-> TRUE, shown |-> stored, active |-> active,
                     fresh |-> {<<c, stored[c].revision>> :
                                    c \in {x \in Conversations : PendingIn(stored[x]) # {}}}])
    /\ UNCHANGED <<stored, created, send, issued, left, events>>

\* Another study, or a page without chat: the request is aborted, and ends unseen.
Leave(t) ==
    /\ view[t].ready
    /\ Event
    /\ Shows(t, Blank)
    /\ IF Busy(t) THEN Sends(t, [send[t] EXCEPT !.aborted = TRUE, !.here = FALSE])
       ELSE UNCHANGED send
    /\ UNCHANGED <<stored, created, issued, left>>

CloseTab(t) ==
    /\ Event
    /\ Shows(t, Blank)
    /\ Done(t)
    /\ left' = left \cup (IF send[t].phase \in {"asking", "answering", "failing"}
                          THEN {send[t].answer} ELSE {})
    /\ UNCHANGED <<stored, created, issued>>

SelectConversation(t, c) ==
    /\ c \in Listed(view[t].shown) \ {view[t].active}
    /\ Shows(t, [view[t] EXCEPT !.active = c])
    /\ UNCHANGED <<stored, created, send, issued, left, events>>

\* A refused creation reads the list again.
NewConversation(t, c) ==
    /\ view[t].ready
    /\ ~Busy(t)
    /\ Cardinality(Listed(view[t].shown)) < Limit
    /\ c = created + 1
    /\ IF Cardinality(Listed(stored)) < Limit
       THEN LET document == [revision |-> 1, messages |-> <<>>]
            IN  /\ Put(c, document)
                /\ created' = c
                /\ Shows(t, [view[t] EXCEPT !.shown[c] = document, !.active = c])
       ELSE /\ RefreshConversations(t)
            /\ UNCHANGED <<stored, created>>
    /\ UNCHANGED <<send, issued, left, events>>

\* Of the revision that is shown, or the list is read again.
DeleteConversation(t, c) ==
    /\ c \in Listed(view[t].shown)
    /\ ~Busy(t)
    /\ Event
    /\ IF stored[c].revision = view[t].shown[c].revision
       THEN /\ Put(c, None)
            /\ LET rest == [view[t].shown EXCEPT ![c] = None]
               IN  \E active \in IF view[t].active = c THEN First(rest) ELSE {view[t].active} :
                       Shows(t, [view[t] EXCEPT !.shown = rest, !.active = active])
       ELSE /\ RefreshConversations(t)
            /\ UNCHANGED stored
    /\ UNCHANGED <<created, send, issued, left>>

\* recoverInterruptedConversation, of the active conversation as it was loaded and unless the
\* tab itself is asking.
Recover(t, c) ==
    LET shown  == view[t].shown[c]
        failed == Ended(shown, {m.id : m \in PendingIn(shown)}, "FAILED")
        spent  == view[t].fresh \ {<<c, shown.revision>>}
    IN  /\ view[t].active = c
        /\ PendingIn(shown) # {}
        /\ ~(Busy(t) /\ send[t].conversation = c /\ ~send[t].aborted)
        /\ <<c, shown.revision>> \in view[t].fresh
        /\ IF Accepts(c, failed)
           THEN /\ Put(c, failed)
                /\ Shows(t, [Applied(t, c, failed) EXCEPT !.fresh = spent])
           ELSE /\ Shows(t, [Applied(t, c, stored[c]) EXCEPT !.fresh = spent])
                /\ UNCHANGED stored
        /\ UNCHANGED <<created, send, issued, left, events>>

-----------------------------------------------------------------------------
(* sendChatMessage *)

\* A question, or that of the last answer again if it failed.
Ask(t, c, again) ==
    /\ ~Busy(t)
    /\ view[t].active = c
    /\ PendingIn(view[t].shown[c]) = {}
    /\ IF again THEN Repeatable(view[t].shown[c])
       ELSE Len(view[t].shown[c].messages) <= MaxMessages
    /\ issued < MaxAnswers
    /\ issued' = issued + 1
    /\ Sends(t, [phase |-> "starting", conversation |-> c, answer |-> issued + 1,
                 held |-> Asked(view[t].shown[c], issued + 1, again),
                 tries |-> 0, aborted |-> FALSE, here |-> TRUE])
    /\ UNCHANGED <<stored, created, view, left, events>>

Cancel(t) ==
    /\ Busy(t)
    /\ ~send[t].aborted
    /\ Sends(t, [send[t] EXCEPT !.aborted = TRUE])
    /\ UNCHANGED <<stored, created, view, issued, left, events>>

\* The context was selected too late.
Abandon(t) ==
    /\ send[t].phase = "starting"
    /\ send[t].aborted
    /\ Done(t)
    /\ UNCHANGED <<stored, created, view, issued, left, events>>

FirstSave_slip(t) ==
    LET s == send[t]
        c == s.conversation
    IN  /\ s.phase = "starting"
        /\ OnSaved(t, c, s.held)
        /\ IF Accepts(c, s.held)
           THEN /\ Put(c, s.held)
                /\ Sends(t, [s EXCEPT !.phase = "asking"])
           ELSE /\ Done(t)
                /\ UNCHANGED stored
        /\ UNCHANGED <<created, issued, left, events>>

FirstSave(t) ==
    LET s == send[t]
        c == s.conversation
    IN  /\ s.phase = "starting"
        /\ IF Accepts(c, s.held)
           THEN /\ Put(c, s.held)
                /\ OnSaved(t, c, s.held)
                /\ Sends(t, [s EXCEPT !.phase = "asking"])
           ELSE /\ OnSaved(t, c, stored[c])
                /\ Done(t)
                /\ UNCHANGED stored
        /\ UNCHANGED <<created, issued, left, events>>

\* The server answers, and the answer is valid.
Respond(t) ==
    /\ send[t].phase = "asking"
    /\ ~send[t].aborted
    /\ Sends(t, [send[t] EXCEPT !.phase = "answering"])
    /\ UNCHANGED <<stored, created, view, issued, left, events>>

\* It does not, in time or not at all, or the request was aborted.
Refuse(t) ==
    /\ send[t].phase = "asking"
    /\ Sends(t, [send[t] EXCEPT !.phase = "failing"])
    /\ UNCHANGED <<stored, created, view, issued, left, events>>

SaveAnswer(t) ==
    LET s     == send[t]
        c     == s.conversation
        final == Ended(s.held, {s.answer}, "SUCCEEDED")
    IN  /\ s.phase = "answering"
        /\ IF Accepts(c, final)
           THEN /\ Put(c, final)
                /\ OnSaved(t, c, final)
                /\ Done(t)
           ELSE /\ Sends(t, [s EXCEPT !.phase = "failing"])
                /\ UNCHANGED <<stored, view>>
        /\ UNCHANGED <<created, issued, left, events>>

\* The failure is shown and not stored.
SaveFailure_slip(t) ==
    /\ send[t].phase = "failing"
    /\ OnSaved(t, send[t].conversation, stored[send[t].conversation])
    /\ Done(t)
    /\ UNCHANGED <<stored, created, issued, left, events>>

\* One try to store the failure, if the answer is still PENDING.
SaveFailure(t) ==
    LET s      == send[t]
        c      == s.conversation
        failed == Ended(s.held, {s.answer}, "FAILED")
    IN  /\ s.phase = "failing"
        /\ \/ /\ Answer(s.answer, "PENDING") \notin Range(s.held.messages)
              /\ OnSaved(t, c, s.held)
              /\ Done(t)
              /\ UNCHANGED stored
           \/ /\ Answer(s.answer, "PENDING") \in Range(s.held.messages)
              /\ Accepts(c, failed)
              /\ Put(c, failed)
              /\ OnSaved(t, c, failed)
              /\ Done(t)
           \/ /\ Answer(s.answer, "PENDING") \in Range(s.held.messages)
              /\ ~Accepts(c, failed)
              /\ OnSaved(t, c, stored[c])
              /\ IF stored[c] = None \/ s.tries + 1 = MaxTries THEN Done(t)
                 ELSE Sends(t, [s EXCEPT !.held = stored[c], !.tries = s.tries + 1])
              /\ UNCHANGED stored
        /\ UNCHANGED <<created, issued, left, events>>

\* The failure cannot be stored, nor the conversation read.
StorageFails(t) ==
    /\ send[t].phase = "failing"
    /\ Event
    /\ Done(t)
    /\ left' = left \cup {send[t].answer}
    /\ UNCHANGED <<stored, created, view, issued>>

SendChatMessage(t) ==
    \/ Abandon(t) \/ FirstSave(t) \/ Respond(t) \/ Refuse(t) \/ SaveAnswer(t) \/ SaveFailure(t)

User(t) ==
    \/ Load(t) \/ Leave(t) \/ CloseTab(t) \/ Cancel(t)
    \/ \E c \in Conversations :
           \/ SelectConversation(t, c) \/ NewConversation(t, c) \/ DeleteConversation(t, c)
           \/ \E again \in BOOLEAN : Ask(t, c, again)

Next == \E t \in Tabs :
    \/ User(t)
    \/ SendChatMessage(t)
    \/ StorageFails(t)
    \/ \E c \in Conversations : Recover(t, c)

\* Transactions end, and the client gives a request up in time.
Fairness == \A t \in Tabs : WF_vars(SendChatMessage(t))

Spec     == Init /\ [][Next]_vars
FairSpec == Spec /\ Fairness

-----------------------------------------------------------------------------
(* Properties *)

\* Every variable has its type.
TypeOK ==
    /\ stored \in [Conversations -> Documents]
    /\ created \in 0..MaxConversations
    /\ view \in [Tabs -> Views]
    /\ send \in [Tabs -> Sendings]
    /\ issued \in 0..MaxAnswers
    /\ left \subseteq Answers
    /\ events \in 0..MaxEvents

\* A stored conversation is a row of questions, each followed by its one answer, and only the
\* last may be waited for: saveChatConversation checks revisions and not what they hold, so
\* this rests on the sends, repetitions and recoveries of all tabs together.
OneAnswerEach ==
    \A c \in Conversations :
        LET messages == stored[c].messages
        IN  /\ Len(messages) % 2 = 0
            /\ \A i \in DOMAIN messages :
                   /\ messages[i].role = IF i % 2 = 1 THEN "USER" ELSE "ASSISTANT"
                   /\ messages[i].status = "PENDING" => i = Len(messages)
                   /\ \A j \in DOMAIN messages :
                          messages[i].id = messages[j].id /\ messages[i].role = messages[j].role
                              => i = j

\* What a message became.
Continues(before, after) ==
    \A i \in DOMAIN before :
        /\ i \in DOMAIN after
        /\ \/ after[i] = before[i]
           \/ /\ before[i].status = "PENDING"
              /\ after[i] \in {Answer(before[i].id, s) : s \in Endings}
           \/ /\ before[i].status = "FAILED"
              /\ i = Len(before)
              /\ after[i].status = "PENDING"

\* What was said stays: a message leaves only with its conversation, an answer that ended keeps
\* its ending unless it failed and is asked for again, and what was deleted does not come back
\* with the late answer of a request, of its own tab or another.
HistoryStays ==
    [][\A c \in Conversations :
           /\ c <= created /\ stored[c] = None => stored'[c] = None
           /\ stored[c] # None /\ stored'[c] # None
                  => Continues(stored[c].messages, stored'[c].messages)]_vars

\* A tab never shows, of the revision that is stored, anything else, nor a revision that was
\* not stored: what it shows may be old, but its next save relies on the number alone.
ShowsStored ==
    \A t \in Tabs : \A c \in Listed(view[t].shown) :
        \/ stored[c] = None
        \/ view[t].shown[c].revision < stored[c].revision
        \/ view[t].shown[c] = stored[c]

Waiting(a) == \E c \in Conversations : Answer(a, "PENDING") \in PendingIn(stored[c])

\* No answer is waited for for ever: the request ends it, in whichever tab or page it began and
\* whoever failed, repeated or deleted it meanwhile, or else its tab or the storage is gone.
EveryAnswerSettles ==
    \A a \in Answers : Waiting(a) ~> ~Waiting(a) \/ a \in left

=============================================================================
