-------------------------- MODULE StudyTabsProofs --------------------------
(***************************************************************************)
(* What holds of the controllers for any number of tabs, changes and calls *)
(* in course.                                                              *)
(*                                                                         *)
(* Every step is one of two: Local, in one tab, which leaves the history   *)
(* as it is, or Stores, which adds a revision to it.  Shape says what a    *)
(* tab holds and what it has of the history; AllRooted why a write that    *)
(* the database accepts contains what it replaces; KeepsChanges what a     *)
(* step does with the changes it finds.                                    *)
(***************************************************************************)
EXTENDS StudyTabs, TLAPS, SequenceTheorems

-----------------------------------------------------------------------------
(* The invariants *)

CallRecord == [kind : Kinds, phase : Phases, base : Nat, document : Documents \cup {None},
               calm : BOOLEAN, same : BOOLEAN]

TabRecord == [status : Statuses, document : Documents \cup {None}, pending : Seq(Save),
              persisted : Nat, required : Nat, autosave : BOOLEAN]

\* d is what is stored in h under its revision.
StoredIn(h, d) == d.revision \in DOMAIN h /\ h[d.revision] = d.content

\* Every edit of a queue follows the one before it.
QueueOK(q) == \A i \in DOMAIN q : q[i].expected = q[1].expected + (i - 1)

\* What a tab shows is stored, or waits to be, or was discarded and is shown no more once
\* the study was read again.
ShownOK(r, h) ==
    /\ r.persisted <= Len(h)
    /\ r.document # None =>
         /\ r.persisted > 0
         /\ \/ StoredIn(h, r.document)
            \/ /\ r.status # "SAVED"
               /\ r.pending = <<>> \/ \E i \in DOMAIN r.pending : r.document = r.pending[i].document

\* A call has the document of its kind; one that ended well wrote it, or read it.
CallOK(c, q, h) ==
    /\ c.kind \in Writes =>
         /\ c.kind \notin {"purge", "orphan"} => c.document # None
         /\ c.document # None => c.document.revision = c.base + 1
    /\ c.kind = "purge" => c.document = None
    /\ c.kind = "compose" => c.document # None
    /\ c.kind \in Reads /\ c.phase # "done" => c.document = None
    /\ c.kind # "compose" /\ c.phase = "done" /\ c.document # None => StoredIn(h, c.document)
    /\ c.kind = "drain" => /\ q # <<>> /\ c.base = Head(q).expected
                           /\ c.document = Head(q).document
    /\ c.kind = "orphan" => c.phase = "sent"

OneDrain(cs) == \A c, d \in cs : c.kind = "drain" /\ d.kind = "drain" => c = d

\* Nothing holds a change that was not made.
MadeBefore(r, cs, m) ==
    /\ r.document # None => r.document.content \subseteq m
    /\ \A i \in DOMAIN r.pending : r.pending[i].document.content \subseteq m
    /\ \A c \in cs : c.document # None => c.document.content \subseteq m

TabOK(r, cs, h, m) ==
    /\ QueueOK(r.pending) /\ ShownOK(r, h)
    /\ \A c \in cs : CallOK(c, r.pending, h)
    /\ OneDrain(cs) /\ MadeBefore(r, cs, m)

Types ==
    /\ history \in Seq(Contents) /\ history # <<>>
    /\ purged \in BOOLEAN
    /\ tab \in [Tabs -> TabRecord] /\ calls \in [Tabs -> SUBSET CallRecord]
    /\ mailbox \in [Tabs -> SUBSET Nat]
    /\ made \subseteq Changes /\ dropped \subseteq made

Shape ==
    /\ Types
    /\ \A t \in Tabs : TabOK(tab[t], calls[t], history, made)
    /\ \A k \in DOMAIN history : history[k] \subseteq made

\* A write of content x over revision e overwrites nothing: x contains the revision, or it lacks an
\* execution of it, and is refused for that.
Lacks(s, x) == ~(s \cap Evidence \subseteq x)
Rooted(e, x, h) == e \in DOMAIN h /\ (h[e] \subseteq x \/ Lacks(h[e], x))

\* So is every edit of a queue, or else contains the one that must be stored before it.
QueueRooted(q, h) ==
    \A i \in DOMAIN q :
        \/ Rooted(q[i].expected, q[i].document.content, h)
        \/ i > 1 /\ q[i - 1].document.content \subseteq q[i].document.content

CallRooted(c, h) ==
    c.kind \in Writes /\ c.document # None => Rooted(c.base, c.document.content, h)

\* A tab shows more than it believes stored, or what is stored under that revision, or what will
\* be refused as an edit of it, or what takes no edit.
Before(r) == IF r.pending = <<>> THEN r.persisted ELSE Last(r.pending).document.revision

ShownRooted(r, h) ==
    r.document # None =>
        \/ r.document.revision > r.persisted
        \/ Lacks(h[r.persisted], r.document.content)
        \/ /\ StoredIn(h, r.document)
           /\ r.document.revision = r.persisted \/ r.document.revision # Before(r)

\* The execution an append brings is in nothing that was there before it.
AppendFresh(c, r, h, m) ==
    c.kind = "append" =>
        \E x \in Evidence \cap m :
            /\ x \in c.document.content
            /\ \A k \in DOMAIN h : k <= c.base => x \notin h[k]
            /\ r.document # None /\ r.document.revision <= c.base + 1 =>
                 StoredIn(h, r.document) \/ x \notin r.document.content

TabRooted(r, cs, h, m) ==
    /\ QueueRooted(r.pending, h) /\ ShownRooted(r, h)
    /\ \A c \in cs : CallRooted(c, h) /\ AppendFresh(c, r, h, m) /\ c.kind # "compose"

Grows(h) == \A i, k \in DOMAIN h : i <= k => h[i] \subseteq h[k]

-----------------------------------------------------------------------------
(* Types *)

LEMMA Held ==
    ASSUME Types, NEW t \in Tabs
    PROVE  /\ tab[t] \in TabRecord
           /\ calls[t] \subseteq CallRecord
           /\ mailbox[t] \subseteq Nat
BY DEF Types

LEMMA RecordTypes ==
    ASSUME NEW r \in TabRecord
    PROVE  /\ r.status \in Statuses /\ r.document \in Documents \cup {None}
           /\ r.pending \in Seq(Save) /\ r.persisted \in Nat /\ r.required \in Nat
           /\ r.autosave \in BOOLEAN
BY DEF TabRecord

LEMMA CallTypes ==
    ASSUME NEW c \in CallRecord
    PROVE  /\ c.kind \in Kinds /\ c.phase \in Phases /\ c.base \in Nat
           /\ c.document \in Documents \cup {None}
           /\ c.calm \in BOOLEAN /\ c.same \in BOOLEAN
BY DEF CallRecord

LEMMA SaveTypes ==
    ASSUME NEW q \in Seq(Save), NEW i \in DOMAIN q
    PROVE  /\ q[i] \in Save /\ q[i].expected \in Nat /\ q[i].document \in Documents
           /\ q[i].document.revision \in Nat \ {0} /\ q[i].document.content \subseteq Changes
           /\ q[i].document.revision = q[i].expected + 1 /\ q[i].document # None
<1>1. q[i] \in Save
  OBVIOUS
<1> QED
  BY <1>1, NoneAssumption DEF Save, Documents, Contents

LEMMA DocumentTypes ==
    ASSUME NEW d \in Documents
    PROVE  d.revision \in Nat /\ d.revision > 0 /\ d.content \subseteq Changes /\ d # None
BY NoneAssumption DEF Documents, Contents

LEMMA SuccessorIs ==
    ASSUME NEW d \in Documents, NEW x \in Changes
    PROVE  /\ Successor(d, x) \in Documents /\ Successor(d, x) # None
           /\ Successor(d, x).revision = d.revision + 1
           /\ Successor(d, x).content = d.content \cup {x}
BY NoneAssumption DEF Documents, Contents, Successor

LEMMA CallIs ==
    ASSUME NEW kind \in Kinds, NEW phase \in Phases, NEW base \in Nat,
           NEW document \in Documents \cup {None}
    PROVE  LET c == Call(kind, phase, base, document)
           IN  /\ c \in CallRecord /\ c.kind = kind /\ c.phase = phase /\ c.base = base
               /\ c.document = document
BY DEF Call, CallRecord

LEMMA BlankIs ==
    /\ Blank \in TabRecord /\ Blank.document = None /\ Blank.pending = <<>>
    /\ Blank.persisted = 0 /\ Blank.status = "IDLE" /\ Blank.required = 0
    /\ Blank.autosave = FALSE
    /\ \A n \in Nat : LET b == [Blank EXCEPT !.required = n]
                      IN  /\ b \in TabRecord /\ b.document = None /\ b.pending = <<>>
                          /\ b.persisted = 0 /\ b.status = "IDLE"
<1>1. <<>> \in Seq(Save)
  OBVIOUS
<1> QED
  BY <1>1 DEF Blank, TabRecord, Statuses

\* The head and the tail of a queue.
LEMMA QueueIs ==
    ASSUME NEW q \in Seq(Save), q # <<>>
    PROVE  /\ 1 \in DOMAIN q /\ Head(q) = q[1] /\ Len(q) \in Nat \ {0} /\ Head(q) \in Save
           /\ Tail(q) \in Seq(Save) /\ Len(Tail(q)) = Len(q) - 1
           /\ DOMAIN Tail(q) = 1..(Len(q) - 1)
           /\ \A i \in DOMAIN Tail(q) : Tail(q)[i] = q[i + 1] /\ i + 1 \in DOMAIN q
           /\ Last(q) = q[Len(q)] /\ Len(q) \in DOMAIN q
<1>1. Len(q) \in Nat /\ Len(q) # 0 /\ DOMAIN q = 1..Len(q)
  BY EmptySeq, LenProperties
<1>2. /\ Head(q) = q[1] /\ Head(q) \in Save
      /\ Tail(q) \in Seq(Save) /\ Len(Tail(q)) = Len(q) - 1
      /\ \A i \in 1..Len(Tail(q)) : Tail(q)[i] = q[i + 1]
  BY <1>1, HeadTailProperties
<1>3. DOMAIN Tail(q) = 1..Len(Tail(q))
  BY <1>2, LenProperties
<1> QED
  BY <1>1, <1>2, <1>3 DEF Last

\* One more edit at the end of a queue.
LEMMA AppendIs ==
    ASSUME NEW q \in Seq(Save), NEW s \in Save
    PROVE  /\ Append(q, s) \in Seq(Save) /\ Append(q, s) # <<>>
           /\ Len(q) \in Nat /\ DOMAIN q = 1..Len(q) /\ DOMAIN Append(q, s) = 1..(Len(q) + 1)
           /\ \A i \in 1..Len(q) : Append(q, s)[i] = q[i]
           /\ Append(q, s)[Len(q) + 1] = s
           /\ Last(Append(q, s)) = s
           /\ q # <<>> => Head(Append(q, s)) = Head(q)
           /\ q = <<>> => Len(q) = 0 /\ Head(Append(q, s)) = s
<1>1. Len(q) \in Nat /\ DOMAIN q = 1..Len(q) /\ (q = <<>> <=> Len(q) = 0)
  BY EmptySeq, LenProperties
<1>2. /\ Append(q, s) \in Seq(Save) /\ Append(q, s) # <<>> /\ Len(Append(q, s)) = Len(q) + 1
      /\ \A i \in 1..Len(q) : Append(q, s)[i] = q[i]
      /\ Append(q, s)[Len(q) + 1] = s
  BY AppendProperties
<1>3. DOMAIN Append(q, s) = 1..(Len(q) + 1)
  BY <1>2, LenProperties
<1>4. Head(Append(q, s)) = Append(q, s)[1]
  BY <1>2, HeadTailProperties
<1>5. q # <<>> => Head(q) = q[1] /\ 1 \in 1..Len(q)
  BY <1>1, HeadTailProperties
<1> QED
  BY <1>1, <1>2, <1>3, <1>4, <1>5 DEF Last

\* One more revision.
LEMMA RevisionIs ==
    ASSUME NEW h \in Seq(Contents), NEW x \in Contents
    PROVE  /\ Append(h, x) \in Seq(Contents) /\ Append(h, x) # <<>>
           /\ Len(h) \in Nat /\ DOMAIN h = 1..Len(h)
           /\ DOMAIN Append(h, x) = 1..(Len(h) + 1) /\ Len(Append(h, x)) = Len(h) + 1
           /\ \A k \in DOMAIN h : Append(h, x)[k] = h[k]
           /\ Append(h, x)[Len(h) + 1] = x /\ Last(Append(h, x)) = x
<1>1. Len(h) \in Nat /\ DOMAIN h = 1..Len(h)
  BY LenProperties
<1>2. /\ Append(h, x) \in Seq(Contents) /\ Append(h, x) # <<>> /\ Len(Append(h, x)) = Len(h) + 1
      /\ \A i \in 1..Len(h) : Append(h, x)[i] = h[i]
      /\ Append(h, x)[Len(h) + 1] = x
  BY AppendProperties
<1>3. DOMAIN Append(h, x) = 1..(Len(h) + 1)
  BY <1>2, LenProperties
<1> QED
  BY <1>1, <1>2, <1>3 DEF Last

LEMMA HistoryIs ==
    ASSUME NEW h \in Seq(Contents), h # <<>>
    PROVE  /\ Len(h) \in Nat \ {0} /\ DOMAIN h = 1..Len(h) /\ Len(h) \in DOMAIN h
           /\ Last(h) = h[Len(h)]
           /\ \A k \in DOMAIN h : h[k] \in Contents /\ k \in Nat /\ k > 0
BY EmptySeq, LenProperties DEF Last

\* What getStudy returns is stored.
LEMMA StoredIs ==
    ASSUME Types
    PROVE  /\ Stored \in Documents \cup {None}
           /\ Stored # None => StoredIn(history, Stored)
<1> DEFINE d == [revision |-> Len(history), content |-> Last(history)]
<1>1. /\ Len(history) \in Nat \ {0} /\ Len(history) \in DOMAIN history
      /\ Last(history) = history[Len(history)] /\ history[Len(history)] \in Contents
  BY HistoryIs DEF Types
<1>2. d \in Documents /\ d.revision = Len(history) /\ d.content = history[Len(history)]
  BY <1>1 DEF Documents
<1>3. StoredIn(history, d)
  BY <1>1, <1>2 DEF StoredIn
<1> HIDE DEF d
<1>4. Stored = IF purged THEN None ELSE d
  BY DEF Stored, d
<1> QED
  BY <1>2, <1>3, <1>4
-----------------------------------------------------------------------------
(* The moves of a tab *)

\* The call c is d, further on, or d with nobody waiting for its answer.
Passes(c, d) ==
    /\ c.base = d.base /\ c.document = d.document
    /\ \/ c.kind = d.kind /\ c.phase = d.phase
       \/ /\ c.kind = d.kind /\ d.kind # "orphan" /\ d.phase # "done"
          /\ c.phase \in {"sent", "refused", "failed"}
       \/ c.kind = "orphan" /\ c.phase = "sent" /\ d.kind \in Writes

\* A new call of a tab that was r, or one that was answered with what is stored in h.
Starts(c, r, r2, h, new) ==
    \/ /\ c.kind = "drain" /\ c.phase = "sent" /\ r2.pending # <<>>
       /\ c.base = Head(r2.pending).expected /\ c.document = Head(r2.pending).document
    \/ /\ c.kind \in Reads
       /\ c.document = None \/ (c.phase = "done" /\ StoredIn(h, c.document))
    \/ c.kind = "purge" /\ c.document = None
    \/ /\ c.kind = "compose" /\ c.phase = "preparing" /\ r.document # None
       /\ c.document # None
       /\ \E x \in new : c.document.content = r.document.content \cup {x}
       /\ \E u \in Tabs : "compose" \in Commands[u]
    \/ /\ c.kind \in {"attach", "append", "detached", "restore"}
       /\ c.phase \in {"preparing", "sent"} /\ c.document # None
       /\ c.base \in DOMAIN h /\ c.document.revision = c.base + 1
       /\ \E x \in new : /\ c.document.content = h[c.base] \cup {x}
                         /\ c.kind = "append" => /\ x \in Evidence /\ r2.document = r.document
                                                 /\ r.document # None /\ StoredIn(h, r.document)

CallsMove(cs, cs2, r, r2, h, new) ==
    /\ OneDrain(cs2)
    /\ \A c \in cs2 :
         \/ Starts(c, r, r2, h, new)
         \/ \E d \in cs : /\ Passes(c, d)
                          /\ c.kind = "drain" => /\ r2.pending # <<>>
                                                 /\ Head(r2.pending) = Head(r.pending)

\* What a tab may become.
Keeps(r, r2) ==
    /\ r2.pending = r.pending /\ r2.document = r.document /\ r2.persisted = r.persisted
    /\ r2.status = "SAVED" => r.status = "SAVED"

Shows(r, r2, h) ==
    /\ r2.pending = r.pending
    /\ r2.document # None /\ StoredIn(h, r2.document) /\ r2.persisted = r2.document.revision

Clears(r, r2) ==
    r2.document = None /\ r2.persisted = 0 /\ r2.pending \in {<<>>, r.pending}

Discards(r, r2) ==
    /\ r2.pending = <<>> /\ r2.document = r.document /\ r2.persisted = r.persisted
    /\ r2.status = r.status

Edits(r, r2, cs, new) ==
    \E d \in Documents :
        /\ d.revision = Before(r) + 1
        /\ r2.pending = Append(r.pending, [expected |-> Before(r), document |-> d])
        /\ r2.document = d /\ r2.persisted = r.persisted /\ r2.status = "DIRTY"
        /\ r.document # None
        /\ \/ \E c \in cs : c.kind = "compose" /\ c.document = d
           \/ /\ r.document.revision = Before(r)
              /\ \E x \in new : d.content = r.document.content \cup {x}

Drains(r, r2, h) ==
    /\ r.pending # <<>> /\ StoredIn(h, Head(r.pending).document)
    /\ r2.pending = Tail(r.pending) /\ r2.document = r.document
    /\ r2.persisted = Head(r.pending).document.revision
    /\ r2.status = "SAVED" => Tail(r.pending) = <<>>

Appends(r, r2, cs, h) ==
    /\ r2.pending = r.pending /\ r2.document = r.document /\ r2.status # "SAVED"
    /\ \E c \in cs : /\ c.kind = "append" /\ c.document # None /\ StoredIn(h, c.document)
                     /\ r2.persisted = c.document.revision

TabMove(r, r2, cs, h, new) ==
    \/ Keeps(r, r2) \/ Shows(r, r2, h) \/ Clears(r, r2) \/ Discards(r, r2)
    \/ Edits(r, r2, cs, new) \/ Drains(r, r2, h) \/ Appends(r, r2, cs, h)

OthersTyped ==
    /\ purged' \in BOOLEAN /\ mailbox' \in [Tabs -> SUBSET Nat]
    /\ made \subseteq made' /\ made' \subseteq Changes
    /\ dropped \subseteq dropped' /\ dropped' \subseteq made'

\* Everything that happens in one tab, or to one of its calls, without a revision.
Local(t) ==
    /\ history' = history /\ OthersTyped
    /\ \E r2 \in TabRecord, cs2 \in SUBSET CallRecord :
         /\ tab' = [tab EXCEPT ![t] = r2] /\ calls' = [calls EXCEPT ![t] = cs2]
         /\ TabMove(tab[t], r2, calls[t], history, made' \ made)
         /\ CallsMove(calls[t], cs2, tab[t], r2, history, made' \ made)

\* A revision is stored.
Stores(t) ==
    \E c \in calls[t] :
        /\ c.kind \in Writes /\ c.phase = "sent" /\ c.document # None
        /\ Accepts(c) /\ Preserves(c)
        /\ history' = Append(history, c.document.content)
        /\ \E cs2 \in SUBSET CallRecord :
             /\ calls' = [calls EXCEPT ![t] = cs2]
             /\ cs2 = (IF c.kind = "orphan" THEN calls[t] \ {c}
                       ELSE (calls[t] \ {c}) \cup {[c EXCEPT !.phase = "done"]})
        /\ UNCHANGED <<purged, tab, mailbox, made, dropped>>

-----------------------------------------------------------------------------
(* What becomes of the calls *)

LEMMA PassesSame ==
    ASSUME NEW c, NEW d, c.kind = d.kind, c.phase = d.phase, c.base = d.base,
           c.document = d.document
    PROVE  Passes(c, d)
BY DEF Passes

LEMMA ReplacedIs ==
    ASSUME NEW cs \in SUBSET CallRecord, OneDrain(cs)
    PROVE  /\ Replaced(cs) \in SUBSET CallRecord /\ OneDrain(Replaced(cs))
           /\ \A c \in Replaced(cs) : \E d \in cs : Passes(c, d) /\ c.kind = d.kind
           /\ \A d \in cs : \E c \in Replaced(cs) : c.document = d.document
<1> DEFINE f(c) == [c EXCEPT !.same = @ /\ c.kind \notin {"append", "reload", "demo"}]
<1>1. ASSUME NEW c \in cs
      PROVE  /\ f(c) \in CallRecord /\ f(c).kind = c.kind /\ f(c).phase = c.phase
             /\ f(c).base = c.base /\ f(c).document = c.document
  <2>1. c \in CallRecord /\ (c.same /\ c.kind \notin {"append", "reload", "demo"}) \in BOOLEAN
    OBVIOUS
  <2> QED
    BY <2>1 DEF CallRecord
<1>2. Replaced(cs) = {f(c) : c \in cs}
  BY DEF Replaced
<1> HIDE DEF f
<1>3. OneDrain(Replaced(cs))
  BY <1>1, <1>2 DEF OneDrain
<1>4. ASSUME NEW c \in cs
      PROVE  Passes(f(c), c)
  BY <1>1, PassesSame
<1> QED
  BY <1>1, <1>2, <1>3, <1>4

LEMMA DisturbedIs ==
    ASSUME NEW cs \in SUBSET CallRecord, OneDrain(cs)
    PROVE  /\ Disturbed(cs) \in SUBSET CallRecord /\ OneDrain(Disturbed(cs))
           /\ \A c \in Disturbed(cs) : \E d \in cs : Passes(c, d) /\ c.kind = d.kind
           /\ \A d \in cs : \E c \in Disturbed(cs) : c.document = d.document
<1> DEFINE f(c) == [c EXCEPT !.calm = @ /\ c.kind \notin {"drain", "append"}]
<1>1. ASSUME NEW c \in cs
      PROVE  /\ f(c) \in CallRecord /\ f(c).kind = c.kind /\ f(c).phase = c.phase
             /\ f(c).base = c.base /\ f(c).document = c.document
  <2>1. c \in CallRecord /\ (c.calm /\ c.kind \notin {"drain", "append"}) \in BOOLEAN
    OBVIOUS
  <2> QED
    BY <2>1 DEF CallRecord
<1>2. Disturbed(cs) = {f(c) : c \in cs}
  BY DEF Disturbed
<1> HIDE DEF f
<1>3. OneDrain(Disturbed(cs))
  BY <1>1, <1>2 DEF OneDrain
<1>4. ASSUME NEW c \in cs
      PROVE  Passes(f(c), c)
  BY <1>1, PassesSame
<1> QED
  BY <1>1, <1>2, <1>3, <1>4

\* An orphan is the call it was, whose answer nobody waits for.
LEMMA OrphanIs ==
    ASSUME NEW d \in CallRecord, d.kind \in Writes
    PROVE  LET c == Call("orphan", "sent", d.base, d.document)
           IN  c \in CallRecord /\ Passes(c, d) /\ c.kind = "orphan" /\ c.document = d.document
<1>1. d.base \in Nat /\ d.document \in Documents \cup {None}
  BY CallTypes
<1>2. "orphan" \in Kinds /\ "sent" \in Phases
  BY DEF Kinds, Writes, Phases
<1> QED
  BY <1>1, <1>2, CallIs DEF Passes

LEMMA ReselectedIs ==
    ASSUME NEW cs \in SUBSET CallRecord
    PROVE  /\ Reselected(cs) \in SUBSET CallRecord
           /\ \A c \in Reselected(cs) : c.kind # "drain" /\ \E d \in cs : Passes(c, d)
           /\ \A d \in cs : d.kind \notin Bound \/ (d.kind \in Writes /\ d.phase = "sent")
                              => \E c \in Reselected(cs) : c.document = d.document
           /\ OneDrain(Reselected(cs))
<1> DEFINE kept == {c \in cs : c.kind \notin Bound}
           sent == {d \in cs : d.kind \in Bound \cap Writes /\ d.phase = "sent"}
<1>1. Reselected(cs) = kept \cup {Call("orphan", "sent", c.base, c.document) : c \in sent}
  BY DEF Reselected
<1>2. ASSUME NEW c \in kept
      PROVE  c \in CallRecord /\ c.kind # "drain" /\ c \in cs /\ Passes(c, c)
  BY DEF Bound, Passes
<1>3. ASSUME NEW d \in sent
      PROVE  LET c == Call("orphan", "sent", d.base, d.document)
             IN  c \in CallRecord /\ Passes(c, d) /\ c.kind # "drain" /\ c.document = d.document
  <2>1. d \in CallRecord /\ d.kind \in Writes
    OBVIOUS
  <2> QED
    BY <2>1, OrphanIs
<1>4. \A c \in Reselected(cs) : c \in CallRecord /\ c.kind # "drain" /\ \E d \in cs : Passes(c, d)
  BY <1>1, <1>2, <1>3
<1>5. \A d \in cs : d.kind \notin Bound \/ (d.kind \in Writes /\ d.phase = "sent")
                              => \E c \in Reselected(cs) : c.document = d.document
  BY <1>1, <1>3
<1> QED
  BY <1>4, <1>5 DEF OneDrain
-----------------------------------------------------------------------------
(* The actions are such moves *)

LEMMA ShapeAt ==
    ASSUME Shape, NEW t \in Tabs
    PROVE  /\ tab[t] \in TabRecord /\ calls[t] \in SUBSET CallRecord /\ OneDrain(calls[t])
           /\ QueueOK(tab[t].pending) /\ ShownOK(tab[t], history)
           /\ MadeBefore(tab[t], calls[t], made)
           /\ \A c \in calls[t] : c \in CallRecord /\ CallOK(c, tab[t].pending, history)
           /\ tab[t].pending \in Seq(Save)
           /\ history \in Seq(Contents) /\ history # <<>>
<1>1. Types /\ TabOK(tab[t], calls[t], history, made)
  BY DEF Shape
<1>2. tab[t] \in TabRecord /\ calls[t] \in SUBSET CallRecord
  BY <1>1, Held
<1> QED
  BY <1>1, <1>2, RecordTypes DEF TabOK, Types

LEMMA LocalBy ==
    ASSUME NEW t \in Tabs, NEW r2 \in TabRecord, NEW cs2 \in SUBSET CallRecord,
           history' = history, OthersTyped,
           tab' = [tab EXCEPT ![t] = r2], calls' = [calls EXCEPT ![t] = cs2],
           TabMove(tab[t], r2, calls[t], history, made' \ made),
           CallsMove(calls[t], cs2, tab[t], r2, history, made' \ made)
    PROVE  Local(t)
BY DEF Local

\* A queue that stays as it is keeps its drain.
LEMMA SamePending ==
    ASSUME Shape, NEW t \in Tabs, NEW r2, NEW new, NEW cs2, OneDrain(cs2),
           r2.pending = tab[t].pending,
           \A c \in cs2 : \/ Starts(c, tab[t], r2, history, new)
                          \/ \E d \in calls[t] : Passes(c, d)
    PROVE  CallsMove(calls[t], cs2, tab[t], r2, history, new)
<1>1. ASSUME NEW c, NEW d \in calls[t], Passes(c, d), c.kind = "drain"
      PROVE  r2.pending # <<>>
  <2>1. d.kind = "drain"
    BY <1>1 DEF Passes
  <2> QED
    BY <2>1, ShapeAt DEF Reads, CallOK
<1> QED
  BY <1>1 DEF CallsMove

LEMMA SomeCalls ==
    ASSUME NEW cs \in SUBSET CallRecord, OneDrain(cs), NEW s \in SUBSET cs
    PROVE  s \in SUBSET CallRecord /\ OneDrain(s) /\ \A c \in s : c \in cs /\ Passes(c, c)
BY DEF OneDrain, Passes

\* One call more, which is no drain.
LEMMA OneCallMore ==
    ASSUME NEW cs \in SUBSET CallRecord, OneDrain(cs), NEW c \in CallRecord, c.kind # "drain"
    PROVE  cs \cup {c} \in SUBSET CallRecord /\ OneDrain(cs \cup {c})
BY DEF OneDrain

\* A call goes on.
LEMMA CallGoesOn ==
    ASSUME NEW cs \in SUBSET CallRecord, OneDrain(cs), NEW d \in cs, NEW c \in CallRecord,
           c.kind = d.kind
    PROVE  (cs \ {d}) \cup {c} \in SUBSET CallRecord /\ OneDrain((cs \ {d}) \cup {c})
BY DEF OneDrain

\* What is given up was made.
LEMMA GivenUpWasMade ==
    ASSUME Shape, NEW t \in Tabs
    PROVE  /\ Unsaved(t) \subseteq made
           /\ \A c \in calls[t] : Brought(c) \subseteq made
           /\ GivenUp(t) \subseteq made
<1>1. MadeBefore(tab[t], calls[t], made)
  BY ShapeAt
<1>2. Unsaved(t) \subseteq made
  BY <1>1 DEF MadeBefore, Unsaved
<1>3. \A c \in calls[t] : Brought(c) \subseteq made
  BY <1>1 DEF MadeBefore, Brought
<1> QED
  BY <1>2, <1>3 DEF GivenUp

LEMMA EditLocal ==
    ASSUME Shape, NEW t \in Tabs, NEW x \in Changes, Edit(t, x)
    PROVE  Local(t)
<1> DEFINE r == tab[t]
           d == Successor(r.document, x)
           s == [expected |-> Previous(t), document |-> d]
           r2 == Enqueued(t, d)
           cs2 == Replaced(calls[t])
<1>1. /\ r \in TabRecord /\ calls[t] \in SUBSET CallRecord /\ OneDrain(calls[t])
      /\ r.pending \in Seq(Save) /\ r.document \in Documents /\ Types
  BY ShapeAt, RecordTypes DEF Edit, Shape
<1>2. d \in Documents /\ d.revision = r.document.revision + 1 /\ d # None
      /\ d.content = r.document.content \cup {x}
  BY <1>1, SuccessorIs
<1>3. Before(r) = Previous(t) /\ r.document.revision = Before(r) /\ Before(r) \in Nat
  BY <1>1, DocumentTypes DEF Edit, Before, Previous
<1>4. s \in Save
  BY <1>2, <1>3 DEF Save
<1>5. Append(r.pending, s) \in Seq(Save) /\ Append(r.pending, s) # <<>>
      /\ (r.pending # <<>> => Head(Append(r.pending, s)) = Head(r.pending))
  BY <1>1, <1>4, AppendIs
<1> HIDE DEF d, s
<1>6. r2 = [r EXCEPT !.pending = Append(r.pending, s), !.document = d, !.status = "DIRTY",
                     !.autosave = TRUE]
  BY DEF Enqueued, s
<1> HIDE DEF r2
<1>7. /\ r2 \in TabRecord /\ r2.pending = Append(r.pending, s) /\ r2.document = d
      /\ r2.persisted = r.persisted /\ r2.status = "DIRTY"
  BY <1>1, <1>2, <1>5, <1>6 DEF TabRecord, Statuses
<1>8. /\ tab' = [tab EXCEPT ![t] = r2] /\ calls' = [calls EXCEPT ![t] = cs2]
      /\ history' = history /\ purged' = purged /\ mailbox' = mailbox /\ dropped' = dropped
      /\ x \notin made /\ made' = made \cup {x}
  BY DEF Edit, Change, Unwritten, d, r2
<1>9. OthersTyped
  BY <1>1, <1>8 DEF OthersTyped, Types
<1>10. Edits(r, r2, calls[t], made' \ made)
  BY <1>2, <1>3, <1>7, <1>8 DEF Edits, s, Edit
<1>11. CallsMove(calls[t], cs2, r, r2, history, made' \ made)
  <2>1. /\ OneDrain(cs2)
        /\ \A c \in cs2 : \E e \in calls[t] : Passes(c, e) /\ c.kind = e.kind
    BY <1>1, ReplacedIs
  <2>2. ASSUME NEW e \in calls[t], e.kind = "drain"
        PROVE  r.pending # <<>>
    BY <2>2, ShapeAt DEF Reads, CallOK
  <2> QED
    BY <1>5, <1>7, <2>1, <2>2 DEF CallsMove
<1>12. cs2 \in SUBSET CallRecord
  BY <1>1, ReplacedIs
<1> HIDE DEF cs2
<1> QED
  BY <1>7, <1>8, <1>9, <1>10, <1>11, <1>12, LocalBy DEF TabMove, r

LEMMA ComposeLocal ==
    ASSUME Shape, NEW t \in Tabs, NEW x \in Changes, Compose(t, x)
    PROVE  Local(t)
<1> DEFINE r == tab[t]
           c == Call("compose", "preparing", 0, Successor(r.document, x))
           cs2 == calls[t] \cup {c}
<1>1. /\ r \in TabRecord /\ calls[t] \in SUBSET CallRecord /\ OneDrain(calls[t])
      /\ r.document \in Documents /\ Types /\ r.document # None
  BY ShapeAt, RecordTypes DEF Compose, Shape
<1>2. /\ c \in CallRecord /\ c.kind = "compose" /\ c.phase = "preparing"
      /\ c.document.content = r.document.content \cup {x} /\ c.document # None
  <2>1. /\ Successor(r.document, x) \in Documents /\ Successor(r.document, x) # None
        /\ Successor(r.document, x).content = r.document.content \cup {x}
    BY <1>1, SuccessorIs
  <2>2. "compose" \in Kinds /\ "preparing" \in Phases /\ 0 \in Nat
    BY DEF Kinds, Phases
  <2> QED
    BY <2>1, <2>2, CallIs
<1>3. /\ tab' = [tab EXCEPT ![t] = r] /\ calls' = [calls EXCEPT ![t] = cs2]
      /\ history' = history /\ purged' = purged /\ mailbox' = mailbox /\ dropped' = dropped
      /\ x \notin made /\ made' = made \cup {x}
  BY <1>1 DEF Compose, Change, Unwritten, Types
<1> HIDE DEF c
<1>4. OthersTyped
  BY <1>1, <1>3 DEF OthersTyped, Types
<1>5. Keeps(r, r)
  BY DEF Keeps
<1>6. cs2 \in SUBSET CallRecord /\ OneDrain(cs2)
  BY <1>1, <1>2, OneCallMore
<1>7. Starts(c, r, r, history, made' \ made)
  <2>1. "compose" \in Commands[t] /\ x \in made' \ made
    BY <1>3 DEF Compose
  <2> QED
    BY <1>1, <1>2, <2>1 DEF Reads, Starts
<1>8. CallsMove(calls[t], cs2, r, r, history, made' \ made)
  BY <1>6, <1>7, SamePending DEF Passes
<1> HIDE DEF cs2
<1> QED
  BY <1>1, <1>3, <1>4, <1>5, <1>6, <1>8, LocalBy DEF TabMove, r

LEMMA EditComposedLocal ==
    ASSUME Shape, NEW t \in Tabs, NEW c \in calls[t], EditComposed(t, c)
    PROVE  Local(t)
<1> DEFINE r == tab[t]
           d == c.document
           s == [expected |-> Previous(t), document |-> d]
           accepted == r.document # None /\ d.revision = Previous(t) + 1
<1>1. /\ r \in TabRecord /\ calls[t] \in SUBSET CallRecord /\ OneDrain(calls[t])
      /\ r.pending \in Seq(Save) /\ Types /\ c \in CallRecord /\ c.kind = "compose"
      /\ d \in Documents \cup {None}
  BY ShapeAt, CallTypes DEF EditComposed, Shape
<1>2. /\ calls[t] \ {c} \in SUBSET CallRecord /\ OneDrain(calls[t] \ {c})
      /\ \A e \in calls[t] \ {c} : Passes(e, e)
  BY <1>1, SomeCalls
<1>3. Brought(c) \subseteq made
  BY GivenUpWasMade
<1>4. CASE ~accepted
  <2>1. /\ tab' = [tab EXCEPT ![t] = r] /\ calls' = [calls EXCEPT ![t] = calls[t] \ {c}]
        /\ history' = history /\ purged' = purged /\ mailbox' = mailbox /\ made' = made
        /\ dropped' = dropped \cup Brought(c)
    BY <1>1, <1>4 DEF EditComposed, Unwritten, Types
  <2>2. OthersTyped
    BY <1>1, <1>3, <2>1 DEF OthersTyped, Types
  <2>3. Keeps(r, r)
    BY DEF Keeps
  <2>4. CallsMove(calls[t], calls[t] \ {c}, r, r, history, made' \ made)
    BY <1>2, SamePending
  <2> QED
    BY <1>1, <1>2, <2>1, <2>2, <2>3, <2>4, LocalBy DEF TabMove, r
<1>5. CASE accepted
  <2> DEFINE r2 == Enqueued(t, d)
             cs2 == Replaced(calls[t] \ {c})
  <2>1. d \in Documents /\ d # None
    <3>1. d # None
      BY <1>1, ShapeAt DEF Reads, CallOK
    <3> QED
      BY <1>1, <3>1
  <2>2. Before(r) = Previous(t) /\ Before(r) \in Nat
    <3>1. r.persisted \in Nat
      BY <1>1, RecordTypes
    <3>2. r.pending # <<>> => Last(r.pending).document.revision \in Nat
      BY <1>1, QueueIs, SaveTypes
    <3> QED
      BY <3>1, <3>2 DEF Before, Previous
  <2>3. s \in Save
    BY <1>5, <2>1, <2>2 DEF Save
  <2>4. Append(r.pending, s) \in Seq(Save) /\ Append(r.pending, s) # <<>>
        /\ (r.pending # <<>> => Head(Append(r.pending, s)) = Head(r.pending))
    BY <1>1, <2>3, AppendIs
  <2> HIDE DEF d, s
  <2>5. r2 = [r EXCEPT !.pending = Append(r.pending, s), !.document = d, !.status = "DIRTY",
                       !.autosave = TRUE]
    BY DEF Enqueued, s
  <2> HIDE DEF r2
  <2>6. /\ r2 \in TabRecord /\ r2.pending = Append(r.pending, s) /\ r2.document = d
        /\ r2.persisted = r.persisted /\ r2.status = "DIRTY"
    BY <1>1, <2>1, <2>4, <2>5 DEF TabRecord, Statuses
  <2>7. /\ tab' = [tab EXCEPT ![t] = r2] /\ calls' = [calls EXCEPT ![t] = cs2]
        /\ history' = history /\ purged' = purged /\ mailbox' = mailbox /\ dropped' = dropped
        /\ made' = made
    BY <1>5 DEF EditComposed, Unwritten, d, r2
  <2>8. OthersTyped
    BY <1>1, <2>7 DEF OthersTyped, Types
  <2>9. Edits(r, r2, calls[t], made' \ made)
    BY <1>1, <1>5, <2>1, <2>2, <2>6 DEF Edits, s, d
  <2>10. CallsMove(calls[t], cs2, r, r2, history, made' \ made)
    <3>1. /\ OneDrain(cs2)
          /\ \A e \in cs2 : \E f \in calls[t] \ {c} : Passes(e, f) /\ e.kind = f.kind
      BY <1>2, ReplacedIs
    <3>2. ASSUME NEW e \in calls[t], e.kind = "drain"
          PROVE  r.pending # <<>>
      BY <3>2, ShapeAt DEF Reads, CallOK
    <3> QED
      BY <2>4, <2>6, <3>1, <3>2 DEF CallsMove
  <2>11. cs2 \in SUBSET CallRecord
    BY <1>2, ReplacedIs
  <2> HIDE DEF cs2
  <2> QED
    BY <2>6, <2>7, <2>8, <2>9, <2>10, <2>11, LocalBy DEF TabMove, r
<1> QED
  BY <1>4, <1>5

LEMMA StartDrainLocal ==
    ASSUME Shape, NEW t \in Tabs, StartDrain(t)
    PROVE  Local(t)
<1> DEFINE r == tab[t]
<1>1. /\ r \in TabRecord /\ calls[t] \in SUBSET CallRecord /\ OneDrain(calls[t])
      /\ r.pending \in Seq(Save) /\ Types
  BY ShapeAt DEF Shape
<1>2. /\ history' = history /\ purged' = purged /\ mailbox' = mailbox /\ dropped' = dropped
      /\ made' = made
  BY DEF StartDrain, Unwritten
<1>3. OthersTyped
  BY <1>1, <1>2 DEF OthersTyped, Types
<1>4. CASE Draining(t) \/ r.pending = <<>>
  <2> DEFINE r2 == [r EXCEPT !.autosave = FALSE]
  <2>1. tab' = [tab EXCEPT ![t] = r2] /\ calls' = [calls EXCEPT ![t] = calls[t]]
    BY <1>1, <1>4 DEF StartDrain, Types
  <2>2. r2 \in TabRecord /\ Keeps(r, r2) /\ r2.pending = r.pending
    BY <1>1 DEF TabRecord, Keeps
  <2>3. CallsMove(calls[t], calls[t], r, r2, history, made' \ made)
    BY <1>1, <2>2, SamePending DEF Passes
  <2> HIDE DEF r2
  <2> QED
    BY <1>1, <1>2, <1>3, <2>1, <2>2, <2>3, LocalBy DEF TabMove, r
<1>5. CASE ~Draining(t) /\ r.pending # <<>>
  <2> DEFINE r2 == [r EXCEPT !.autosave = FALSE, !.status = "SAVING"]
             c == Drained(r)
             cs2 == calls[t] \cup {c}
  <2>1. tab' = [tab EXCEPT ![t] = r2] /\ calls' = [calls EXCEPT ![t] = cs2]
    BY <1>1, <1>5 DEF StartDrain, Types
  <2>2. r2 \in TabRecord /\ Keeps(r, r2) /\ r2.pending = r.pending
    BY <1>1 DEF TabRecord, Keeps, Statuses
  <2>3. /\ c \in CallRecord /\ c.kind = "drain" /\ c.phase = "sent"
        /\ c.base = Head(r.pending).expected /\ c.document = Head(r.pending).document
    <3>1. Head(r.pending).expected \in Nat /\ Head(r.pending).document \in Documents
      BY <1>1, <1>5, QueueIs DEF Save
    <3>2. "drain" \in Kinds /\ "sent" \in Phases
      BY DEF Kinds, Bound, Reads, Phases
    <3> QED
      BY <3>1, <3>2, CallIs DEF Drained
  <2>4. Starts(c, r, r2, history, made' \ made)
    BY <1>5, <2>2, <2>3 DEF Reads, Starts
  <2> HIDE DEF c
  <2>5. cs2 \in SUBSET CallRecord /\ OneDrain(cs2)
    BY <1>1, <1>5, <2>3 DEF OneDrain, Draining
  <2> HIDE DEF r2
  <2>6. CallsMove(calls[t], cs2, r, r2, history, made' \ made)
    BY <2>2, <2>4, <2>5, SamePending DEF Passes
  <2> HIDE DEF cs2
  <2> QED
    BY <1>1, <1>2, <1>3, <2>1, <2>2, <2>5, <2>6, LocalBy DEF TabMove, r
<1> QED
  BY <1>4, <1>5

\* A write that was refused or failed leaves the tab what it shows, and says so.
LEMMA FailsLocal ==
    ASSUME Shape, NEW t \in Tabs, NEW c \in calls[t], Fails(t, c), made' = made, Unwritten
    PROVE  Local(t)
<1> DEFINE r == tab[t]
           status == IF c.phase = "refused" /\ c.kind # "detached"
                     THEN "CONFLICT" ELSE "STORAGE_FAILURE"
           r2 == [r EXCEPT !.status = status]
           cs2 == calls[t] \ {c}
<1>1. /\ r \in TabRecord /\ calls[t] \in SUBSET CallRecord /\ OneDrain(calls[t]) /\ Types
  BY ShapeAt DEF Shape
<1>2. /\ tab' = [tab EXCEPT ![t] = r2] /\ calls' = [calls EXCEPT ![t] = cs2]
      /\ history' = history /\ purged' = purged /\ mailbox' = mailbox
      /\ dropped' \in {dropped, dropped \cup Brought(c)}
  BY DEF Fails, Unwritten
<1>3. OthersTyped
  BY <1>1, <1>2, GivenUpWasMade DEF OthersTyped, Types
<1>4. status \in Statuses /\ status # "SAVED"
  BY DEF Statuses
<1> HIDE DEF status
<1>5. r2 \in TabRecord /\ Keeps(r, r2) /\ r2.pending = r.pending
  BY <1>1, <1>4 DEF TabRecord, Keeps
<1>6. cs2 \in SUBSET CallRecord /\ OneDrain(cs2) /\ \A e \in cs2 : e \in calls[t] /\ Passes(e, e)
  BY <1>1, SomeCalls
<1>7. CallsMove(calls[t], cs2, r, r2, history, made' \ made)
  BY <1>5, <1>6, SamePending
<1> HIDE DEF r2, cs2
<1> QED
  BY <1>1, <1>2, <1>3, <1>5, <1>6, <1>7, LocalBy DEF TabMove, r

LEMMA AnswerDrainLocal ==
    ASSUME Shape, NEW t \in Tabs, NEW c \in calls[t], AnswerDrain(t, c)
    PROVE  Local(t)
<1>1. CASE Fails(t, c)
  BY <1>1, FailsLocal DEF AnswerDrain
<1>2. CASE c.phase = "done" /\ DrainSaved(t, c) /\ UNCHANGED dropped
  <2> DEFINE r == tab[t]
             rest == Tail(r.pending)
             conflict == ~c.calm \/ r.status = "CONFLICT"
             status == IF conflict THEN "CONFLICT"
                       ELSE IF rest = <<>> THEN "SAVED" ELSE "SAVING"
             required == Satisfied(r.required, c.document.revision)
             r2 == [r EXCEPT !.pending = rest, !.persisted = c.document.revision,
                             !.required = required, !.status = status]
             others == IF r.document # None /\ r.document.revision = c.document.revision
                       THEN Replaced(calls[t] \ {c}) ELSE calls[t] \ {c}
             cs2 == IF conflict \/ rest = <<>> THEN others ELSE others \cup {Drained(r2)}
  <2>1. /\ r \in TabRecord /\ calls[t] \in SUBSET CallRecord /\ OneDrain(calls[t]) /\ Types
        /\ r.pending \in Seq(Save) /\ c \in CallRecord /\ c.kind = "drain" /\ c.phase = "done"
        /\ CallOK(c, r.pending, history)
    BY <1>2, ShapeAt DEF AnswerDrain, Shape
  <2>2. r.pending # <<>> /\ c.document = Head(r.pending).document
    BY <2>1 DEF Reads, CallOK
  <2>3. /\ 1 \in DOMAIN r.pending /\ Head(r.pending) = r.pending[1] /\ rest \in Seq(Save)
        /\ c.document \in Documents /\ c.document # None /\ c.document.revision \in Nat
    BY <2>1, <2>2, QueueIs, SaveTypes
  <2>4. StoredIn(history, c.document)
    BY <2>1, <2>3 DEF Reads, CallOK
  <2>5. /\ tab' = [tab EXCEPT ![t] = r2] /\ calls' = [calls EXCEPT ![t] = cs2]
        /\ history' = history /\ purged' = purged /\ made' = made /\ dropped' = dropped
        /\ Broadcast(t, c.document.revision)
    BY <1>2 DEF AnswerDrain, DrainSaved, Unwritten
  <2>6. OthersTyped
    BY <2>1, <2>3, <2>5 DEF OthersTyped, Types, Broadcast
  <2>7. status \in Statuses /\ (status = "SAVED" => rest = <<>>) /\ required \in Nat
    <3>1. r.required \in Nat
      BY <2>1, RecordTypes
    <3>2. required \in Nat
      BY <2>3, <3>1 DEF Satisfied
    <3>3. \/ conflict /\ status = "CONFLICT"
          \/ ~conflict /\ rest = <<>> /\ status = "SAVED"
          \/ ~conflict /\ rest # <<>> /\ status = "SAVING"
      OBVIOUS
    <3> QED
      BY <3>2, <3>3 DEF Statuses
  <2> HIDE DEF rest, status, required
  <2>8. /\ r2 \in TabRecord /\ r2.pending = rest /\ r2.document = r.document
        /\ r2.persisted = c.document.revision /\ r2.status = status
    BY <2>1, <2>3, <2>7 DEF TabRecord
  <2> HIDE DEF r2
  <2>9. Drains(r, r2, history)
    BY <2>2, <2>4, <2>7, <2>8 DEF Drains, rest
  <2>10. /\ calls[t] \ {c} \in SUBSET CallRecord /\ OneDrain(calls[t] \ {c})
         /\ \A e \in calls[t] \ {c} : e.kind # "drain" /\ Passes(e, e)
    <3>1. \A e \in calls[t] \ {c} : e.kind # "drain"
      BY <2>1 DEF OneDrain
    <3> QED
      BY <2>1, <3>1, SomeCalls
  <2>11. /\ others \in SUBSET CallRecord /\ OneDrain(others)
         /\ \A e \in others : e.kind # "drain" /\ \E f \in calls[t] : Passes(e, f)
    <3> DEFINE left == calls[t] \ {c}
    <3>1. /\ left \in SUBSET CallRecord /\ OneDrain(left) /\ left \subseteq calls[t]
          /\ \A e \in left : e.kind # "drain" /\ Passes(e, e)
      BY <2>10
    <3>2. others \in {left, Replaced(left)}
      OBVIOUS
    <3> HIDE DEF left, others
    <3>3. CASE others = left
      BY <3>1, <3>3
    <3>4. CASE others = Replaced(left)
      <4>1. /\ others \in SUBSET CallRecord /\ OneDrain(others)
            /\ \A e \in others : \E f \in left : Passes(e, f) /\ e.kind = f.kind
        BY <3>1, <3>4, ReplacedIs
      <4> QED
        BY <3>1, <4>1
    <3> QED
      BY <3>2, <3>3, <3>4
  <2> HIDE DEF others
  <2>12. CASE conflict \/ rest = <<>>
    <3>1. cs2 = others
      BY <2>12
    <3> HIDE DEF cs2
    <3>2. CallsMove(calls[t], cs2, r, r2, history, made' \ made)
      BY <2>11, <3>1 DEF CallsMove
    <3> QED
      BY <2>5, <2>6, <2>8, <2>9, <2>11, <3>1, <3>2, LocalBy DEF TabMove, r
  <2>13. CASE ~conflict /\ rest # <<>>
    <3> DEFINE n == Drained(r2)
    <3>1. cs2 = others \cup {n}
      BY <2>13
    <3>2. /\ n \in CallRecord /\ n.kind = "drain" /\ n.phase = "sent"
          /\ n.base = Head(rest).expected /\ n.document = Head(rest).document
      <4>1. Head(rest).expected \in Nat /\ Head(rest).document \in Documents
        BY <2>3, <2>13, QueueIs DEF Save
      <4>2. "drain" \in Kinds /\ "sent" \in Phases
        BY DEF Kinds, Bound, Reads, Phases
      <4> QED
        BY <2>8, <4>1, <4>2, CallIs DEF Drained
    <3> HIDE DEF n, cs2
    <3>3. Starts(n, r, r2, history, made' \ made)
      BY <2>8, <2>13, <3>2 DEF Reads, Starts
    <3>4. cs2 \in SUBSET CallRecord /\ OneDrain(cs2)
      BY <2>11, <3>1, <3>2 DEF OneDrain
    <3>5. CallsMove(calls[t], cs2, r, r2, history, made' \ made)
      BY <2>11, <3>1, <3>3, <3>4 DEF CallsMove
    <3> QED
      BY <2>5, <2>6, <2>8, <2>9, <3>4, <3>5, LocalBy DEF TabMove, r
  <2> QED
    BY <2>12, <2>13
<1> QED
  BY <1>1, <1>2 DEF AnswerDrain

LEMMA ReuseLocal ==
    ASSUME Shape, NEW t \in Tabs, ReuseStudy(t)
    PROVE  Local(t)
<1> DEFINE r == tab[t]
           cs2 == Reselected(calls[t])
<1>1. /\ r \in TabRecord /\ calls[t] \in SUBSET CallRecord /\ OneDrain(calls[t]) /\ Types
  BY ShapeAt DEF Shape
<1>2. /\ tab' = [tab EXCEPT ![t] = r] /\ calls' = [calls EXCEPT ![t] = cs2]
      /\ history' = history /\ purged' = purged /\ mailbox' = mailbox /\ made' = made
      /\ dropped' = dropped \cup GivenUp(t)
  BY <1>1 DEF ReuseStudy, Deselect, Unwritten, Types
<1>3. OthersTyped
  BY <1>1, <1>2, GivenUpWasMade DEF OthersTyped, Types
<1>4. Keeps(r, r)
  BY DEF Keeps
<1>5. /\ cs2 \in SUBSET CallRecord /\ OneDrain(cs2)
      /\ \A c \in cs2 : \E d \in calls[t] : Passes(c, d)
  BY <1>1, ReselectedIs
<1> HIDE DEF cs2
<1>6. CallsMove(calls[t], cs2, r, r, history, made' \ made)
  BY <1>5, SamePending
<1> QED
  BY <1>1, <1>2, <1>3, <1>4, <1>5, <1>6, LocalBy DEF TabMove, r

LEMMA LoadStudyLocal ==
    ASSUME Shape, NEW t \in Tabs, LoadStudy(t)
    PROVE  Local(t)
<1> DEFINE r == tab[t]
           r2 == [r EXCEPT !.pending = <<>>, !.autosave = FALSE]
           n == Call("load", "sent", 0, None)
           old == Reselected(calls[t])
           cs2 == old \cup {n}
<1>1. /\ r \in TabRecord /\ calls[t] \in SUBSET CallRecord /\ OneDrain(calls[t]) /\ Types
  BY ShapeAt DEF Shape
<1>2. /\ tab' = [tab EXCEPT ![t] = r2] /\ calls' = [calls EXCEPT ![t] = cs2]
      /\ history' = history /\ purged' = purged /\ mailbox' = mailbox /\ made' = made
      /\ dropped' = dropped \cup GivenUp(t)
  BY <1>1 DEF LoadStudy, Unwritten, Types
<1>3. OthersTyped
  BY <1>1, <1>2, GivenUpWasMade DEF OthersTyped, Types
<1>4. <<>> \in Seq(Save)
  OBVIOUS
<1>5. r2 \in TabRecord /\ Discards(r, r2)
  BY <1>1, <1>4 DEF TabRecord, Discards
<1>6. /\ old \in SUBSET CallRecord
      /\ \A c \in old : c.kind # "drain" /\ \E d \in calls[t] : Passes(c, d)
  BY <1>1, ReselectedIs
<1>7. n \in CallRecord /\ n.kind = "load" /\ n.document = None
  BY CallIs DEF Kinds, Bound, Reads, Phases
<1> HIDE DEF old, n, r2
<1>8. cs2 \in SUBSET CallRecord /\ OneDrain(cs2)
  BY <1>6, <1>7 DEF OneDrain
<1>9. CallsMove(calls[t], cs2, r, r2, history, made' \ made)
  BY <1>6, <1>7, <1>8 DEF Reads, CallsMove, Starts
<1> HIDE DEF cs2
<1> QED
  BY <1>1, <1>2, <1>3, <1>5, <1>8, <1>9, LocalBy DEF TabMove, r

\* Clearing a tab leaves it no queue and no drain.
LEMMA ClearsLocal ==
    ASSUME Shape, NEW t \in Tabs, NEW r2 \in TabRecord, NEW cs2 \in SUBSET CallRecord,
           r2.document = None, r2.persisted = 0, r2.pending = <<>>,
           \A c \in cs2 : c.kind # "drain" /\ \E d \in calls[t] : Passes(c, d),
           tab' = [tab EXCEPT ![t] = r2], calls' = [calls EXCEPT ![t] = cs2],
           history' = history, OthersTyped
    PROVE  Local(t)
<1>1. Clears(tab[t], r2)
  BY DEF Clears
<1>2. CallsMove(calls[t], cs2, tab[t], r2, history, made' \ made)
  BY DEF CallsMove, OneDrain
<1> QED
  BY <1>1, <1>2, LocalBy DEF TabMove

LEMMA StartNewStudyLocal ==
    ASSUME Shape, NEW t \in Tabs, StartNewStudy(t)
    PROVE  Local(t)
<1> DEFINE r2 == [Blank EXCEPT !.required = tab[t].required]
           cs2 == Reselected(calls[t])
<1>1. /\ tab[t] \in TabRecord /\ calls[t] \in SUBSET CallRecord /\ OneDrain(calls[t]) /\ Types
  BY ShapeAt DEF Shape
<1>2. /\ tab' = [tab EXCEPT ![t] = r2] /\ calls' = [calls EXCEPT ![t] = cs2]
      /\ history' = history /\ purged' = purged /\ mailbox' = mailbox /\ made' = made
      /\ dropped' = dropped \cup GivenUp(t)
  BY DEF StartNewStudy, Deselect, Unwritten
<1>3. OthersTyped
  BY <1>1, <1>2, GivenUpWasMade DEF OthersTyped, Types
<1>4. r2 \in TabRecord /\ r2.document = None /\ r2.pending = <<>> /\ r2.persisted = 0
  BY <1>1, RecordTypes, BlankIs
<1>5. /\ cs2 \in SUBSET CallRecord
      /\ \A c \in cs2 : c.kind # "drain" /\ \E d \in calls[t] : Passes(c, d)
  BY <1>1, ReselectedIs
<1> HIDE DEF r2, cs2
<1> QED
  BY <1>2, <1>3, <1>4, <1>5, ClearsLocal

LEMMA SwitchLocal ==
    ASSUME Shape, NEW t \in Tabs, SwitchSession(t)
    PROVE  Local(t)
<1> DEFINE sent == {d \in calls[t] : d.kind \in Writes /\ d.phase = "sent"}
           cs2 == {Call("orphan", "sent", c.base, c.document) : c \in sent}
           lost == Unsaved(t) \cup UNION {Brought(c) : c \in calls[t]}
<1>1. /\ tab[t] \in TabRecord /\ calls[t] \in SUBSET CallRecord /\ OneDrain(calls[t]) /\ Types
  BY ShapeAt DEF Shape
<1>2. /\ tab' = [tab EXCEPT ![t] = Blank] /\ calls' = [calls EXCEPT ![t] = cs2]
      /\ history' = history /\ purged' = purged /\ mailbox' = [mailbox EXCEPT ![t] = {}]
      /\ made' = made /\ dropped' = dropped \cup lost
  BY DEF SwitchSession, Unwritten
<1>3. lost \subseteq made
  BY GivenUpWasMade
<1> HIDE DEF lost
<1>4. OthersTyped
  BY <1>1, <1>2, <1>3 DEF OthersTyped, Types
<1>5. ASSUME NEW d \in sent
      PROVE  LET c == Call("orphan", "sent", d.base, d.document)
             IN  c \in CallRecord /\ Passes(c, d) /\ c.kind # "drain"
  <2>1. d \in CallRecord /\ d.kind \in Writes
    BY <1>1
  <2> QED
    BY <2>1, OrphanIs
<1>6. /\ cs2 \in SUBSET CallRecord
      /\ \A c \in cs2 : c.kind # "drain" /\ \E d \in calls[t] : Passes(c, d)
  BY <1>5
<1> HIDE DEF cs2
<1> QED
  BY <1>2, <1>4, <1>6, BlankIs, ClearsLocal

\* A call is over, and the tab keeps its queue.
LEMMA LessIs ==
    ASSUME NEW cs \in SUBSET CallRecord, OneDrain(cs), NEW c \in cs, NEW cs2,
           cs2 = cs \ {c} \/ cs2 = Replaced(cs \ {c}) \/ cs2 = Disturbed(cs \ {c})
    PROVE  /\ cs2 \in SUBSET CallRecord /\ OneDrain(cs2)
           /\ \A e \in cs2 : \E d \in cs : Passes(e, d)
<1> DEFINE left == cs \ {c}
<1>1. left \in SUBSET CallRecord /\ OneDrain(left) /\ \A e \in left : e \in cs /\ Passes(e, e)
  BY SomeCalls
<1> HIDE DEF left
<1>2. CASE cs2 = left
  BY <1>1, <1>2
<1>3. CASE cs2 = Replaced(left)
  <2>1. /\ cs2 \in SUBSET CallRecord /\ OneDrain(cs2)
        /\ \A e \in cs2 : \E d \in left : Passes(e, d) /\ e.kind = d.kind
    BY <1>1, <1>3, ReplacedIs
  <2> QED
    BY <1>1, <2>1
<1>4. CASE cs2 = Disturbed(left)
  <2>1. /\ cs2 \in SUBSET CallRecord /\ OneDrain(cs2)
        /\ \A e \in cs2 : \E d \in left : Passes(e, d) /\ e.kind = d.kind
    BY <1>1, <1>4, DisturbedIs
  <2> QED
    BY <1>1, <2>1
<1> QED
  BY <1>2, <1>3, <1>4 DEF left

LEMMA LessLocal ==
    ASSUME Shape, NEW t \in Tabs, NEW c \in calls[t], NEW r2 \in TabRecord, NEW cs2,
           r2.pending = tab[t].pending,
           TabMove(tab[t], r2, calls[t], history, made' \ made),
           \/ cs2 = calls[t] \ {c}
           \/ cs2 = Replaced(calls[t] \ {c})
           \/ cs2 = Disturbed(calls[t] \ {c}),
           tab' = [tab EXCEPT ![t] = r2], calls' = [calls EXCEPT ![t] = cs2],
           history' = history, OthersTyped
    PROVE  Local(t)
<1>1. calls[t] \in SUBSET CallRecord /\ OneDrain(calls[t])
  BY ShapeAt
<1>2. /\ cs2 \in SUBSET CallRecord /\ OneDrain(cs2)
      /\ \A e \in cs2 : \E d \in calls[t] : Passes(e, d)
  BY <1>1, LessIs
<1>3. CallsMove(calls[t], cs2, tab[t], r2, history, made' \ made)
  BY <1>2, SamePending
<1> QED
  BY <1>2, <1>3, LocalBy

\* A document that was read.
LEMMA ReadIs ==
    ASSUME Shape, NEW t \in Tabs, NEW c \in calls[t], c.phase = "done", c.kind # "compose",
           c.document # None
    PROVE  /\ c.document \in Documents /\ StoredIn(history, c.document)
           /\ c.document.revision \in Nat
<1>1. c \in CallRecord /\ CallOK(c, tab[t].pending, history)
  BY ShapeAt
<1> QED
  BY <1>1, CallTypes, DocumentTypes DEF Reads, CallOK

LEMMA SatisfiedIs ==
    ASSUME NEW m \in Nat, NEW n \in Nat
    PROVE  Satisfied(m, n) \in Nat
BY DEF Satisfied

LEMMA AnswerLoadLocal ==
    ASSUME Shape, NEW t \in Tabs, NEW c \in calls[t], AnswerLoad(t, c)
    PROVE  Local(t)
<1> DEFINE r == tab[t]
           shown == c.phase = "done" /\ Acceptable(t, c.document)
           cs2 == IF shown THEN Replaced(calls[t] \ {c}) ELSE calls[t] \ {c}
<1>1. /\ r \in TabRecord /\ calls[t] \in SUBSET CallRecord /\ OneDrain(calls[t]) /\ Types
  BY ShapeAt DEF Shape
<1>2. /\ calls' = [calls EXCEPT ![t] = cs2] /\ history' = history /\ purged' = purged
      /\ mailbox' = mailbox /\ made' = made /\ dropped' = dropped /\ c.kind = "load"
  BY DEF AnswerLoad, Unwritten
<1>3. OthersTyped
  BY <1>1, <1>2 DEF OthersTyped, Types
<1>4. cs2 = calls[t] \ {c} \/ cs2 = Replaced(calls[t] \ {c}) \/ cs2 = Disturbed(calls[t] \ {c})
  OBVIOUS
<1> HIDE DEF cs2, shown
<1>5. CASE tab' = [tab EXCEPT ![t] = r]
  <2>1. Keeps(r, r)
    BY DEF Keeps
  <2> QED
    BY <1>1, <1>2, <1>3, <1>4, <1>5, <2>1, LessLocal DEF TabMove, r
<1>6. CASE tab' = [tab EXCEPT ![t] =
                     [r EXCEPT !.persisted = 0, !.status = "IDLE", !.document = None]]
  <2> DEFINE r2 == [r EXCEPT !.persisted = 0, !.status = "IDLE", !.document = None]
  <2>1. r2 \in TabRecord /\ Clears(r, r2) /\ r2.pending = r.pending
    BY <1>1 DEF TabRecord, Clears, Statuses
  <2>2. tab' = [tab EXCEPT ![t] = r2]
    BY <1>6
  <2> HIDE DEF r2
  <2> QED
    BY <1>2, <1>3, <1>4, <2>1, <2>2, LessLocal DEF TabMove, r
<1>7. CASE /\ c.phase = "done" /\ c.document # None
           /\ tab' = [tab EXCEPT ![t] =
                     [r EXCEPT !.required = 0, !.persisted = c.document.revision,
                               !.status = "SAVED", !.document = c.document]]
  <2> DEFINE r2 == [r EXCEPT !.required = 0, !.persisted = c.document.revision,
                             !.status = "SAVED", !.document = c.document]
  <2>1. c.document \in Documents /\ StoredIn(history, c.document) /\ c.document.revision \in Nat
    BY <1>2, <1>7, ReadIs
  <2>2. r2 \in TabRecord /\ Shows(r, r2, history) /\ r2.pending = r.pending
    BY <1>1, <1>7, <2>1 DEF TabRecord, Shows, Statuses
  <2>3. tab' = [tab EXCEPT ![t] = r2]
    BY <1>7
  <2> HIDE DEF r2
  <2> QED
    BY <1>2, <1>3, <1>4, <2>2, <2>3, LessLocal DEF TabMove, r
<1>8. \/ tab' = tab
      \/ tab' = [tab EXCEPT ![t] = r]
      \/ tab' = [tab EXCEPT ![t] = [r EXCEPT !.persisted = 0, !.status = "IDLE", !.document = None]]
      \/ /\ c.phase = "done" /\ c.document # None
         /\ tab' = [tab EXCEPT ![t] =
                     [r EXCEPT !.required = 0, !.persisted = c.document.revision,
                               !.status = "SAVED", !.document = c.document]]
  BY DEF AnswerLoad, shown
<1>9. tab = [tab EXCEPT ![t] = r]
  BY <1>1 DEF Types
<1> QED
  BY <1>5, <1>6, <1>7, <1>8, <1>9

LEMMA ReadStudyLocal ==
    ASSUME Shape, NEW t \in Tabs, ReadStudy(t)
    PROVE  Local(t)
<1> DEFINE r == tab[t]
           c == Call("read", "sent", 0, None)
           cs2 == calls[t] \cup {c}
<1>1. /\ r \in TabRecord /\ calls[t] \in SUBSET CallRecord /\ OneDrain(calls[t]) /\ Types
  BY ShapeAt DEF Shape
<1>2. /\ tab' = [tab EXCEPT ![t] = r] /\ calls' = [calls EXCEPT ![t] = cs2]
      /\ history' = history /\ purged' = purged /\ mailbox' = mailbox /\ made' = made
      /\ dropped' = dropped
  BY <1>1 DEF ReadStudy, Command, Unwritten, Types
<1>3. OthersTyped
  BY <1>1, <1>2 DEF OthersTyped, Types
<1>4. c \in CallRecord /\ c.kind = "read" /\ c.document = None
  BY CallIs DEF Kinds, Bound, Reads, Phases
<1> HIDE DEF c
<1>5. cs2 \in SUBSET CallRecord /\ OneDrain(cs2)
  BY <1>1, <1>4, OneCallMore
<1>6. Keeps(r, r) /\ Starts(c, r, r, history, made' \ made)
  BY <1>4 DEF Keeps, Starts, Reads
<1>7. CallsMove(calls[t], cs2, r, r, history, made' \ made)
  BY <1>5, <1>6, SamePending DEF Passes
<1> HIDE DEF cs2
<1> QED
  BY <1>1, <1>2, <1>3, <1>5, <1>6, <1>7, LocalBy DEF TabMove, r

LEMMA AnswerReadLocal ==
    ASSUME Shape, NEW t \in Tabs, NEW c \in calls[t], AnswerRead(t, c)
    PROVE  Local(t)
<1> DEFINE r == tab[t]
           required == IF c.phase = "done" /\ c.document # None
                       THEN Satisfied(r.required, c.document.revision) ELSE r.required
           r2 == [r EXCEPT !.required = required]
           cs2 == calls[t] \ {c}
<1>1. /\ r \in TabRecord /\ calls[t] \in SUBSET CallRecord /\ OneDrain(calls[t]) /\ Types
  BY ShapeAt DEF Shape
<1>2. /\ tab' = [tab EXCEPT ![t] = r2] /\ calls' = [calls EXCEPT ![t] = cs2]
      /\ history' = history /\ purged' = purged /\ mailbox' = mailbox /\ made' = made
      /\ dropped' = dropped /\ c.kind = "read"
  BY <1>1 DEF AnswerRead, Unwritten, Types
<1>3. OthersTyped
  BY <1>1, <1>2 DEF OthersTyped, Types
<1>4. required \in Nat
  <2>1. c.document # None => c.document.revision \in Nat
    BY <1>1 DEF CallRecord, Documents
  <2> QED
    BY <1>1, <2>1, RecordTypes, SatisfiedIs
<1> HIDE DEF required
<1>5. r2 \in TabRecord /\ Keeps(r, r2) /\ r2.pending = r.pending
  BY <1>1, <1>4 DEF TabRecord, Keeps
<1> HIDE DEF r2
<1>6. cs2 = calls[t] \ {c} \/ cs2 = Replaced(calls[t] \ {c}) \/ cs2 = Disturbed(calls[t] \ {c})
  OBVIOUS
<1> HIDE DEF cs2
<1> QED
  BY <1>1, <1>2, <1>3, <1>5, <1>6, LessLocal DEF TabMove, r

LEMMA InstallDemoLocal ==
    ASSUME Shape, NEW t \in Tabs, InstallDemo(t)
    PROVE  Local(t)
<1> DEFINE r == tab[t]
           c == Call("demo", "sent", 0, None)
           cs2 == calls[t] \cup {c}
<1>1. /\ r \in TabRecord /\ calls[t] \in SUBSET CallRecord /\ OneDrain(calls[t]) /\ Types
  BY ShapeAt DEF Shape
<1>2. /\ tab' = [tab EXCEPT ![t] = r] /\ calls' = [calls EXCEPT ![t] = cs2]
      /\ history' = history /\ purged' = purged /\ mailbox' = mailbox /\ made' = made
      /\ dropped' = dropped
  BY <1>1 DEF InstallDemo, Unwritten, Types
<1>3. OthersTyped
  BY <1>1, <1>2 DEF OthersTyped, Types
<1>4. c \in CallRecord /\ c.kind = "demo" /\ c.document = None
  BY CallIs DEF Kinds, Bound, Reads, Phases
<1> HIDE DEF c
<1>5. cs2 \in SUBSET CallRecord /\ OneDrain(cs2)
  BY <1>1, <1>4, OneCallMore
<1>6. Keeps(r, r) /\ Starts(c, r, r, history, made' \ made)
  BY <1>4 DEF Reads, Keeps, Starts
<1>7. CallsMove(calls[t], cs2, r, r, history, made' \ made)
  BY <1>5, <1>6, SamePending DEF Passes
<1> HIDE DEF cs2
<1> QED
  BY <1>1, <1>2, <1>3, <1>5, <1>6, <1>7, LocalBy DEF TabMove, r

LEMMA AnswerDemoLocal ==
    ASSUME Shape, NEW t \in Tabs, NEW c \in calls[t], AnswerDemo(t, c)
    PROVE  Local(t)
<1> DEFINE r == tab[t]
           wanted == c.same /\ r.pending = <<>>
<1>1. /\ r \in TabRecord /\ calls[t] \in SUBSET CallRecord /\ OneDrain(calls[t]) /\ Types
  BY ShapeAt DEF Shape
<1>2. /\ history' = history /\ purged' = purged /\ mailbox' = mailbox /\ made' = made
      /\ dropped' \in {dropped, dropped \cup GivenUp(t)} /\ c.kind = "demo"
  BY DEF AnswerDemo, Unwritten
<1>3. OthersTyped
  BY <1>1, <1>2, GivenUpWasMade DEF OthersTyped, Types
<1>4. CASE c.phase = "done" /\ wanted
  <2> DEFINE left == calls[t] \ {c}
             mid == Reselected(left)
             cs2 == Replaced(mid)
  <2>1. left \in SUBSET CallRecord /\ \A e \in left : e \in calls[t]
    BY <1>1
  <2>2. /\ mid \in SUBSET CallRecord /\ OneDrain(mid)
        /\ \A e \in mid : e.kind # "drain" /\ \E d \in left : Passes(e, d)
    <3> HIDE DEF left
    <3> QED
      BY <2>1, ReselectedIs
  <2>3. calls' = [calls EXCEPT ![t] = cs2]
    BY <1>4 DEF AnswerDemo
  <2> HIDE DEF left, mid
  <2>4. /\ cs2 \in SUBSET CallRecord
        /\ \A e \in cs2 : \E d \in mid : Passes(e, d) /\ e.kind = d.kind
    BY <2>2, ReplacedIs
  <2>5. ASSUME NEW e \in cs2
        PROVE  e.kind # "drain" /\ \E d \in calls[t] : Passes(e, d)
    <3>1. PICK f \in mid : Passes(e, f) /\ e.kind = f.kind
      BY <2>4
    <3>2. PICK d \in left : Passes(f, d)
      BY <2>2
    <3>3. e.kind # "drain" /\ Passes(e, d)
      BY <2>2, <3>1, <3>2 DEF Passes
    <3> QED
      BY <2>1, <3>3
  <2> HIDE DEF cs2
  <2>6. CASE c.document = None
    <3> DEFINE r2 == [Blank EXCEPT !.required = r.required]
    <3>1. tab' = [tab EXCEPT ![t] = r2]
      BY <1>4, <2>6 DEF AnswerDemo
    <3>2. r2 \in TabRecord /\ r2.document = None /\ r2.persisted = 0 /\ r2.pending = <<>>
      BY <1>1, RecordTypes, BlankIs
    <3> HIDE DEF r2
    <3> QED
      BY <1>2, <1>3, <2>3, <2>4, <2>5, <3>1, <3>2, ClearsLocal
  <2>7. CASE c.document # None
    <3> DEFINE required == Satisfied(r.required, c.document.revision)
               r2 == [r EXCEPT !.autosave = FALSE, !.persisted = c.document.revision,
                               !.status = "SAVED", !.document = c.document,
                               !.required = required]
    <3>1. tab' = [tab EXCEPT ![t] = r2]
      BY <1>4, <2>7, Zenon DEF AnswerDemo
    <3>2. /\ c.document \in Documents /\ StoredIn(history, c.document)
          /\ c.document.revision \in Nat
      BY <1>2, <1>4, <2>7, ReadIs
    <3>3. required \in Nat
      BY <1>1, <3>2, RecordTypes, SatisfiedIs
    <3> HIDE DEF required
    <3>4. r2 \in TabRecord /\ Shows(r, r2, history) /\ r2.pending = r.pending
      BY <1>1, <2>7, <3>2, <3>3 DEF TabRecord, Shows, Statuses
    <3>5. OneDrain(cs2)
      BY <2>5 DEF OneDrain
    <3>6. CallsMove(calls[t], cs2, r, r2, history, made' \ made)
      BY <2>5, <3>5 DEF CallsMove
    <3> HIDE DEF r2
    <3> QED
      BY <1>2, <1>3, <2>3, <2>4, <3>1, <3>4, <3>6, LocalBy DEF TabMove, r
  <2> QED
    BY <2>6, <2>7
<1>5. CASE ~(c.phase = "done" /\ wanted)
  <2> DEFINE status == IF c.phase = "failed" /\ c.same THEN "STORAGE_FAILURE" ELSE r.status
             r2 == [r EXCEPT !.status = status]
             cs2 == calls[t] \ {c}
  <2>1. tab' = [tab EXCEPT ![t] = r2] /\ calls' = [calls EXCEPT ![t] = cs2]
    BY <1>5 DEF AnswerDemo
  <2>2. status \in {"STORAGE_FAILURE", r.status} /\ r.status \in Statuses
    BY <1>1, RecordTypes
  <2> HIDE DEF status
  <2>3. r2 \in TabRecord /\ Keeps(r, r2) /\ r2.pending = r.pending
    BY <1>1, <2>2 DEF TabRecord, Keeps, Statuses
  <2> HIDE DEF r2
  <2> QED
    BY <1>2, <1>3, <2>1, <2>3, LessLocal DEF TabMove, r
<1> QED
  BY <1>4, <1>5

\* A write without the queue, of a revision that is stored.
LEMMA CommandLocal ==
    ASSUME Shape, NEW t \in Tabs, NEW kind \in {"attach", "append", "detached", "restore"},
           NEW phase \in {"preparing", "sent"}, NEW base \in DOMAIN history,
           NEW x \in Changes, Change(x), NEW d \in Documents,
           d.revision = base + 1, d.content = history[base] \cup {x},
           kind = "append" => /\ x \in Evidence /\ tab[t].document # None
                              /\ StoredIn(history, tab[t].document),
           Command(t, kind, phase, base, d),
           NEW r2 \in TabRecord, Keeps(tab[t], r2), tab' = [tab EXCEPT ![t] = r2]
    PROVE  Local(t)
<1> DEFINE r == tab[t]
           c == Call(kind, phase, base, d)
           cs2 == calls[t] \cup {c}
<1>1. /\ calls[t] \in SUBSET CallRecord /\ OneDrain(calls[t]) /\ Types
      /\ base \in Nat /\ r2.pending = r.pending /\ r2.document = r.document
  BY ShapeAt, HistoryIs DEF Shape, Keeps
<1>2. /\ calls' = [calls EXCEPT ![t] = cs2] /\ history' = history /\ purged' = purged
      /\ mailbox' = mailbox /\ dropped' = dropped /\ made' = made \cup {x} /\ x \notin made
  BY DEF Command, Change, Unwritten
<1>3. OthersTyped
  BY <1>1, <1>2 DEF OthersTyped, Types
<1>4. kind \in Kinds /\ phase \in Phases /\ kind # "drain"
  BY DEF Kinds, Bound, Writes, Reads, Phases
<1>5. /\ c \in CallRecord /\ c.kind = kind /\ c.phase = phase /\ c.base = base
      /\ c.document = d /\ d # None
  BY <1>1, <1>4, CallIs, DocumentTypes
<1> HIDE DEF c
<1>6. cs2 \in SUBSET CallRecord /\ OneDrain(cs2)
  BY <1>1, <1>4, <1>5, OneCallMore
<1>7. x \in made' \ made
  BY <1>2
<1>8. Starts(c, r, r2, history, made' \ made)
  BY <1>1, <1>5, <1>7 DEF Reads, Starts
<1>9. CallsMove(calls[t], cs2, r, r2, history, made' \ made)
  BY <1>1, <1>6, <1>8, SamePending DEF Passes
<1> HIDE DEF cs2
<1> QED
  BY <1>1, <1>2, <1>3, <1>6, <1>9, LocalBy DEF TabMove, r

\* What a saved tab shows is stored.
LEMMA SavedIsStored ==
    ASSUME Shape, NEW t \in Tabs, tab[t].status = "SAVED", tab[t].document # None
    PROVE  /\ tab[t].document \in Documents /\ StoredIn(history, tab[t].document)
           /\ tab[t].document.revision \in DOMAIN history
           /\ tab[t].document.content = history[tab[t].document.revision]
<1>1. tab[t] \in TabRecord /\ ShownOK(tab[t], history)
  BY ShapeAt
<1>2. tab[t].document \in Documents
  BY <1>1, RecordTypes
<1> QED
  BY <1>1, <1>2 DEF ShownOK, StoredIn

LEMMA AttachLocal ==
    ASSUME Shape, NEW t \in Tabs, NEW x \in Changes, Attach(t, x)
    PROVE  Local(t)
<1> DEFINE d == Successor(tab[t].document, x)
           base == tab[t].document.revision
<1>1. /\ tab[t] \in TabRecord /\ tab' = [tab EXCEPT ![t] = tab[t]]
      /\ Keeps(tab[t], tab[t])
  BY ShapeAt DEF Attach, Shape, Types, Keeps
<1>2. /\ tab[t].document \in Documents /\ base \in DOMAIN history
      /\ tab[t].document.content = history[base]
  BY SavedIsStored DEF Attach
<1>3. d \in Documents /\ d.revision = base + 1 /\ d.content = history[base] \cup {x}
  BY <1>2, SuccessorIs
<1>4. Change(x) /\ Command(t, "attach", "preparing", base, d)
  BY DEF Attach
<1> HIDE DEF d, base
<1> QED
  BY <1>1, <1>2, <1>3, <1>4, CommandLocal

LEMMA AppendAttemptLocal ==
    ASSUME Shape, NEW t \in Tabs, NEW x \in Changes, AppendAttempt(t, x)
    PROVE  Local(t)
<1> DEFINE d == Successor(tab[t].document, x)
           base == tab[t].document.revision
           r2 == [tab[t] EXCEPT !.status = "SAVING"]
<1>1. tab[t] \in TabRecord
  BY ShapeAt
<1>2. tab' = [tab EXCEPT ![t] = r2]
  BY DEF AppendAttempt
<1>3. r2 \in TabRecord /\ Keeps(tab[t], r2)
  BY <1>1 DEF TabRecord, Statuses, Keeps
<1>4. /\ tab[t].document \in Documents /\ base \in DOMAIN history
      /\ tab[t].document.content = history[base] /\ StoredIn(history, tab[t].document)
  BY SavedIsStored DEF AppendAttempt
<1>5. d \in Documents /\ d.revision = base + 1 /\ d.content = history[base] \cup {x}
  BY <1>4, SuccessorIs
<1>6. /\ Change(x) /\ Command(t, "append", "sent", base, d) /\ x \in Evidence
      /\ tab[t].document # None
  BY DEF AppendAttempt
<1> HIDE DEF d, base, r2
<1> QED
  BY <1>2, <1>3, <1>4, <1>5, <1>6, CommandLocal

LEMMA WriteDetachedLocal ==
    ASSUME Shape, NEW t \in Tabs, NEW x \in Changes, WriteDetached(t, x)
    PROVE  Local(t)
<1>1. /\ tab[t] \in TabRecord /\ tab' = [tab EXCEPT ![t] = tab[t]]
      /\ Keeps(tab[t], tab[t]) /\ Change(x)
      /\ history \in Seq(Contents) /\ history # <<>>
  BY ShapeAt DEF WriteDetached, Shape, Types, Keeps
<1>2. PICK kind \in {"detached", "restore"}, k \in DOMAIN history :
         Command(t, kind, "sent", k, [revision |-> k + 1, content |-> history[k] \cup {x}])
  BY DEF WriteDetached
<1> DEFINE d == [revision |-> k + 1, content |-> history[k] \cup {x}]
<1>3. k \in Nat /\ history[k] \in Contents
  BY <1>1, HistoryIs
<1>4. d \in Documents /\ d.revision = k + 1 /\ d.content = history[k] \cup {x}
  BY <1>3 DEF Documents, Contents
<1>5. Command(t, kind, "sent", k, d)
  BY <1>2
<1> HIDE DEF d
<1> QED
  BY <1>1, <1>4, <1>5, CommandLocal

\* The answer of a write, a broadcast sent.
LEMMA BroadcastTyped ==
    ASSUME Types, NEW t \in Tabs, NEW n \in Nat, Broadcast(t, n)
    PROVE  mailbox' \in [Tabs -> SUBSET Nat]
BY DEF Types, Broadcast

LEMMA AnswerAttachLocal ==
    ASSUME Shape, NEW t \in Tabs, NEW c \in calls[t], AnswerAttach(t, c)
    PROVE  Local(t)
<1>1. CASE Fails(t, c)
  BY <1>1, FailsLocal DEF AnswerAttach
<1>2. CASE c.phase = "done" /\ ~Fails(t, c)
  <2> DEFINE r == tab[t]
             required == Satisfied(r.required, c.document.revision)
             r2 == [r EXCEPT !.persisted = c.document.revision, !.status = "SAVED",
                             !.required = required, !.document = c.document]
  <2>1. /\ tab' = [tab EXCEPT ![t] = r2]
        /\ calls' = [calls EXCEPT ![t] = Replaced(calls[t] \ {c})]
        /\ history' = history /\ purged' = purged /\ made' = made /\ dropped' = dropped
        /\ Broadcast(t, c.document.revision) /\ c.kind = "attach"
    BY <1>2 DEF AnswerAttach, Unwritten
  <2>2. r \in TabRecord /\ Types /\ c \in CallRecord /\ CallOK(c, r.pending, history)
    BY ShapeAt DEF Shape
  <2>3. c.document # None
    BY <2>1, <2>2 DEF Reads, CallOK, Writes
  <2>4. /\ c.document \in Documents /\ StoredIn(history, c.document)
        /\ c.document.revision \in Nat
    BY <1>2, <2>1, <2>3, ReadIs
  <2>5. OthersTyped
    BY <2>1, <2>2, <2>4, BroadcastTyped DEF OthersTyped, Types
  <2>6. required \in Nat
    BY <2>2, <2>4, RecordTypes, SatisfiedIs
  <2> HIDE DEF required
  <2>7. r2 \in TabRecord /\ Shows(r, r2, history) /\ r2.pending = r.pending
    BY <2>2, <2>3, <2>4, <2>6 DEF TabRecord, Shows, Statuses
  <2> HIDE DEF r2
  <2> QED
    BY <2>1, <2>5, <2>7, LessLocal DEF TabMove, r
<1> QED
  BY <1>1, <1>2 DEF AnswerAttach

LEMMA AnswerAppendLocal ==
    ASSUME Shape, NEW t \in Tabs, NEW c \in calls[t], AnswerAppend(t, c)
    PROVE  Local(t)
<1>1. CASE Fails(t, c)
  BY <1>1, FailsLocal DEF AnswerAppend
<1>2. CASE c.phase = "done" /\ ~Fails(t, c)
  <2> DEFINE r == tab[t]
             required == Satisfied(r.required, c.document.revision)
             status == IF c.calm /\ c.same /\ r.status # "CONFLICT" THEN "SAVED" ELSE "CONFLICT"
             document == IF c.same THEN c.document ELSE r.document
             r2 == [r EXCEPT !.persisted = c.document.revision, !.required = required,
                             !.status = status, !.document = document]
             cs2 == IF c.same THEN Replaced(calls[t] \ {c}) ELSE calls[t] \ {c}
  <2>1. /\ tab' = [tab EXCEPT ![t] = r2] /\ calls' = [calls EXCEPT ![t] = cs2]
        /\ history' = history /\ purged' = purged /\ made' = made /\ dropped' = dropped
        /\ Broadcast(t, c.document.revision) /\ c.kind = "append"
    BY <1>2 DEF AnswerAppend, Unwritten
  <2>2. r \in TabRecord /\ Types /\ c \in CallRecord /\ CallOK(c, r.pending, history)
    BY ShapeAt DEF Shape
  <2>3. c.document # None
    BY <2>1, <2>2 DEF Reads, CallOK, Writes
  <2>4. /\ c.document \in Documents /\ StoredIn(history, c.document)
        /\ c.document.revision \in Nat
    BY <1>2, <2>1, <2>3, ReadIs
  <2>5. OthersTyped
    BY <2>1, <2>2, <2>4, BroadcastTyped DEF OthersTyped, Types
  <2>6. required \in Nat /\ r.document \in Documents \cup {None}
    BY <2>2, <2>4, RecordTypes, SatisfiedIs
  <2>7. /\ status \in Statuses /\ (~c.same => status # "SAVED")
        /\ document = (IF c.same THEN c.document ELSE r.document)
        /\ document \in Documents \cup {None}
    BY <2>4, <2>6 DEF Statuses
  <2>8. cs2 = calls[t] \ {c} \/ cs2 = Replaced(calls[t] \ {c})
    OBVIOUS
  <2> HIDE DEF required, status, document, cs2
  <2>9. /\ r2 \in TabRecord /\ r2.pending = r.pending /\ r2.persisted = c.document.revision
        /\ r2.document = document /\ r2.status = status
    BY <2>2, <2>4, <2>6, <2>7 DEF TabRecord
  <2> HIDE DEF r2
  <2>10. Shows(r, r2, history) \/ Appends(r, r2, calls[t], history)
    <3>1. CASE c.same
      BY <2>3, <2>4, <2>7, <2>9, <3>1 DEF Shows
    <3>2. CASE ~c.same
      BY <2>1, <2>3, <2>4, <2>7, <2>9, <3>2 DEF Appends
    <3> QED
      BY <3>1, <3>2
  <2>11. TabMove(r, r2, calls[t], history, made' \ made)
    BY <2>10 DEF TabMove
  <2> QED
    BY <2>1, <2>5, <2>8, <2>9, <2>11, LessLocal DEF r
<1> QED
  BY <1>1, <1>2 DEF AnswerAppend

LEMMA AnswerDetachedLocal ==
    ASSUME Shape, NEW t \in Tabs, NEW c \in calls[t], AnswerDetached(t, c)
    PROVE  Local(t)
<1> DEFINE r == tab[t]
<1>0. r \in TabRecord /\ Types /\ c \in CallRecord /\ CallOK(c, r.pending, history)
  BY ShapeAt DEF Shape
<1>1. CASE Fails(t, c)
  BY <1>1, FailsLocal DEF AnswerDetached
<1>2. CASE c.phase = "done" /\ ~Fails(t, c)
  <2> DEFINE required == Satisfied(r.required, c.document.revision)
             shown == r.document # None /\ r.status = "SAVED"
             persisted == IF shown THEN c.document.revision ELSE r.persisted
             document == IF shown THEN c.document ELSE r.document
             r2 == [r EXCEPT !.required = required, !.persisted = persisted,
                             !.document = document]
             cs2 == IF shown THEN Replaced(calls[t] \ {c}) ELSE calls[t] \ {c}
  <2>1. /\ tab' = [tab EXCEPT ![t] = r2] /\ calls' = [calls EXCEPT ![t] = cs2]
        /\ history' = history /\ purged' = purged /\ made' = made /\ dropped' = dropped
        /\ Broadcast(t, c.document.revision) /\ c.kind \in {"detached", "restore"}
    BY <1>2 DEF AnswerDetached, Unwritten
  <2>3. c.document # None
    BY <1>0, <2>1 DEF Reads, CallOK, Writes
  <2>4. /\ c.document \in Documents /\ StoredIn(history, c.document)
        /\ c.document.revision \in Nat
    BY <1>2, <2>1, <2>3, ReadIs
  <2>5. OthersTyped
    BY <1>0, <2>1, <2>4, BroadcastTyped DEF OthersTyped, Types
  <2>6. /\ required \in Nat /\ r.document \in Documents \cup {None} /\ r.persisted \in Nat
    BY <1>0, <2>4, RecordTypes, SatisfiedIs
  <2>7. /\ persisted = (IF shown THEN c.document.revision ELSE r.persisted)
        /\ document = (IF shown THEN c.document ELSE r.document)
        /\ document \in Documents \cup {None} /\ persisted \in Nat
    BY <2>4, <2>6
  <2>8. cs2 = calls[t] \ {c} \/ cs2 = Replaced(calls[t] \ {c})
    OBVIOUS
  <2> HIDE DEF required, persisted, document, cs2
  <2>9. /\ r2 \in TabRecord /\ r2.pending = r.pending /\ r2.persisted = persisted
        /\ r2.document = document /\ r2.status = r.status
    BY <1>0, <2>6, <2>7 DEF TabRecord
  <2> HIDE DEF r2
  <2>10. Shows(r, r2, history) \/ Keeps(r, r2)
    <3>1. CASE shown
      BY <2>3, <2>4, <2>7, <2>9, <3>1 DEF Shows
    <3>2. CASE ~shown
      BY <2>7, <2>9, <3>2 DEF Keeps
    <3> QED
      BY <3>1, <3>2
  <2>11. TabMove(r, r2, calls[t], history, made' \ made)
    BY <2>10 DEF TabMove
  <2> QED
    BY <2>1, <2>5, <2>8, <2>9, <2>11, LessLocal DEF r
<1>3. CASE c.kind = "restore" /\ c.phase \in {"refused", "failed"} /\ ~Fails(t, c)
  <2>1. /\ tab' = [tab EXCEPT ![t] = r] /\ calls' = [calls EXCEPT ![t] = calls[t] \ {c}]
        /\ history' = history /\ purged' = purged /\ mailbox' = mailbox /\ made' = made
        /\ dropped' = dropped \cup Brought(c)
    BY <1>0, <1>3 DEF AnswerDetached, Unwritten, Types
  <2>2. OthersTyped
    BY <1>0, <2>1, GivenUpWasMade DEF OthersTyped, Types
  <2>3. Keeps(r, r)
    BY DEF Keeps
  <2> QED
    BY <1>0, <2>1, <2>2, <2>3, LessLocal DEF TabMove, r
<1> QED
  BY <1>1, <1>2, <1>3 DEF AnswerDetached

LEMMA PurgeLocal ==
    ASSUME Shape, NEW t \in Tabs, Purge(t)
    PROVE  Local(t)
<1> DEFINE r == tab[t]
           c == Call("purge", "sent", 0, None)
           cs2 == calls[t] \cup {c}
<1>1. /\ r \in TabRecord /\ calls[t] \in SUBSET CallRecord /\ OneDrain(calls[t]) /\ Types
  BY ShapeAt DEF Shape
<1>2. /\ tab' = [tab EXCEPT ![t] = r] /\ calls' = [calls EXCEPT ![t] = cs2]
      /\ history' = history /\ purged' = purged /\ mailbox' = mailbox /\ made' = made
      /\ dropped' = dropped
  BY <1>1 DEF Purge, Command, Unwritten, Types
<1>3. OthersTyped
  BY <1>1, <1>2 DEF OthersTyped, Types
<1>4. c \in CallRecord /\ c.kind = "purge" /\ c.document = None
  <2>1. "purge" \in Kinds /\ "sent" \in Phases
    BY DEF Kinds, Bound, Writes, Reads, Phases
  <2> QED
    BY <2>1, CallIs
<1> HIDE DEF c
<1>5. cs2 \in SUBSET CallRecord /\ OneDrain(cs2)
  BY <1>1, <1>4, OneCallMore
<1>6. Keeps(r, r) /\ Starts(c, r, r, history, made' \ made)
  BY <1>4 DEF Reads, Keeps, Starts
<1>7. CallsMove(calls[t], cs2, r, r, history, made' \ made)
  BY <1>5, <1>6, SamePending DEF Passes
<1> HIDE DEF cs2
<1> QED
  BY <1>1, <1>2, <1>3, <1>5, <1>6, <1>7, LocalBy DEF TabMove, r

LEMMA AnswerPurgeLocal ==
    ASSUME Shape, NEW t \in Tabs, NEW c \in calls[t], AnswerPurge(t, c)
    PROVE  Local(t)
<1> DEFINE r == tab[t]
           left == calls[t] \ {c}
<1>1. /\ r \in TabRecord /\ calls[t] \in SUBSET CallRecord /\ OneDrain(calls[t]) /\ Types
  BY ShapeAt DEF Shape
<1>2. /\ history' = history /\ purged' = purged /\ mailbox' = mailbox /\ made' = made
      /\ dropped' = dropped \/ dropped' = dropped \cup GivenUp(t)
  BY DEF AnswerPurge, Unwritten
<1>3. OthersTyped
  BY <1>1, <1>2, GivenUpWasMade DEF OthersTyped, Types
<1>4. CASE c.phase = "done" /\ tab[t].document # None
  <2> DEFINE cs2 == Reselected(left)
  <2>1. tab' = [tab EXCEPT ![t] = Blank] /\ calls' = [calls EXCEPT ![t] = cs2]
    BY <1>4 DEF AnswerPurge
  <2>2. left \in SUBSET CallRecord /\ \A e \in left : e \in calls[t]
    BY <1>1
  <2> HIDE DEF left
  <2>3. /\ cs2 \in SUBSET CallRecord
        /\ \A e \in cs2 : e.kind # "drain" /\ \E d \in left : Passes(e, d)
    BY <2>2, ReselectedIs
  <2> HIDE DEF cs2
  <2> QED
    BY <1>2, <1>3, <2>1, <2>2, <2>3, BlankIs, ClearsLocal
<1>5. CASE ~(c.phase = "done" /\ tab[t].document # None)
  <2> DEFINE required == IF c.phase = "done" THEN 0 ELSE r.required
             r2 == [r EXCEPT !.required = required]
  <2>1. tab' = [tab EXCEPT ![t] = r2] /\ calls' = [calls EXCEPT ![t] = left]
    BY <1>5 DEF AnswerPurge
  <2>2. required \in Nat
    BY <1>1, RecordTypes
  <2> HIDE DEF required
  <2>3. r2 \in TabRecord /\ Keeps(r, r2) /\ r2.pending = r.pending
    BY <1>1, <2>2 DEF TabRecord, Keeps
  <2> HIDE DEF r2
  <2> QED
    BY <1>2, <1>3, <2>1, <2>3, LessLocal DEF TabMove, r
<1> QED
  BY <1>4, <1>5

LEMMA DeliverLocal ==
    ASSUME Shape, NEW t \in Tabs, NEW revision \in mailbox[t], Deliver(t, revision)
    PROVE  Local(t)
<1> DEFINE r == tab[t]
           ignored == r.document = None \/ revision <= r.persisted
           required == IF revision > r.required THEN revision ELSE r.required
           told == [r EXCEPT !.required = required]
<1>1. /\ r \in TabRecord /\ calls[t] \in SUBSET CallRecord /\ OneDrain(calls[t]) /\ Types
  BY ShapeAt DEF Shape
<1>2. revision \in Nat /\ mailbox[t] \subseteq Nat
  BY <1>1, Held
<1>3. /\ history' = history /\ purged' = purged /\ made' = made /\ dropped' = dropped
      /\ mailbox' = [mailbox EXCEPT ![t] = mailbox[t] \ {revision}]
  BY DEF Deliver, Unwritten
<1>4. OthersTyped
  BY <1>1, <1>2, <1>3 DEF OthersTyped, Types
<1>5. required \in Nat
  BY <1>1, <1>2, RecordTypes
<1>6. CASE ignored \/ r.status = "SAVED"
  <2> DEFINE n == Call("reload", "sent", revision, None)
             cs2 == IF ignored THEN calls[t] ELSE calls[t] \cup {n}
  <2>1. tab' = [tab EXCEPT ![t] = told] /\ calls' = [calls EXCEPT ![t] = cs2]
    BY <1>6 DEF Deliver
  <2> HIDE DEF required
  <2>2. told \in TabRecord /\ Keeps(r, told) /\ told.pending = r.pending
    BY <1>1, <1>5 DEF TabRecord, Keeps
  <2> HIDE DEF told
  <2>3. n \in CallRecord /\ n.kind = "reload" /\ n.document = None
    <3>1. "reload" \in Kinds /\ "sent" \in Phases
      BY DEF Kinds, Reads, Phases
    <3> QED
      BY <1>2, <3>1, CallIs
  <2> HIDE DEF n
  <2>4. calls[t] \cup {n} \in SUBSET CallRecord /\ OneDrain(calls[t] \cup {n})
    BY <1>1, <2>3, OneCallMore
  <2>5. Starts(n, r, told, history, made' \ made)
    BY <2>3 DEF Reads, Starts
  <2>6. cs2 = calls[t] \/ cs2 = calls[t] \cup {n}
    OBVIOUS
  <2> HIDE DEF cs2
  <2>7. /\ cs2 \in SUBSET CallRecord /\ OneDrain(cs2)
        /\ \A e \in cs2 : e \in calls[t] \/ e = n
    BY <1>1, <2>4, <2>6
  <2>8. CallsMove(calls[t], cs2, r, told, history, made' \ made)
    BY <2>2, <2>5, <2>7, SamePending DEF Passes
  <2> QED
    BY <1>1, <1>3, <1>4, <2>1, <2>2, <2>7, <2>8, LocalBy DEF TabMove, r
<1>7. CASE ~(ignored \/ r.status = "SAVED")
  <2> DEFINE r2 == [told EXCEPT !.status = "CONFLICT"]
             cs2 == Disturbed(calls[t])
  <2>1. tab' = [tab EXCEPT ![t] = r2] /\ calls' = [calls EXCEPT ![t] = cs2]
    BY <1>7 DEF Deliver
  <2> HIDE DEF required
  <2>2. r2 \in TabRecord /\ Keeps(r, r2) /\ r2.pending = r.pending
    BY <1>1, <1>5 DEF TabRecord, Keeps, Statuses
  <2> HIDE DEF r2, told
  <2>3. /\ cs2 \in SUBSET CallRecord /\ OneDrain(cs2)
        /\ \A e \in cs2 : \E d \in calls[t] : Passes(e, d)
    BY <1>1, DisturbedIs
  <2> HIDE DEF cs2
  <2>4. CallsMove(calls[t], cs2, r, r2, history, made' \ made)
    BY <2>2, <2>3, SamePending
  <2> QED
    BY <1>1, <1>3, <1>4, <2>1, <2>2, <2>3, <2>4, LocalBy DEF TabMove, r
<1> QED
  BY <1>6, <1>7

LEMMA AnswerReloadLocal ==
    ASSUME Shape, NEW t \in Tabs, NEW c \in calls[t], AnswerReload(t, c)
    PROVE  Local(t)
<1> DEFINE r == tab[t]
           required == Satisfied(r.required, c.document.revision)
           shown == [r EXCEPT !.persisted = c.document.revision, !.document = c.document,
                              !.required = required]
           left == calls[t] \ {c}
<1>1. /\ r \in TabRecord /\ calls[t] \in SUBSET CallRecord /\ OneDrain(calls[t]) /\ Types
  BY ShapeAt DEF Shape
<1>2. /\ history' = history /\ purged' = purged /\ mailbox' = mailbox /\ made' = made
      /\ dropped' = dropped /\ c.kind = "reload"
  BY DEF AnswerReload, Unwritten
<1>3. OthersTyped
  BY <1>1, <1>2 DEF OthersTyped, Types
<1>4. \/ /\ c.phase = "done" /\ c.document # None
         /\ tab' = [tab EXCEPT ![t] = shown] /\ calls' = [calls EXCEPT ![t] = Replaced(left)]
      \/ /\ tab' = [tab EXCEPT ![t].status = "CONFLICT"]
         /\ calls' = [calls EXCEPT ![t] = Disturbed(left)]
      \/ tab' = tab /\ calls' = [calls EXCEPT ![t] = left]
      \/ /\ tab' = [tab EXCEPT ![t].status = "STORAGE_FAILURE"]
         /\ calls' = [calls EXCEPT ![t] = left]
  BY DEF AnswerReload
<1>5. CASE /\ c.phase = "done" /\ c.document # None
           /\ tab' = [tab EXCEPT ![t] = shown] /\ calls' = [calls EXCEPT ![t] = Replaced(left)]
  <2>1. /\ c.document \in Documents /\ StoredIn(history, c.document)
        /\ c.document.revision \in Nat
    BY <1>2, <1>5, ReadIs
  <2>2. required \in Nat
    BY <1>1, <2>1, RecordTypes, SatisfiedIs
  <2> HIDE DEF required
  <2>3. shown \in TabRecord /\ Shows(r, shown, history) /\ shown.pending = r.pending
    BY <1>1, <1>5, <2>1, <2>2 DEF TabRecord, Shows
  <2> HIDE DEF shown
  <2> QED
    BY <1>2, <1>3, <1>5, <2>3, LessLocal DEF TabMove, r
<1>6. ASSUME NEW s \in {"CONFLICT", "STORAGE_FAILURE"}, tab' = [tab EXCEPT ![t].status = s],
             calls' = [calls EXCEPT ![t] = left] \/ calls' = [calls EXCEPT ![t] = Disturbed(left)]
      PROVE  Local(t)
  <2> DEFINE r2 == [r EXCEPT !.status = s]
  <2>1. tab' = [tab EXCEPT ![t] = r2]
    BY <1>6
  <2>2. r2 \in TabRecord /\ Keeps(r, r2) /\ r2.pending = r.pending
    BY <1>1 DEF TabRecord, Keeps, Statuses
  <2> HIDE DEF r2
  <2> QED
    BY <1>2, <1>3, <1>6, <2>1, <2>2, LessLocal DEF TabMove, r
<1>7. CASE tab' = tab /\ calls' = [calls EXCEPT ![t] = left]
  <2>1. tab' = [tab EXCEPT ![t] = r] /\ Keeps(r, r)
    BY <1>1, <1>7 DEF Types, Keeps
  <2> QED
    BY <1>1, <1>2, <1>3, <1>7, <2>1, LessLocal DEF TabMove, r
<1> QED
  BY <1>4, <1>5, <1>6, <1>7

-----------------------------------------------------------------------------
(* What happens to a call *)

\* A call becomes n, or is forgotten, and the tab keeps all that it holds but its status.
LEMMA GoesOnLocal ==
    ASSUME Shape, NEW t \in Tabs, NEW c \in calls[t], NEW n \in CallRecord, n.kind = c.kind,
           NEW r2 \in TabRecord, Keeps(tab[t], r2), NEW cs2,
           cs2 = calls[t] \ {c} \/ cs2 = (calls[t] \ {c}) \cup {n},
           \/ n.base = c.base /\ n.document = c.document /\ n.kind # "orphan"
              /\ c.phase # "done" /\ n.phase \in {"sent", "refused", "failed"}
           \/ Starts(n, tab[t], r2, history, made' \ made)
           \/ cs2 = calls[t] \ {c},
           tab' = [tab EXCEPT ![t] = r2], calls' = [calls EXCEPT ![t] = cs2],
           history' = history, OthersTyped
    PROVE  Local(t)
<1>1. calls[t] \in SUBSET CallRecord /\ OneDrain(calls[t]) /\ r2.pending = tab[t].pending
  BY ShapeAt DEF Keeps
<1>2. CASE cs2 = calls[t] \ {c}
  BY <1>1, <1>2, LessLocal DEF TabMove
<1>3. CASE cs2 = (calls[t] \ {c}) \cup {n} /\ cs2 # calls[t] \ {c}
  <2>1. cs2 \in SUBSET CallRecord /\ OneDrain(cs2)
    BY <1>1, <1>3, CallGoesOn
  <2>2. Passes(n, c) \/ Starts(n, tab[t], r2, history, made' \ made)
    BY <1>3 DEF Passes
  <2>3. \A e \in cs2 : e = n \/ (e \in calls[t] /\ Passes(e, e))
    BY <1>3 DEF Passes
  <2>4. CallsMove(calls[t], cs2, tab[t], r2, history, made' \ made)
    BY <1>1, <2>1, <2>2, <2>3, SamePending
  <2> QED
    BY <2>1, <2>4, LocalBy DEF TabMove
<1> QED
  BY <1>2, <1>3

LEMMA SendAttachedLocal ==
    ASSUME Shape, NEW t \in Tabs, NEW c \in calls[t], SendAttached(t, c)
    PROVE  Local(t)
<1> DEFINE r == tab[t]
           n == [c EXCEPT !.phase = "sent"]
           r2 == [r EXCEPT !.status = "SAVING"]
           cs2 == (calls[t] \ {c}) \cup {n}
<1>1. r \in TabRecord /\ Types /\ c \in CallRecord
  BY ShapeAt DEF Shape
<1>2. /\ tab' = [tab EXCEPT ![t] = r2] /\ calls' = [calls EXCEPT ![t] = cs2]
      /\ history' = history /\ purged' = purged /\ mailbox' = mailbox /\ made' = made
      /\ dropped' = dropped /\ c.kind = "attach" /\ c.phase = "preparing"
  BY DEF SendAttached, Unwritten
<1>3. OthersTyped
  BY <1>1, <1>2 DEF OthersTyped, Types
<1>4. r2 \in TabRecord /\ Keeps(r, r2)
  BY <1>1 DEF TabRecord, Keeps, Statuses
<1>5. /\ n \in CallRecord /\ n.kind = c.kind /\ n.base = c.base /\ n.document = c.document
      /\ n.phase = "sent"
  BY <1>1 DEF CallRecord, Phases
<1> HIDE DEF n, r2
<1> QED
  BY <1>1, <1>2, <1>3, <1>4, <1>5, GoesOnLocal

\* Answered puts in the place of a call the same one, with its outcome.
LEMMA AnsweredIs ==
    ASSUME NEW t \in Tabs, NEW c \in CallRecord, NEW phase \in Phases,
           NEW document \in Documents \cup {None}, Answered(t, c, phase, document)
    PROVE  \E n \in CallRecord :
             /\ n.kind = c.kind /\ n.base = c.base
             /\ n.phase = phase /\ n.document = document
             /\ \/ c.kind = "orphan" /\ calls' = [calls EXCEPT ![t] = calls[t] \ {c}]
                \/ /\ c.kind # "orphan"
                   /\ calls' = [calls EXCEPT ![t] = (calls[t] \ {c}) \cup {n}]
<1> DEFINE n == [c EXCEPT !.phase = phase, !.document = document]
<1>1. /\ n \in CallRecord /\ n.kind = c.kind /\ n.base = c.base /\ n.phase = phase
      /\ n.document = document
  BY DEF CallRecord
<1>2. calls' = [calls EXCEPT ![t] = IF c.kind = "orphan" THEN calls[t] \ {c}
                                    ELSE (calls[t] \ {c}) \cup {n}]
  BY DEF Answered
<1> HIDE DEF n
<1> QED
  BY <1>1, <1>2

LEMMA ReadLocal ==
    ASSUME Shape, NEW t \in Tabs, NEW c \in calls[t], Read(t, c)
    PROVE  Local(t)
<1> DEFINE r == tab[t]
<1>1. r \in TabRecord /\ Types /\ c \in CallRecord
  BY ShapeAt DEF Shape
<1>2. /\ tab' = [tab EXCEPT ![t] = r] /\ Answered(t, c, "done", Stored)
      /\ history' = history /\ purged' = purged /\ mailbox' = mailbox /\ made' = made
      /\ dropped' = dropped /\ c.kind \in Reads
  BY <1>1 DEF Read, Unwritten, Types
<1>3. OthersTyped
  BY <1>1, <1>2 DEF OthersTyped, Types
<1>4. Stored \in Documents \cup {None} /\ (Stored # None => StoredIn(history, Stored))
  BY <1>1, StoredIs
<1>5. "done" \in Phases
  BY DEF Phases
<1>6. PICK n \in CallRecord :
         /\ n.kind = c.kind /\ n.phase = "done" /\ n.document = Stored
         /\ calls' = [calls EXCEPT ![t] = (calls[t] \ {c}) \cup {n}]
  <2>1. c.kind # "orphan"
    BY <1>2 DEF Reads
  <2> QED
    BY <1>1, <1>2, <1>4, <1>5, <2>1, AnsweredIs
<1>7. Starts(n, r, r, history, made' \ made)
  BY <1>2, <1>4, <1>6 DEF Reads, Starts
<1>8. Keeps(r, r)
  BY DEF Keeps
<1> QED
  BY <1>1, <1>2, <1>3, <1>6, <1>7, <1>8, GoesOnLocal

\* A call that was not answered yet is refused, or fails.
LEMMA RefusedLocal ==
    ASSUME Shape, NEW t \in Tabs, NEW c \in calls[t], NEW phase \in {"refused", "failed"},
           c.phase = "sent", Answered(t, c, phase, c.document),
           tab' = tab, history' = history, OthersTyped
    PROVE  Local(t)
<1> DEFINE r == tab[t]
<1>1. r \in TabRecord /\ Types /\ c \in CallRecord /\ phase \in Phases
  BY ShapeAt DEF Shape, Phases
<1>2. c.document \in Documents \cup {None}
  BY <1>1, CallTypes
<1>3. PICK n \in CallRecord :
         /\ n.kind = c.kind /\ n.base = c.base
         /\ n.phase = phase /\ n.document = c.document
         /\ \/ c.kind = "orphan" /\ calls' = [calls EXCEPT ![t] = calls[t] \ {c}]
            \/ /\ c.kind # "orphan"
               /\ calls' = [calls EXCEPT ![t] = (calls[t] \ {c}) \cup {n}]
  BY <1>1, <1>2, AnsweredIs
<1>4. tab' = [tab EXCEPT ![t] = r] /\ Keeps(r, r)
  BY <1>1 DEF Types, Keeps
<1>5. CASE c.kind = "orphan"
  BY <1>1, <1>3, <1>4, <1>5, GoesOnLocal
<1>6. CASE c.kind # "orphan"
  <2> DEFINE cs2 == (calls[t] \ {c}) \cup {n}
  <2>1. /\ n.kind = c.kind /\ n.base = c.base /\ n.document = c.document
        /\ n.kind # "orphan" /\ c.phase # "done" /\ n.phase \in {"sent", "refused", "failed"}
        /\ calls' = [calls EXCEPT ![t] = cs2] /\ cs2 = (calls[t] \ {c}) \cup {n}
    BY <1>3, <1>6
  <2> HIDE DEF cs2
  <2> QED
    BY <1>1, <1>4, <2>1, GoesOnLocal
<1> QED
  BY <1>5, <1>6

LEMMA StorageFailsLocal ==
    ASSUME Shape, NEW t \in Tabs, NEW c \in calls[t], StorageFails(t, c)
    PROVE  Local(t)
<1>1. /\ Answered(t, c, "failed", c.document) /\ c.phase = "sent"
      /\ tab' = tab /\ mailbox' = mailbox /\ made' = made /\ history' = history
      /\ purged' = purged
      /\ dropped' = dropped \/ dropped' = dropped \cup Brought(c)
  BY DEF StorageFails, Unwritten
<1>2. OthersTyped
  BY <1>1, GivenUpWasMade DEF OthersTyped, Types, Shape
<1> QED
  BY <1>1, <1>2, RefusedLocal

LEMMA CommitStoresOrIsLocal ==
    ASSUME Shape, NEW t \in Tabs, NEW c \in calls[t], Commit(t, c)
    PROVE  Local(t) \/ Stores(t)
<1>1. c \in CallRecord /\ calls[t] \in SUBSET CallRecord /\ CallOK(c, tab[t].pending, history)
      /\ tab[t] \in TabRecord /\ Types
  BY ShapeAt DEF Shape
<1>2. /\ tab' = tab /\ mailbox' = mailbox /\ made' = made /\ c.kind \in Writes
      /\ c.phase = "sent"
  BY DEF Commit
<1>3. CASE /\ c.document = None /\ purged' = TRUE /\ Answered(t, c, "done", None)
           /\ history' = history /\ dropped' = dropped
  <2>1. OthersTyped
    BY <1>1, <1>2, <1>3 DEF OthersTyped, Types
  <2>2. tab' = [tab EXCEPT ![t] = tab[t]] /\ Keeps(tab[t], tab[t])
    BY <1>1, <1>2 DEF Types, Keeps
  <2>3. "done" \in Phases
    BY DEF Phases
  <2>4. PICK n \in CallRecord :
           /\ n.kind = c.kind /\ n.document = None
           /\ \/ c.kind = "orphan" /\ calls' = [calls EXCEPT ![t] = calls[t] \ {c}]
              \/ /\ c.kind # "orphan"
                 /\ calls' = [calls EXCEPT ![t] = (calls[t] \ {c}) \cup {n}]
    BY <1>1, <1>3, <2>3, AnsweredIs
  <2>5. c.kind \in {"orphan", "purge"}
    BY <1>1, <1>2, <1>3 DEF Reads, CallOK
  <2>6. CASE c.kind = "orphan"
    BY <1>1, <1>3, <2>1, <2>2, <2>4, <2>6, GoesOnLocal
  <2>7. CASE c.kind = "purge"
    <3>1. Starts(n, tab[t], tab[t], history, made' \ made)
      BY <2>4, <2>7 DEF Reads, Starts
    <3> QED
      BY <1>1, <1>3, <2>1, <2>2, <2>4, <2>7, <3>1, GoesOnLocal
  <2> QED
    BY <2>5, <2>6, <2>7
<1>4. CASE /\ c.document # None /\ Accepts(c) /\ Preserves(c)
           /\ history' = Append(history, c.document.content)
           /\ Answered(t, c, "done", c.document)
           /\ purged' = purged /\ dropped' = dropped
  <2> DEFINE n == [c EXCEPT !.phase = "done"]
             cs2 == IF c.kind = "orphan" THEN calls[t] \ {c}
                    ELSE (calls[t] \ {c}) \cup {n}
  <2>1. [c EXCEPT !.phase = "done", !.document = c.document] = n /\ n \in CallRecord
    BY <1>1 DEF CallRecord, Phases
  <2>2. calls' = [calls EXCEPT ![t] = cs2]
    BY <1>4, <2>1 DEF Answered
  <2>3. cs2 \in SUBSET CallRecord
    BY <1>1, <2>1
  <2> QED
    BY <1>2, <1>4, <2>2, <2>3 DEF Stores
<1>5. CASE /\ c.document # None
           /\ \E phase \in {"refused", "failed"} : Answered(t, c, phase, c.document)
           /\ dropped' = dropped \/ dropped' = dropped \cup Brought(c)
           /\ history' = history /\ purged' = purged
  <2>1. OthersTyped
    BY <1>1, <1>2, <1>5, GivenUpWasMade DEF OthersTyped, Types
  <2> QED
    BY <1>2, <1>5, <2>1, RefusedLocal
<1> QED
  BY <1>3, <1>4, <1>5 DEF Commit, Unwritten

\* Every step is a move of a tab, or stores a revision.
LEMMA StepIs ==
    ASSUME Shape, Next
    PROVE  \E t \in Tabs : Local(t) \/ Stores(t)
<1>1. PICK t \in Tabs :
         \/ User(t) \/ StartDrain(t)
         \/ \E c \in calls[t] :
               Commit(t, c) \/ Read(t, c) \/ StorageFails(t, c) \/ SendAttached(t, c)
               \/ EditComposed(t, c) \/ Answer(t, c)
         \/ \E revision \in mailbox[t] : Deliver(t, revision)
  BY DEF Next
<1>2. CASE User(t)
  BY <1>2, ReuseLocal, LoadStudyLocal, StartNewStudyLocal, SwitchLocal, InstallDemoLocal,
     PurgeLocal, ReadStudyLocal, EditLocal, ComposeLocal, AttachLocal, AppendAttemptLocal,
     WriteDetachedLocal
     DEF User
<1>3. CASE StartDrain(t)
  BY <1>3, StartDrainLocal
<1>4. ASSUME NEW c \in calls[t],
             Commit(t, c) \/ Read(t, c) \/ StorageFails(t, c) \/ SendAttached(t, c)
             \/ EditComposed(t, c) \/ Answer(t, c)
      PROVE  Local(t) \/ Stores(t)
  BY <1>4, CommitStoresOrIsLocal, ReadLocal, StorageFailsLocal, SendAttachedLocal,
     EditComposedLocal, AnswerDrainLocal, AnswerLoadLocal, AnswerDemoLocal, AnswerAttachLocal,
     AnswerAppendLocal, AnswerDetachedLocal, AnswerPurgeLocal, AnswerReloadLocal,
     AnswerReadLocal DEF Answer
<1>5. ASSUME NEW revision \in mailbox[t], Deliver(t, revision)
      PROVE  Local(t)
  BY <1>5, DeliverLocal
<1> QED
  BY <1>1, <1>2, <1>3, <1>4, <1>5
-----------------------------------------------------------------------------
(* Moves keep the shape *)

LEMMA StoredRevision ==
    ASSUME NEW h \in Seq(Contents), NEW d, StoredIn(h, d)
    PROVE  /\ d.revision \in Nat /\ d.revision > 0 /\ d.revision <= Len(h)
           /\ d.revision \in DOMAIN h /\ d.content = h[d.revision]
BY LenProperties DEF StoredIn

LEMMA BeforeIs ==
    ASSUME NEW r \in TabRecord
    PROVE  /\ Before(r) \in Nat
           /\ r.pending = <<>> => Before(r) = r.persisted
           /\ r.pending # <<>> => /\ Len(r.pending) \in DOMAIN r.pending
                                  /\ Before(r) = r.pending[Len(r.pending)].document.revision
<1>1. r.pending \in Seq(Save) /\ r.persisted \in Nat
  BY RecordTypes
<1>2. CASE r.pending = <<>>
  BY <1>1, <1>2 DEF Before
<1>3. CASE r.pending # <<>>
  <2>1. Len(r.pending) \in DOMAIN r.pending /\ Last(r.pending) = r.pending[Len(r.pending)]
    BY <1>1, <1>3, QueueIs
  <2> QED
    BY <1>1, <1>3, <2>1, SaveTypes DEF Before
<1> QED
  BY <1>2, <1>3

\* The edit that joins the queue.
LEMMA EditedIs ==
    ASSUME NEW r \in TabRecord, NEW d \in Documents, d.revision = Before(r) + 1
    PROVE  LET s == [expected |-> Before(r), document |-> d]
               q == Append(r.pending, s)
           IN  /\ s \in Save /\ s.expected = Before(r) /\ s.document = d
               /\ Len(r.pending) \in Nat /\ DOMAIN r.pending = 1..Len(r.pending)
               /\ q \in Seq(Save) /\ q # <<>> /\ DOMAIN q = 1..(Len(r.pending) + 1)
               /\ \A i \in DOMAIN r.pending : q[i] = r.pending[i]
               /\ q[Len(r.pending) + 1] = s
               /\ r.pending # <<>> => Head(q) = Head(r.pending)
               /\ r.pending = <<>> => Len(r.pending) = 0
               /\ Last(q) = s
<1> DEFINE s == [expected |-> Before(r), document |-> d]
<1>1. r.pending \in Seq(Save) /\ Before(r) \in Nat
  BY RecordTypes, BeforeIs
<1>2. s \in Save /\ s.expected = Before(r) /\ s.document = d
  BY <1>1 DEF Save
<1> HIDE DEF s
<1> QED
  BY <1>1, <1>2, AppendIs DEF s

LEMMA QueueAt ==
    ASSUME NEW q \in Seq(Save), QueueOK(q), NEW i \in DOMAIN q
    PROVE  /\ i \in Nat /\ i >= 1 /\ i <= Len(q) /\ Len(q) \in Nat /\ 1 \in DOMAIN q
           /\ q[1].expected \in Nat /\ q[i].expected = q[1].expected + (i - 1)
           /\ q[i].document.revision = q[1].expected + i
<1>1. Len(q) \in Nat /\ DOMAIN q = 1..Len(q)
  BY LenProperties
<1>2. 1 \in DOMAIN q /\ i \in Nat
  BY <1>1
<1>3. q[1].expected \in Nat /\ q[i].document.revision = q[i].expected + 1
  BY <1>2, SaveTypes
<1>4. q[i].expected = q[1].expected + (i - 1)
  BY DEF QueueOK
<1> QED
  BY <1>1, <1>2, <1>3, <1>4

LEMMA MoveQueueOK ==
    ASSUME NEW r \in TabRecord, NEW r2 \in TabRecord, NEW cs \in SUBSET CallRecord,
           NEW h \in Seq(Contents), NEW new, QueueOK(r.pending), TabMove(r, r2, cs, h, new)
    PROVE  QueueOK(r2.pending)
<1>1. r.pending \in Seq(Save) /\ r2.pending \in Seq(Save)
  BY RecordTypes
<1>2. CASE r2.pending = r.pending \/ r2.pending = <<>>
  BY <1>2 DEF QueueOK
<1>3. CASE Edits(r, r2, cs, new)
  <2>1. PICK d \in Documents :
           /\ d.revision = Before(r) + 1
           /\ r2.pending = Append(r.pending, [expected |-> Before(r), document |-> d])
    BY <1>3 DEF Edits
  <2> DEFINE s == [expected |-> Before(r), document |-> d]
             n == Len(r.pending)
  <2>2. /\ s.expected = Before(r) /\ n \in Nat /\ DOMAIN r.pending = 1..n
        /\ DOMAIN r2.pending = 1..(n + 1) /\ r2.pending[n + 1] = s
        /\ \A i \in DOMAIN r.pending : r2.pending[i] = r.pending[i]
        /\ r.pending = <<>> => n = 0
    BY <2>1, EditedIs
  <2>3. r.pending # <<>> => n \in DOMAIN r.pending /\ Before(r) = r.pending[n].document.revision
    BY BeforeIs
  <2>a. Before(r) \in Nat
    BY BeforeIs
  <2> HIDE DEF s, n
  <2>4. ASSUME NEW i \in 1..(n + 1)
        PROVE  r2.pending[i].expected = r2.pending[1].expected + (i - 1)
    <3>1. CASE i = n + 1 /\ r.pending = <<>>
      BY <2>2, <2>a, <3>1
    <3>2. CASE i = n + 1 /\ r.pending # <<>>
      <4>1. /\ 1 \in DOMAIN r.pending /\ r.pending[1].expected \in Nat
            /\ Before(r) = r.pending[1].expected + n
        BY <1>1, <2>3, <3>2, QueueAt
      <4> QED
        BY <2>2, <3>2, <4>1
    <3>3. CASE i # n + 1
      <4>1. i \in DOMAIN r.pending
        BY <2>2, <3>3
      <4>2. 1 \in DOMAIN r.pending /\ r.pending[i].expected = r.pending[1].expected + (i - 1)
        BY <1>1, <4>1, QueueAt
      <4> QED
        BY <2>2, <4>1, <4>2
    <3> QED
      BY <3>1, <3>2, <3>3
  <2> QED
    BY <2>2, <2>4 DEF QueueOK
<1>4. CASE Drains(r, r2, h)
  <2>1. r.pending # <<>> /\ r2.pending = Tail(r.pending)
    BY <1>4 DEF Drains
  <2> DEFINE n == Len(r.pending)
  <2>2. /\ n \in Nat \ {0} /\ DOMAIN r2.pending = 1..(n - 1)
        /\ \A i \in DOMAIN r2.pending : r2.pending[i] = r.pending[i + 1] /\ i + 1 \in DOMAIN r.pending
    BY <1>1, <2>1, QueueIs
  <2> HIDE DEF n
  <2>3. ASSUME NEW i \in 1..(n - 1)
        PROVE  r2.pending[i].expected = r2.pending[1].expected + (i - 1)
    <3>1. 1 \in 1..(n - 1) /\ i \in Nat
      BY <2>2, <2>3
    <3>2. /\ r2.pending[i] = r.pending[i + 1] /\ i + 1 \in DOMAIN r.pending
          /\ r2.pending[1] = r.pending[2] /\ 2 \in DOMAIN r.pending
      BY <2>2, <3>1
    <3>3. /\ r.pending[i + 1].expected = r.pending[1].expected + i
          /\ r.pending[2].expected = r.pending[1].expected + 1
          /\ r.pending[1].expected \in Nat
      <4>1. /\ r.pending[i + 1].expected = r.pending[1].expected + ((i + 1) - 1)
            /\ r.pending[1].expected \in Nat
        BY <1>1, <3>2, QueueAt
      <4>2. r.pending[2].expected = r.pending[1].expected + (2 - 1)
        BY <1>1, <3>2, QueueAt
      <4> QED
        BY <3>1, <4>1, <4>2
    <3> QED
      BY <3>1, <3>2, <3>3
  <2> QED
    BY <2>2, <2>3 DEF QueueOK
<1> QED
  BY <1>2, <1>3, <1>4 DEF TabMove, Keeps, Shows, Clears, Discards, Appends

LEMMA MoveShownOK ==
    ASSUME NEW r \in TabRecord, NEW r2 \in TabRecord, NEW cs \in SUBSET CallRecord,
           NEW h \in Seq(Contents), NEW new, ShownOK(r, h), TabMove(r, r2, cs, h, new)
    PROVE  ShownOK(r2, h)
<1>1. /\ r.pending \in Seq(Save) /\ Len(h) \in Nat
      /\ r.persisted \in Nat /\ r2.persisted \in Nat
  BY RecordTypes, LenProperties
<1>2. CASE Keeps(r, r2)
  BY <1>2 DEF Keeps, ShownOK
<1>3. CASE Shows(r, r2, h)
  BY <1>3, StoredRevision DEF Shows, ShownOK
<1>4. CASE Clears(r, r2)
  BY <1>1, <1>4 DEF Clears, ShownOK
<1>5. CASE Discards(r, r2)
  BY <1>5 DEF Discards, ShownOK
<1>6. CASE Edits(r, r2, cs, new)
  <2>1. PICK d \in Documents :
           /\ d.revision = Before(r) + 1
           /\ r2.pending = Append(r.pending, [expected |-> Before(r), document |-> d])
           /\ r2.document = d /\ r2.persisted = r.persisted /\ r2.status = "DIRTY"
           /\ r.document # None
    BY <1>6 DEF Edits
  <2>2. \E i \in DOMAIN r2.pending : r2.pending[i].document = d
    BY <2>1, EditedIs
  <2> QED
    BY <2>1, <2>2 DEF ShownOK
<1>7. CASE Drains(r, r2, h)
  <2>1. /\ r.pending # <<>> /\ StoredIn(h, Head(r.pending).document)
        /\ r2.pending = Tail(r.pending) /\ r2.document = r.document
        /\ r2.persisted = Head(r.pending).document.revision
        /\ r2.status = "SAVED" => Tail(r.pending) = <<>>
    BY <1>7 DEF Drains
  <2>2. r2.persisted <= Len(h) /\ r2.persisted > 0
    BY <2>1, StoredRevision
  <2>3. ASSUME r2.document # None, ~StoredIn(h, r2.document)
        PROVE  /\ r2.status # "SAVED"
               /\ \E i \in DOMAIN r2.pending : r2.document = r2.pending[i].document
    <3>1. PICK i \in DOMAIN r.pending : r.document = r.pending[i].document
      BY <2>1, <2>3 DEF ShownOK
    <3>2. /\ Head(r.pending) = r.pending[1] /\ Len(r.pending) \in Nat \ {0}
          /\ DOMAIN r.pending = 1..Len(r.pending)
          /\ DOMAIN r2.pending = 1..(Len(r.pending) - 1)
          /\ \A k \in DOMAIN r2.pending : r2.pending[k] = r.pending[k + 1]
      BY <1>1, <2>1, QueueIs, LenProperties
    <3>3. i # 1
      BY <2>1, <2>3, <3>1, <3>2
    <3>4. i - 1 \in DOMAIN r2.pending /\ (i - 1) + 1 = i
      BY <3>1, <3>2, <3>3
    <3>5. r2.pending[i - 1] = r.pending[i]
      BY <3>2, <3>4
    <3>6. r2.pending # <<>>
      BY <3>4, EmptySeq
    <3> QED
      BY <2>1, <3>1, <3>4, <3>5, <3>6
  <2> QED
    BY <2>2, <2>3 DEF ShownOK
<1>8. CASE Appends(r, r2, cs, h)
  <2>1. PICK c \in cs : StoredIn(h, c.document) /\ r2.persisted = c.document.revision
    BY <1>8 DEF Appends
  <2>2. r2.persisted <= Len(h) /\ r2.persisted > 0
    BY <2>1, StoredRevision
  <2> QED
    BY <1>8, <2>2 DEF Appends, ShownOK
<1> QED
  BY <1>2, <1>3, <1>4, <1>5, <1>6, <1>7, <1>8 DEF TabMove

LEMMA StartsCallOK ==
    ASSUME NEW r \in TabRecord, NEW r2 \in TabRecord, NEW h \in Seq(Contents), NEW new,
           NEW c \in CallRecord, Starts(c, r, r2, h, new)
    PROVE  CallOK(c, r2.pending, h)
<1>1. CASE /\ c.kind = "drain" /\ c.phase = "sent" /\ r2.pending # <<>>
           /\ c.base = Head(r2.pending).expected /\ c.document = Head(r2.pending).document
  <2>1. r2.pending \in Seq(Save)
    BY RecordTypes
  <2>2. c.document # None /\ c.document.revision = c.base + 1
    BY <1>1, <2>1, QueueIs, SaveTypes
  <2> QED
    BY <1>1, <2>2 DEF Reads, CallOK
<1>2. CASE /\ c.kind \in Reads
           /\ c.document = None \/ (c.phase = "done" /\ StoredIn(h, c.document))
  BY <1>2 DEF Reads, CallOK, Writes
<1>3. CASE c.kind = "purge" /\ c.document = None
  BY <1>3 DEF Reads, CallOK
<1>4. CASE c.kind = "compose" /\ c.phase = "preparing" /\ c.document # None
  BY <1>4 DEF Reads, CallOK, Writes
<1>5. CASE /\ c.kind \in {"attach", "append", "detached", "restore"}
           /\ c.phase \in {"preparing", "sent"} /\ c.document # None
           /\ c.document.revision = c.base + 1
  BY <1>5 DEF Reads, CallOK
<1> QED
  BY <1>1, <1>2, <1>3, <1>4, <1>5 DEF Reads, Starts

LEMMA PassesCallOK ==
    ASSUME NEW q, NEW q2, NEW h, NEW c \in CallRecord, NEW d \in CallRecord,
           CallOK(d, q, h), Passes(c, d),
           c.kind = "drain" => q2 # <<>> /\ Head(q2) = Head(q)
    PROVE  CallOK(c, q2, h)
<1>1. CASE c.kind = d.kind /\ c.phase = d.phase
  BY <1>1 DEF Reads, CallOK, Passes
<1>2. CASE /\ c.kind = d.kind /\ d.kind # "orphan" /\ d.phase # "done"
           /\ c.phase \in {"sent", "refused", "failed"}
  BY <1>2 DEF Reads, CallOK, Passes
<1>3. CASE c.kind = "orphan" /\ c.phase = "sent" /\ d.kind \in Writes
  BY <1>3 DEF Reads, CallOK, Passes
<1> QED
  BY <1>1, <1>2, <1>3 DEF Passes

LEMMA MoveCallOK ==
    ASSUME NEW r \in TabRecord, NEW r2 \in TabRecord, NEW h \in Seq(Contents), NEW new,
           NEW cs \in SUBSET CallRecord, NEW cs2 \in SUBSET CallRecord,
           \A c \in cs : CallOK(c, r.pending, h), CallsMove(cs, cs2, r, r2, h, new)
    PROVE  \A c \in cs2 : CallOK(c, r2.pending, h)
<1> SUFFICES ASSUME NEW c \in cs2
             PROVE  CallOK(c, r2.pending, h)
  OBVIOUS
<1>1. CASE Starts(c, r, r2, h, new)
  BY <1>1, StartsCallOK
<1>2. ASSUME NEW d \in cs, Passes(c, d),
             c.kind = "drain" => /\ r2.pending # <<>> /\ Head(r2.pending) = Head(r.pending)
      PROVE  CallOK(c, r2.pending, h)
  BY <1>2, PassesCallOK
<1> QED
  BY <1>1, <1>2 DEF CallsMove

LEMMA MoveMadeBefore ==
    ASSUME NEW r \in TabRecord, NEW r2 \in TabRecord, NEW h \in Seq(Contents),
           NEW cs \in SUBSET CallRecord, NEW cs2 \in SUBSET CallRecord,
           NEW m, NEW m2, m \subseteq m2, \A k \in DOMAIN h : h[k] \subseteq m,
           MadeBefore(r, cs, m),
           TabMove(r, r2, cs, h, m2 \ m), CallsMove(cs, cs2, r, r2, h, m2 \ m)
    PROVE  MadeBefore(r2, cs2, m2)
<1>0. r.pending \in Seq(Save) /\ r2.pending \in Seq(Save)
  BY RecordTypes
<1>1. /\ r2.document # None => r2.document.content \subseteq m2
      /\ \A i \in DOMAIN r2.pending : r2.pending[i].document.content \subseteq m2
  <2>1. CASE Keeps(r, r2) \/ Appends(r, r2, cs, h)
    BY <2>1 DEF Keeps, Appends, MadeBefore
  <2>2. CASE Shows(r, r2, h)
    BY <2>2, StoredRevision DEF Shows, MadeBefore
  <2>3. CASE Clears(r, r2) \/ Discards(r, r2)
    BY <2>3 DEF Clears, Discards, MadeBefore
  <2>4. CASE Edits(r, r2, cs, m2 \ m)
    <3>1. PICK d \in Documents :
           /\ d.revision = Before(r) + 1
           /\ r2.pending = Append(r.pending, [expected |-> Before(r), document |-> d])
           /\ r2.document = d /\ r.document # None
           /\ \/ \E c \in cs : c.kind = "compose" /\ c.document = d
              \/ \E x \in m2 \ m : d.content = r.document.content \cup {x}
      BY <2>4 DEF Edits
    <3>2. d # None /\ d.content \subseteq m2
      BY <3>1, DocumentTypes DEF MadeBefore
    <3> DEFINE s == [expected |-> Before(r), document |-> d]
    <3>3. /\ s.document = d /\ Len(r.pending) \in Nat
          /\ DOMAIN r2.pending = 1..(Len(r.pending) + 1)
          /\ DOMAIN r.pending = 1..Len(r.pending)
          /\ \A i \in DOMAIN r.pending : r2.pending[i] = r.pending[i]
          /\ r2.pending[Len(r.pending) + 1] = s
      BY <3>1, EditedIs
    <3> HIDE DEF s
    <3>4. ASSUME NEW i \in DOMAIN r2.pending
          PROVE  r2.pending[i].document.content \subseteq m2
      <4>1. i = Len(r.pending) + 1 \/ i \in DOMAIN r.pending
        BY <3>3
      <4> QED
        BY <3>2, <3>3, <4>1 DEF MadeBefore
    <3> QED
      BY <3>1, <3>2, <3>4
  <2>5. CASE Drains(r, r2, h)
    <3>1. r.pending # <<>> /\ r2.pending = Tail(r.pending) /\ r2.document = r.document
      BY <2>5 DEF Drains
    <3>2. \A i \in DOMAIN r2.pending : r2.pending[i] = r.pending[i + 1] /\ i + 1 \in DOMAIN r.pending
      BY <1>0, <3>1, QueueIs
    <3> QED
      BY <3>1, <3>2 DEF MadeBefore
  <2> QED
    BY <2>1, <2>2, <2>3, <2>4, <2>5 DEF TabMove
<1>2. ASSUME NEW c \in cs2, c.document # None
      PROVE  c.document.content \subseteq m2
  <2>1. CASE \E d \in cs : Passes(c, d)
    BY <1>2, <2>1 DEF Passes, MadeBefore
  <2>2. CASE Starts(c, r, r2, h, m2 \ m)
    <3>1. CASE r2.pending # <<>> /\ c.document = Head(r2.pending).document
      BY <1>0, <1>1, <3>1, QueueIs
    <3>2. CASE StoredIn(h, c.document)
      BY <3>2, StoredRevision
    <3>3. CASE \E x \in m2 \ m : /\ r.document # None
                                 /\ c.document.content = r.document.content \cup {x}
      BY <3>3 DEF MadeBefore
    <3>4. CASE \E x \in m2 \ m : c.base \in DOMAIN h /\ c.document.content = h[c.base] \cup {x}
      BY <3>4
    <3> QED
      BY <1>2, <2>2, <3>1, <3>2, <3>3, <3>4 DEF Reads, Starts
  <2> QED
    BY <2>1, <2>2 DEF CallsMove
<1> QED
  BY <1>1, <1>2 DEF MadeBefore

LEMMA MoveTabOK ==
    ASSUME NEW r \in TabRecord, NEW r2 \in TabRecord, NEW h \in Seq(Contents),
           NEW cs \in SUBSET CallRecord, NEW cs2 \in SUBSET CallRecord,
           NEW m, NEW m2, m \subseteq m2, \A k \in DOMAIN h : h[k] \subseteq m,
           TabOK(r, cs, h, m),
           TabMove(r, r2, cs, h, m2 \ m), CallsMove(cs, cs2, r, r2, h, m2 \ m)
    PROVE  TabOK(r2, cs2, h, m2)
<1>1. /\ QueueOK(r.pending) /\ ShownOK(r, h) /\ MadeBefore(r, cs, m)
      /\ \A c \in cs : CallOK(c, r.pending, h)
  BY DEF TabOK
<1>2. QueueOK(r2.pending) /\ ShownOK(r2, h)
  BY <1>1, MoveQueueOK, MoveShownOK
<1>3. \A c \in cs2 : CallOK(c, r2.pending, h)
  BY <1>1, MoveCallOK
<1>4. MadeBefore(r2, cs2, m2)
  BY <1>1, MoveMadeBefore
<1>5. OneDrain(cs2)
  BY DEF CallsMove
<1> QED
  BY <1>2, <1>3, <1>4, <1>5 DEF TabOK

LEMMA MoreMade ==
    ASSUME NEW r, NEW cs, NEW h, NEW m, NEW m2, m \subseteq m2, TabOK(r, cs, h, m)
    PROVE  TabOK(r, cs, h, m2)
BY DEF TabOK, MadeBefore

LEMMA LocalKeepsShape ==
    ASSUME Shape, NEW t \in Tabs, Local(t)
    PROVE  Shape'
<1>1. PICK r2 \in TabRecord, cs2 \in SUBSET CallRecord :
         /\ tab' = [tab EXCEPT ![t] = r2] /\ calls' = [calls EXCEPT ![t] = cs2]
         /\ TabMove(tab[t], r2, calls[t], history, made' \ made)
         /\ CallsMove(calls[t], cs2, tab[t], r2, history, made' \ made)
  BY DEF Local
<1>2. history' = history /\ OthersTyped /\ Types
  BY DEF Local, Shape
<1>3. Types'
  BY <1>1, <1>2 DEF Types, OthersTyped
<1>4. made \subseteq made' /\ \A k \in DOMAIN history : history[k] \subseteq made
  BY <1>2 DEF OthersTyped, Shape
<1>5. ASSUME NEW u \in Tabs
      PROVE  TabOK(tab'[u], calls'[u], history, made')
  <2>1. TabOK(tab[u], calls[u], history, made)
    BY DEF Shape
  <2>2. CASE u = t
    <3>1. tab'[u] = r2 /\ calls'[u] = cs2
      BY <1>1, <1>2, <2>2 DEF Types
    <3>2. /\ tab[t] \in TabRecord /\ calls[t] \in SUBSET CallRecord
          /\ history \in Seq(Contents)
      BY ShapeAt
    <3> DEFINE r == tab[t]
               cs == calls[t]
               h == history
               m == made
               m2 == made'
    <3>3. /\ r \in TabRecord /\ r2 \in TabRecord /\ h \in Seq(Contents)
          /\ cs \in SUBSET CallRecord /\ cs2 \in SUBSET CallRecord
          /\ m \subseteq m2 /\ (\A k \in DOMAIN h : h[k] \subseteq m)
          /\ TabOK(r, cs, h, m) /\ TabMove(r, r2, cs, h, m2 \ m)
          /\ CallsMove(cs, cs2, r, r2, h, m2 \ m)
      BY <1>1, <1>4, <2>1, <2>2, <3>2
    <3> HIDE DEF r, cs, h, m, m2
    <3>4. TabOK(r2, cs2, h, m2)
      BY <3>3, MoveTabOK
    <3> QED
      BY <3>1, <3>4 DEF h, m2
  <2>3. CASE u # t
    <3>1. tab'[u] = tab[u] /\ calls'[u] = calls[u]
      BY <1>1, <1>2, <2>3 DEF Types
    <3> QED
      BY <1>4, <2>1, <3>1, MoreMade
  <2> QED
    BY <2>2, <2>3
<1>6. \A k \in DOMAIN history' : history'[k] \subseteq made'
  BY <1>2, <1>4
<1> QED
  BY <1>2, <1>3, <1>5, <1>6 DEF Shape
-----------------------------------------------------------------------------
(* A revision more keeps the shape *)

LEMMA StillStored ==
    ASSUME NEW h \in Seq(Contents), NEW x \in Contents, NEW d, StoredIn(h, d)
    PROVE  StoredIn(Append(h, x), d)
<1>1. /\ DOMAIN h \subseteq DOMAIN Append(h, x)
      /\ \A k \in DOMAIN h : Append(h, x)[k] = h[k]
  BY RevisionIs
<1> HIDE DEF StoredIn
<1> QED
  BY <1>1 DEF StoredIn

LEMMA StillTabOK ==
    ASSUME NEW r \in TabRecord, NEW cs, NEW h \in Seq(Contents), NEW x \in Contents, NEW m,
           TabOK(r, cs, h, m)
    PROVE  TabOK(r, cs, Append(h, x), m)
<1> DEFINE h2 == Append(h, x)
<1>1. Len(h2) = Len(h) + 1 /\ Len(h) \in Nat /\ r.persisted \in Nat
  BY RevisionIs, RecordTypes
<1>2. \A d : StoredIn(h, d) => StoredIn(h2, d)
  BY StillStored
<1> HIDE DEF h2
<1>3. ShownOK(r, h2)
  BY <1>1, <1>2 DEF TabOK, ShownOK
<1>4. ASSUME NEW c \in cs
      PROVE  CallOK(c, r.pending, h2)
  BY <1>2 DEF Reads, TabOK, CallOK
<1> QED
  BY <1>3, <1>4 DEF TabOK, h2

\* The call whose document was stored, and what else Stores does.
LEMMA StoresIs ==
    ASSUME Shape, NEW t \in Tabs, Stores(t)
    PROVE  \E c \in calls[t], n \in CallRecord, cs2 \in SUBSET CallRecord :
             /\ c \in CallRecord /\ c.kind \in Writes /\ c.phase = "sent"
             /\ c.document \in Documents /\ c.document # None /\ Preserves(c)
             /\ c.base = Len(history) /\ c.document.revision = Len(history) + 1
             /\ history' = Append(history, c.document.content)
             /\ StoredIn(history', c.document)
             /\ n.kind = c.kind /\ n.base = c.base /\ n.document = c.document
             /\ n.phase = "done"
             /\ calls' = [calls EXCEPT ![t] = cs2]
             /\ \/ c.kind = "orphan" /\ cs2 = calls[t] \ {c}
                \/ c.kind # "orphan" /\ cs2 = (calls[t] \ {c}) \cup {n}
             /\ UNCHANGED <<purged, tab, mailbox, made, dropped>>
<1>1. PICK c \in calls[t] :
         /\ c.kind \in Writes /\ c.phase = "sent" /\ c.document # None
         /\ Accepts(c) /\ Preserves(c)
         /\ history' = Append(history, c.document.content)
         /\ \E cs2 \in SUBSET CallRecord :
              /\ calls' = [calls EXCEPT ![t] = cs2]
              /\ cs2 = (IF c.kind = "orphan" THEN calls[t] \ {c}
                        ELSE (calls[t] \ {c}) \cup {[c EXCEPT !.phase = "done"]})
         /\ UNCHANGED <<purged, tab, mailbox, made, dropped>>
  BY DEF Stores
<1> DEFINE n == [c EXCEPT !.phase = "done"]
<1>2. PICK cs2 \in SUBSET CallRecord :
         /\ calls' = [calls EXCEPT ![t] = cs2]
         /\ cs2 = (IF c.kind = "orphan" THEN calls[t] \ {c} ELSE (calls[t] \ {c}) \cup {n})
  BY <1>1
<1>3. c \in CallRecord /\ CallOK(c, tab[t].pending, history)
      /\ history \in Seq(Contents) /\ history # <<>>
  BY ShapeAt
<1>4. /\ n \in CallRecord /\ n.kind = c.kind /\ n.base = c.base /\ n.document = c.document
      /\ n.phase = "done"
  BY <1>3 DEF CallRecord, Phases
<1>5. /\ c.base = Len(history) /\ c.document \in Documents
      /\ c.document.revision = c.base + 1
  BY <1>1, <1>3, CallTypes DEF Reads, Accepts, CallOK
<1>6. c.document.content \in Contents
  BY <1>5, DocumentTypes DEF Contents
<1>7. /\ DOMAIN history' = 1..(Len(history) + 1) /\ Len(history) \in Nat
      /\ history'[Len(history) + 1] = c.document.content
  BY <1>1, <1>3, <1>6, RevisionIs
<1>8. StoredIn(history', c.document)
  BY <1>5, <1>7 DEF StoredIn
<1> HIDE DEF n
<1>9. \/ c.kind = "orphan" /\ cs2 = calls[t] \ {c}
      \/ c.kind # "orphan" /\ cs2 = (calls[t] \ {c}) \cup {n}
  BY <1>2
<1> QED
  BY <1>1, <1>2, <1>3, <1>4, <1>5, <1>8, <1>9

LEMMA StoresKeepsShape ==
    ASSUME Shape, NEW t \in Tabs, Stores(t)
    PROVE  Shape'
<1>1. PICK c \in calls[t], n \in CallRecord, cs2 \in SUBSET CallRecord :
         /\ c \in CallRecord /\ c.kind \in Writes
         /\ c.document \in Documents /\ c.document # None
         /\ c.base = Len(history) /\ c.document.revision = Len(history) + 1
         /\ history' = Append(history, c.document.content)
         /\ StoredIn(history', c.document)
         /\ n.kind = c.kind /\ n.base = c.base /\ n.document = c.document
         /\ n.phase = "done"
         /\ calls' = [calls EXCEPT ![t] = cs2]
         /\ \/ c.kind = "orphan" /\ cs2 = calls[t] \ {c}
            \/ c.kind # "orphan" /\ cs2 = (calls[t] \ {c}) \cup {n}
         /\ UNCHANGED <<purged, tab, mailbox, made, dropped>>
  BY StoresIs
<1> DEFINE x == c.document.content
           h2 == Append(history, x)
<1>2. x \in Contents
  BY <1>1, DocumentTypes DEF Contents
<1>3. /\ Types /\ history \in Seq(Contents) /\ tab[t] \in TabRecord
      /\ TabOK(tab[t], calls[t], history, made)
  BY ShapeAt DEF Shape
<1>4. history' = h2 /\ h2 \in Seq(Contents) /\ h2 # <<>>
  BY <1>1, <1>2, <1>3, RevisionIs
<1>5. Types'
  BY <1>1, <1>3, <1>4 DEF Types
<1>6. x \subseteq made
  BY <1>1, <1>3 DEF TabOK, MadeBefore
<1>7. \A k \in DOMAIN h2 : h2[k] \subseteq made
  <2>1. \A k \in DOMAIN h2 : k = Len(history) + 1 \/ k \in DOMAIN history
    BY <1>2, <1>3, RevisionIs
  <2>2. h2[Len(history) + 1] = x /\ \A k \in DOMAIN history : h2[k] = history[k]
    BY <1>2, <1>3, RevisionIs
  <2> HIDE DEF h2, x
  <2> QED
    BY <1>6, <2>1, <2>2 DEF Shape
<1>8. ASSUME NEW u \in Tabs
      PROVE  TabOK(tab[u], calls[u], h2, made)
  <2>1. TabOK(tab[u], calls[u], history, made) /\ tab[u] \in TabRecord
    BY ShapeAt DEF Shape
  <2> QED
    BY <1>2, <1>3, <2>1, StillTabOK
<1>9. TabOK(tab[t], cs2, h2, made)
  <2>1. TabOK(tab[t], calls[t], h2, made)
    BY <1>8
  <2>2. StoredIn(h2, c.document)
    BY <1>1
  <2> HIDE DEF h2
  <2>3. c.kind # "orphan" => CallOK(n, tab[t].pending, h2)
    <3>1. CallOK(c, tab[t].pending, h2)
      BY <2>1 DEF TabOK
    <3> QED
      BY <1>1, <2>2, <3>1 DEF Reads, CallOK
  <2>4. \A e \in cs2 : e \in calls[t] \/ (e = n /\ c.kind # "orphan" /\ c \notin cs2 \ {n})
    BY <1>1
  <2>5. OneDrain(cs2)
    BY <1>1, <2>1 DEF TabOK, OneDrain
  <2>6. MadeBefore(tab[t], cs2, made)
    BY <1>1, <2>1, <2>4 DEF TabOK, MadeBefore
  <2> QED
    BY <2>1, <2>3, <2>4, <2>5, <2>6 DEF TabOK
<1>10. ASSUME NEW u \in Tabs
       PROVE  TabOK(tab'[u], calls'[u], h2, made)
  <2>1. CASE u = t
    <3>1. tab'[u] = tab[t] /\ calls'[u] = cs2
      BY <1>1, <1>3, <2>1 DEF Types
    <3> QED
      BY <1>9, <3>1
  <2>2. CASE u # t
    <3>1. tab'[u] = tab[u] /\ calls'[u] = calls[u]
      BY <1>1, <1>3, <2>2 DEF Types
    <3> QED
      BY <1>8, <3>1
  <2> QED
    BY <2>1, <2>2
<1>11. made' = made
  BY <1>1
<1> HIDE DEF h2
<1> QED
  BY <1>4, <1>5, <1>7, <1>10, <1>11 DEF Shape

LEMMA InitShape ==
    ASSUME Init
    PROVE  Shape
<1>1. history = <<{}>> /\ DOMAIN history = {1} /\ history[1] = {} /\ Len(history) = 1
  BY DEF Init
<1>2. history \in Seq(Contents) /\ history # <<>>
  BY <1>1 DEF Contents
<1>3. Types
  BY <1>2, BlankIs DEF Init, Types
<1>4. ASSUME NEW t \in Tabs
      PROVE  TabOK(tab[t], calls[t], history, made)
  <2>1. tab[t] = Blank /\ calls[t] = {}
    BY DEF Init
  <2>2. QueueOK(<<>>) /\ ShownOK(Blank, history)
    BY <1>1, BlankIs DEF QueueOK, ShownOK
  <2>3. MadeBefore(Blank, {}, made)
    BY BlankIs DEF MadeBefore
  <2> QED
    BY <2>1, <2>2, <2>3, BlankIs DEF TabOK, OneDrain
<1>5. \A k \in DOMAIN history : history[k] \subseteq made
  BY <1>1
<1> QED
  BY <1>3, <1>4, <1>5 DEF Shape

LEMMA NextShape ==
    ASSUME Shape, [Next]_vars
    PROVE  Shape'
<1>1. CASE Next
  BY <1>1, StepIs, LocalKeepsShape, StoresKeepsShape
<1>2. CASE UNCHANGED vars
  BY <1>2 DEF vars, Shape, Types
<1> QED
  BY <1>1, <1>2

LEMMA AlwaysShape == Spec => []Shape
<1>1. Init => Shape
  BY InitShape
<1>2. Shape /\ [Next]_vars => Shape'
  BY NextShape
<1> QED
  BY <1>1, <1>2, PTL DEF Spec

\* The controllers hold what their types say: an edit in the queue is always of the revision after
\* the one it expects, whatever the tabs do to each other.
THEOREM TabTypes == Spec => []TypeOK
<1>1. Shape => TypeOK
  <2> SUFFICES ASSUME Shape
               PROVE  TypeOK
    OBVIOUS
  <2>1. Types
    BY DEF Shape
  <2>2. \A t \in Tabs : \A c \in calls[t] :
           /\ c.kind \in Kinds /\ c.phase \in Phases
           /\ c.base \in Nat /\ c.document \in Documents \cup {None}
           /\ c.calm \in BOOLEAN /\ c.same \in BOOLEAN
    BY <2>1, Held, CallTypes
  <2>3. tab \in [Tabs -> [status : Statuses, document : Documents \cup {None},
                         pending : Seq(Save), persisted : Nat, required : Nat,
                         autosave : BOOLEAN]]
    BY <2>1 DEF Types, TabRecord
  <2> QED
    BY <2>1, <2>2, <2>3 DEF Types, TypeOK
<1> QED
  BY <1>1, AlwaysShape, PTL

\* A tab that says SAVED and waits for nothing shows a stored revision and bases its next edit on
\* one.
THEOREM SavedShowsARevision == Spec => []ShowsARevision
<1>1. Shape => ShowsARevision
  <2> SUFFICES ASSUME Shape, NEW t \in Tabs,
                      tab[t].status = "SAVED", tab[t].pending = <<>>, tab[t].document # None
               PROVE  /\ {tab[t].persisted, tab[t].document.revision} \subseteq DOMAIN history
                      /\ tab[t].document.content = history[tab[t].document.revision]
    BY DEF ShowsARevision
  <2>1. /\ tab[t] \in TabRecord /\ ShownOK(tab[t], history)
        /\ history \in Seq(Contents) /\ history # <<>>
    BY ShapeAt
  <2>2. tab[t].persisted \in Nat /\ DOMAIN history = 1..Len(history) /\ Len(history) \in Nat
    BY <2>1, RecordTypes, HistoryIs
  <2>3. tab[t].persisted \in DOMAIN history
    BY <2>1, <2>2 DEF ShownOK
  <2> QED
    BY <2>3, SavedIsStored
<1> QED
  BY <1>1, AlwaysShape, PTL
-----------------------------------------------------------------------------
(* Without a page that waits for the server, every write is rooted *)

LEMMA LacksMore ==
    ASSUME NEW s, NEW x, NEW y, Lacks(s, x), y \notin s
    PROVE  Lacks(s, x \cup {y})
BY DEF Lacks

LEMMA RootedIs ==
    ASSUME NEW h \in Seq(Contents), NEW d, StoredIn(h, d), NEW x, d.content \subseteq x
    PROVE  Rooted(d.revision, x, h)
BY DEF StoredIn, Rooted

LEMMA EditRooted ==
    ASSUME NEW r \in TabRecord, NEW h \in Seq(Contents), NEW x, NEW d \in Documents,
           \A k \in DOMAIN h : x \notin h[k],
           QueueOK(r.pending), ShownOK(r, h), ShownRooted(r, h),
           r.document # None, r.document.revision = Before(r),
           d.content = r.document.content \cup {x}
    PROVE  \/ Rooted(Before(r), d.content, h)
           \/ /\ r.pending # <<>>
              /\ r.pending[Len(r.pending)].document.content \subseteq d.content
<1>1. r.pending \in Seq(Save) /\ r.persisted \in Nat /\ Len(h) \in Nat /\ DOMAIN h = 1..Len(h)
  BY RecordTypes, LenProperties
<1>2. CASE StoredIn(h, r.document)
  BY <1>2, RootedIs
<1>3. CASE ~StoredIn(h, r.document) /\ r.pending = <<>>
  <2>1. Before(r) = r.persisted
    BY <1>3, BeforeIs
  <2>2. Lacks(h[r.persisted], r.document.content)
    BY <1>1, <1>3, <2>1 DEF ShownRooted
  <2>3. r.persisted \in DOMAIN h
    BY <1>1 DEF ShownOK
  <2>4. Lacks(h[r.persisted], d.content)
    BY <2>2, <2>3, LacksMore
  <2> QED
    BY <2>1, <2>3, <2>4 DEF Rooted
<1>4. CASE ~StoredIn(h, r.document) /\ r.pending # <<>>
  <2> DEFINE n == Len(r.pending)
  <2>1. PICK i \in DOMAIN r.pending : r.document = r.pending[i].document
    BY <1>4 DEF ShownOK
  <2>2. n \in DOMAIN r.pending /\ Before(r) = r.pending[n].document.revision
    BY <1>4, BeforeIs
  <2>3. i \in Nat /\ r.document.revision = r.pending[1].expected + i
    BY <1>1, <2>1, QueueAt
  <2>4. n \in Nat /\ Before(r) = r.pending[1].expected + n /\ r.pending[1].expected \in Nat
    BY <1>1, <2>2, QueueAt
  <2> HIDE DEF n
  <2> DEFINE e == r.pending[1].expected
  <2>5. e \in Nat /\ i \in Nat /\ n \in Nat /\ e + i = e + n
    BY <2>3, <2>4
  <2> HIDE DEF e
  <2>6. i = n
    BY <2>5
  <2> QED
    BY <1>4, <2>1, <2>6 DEF n
<1> QED
  BY <1>2, <1>3, <1>4

LEMMA MoveQueueRooted ==
    ASSUME NEW r \in TabRecord, NEW r2 \in TabRecord, NEW cs \in SUBSET CallRecord,
           NEW h \in Seq(Contents), NEW m, NEW m2, \A k \in DOMAIN h : h[k] \subseteq m,
           QueueOK(r.pending), ShownOK(r, h),
           QueueRooted(r.pending, h), ShownRooted(r, h),
           \A c \in cs : c.kind # "compose", TabMove(r, r2, cs, h, m2 \ m)
    PROVE  QueueRooted(r2.pending, h)
<1>1. r.pending \in Seq(Save) /\ r2.pending \in Seq(Save)
  BY RecordTypes
<1>2. CASE r2.pending = r.pending \/ r2.pending = <<>>
  BY <1>2 DEF QueueRooted
<1>3. CASE Edits(r, r2, cs, m2 \ m)
  <2>1. PICK d \in Documents, x \in m2 \ m :
              /\ d.revision = Before(r) + 1
              /\ r2.pending = Append(r.pending, [expected |-> Before(r), document |-> d])
              /\ r.document # None /\ r.document.revision = Before(r)
              /\ d.content = r.document.content \cup {x}
    BY <1>3 DEF Edits
  <2> DEFINE s == [expected |-> Before(r), document |-> d]
             n == Len(r.pending)
  <2>2. /\ s.expected = Before(r) /\ s.document = d /\ n \in Nat /\ DOMAIN r.pending = 1..n
        /\ DOMAIN r2.pending = 1..(n + 1) /\ r2.pending[n + 1] = s
        /\ \A i \in DOMAIN r.pending : r2.pending[i] = r.pending[i]
        /\ r.pending # <<>> => n \in DOMAIN r.pending
    BY <2>1, EditedIs, BeforeIs
  <2>3. \/ Rooted(Before(r), d.content, h)
        \/ r.pending # <<>> /\ r.pending[n].document.content \subseteq d.content
    BY <2>1, EditRooted
  <2> HIDE DEF s, n
  <2>4. ASSUME NEW i \in 1..(n + 1)
        PROVE  \/ Rooted(r2.pending[i].expected, r2.pending[i].document.content, h)
               \/ /\ i > 1
                  /\ r2.pending[i - 1].document.content \subseteq r2.pending[i].document.content
    <3>1. CASE i = n + 1
      <4>1. r2.pending[i].expected = Before(r) /\ r2.pending[i].document = d
        BY <2>2, <3>1
      <4>2. CASE r.pending # <<>> /\ r.pending[n].document.content \subseteq d.content
        <5>1. i > 1 /\ i - 1 = n /\ r2.pending[i - 1] = r.pending[n]
          BY <2>2, <3>1, <4>2
        <5> QED
          BY <4>1, <4>2, <5>1
      <4> QED
        BY <2>3, <4>1, <4>2
    <3>2. CASE i # n + 1
      <4>1. i \in DOMAIN r.pending /\ (i > 1 => i - 1 \in DOMAIN r.pending)
        BY <2>2, <3>2
      <4>2. /\ r2.pending[i] = r.pending[i]
            /\ i > 1 => r2.pending[i - 1] = r.pending[i - 1]
        BY <2>2, <4>1
      <4> QED
        BY <4>1, <4>2 DEF QueueRooted
    <3> QED
      BY <3>1, <3>2
  <2> QED
    BY <2>2, <2>4 DEF QueueRooted
<1>4. CASE Drains(r, r2, h)
  <2>1. /\ r.pending # <<>> /\ r2.pending = Tail(r.pending)
        /\ StoredIn(h, Head(r.pending).document)
    BY <1>4 DEF Drains
  <2> DEFINE n == Len(r.pending)
  <2>2. /\ n \in Nat \ {0} /\ DOMAIN r2.pending = 1..(n - 1) /\ Head(r.pending) = r.pending[1]
        /\ \A i \in DOMAIN r2.pending : r2.pending[i] = r.pending[i + 1] /\ i + 1 \in DOMAIN r.pending
    BY <1>1, <2>1, QueueIs
  <2> HIDE DEF n
  <2>3. ASSUME NEW i \in 1..(n - 1)
        PROVE  \/ Rooted(r2.pending[i].expected, r2.pending[i].document.content, h)
               \/ /\ i > 1
                  /\ r2.pending[i - 1].document.content \subseteq r2.pending[i].document.content
    <3>1. /\ r2.pending[i] = r.pending[i + 1] /\ i + 1 \in DOMAIN r.pending
          /\ i \in Nat /\ (i + 1) - 1 = i
      <4>1. i \in Nat /\ i \in DOMAIN r2.pending
        BY <2>2
      <4>2. r2.pending[i] = r.pending[i + 1] /\ i + 1 \in DOMAIN r.pending
        BY <2>2, <4>1
      <4>3. (i + 1) - 1 = i
        BY <4>1
      <4> QED
        BY <4>1, <4>2, <4>3
    <3>2. CASE Rooted(r.pending[i + 1].expected, r.pending[i + 1].document.content, h)
      BY <3>1, <3>2
    <3>3. CASE r.pending[i].document.content \subseteq r.pending[i + 1].document.content
      <4>1. CASE i > 1
        <5>1. i - 1 \in 1..(n - 1) /\ (i - 1) + 1 = i
          BY <2>2, <3>1, <4>1
        <5>2. r2.pending[i - 1] = r.pending[i]
          BY <2>2, <5>1
        <5> QED
          BY <3>1, <3>3, <4>1, <5>2
      <4>2. CASE i = 1
        <5>1. 2 \in DOMAIN r.pending
          BY <3>1, <4>2
        <5>2. /\ r.pending[2].expected = r.pending[1].expected + (2 - 1)
              /\ r.pending[1].expected \in Nat /\ 1 \in DOMAIN r.pending
          BY <1>1, <5>1, QueueAt
        <5>3. r.pending[1].document.revision = r.pending[1].expected + 1
          BY <1>1, <5>2, QueueAt
        <5>4. r.pending[2].expected = r.pending[1].document.revision
          BY <5>2, <5>3
        <5>5. /\ r.pending[1].document.content \subseteq r.pending[2].document.content
              /\ StoredIn(h, r.pending[1].document)
          BY <2>1, <2>2, <3>3, <4>2
        <5>6. Rooted(r.pending[1].document.revision, r.pending[2].document.content, h)
          BY <5>5, RootedIs
        <5>7. r2.pending[1] = r.pending[2]
          BY <3>1, <4>2
        <5> QED
          BY <4>2, <5>4, <5>6, <5>7
      <4> QED
        BY <2>3, <4>1, <4>2
    <3> QED
      BY <3>1, <3>2, <3>3 DEF QueueRooted
  <2> QED
    BY <2>2, <2>3 DEF QueueRooted
<1> QED
  BY <1>2, <1>3, <1>4 DEF TabMove, Keeps, Shows, Clears, Discards, Appends

LEMMA MoveShownRooted ==
    ASSUME NEW r \in TabRecord, NEW r2 \in TabRecord, NEW cs \in SUBSET CallRecord,
           NEW h \in Seq(Contents), NEW m, NEW m2, \A k \in DOMAIN h : h[k] \subseteq m,
           QueueOK(r.pending), ShownOK(r, h), ShownRooted(r, h),
           \A c \in cs : /\ CallOK(c, r.pending, h) /\ AppendFresh(c, r, h, m)
                         /\ c.kind # "compose",
           TabMove(r, r2, cs, h, m2 \ m)
    PROVE  ShownRooted(r2, h)
<1>1. /\ r.pending \in Seq(Save) /\ r2.pending \in Seq(Save) /\ r.persisted \in Nat
      /\ r2.persisted \in Nat /\ Len(h) \in Nat /\ DOMAIN h = 1..Len(h)
      /\ r.document \in Documents \cup {None}
  BY RecordTypes, LenProperties
<1>2. r.document # None => r.document.revision \in Nat /\ r.persisted \in DOMAIN h
  BY <1>1, DocumentTypes DEF ShownOK
<1>3. CASE Keeps(r, r2)
  BY <1>3 DEF Keeps, ShownRooted, Before
<1>4. CASE Shows(r, r2, h)
  BY <1>4 DEF Shows, ShownRooted
<1>5. CASE Clears(r, r2)
  BY <1>5 DEF Clears, ShownRooted
<1>6. CASE Discards(r, r2)
  <2>1. Before(r2) = r2.persisted
    BY <1>6, BeforeIs DEF Discards
  <2> QED
    BY <1>6, <2>1 DEF Discards, ShownRooted
<1>7. CASE Edits(r, r2, cs, m2 \ m)
  <2>1. PICK d \in Documents, x \in m2 \ m :
              /\ d.revision = Before(r) + 1 /\ r2.document = d /\ r2.persisted = r.persisted
              /\ r.document # None /\ r.document.revision = Before(r)
              /\ d.content = r.document.content \cup {x}
    BY <1>7 DEF Edits
  <2>2. d.revision \in Nat /\ Before(r) \in Nat
    BY DocumentTypes, BeforeIs
  <2>3. CASE d.revision > r2.persisted
    BY <2>1, <2>3 DEF ShownRooted
  <2>4. CASE ~(d.revision > r2.persisted)
    <3>1. r.document.revision < r.persisted
      BY <1>1, <2>1, <2>2, <2>4
    <3>2. Lacks(h[r.persisted], r.document.content)
      BY <1>1, <1>2, <2>1, <3>1 DEF ShownRooted
    <3>3. x \notin h[r.persisted]
      BY <1>2, <2>1
    <3>4. Lacks(h[r2.persisted], d.content)
      BY <2>1, <3>2, <3>3, LacksMore
    <3> QED
      BY <2>1, <3>4 DEF ShownRooted
  <2> QED
    BY <2>3, <2>4
<1>8. CASE Drains(r, r2, h)
  <2> DEFINE p == r2.persisted
             e == r.pending[1].expected
             n == Len(r.pending)
  <2>1. /\ r.pending # <<>> /\ r2.pending = Tail(r.pending) /\ r2.document = r.document
        /\ StoredIn(h, Head(r.pending).document) /\ p = Head(r.pending).document.revision
    BY <1>8 DEF Drains
  <2>2. /\ 1 \in DOMAIN r.pending /\ Head(r.pending) = r.pending[1] /\ n \in Nat \ {0}
        /\ n \in DOMAIN r.pending
        /\ DOMAIN r2.pending = 1..(n - 1)
        /\ \A i \in DOMAIN r2.pending : r2.pending[i] = r.pending[i + 1]
    BY <1>1, <2>1, QueueIs
  <2>3. e \in Nat /\ \A i \in DOMAIN r.pending : i \in Nat /\ i >= 1 /\ r.pending[i].document.revision = e + i
    BY <1>1, <2>2, QueueAt
  <2>4. p = e + 1
    BY <2>1, <2>2, <2>3
  <2>5. Before(r2) >= p
    <3>1. CASE r2.pending = <<>>
      BY <1>1, <3>1, BeforeIs
    <3>2. CASE r2.pending # <<>>
      <4>1. Len(r2.pending) \in DOMAIN r2.pending /\ Len(r2.pending) \in Nat
        BY <1>1, <3>2, BeforeIs, LenProperties
      <4>2. Before(r2) = r.pending[Len(r2.pending) + 1].document.revision
        BY <2>2, <3>2, <4>1, BeforeIs
      <4>3. Len(r2.pending) + 1 \in DOMAIN r.pending
        BY <1>1, <2>1, <4>1, QueueIs
      <4>4. Before(r2) = e + (Len(r2.pending) + 1)
        BY <2>3, <4>2, <4>3
      <4> QED
        BY <2>3, <2>4, <4>1, <4>4
    <3> QED
      BY <3>1, <3>2
  <2>6. Before(r2) \in Nat
    BY BeforeIs
  <2> HIDE DEF e, n
  <2>7. SUFFICES ASSUME r.document # None, ~(r.document.revision > p)
                 PROVE  /\ StoredIn(h, r.document)
                        /\ r.document.revision = p \/ r.document.revision # Before(r2)
    BY <2>1 DEF ShownRooted
  <2>8. StoredIn(h, r.document)
    <3>1. CASE \E i \in DOMAIN r.pending : r.document = r.pending[i].document
      <4>1. PICK i \in DOMAIN r.pending : r.document = r.pending[i].document
        BY <3>1
      <4>2. i = 1
        BY <2>3, <2>4, <2>7, <4>1
      <4> QED
        BY <2>1, <2>2, <4>1, <4>2
    <3> QED
      BY <2>1, <2>7, <3>1 DEF ShownOK
  <2>9. r.document.revision = p \/ r.document.revision # Before(r2)
    BY <1>1, <1>2, <2>5, <2>6, <2>7
  <2> QED
    BY <2>8, <2>9
<1>9. CASE Appends(r, r2, cs, h)
  <2>1. PICK c \in cs : /\ c.kind = "append" /\ c.document # None /\ StoredIn(h, c.document)
                        /\ r2.persisted = c.document.revision
    BY <1>9 DEF Appends
  <2>2. r2.pending = r.pending /\ r2.document = r.document
    BY <1>9 DEF Appends
  <2>3. c.document.revision = c.base + 1 /\ c.base \in Nat
    <3>1. c \in CallRecord /\ CallOK(c, r.pending, h)
      OBVIOUS
    <3> QED
      BY <2>1, <3>1, CallTypes DEF Reads, CallOK, Writes
  <2>4. PICK x \in Evidence :
            /\ x \in c.document.content
            /\ \A k \in DOMAIN h : k <= c.base => x \notin h[k]
            /\ r.document # None /\ r.document.revision <= c.base + 1 =>
                 StoredIn(h, r.document) \/ x \notin r.document.content
    BY <2>1 DEF AppendFresh
  <2>5. SUFFICES ASSUME r.document # None, ~(r.document.revision > r2.persisted),
                        ~Lacks(h[r2.persisted], r.document.content)
                 PROVE  /\ StoredIn(h, r.document)
                        /\ \/ r.document.revision = r2.persisted
                           \/ r.document.revision # Before(r2)
    BY <2>2 DEF ShownRooted
  <2>6. x \in r.document.content
    <3>1. x \in h[r2.persisted]
      BY <2>1, <2>4 DEF StoredIn
    <3> QED
      BY <2>5, <3>1 DEF Lacks
  <2>7. r.document.revision <= c.base + 1
    BY <1>1, <1>2, <2>1, <2>3, <2>5
  <2>8. StoredIn(h, r.document)
    BY <2>4, <2>5, <2>6, <2>7
  <2>9. ~(r.document.revision <= c.base)
    <3>1. r.document.revision \in DOMAIN h /\ h[r.document.revision] = r.document.content
      BY <2>8 DEF StoredIn
    <3> QED
      BY <2>4, <2>6, <3>1
  <2>10. r.document.revision = r2.persisted
    BY <1>2, <2>1, <2>3, <2>5, <2>7, <2>9
  <2> QED
    BY <2>8, <2>10
<1> QED
  BY <1>3, <1>4, <1>5, <1>6, <1>7, <1>8, <1>9 DEF TabMove

\* A call that moves is rooted still.
LEMMA MoveCallRooted ==
    ASSUME NEW r \in TabRecord, NEW r2 \in TabRecord, NEW h \in Seq(Contents), NEW new,
           NEW cs \in SUBSET CallRecord, NEW cs2 \in SUBSET CallRecord,
           QueueRooted(r2.pending, h), \A c \in cs : CallRooted(c, h),
           CallsMove(cs, cs2, r, r2, h, new)
    PROVE  \A c \in cs2 : CallRooted(c, h)
<1> SUFFICES ASSUME NEW c \in cs2, c.kind \in Writes, c.document # None
             PROVE  Rooted(c.base, c.document.content, h)
  BY DEF CallRooted
<1>1. CASE \E d \in cs : Passes(c, d)
  BY <1>1 DEF Passes, CallRooted
<1>2. CASE Starts(c, r, r2, h, new)
  <2>1. CASE /\ c.kind = "drain" /\ r2.pending # <<>>
             /\ c.base = Head(r2.pending).expected /\ c.document = Head(r2.pending).document
    <3>1. r2.pending \in Seq(Save)
      BY RecordTypes
    <3>2. 1 \in DOMAIN r2.pending /\ Head(r2.pending) = r2.pending[1]
      BY <2>1, <3>1, QueueIs
    <3> QED
      BY <2>1, <3>2 DEF QueueRooted
  <2>2. CASE \E x \in new : c.base \in DOMAIN h /\ c.document.content = h[c.base] \cup {x}
    BY <2>2 DEF Rooted
  <2> QED
    BY <1>2, <2>1, <2>2 DEF Reads, Starts, Writes
<1> QED
  BY <1>1, <1>2 DEF CallsMove

LEMMA MoveAppendFresh ==
    ASSUME NEW r \in TabRecord, NEW r2 \in TabRecord, NEW h \in Seq(Contents), NEW m, NEW m2,
           NEW cs \in SUBSET CallRecord, NEW cs2 \in SUBSET CallRecord,
           m \subseteq m2, \A k \in DOMAIN h : h[k] \subseteq m,
           \A c \in cs : AppendFresh(c, r, h, m) /\ c.kind # "compose",
           TabMove(r, r2, cs, h, m2 \ m), CallsMove(cs, cs2, r, r2, h, m2 \ m)
    PROVE  \A c \in cs2 : AppendFresh(c, r2, h, m2)
<1> SUFFICES ASSUME NEW c \in cs2, c.kind = "append"
             PROVE  \E x \in Evidence \cap m2 :
                       /\ x \in c.document.content
                       /\ \A k \in DOMAIN h : k <= c.base => x \notin h[k]
                       /\ r2.document # None /\ r2.document.revision <= c.base + 1 =>
                            StoredIn(h, r2.document) \/ x \notin r2.document.content
  BY DEF AppendFresh
<1>0. c.base \in Nat /\ r.document \in Documents \cup {None}
  BY CallTypes, RecordTypes
<1>1. CASE Starts(c, r, r2, h, m2 \ m)
  <2>1. PICK x \in m2 \ m :
           /\ c.document.content = h[c.base] \cup {x} /\ x \in Evidence
           /\ r2.document = r.document /\ StoredIn(h, r.document)
    BY <1>1 DEF Reads, Starts
  <2> QED
    BY <2>1
<1>2. ASSUME NEW d \in cs, Passes(c, d)
      PROVE  \E x \in Evidence \cap m2 :
                       /\ x \in c.document.content
                       /\ \A k \in DOMAIN h : k <= c.base => x \notin h[k]
                       /\ r2.document # None /\ r2.document.revision <= c.base + 1 =>
                            StoredIn(h, r2.document) \/ x \notin r2.document.content
  <2>1. d.kind = "append" /\ c.base = d.base /\ c.document = d.document
    BY <1>2 DEF Passes
  <2>2. PICK x \in Evidence \cap m :
           /\ x \in c.document.content
           /\ \A k \in DOMAIN h : k <= c.base => x \notin h[k]
           /\ r.document # None /\ r.document.revision <= c.base + 1 =>
                StoredIn(h, r.document) \/ x \notin r.document.content
    BY <2>1 DEF AppendFresh
  <2>3. r2.document # None /\ r2.document.revision <= c.base + 1 =>
            StoredIn(h, r2.document) \/ x \notin r2.document.content
    <3>1. CASE r2.document = r.document
      BY <2>2, <3>1
    <3>2. CASE r2.document = None \/ StoredIn(h, r2.document)
      BY <3>2
    <3>3. CASE Edits(r, r2, cs, m2 \ m)
      <4>1. PICK d2 \in Documents, y \in m2 \ m :
              /\ d2.revision = Before(r) + 1 /\ r2.document = d2
              /\ r.document # None /\ r.document.revision = Before(r)
              /\ d2.content = r.document.content \cup {y}
        BY <3>3 DEF Edits
      <4>2. x # y /\ r.document.revision \in Nat
        BY <1>0, <2>2, <4>1, DocumentTypes
      <4>3. CASE r2.document.revision <= c.base + 1
        <5>1. r.document.revision <= c.base
          BY <1>0, <4>1, <4>2, <4>3
        <5>2. StoredIn(h, r.document) \/ x \notin r.document.content
          BY <1>0, <2>2, <4>1, <4>2, <5>1
        <5>3. x \notin r.document.content
          BY <2>2, <5>1, <5>2 DEF StoredIn
        <5> QED
          BY <4>1, <4>2, <5>3
      <4> QED
        BY <4>3
    <3> QED
      BY <3>1, <3>2, <3>3 DEF TabMove, Keeps, Shows, Clears, Discards, Drains, Appends
  <2> QED
    BY <2>2, <2>3
<1> QED
  BY <1>1, <1>2 DEF CallsMove

\* Every edit is of the document that its tab shows: no page waits for the server in between.
EditsAreOfTheShown == \A t \in Tabs : "compose" \notin Commands[t]

AllRooted == \A t \in Tabs : TabRooted(tab[t], calls[t], history, made)

LEMMA MoveNoCompose ==
    ASSUME EditsAreOfTheShown, NEW r, NEW r2, NEW h, NEW new, NEW cs, NEW cs2,
           \A c \in cs : c.kind # "compose", CallsMove(cs, cs2, r, r2, h, new)
    PROVE  \A c \in cs2 : c.kind # "compose"
<1> SUFFICES ASSUME NEW c \in cs2, c.kind = "compose"
             PROVE  FALSE
  OBVIOUS
<1>1. CASE Starts(c, r, r2, h, new)
  BY <1>1 DEF Reads, Starts, EditsAreOfTheShown
<1>2. CASE \E d \in cs : Passes(c, d)
  BY <1>2 DEF Passes
<1> QED
  BY <1>1, <1>2 DEF CallsMove

LEMMA LocalKeepsRooted ==
    ASSUME EditsAreOfTheShown, Shape, AllRooted, NEW t \in Tabs, Local(t)
    PROVE  AllRooted'
<1>1. PICK r2 \in TabRecord, cs2 \in SUBSET CallRecord :
         /\ tab' = [tab EXCEPT ![t] = r2] /\ calls' = [calls EXCEPT ![t] = cs2]
         /\ TabMove(tab[t], r2, calls[t], history, made' \ made)
         /\ CallsMove(calls[t], cs2, tab[t], r2, history, made' \ made)
  BY DEF Local
<1>2. /\ history' = history /\ made \subseteq made' /\ Types
      /\ \A k \in DOMAIN history : history[k] \subseteq made
  BY DEF Local, OthersTyped, Shape
<1>3. ASSUME NEW u \in Tabs
      PROVE  TabRooted(tab'[u], calls'[u], history, made')
  <2>1. /\ QueueRooted(tab[u].pending, history) /\ ShownRooted(tab[u], history)
        /\ \A c \in calls[u] : /\ CallRooted(c, history)
                               /\ AppendFresh(c, tab[u], history, made)
                               /\ c.kind # "compose"
    BY DEF AllRooted, TabRooted
  <2>2. CASE u = t
    <3> DEFINE r == tab[t]
               cs == calls[t]
    <3>1. tab'[u] = r2 /\ calls'[u] = cs2
      BY <1>1, <1>2, <2>2 DEF Types
    <3>2. /\ r \in TabRecord /\ cs \in SUBSET CallRecord /\ history \in Seq(Contents)
          /\ QueueOK(r.pending) /\ ShownOK(r, history)
          /\ \A c \in cs : CallOK(c, r.pending, history)
      BY ShapeAt
    <3>3. /\ QueueRooted(r.pending, history) /\ ShownRooted(r, history)
          /\ \A c \in cs : CallRooted(c, history)
          /\ \A c \in cs : AppendFresh(c, r, history, made) /\ c.kind # "compose"
          /\ \A c \in cs : /\ CallOK(c, r.pending, history)
                           /\ AppendFresh(c, r, history, made) /\ c.kind # "compose"
      BY <2>1, <2>2, <3>2
    <3>4. TabMove(r, r2, cs, history, made' \ made) /\ CallsMove(cs, cs2, r, r2, history, made' \ made)
      BY <1>1
    <3> HIDE DEF r, cs
    <3>5. QueueRooted(r2.pending, history)
      BY <1>2, <3>2, <3>3, <3>4, MoveQueueRooted
    <3>6. ShownRooted(r2, history)
      BY <1>2, <3>2, <3>3, <3>4, MoveShownRooted
    <3>7. \A c \in cs2 : CallRooted(c, history)
      BY <3>2, <3>3, <3>4, <3>5, MoveCallRooted
    <3>8. \A c \in cs2 : AppendFresh(c, r2, history, made')
      <4> DEFINE m2 == made'
      <4>1. /\ made \subseteq m2 /\ \A k \in DOMAIN history : history[k] \subseteq made
            /\ r \in TabRecord /\ cs \in SUBSET CallRecord /\ history \in Seq(Contents)
            /\ \A c \in cs : AppendFresh(c, r, history, made) /\ c.kind # "compose"
            /\ TabMove(r, r2, cs, history, m2 \ made)
            /\ CallsMove(cs, cs2, r, r2, history, m2 \ made)
        BY <1>2, <3>2, <3>3, <3>4
      <4> HIDE DEF m2
      <4>2. \A c \in cs2 : AppendFresh(c, r2, history, m2)
        BY <4>1, MoveAppendFresh
      <4> QED
        BY <4>2 DEF m2
    <3>9. \A c \in cs2 : c.kind # "compose"
      BY <3>3, <3>4, MoveNoCompose
    <3> QED
      BY <3>1, <3>5, <3>6, <3>7, <3>8, <3>9 DEF TabRooted
  <2>3. CASE u # t
    <3>1. tab'[u] = tab[u] /\ calls'[u] = calls[u]
      BY <1>1, <1>2, <2>3 DEF Types
    <3>2. \A c \in calls[u] : AppendFresh(c, tab[u], history, made')
      BY <1>2, <2>1 DEF AppendFresh
    <3> QED
      BY <2>1, <3>1, <3>2 DEF TabRooted
  <2> QED
    BY <2>2, <2>3
<1> QED
  BY <1>2, <1>3 DEF AllRooted

LEMMA StillRooted ==
    ASSUME NEW r \in TabRecord, NEW cs \in SUBSET CallRecord, NEW h \in Seq(Contents), NEW m,
           NEW x \in Contents, ShownOK(r, h), \A c \in cs : CallOK(c, r.pending, h),
           TabRooted(r, cs, h, m)
    PROVE  TabRooted(r, cs, Append(h, x), m)
<1> DEFINE h2 == Append(h, x)
<1>1. /\ Len(h) \in Nat /\ DOMAIN h = 1..Len(h) /\ DOMAIN h2 = 1..(Len(h) + 1)
      /\ \A k \in DOMAIN h : h2[k] = h[k]
  BY RevisionIs
<1>2. \A d : StoredIn(h, d) => StoredIn(h2, d)
  BY StillStored
<1> HIDE DEF h2
<1>3. \A e, y : Rooted(e, y, h) => Rooted(e, y, h2)
  BY <1>1 DEF Rooted
<1>4. QueueRooted(r.pending, h2)
  BY <1>3 DEF TabRooted, QueueRooted
<1>5. ShownRooted(r, h2)
  <2>1. r.persisted \in Nat
    BY RecordTypes
  <2>2. r.document # None => h2[r.persisted] = h[r.persisted]
    BY <1>1, <2>1 DEF ShownOK
  <2> QED
    BY <1>2, <2>2 DEF TabRooted, ShownRooted
<1>6. \A c \in cs : CallRooted(c, h2) /\ c.kind # "compose"
  BY <1>3 DEF TabRooted, CallRooted
<1>7. ASSUME NEW c \in cs, c.kind = "append"
      PROVE  AppendFresh(c, r, h2, m)
  <2>1. PICK y \in Evidence \cap m :
            /\ y \in c.document.content
            /\ \A k \in DOMAIN h : k <= c.base => y \notin h[k]
            /\ r.document # None /\ r.document.revision <= c.base + 1 =>
                 StoredIn(h, r.document) \/ y \notin r.document.content
    BY <1>7 DEF TabRooted, AppendFresh
  <2>2. c.base \in DOMAIN h
    BY <1>7 DEF Reads, CallOK, TabRooted, CallRooted, Rooted, Writes
  <2>3. \A k \in DOMAIN h2 : k <= c.base => k \in DOMAIN h
    BY <1>1, <2>2
  <2>4. \A k \in DOMAIN h2 : k <= c.base => y \notin h2[k]
    BY <1>1, <2>1, <2>3
  <2> QED
    BY <1>2, <2>1, <2>4 DEF AppendFresh
<1>8. \A c \in cs : AppendFresh(c, r, h2, m)
  BY <1>7 DEF AppendFresh
<1> QED
  BY <1>4, <1>5, <1>6, <1>8 DEF TabRooted, h2

LEMMA StoresKeepsRooted ==
    ASSUME Shape, AllRooted, Grows(history), NEW t \in Tabs, Stores(t)
    PROVE  AllRooted' /\ Grows(history')
<1>1. PICK c \in calls[t], n \in CallRecord, cs2 \in SUBSET CallRecord :
         /\ c \in CallRecord /\ c.kind \in Writes
         /\ c.document \in Documents /\ c.document # None /\ Preserves(c)
         /\ c.base = Len(history)
         /\ history' = Append(history, c.document.content)
         /\ n.kind = c.kind /\ n.base = c.base /\ n.document = c.document
         /\ calls' = [calls EXCEPT ![t] = cs2]
         /\ \/ c.kind = "orphan" /\ cs2 = calls[t] \ {c}
            \/ c.kind # "orphan" /\ cs2 = (calls[t] \ {c}) \cup {n}
         /\ UNCHANGED <<purged, tab, mailbox, made, dropped>>
  BY StoresIs
<1> DEFINE x == c.document.content
           h2 == Append(history, x)
<1>2. x \in Contents
  BY <1>1, DocumentTypes DEF Contents
<1>3. Types /\ history \in Seq(Contents) /\ history # <<>>
  BY ShapeAt DEF Shape
<1>4. /\ Len(history) \in Nat /\ Len(history) \in DOMAIN history
      /\ DOMAIN history = 1..Len(history) /\ Last(history) = history[Len(history)]
      /\ DOMAIN h2 = 1..(Len(history) + 1) /\ h2[Len(history) + 1] = x
      /\ \A k \in DOMAIN history : h2[k] = history[k]
  BY <1>2, <1>3, HistoryIs, RevisionIs
<1>5. ASSUME NEW u \in Tabs
      PROVE  TabRooted(tab[u], calls[u], h2, made)
  <2>1. /\ tab[u] \in TabRecord /\ calls[u] \in SUBSET CallRecord
        /\ ShownOK(tab[u], history)
        /\ \A e \in calls[u] : CallOK(e, tab[u].pending, history)
        /\ TabRooted(tab[u], calls[u], history, made)
    BY ShapeAt DEF AllRooted
  <2> QED
    BY <1>2, <1>3, <2>1, StillRooted
<1>6. TabRooted(tab[t], cs2, h2, made)
  <2>1. TabRooted(tab[t], calls[t], h2, made)
    BY <1>5
  <2> HIDE DEF h2
  <2>2. \A e \in cs2 : e \in calls[t] \/ e = n
    BY <1>1
  <2>3. CallRooted(n, h2) /\ AppendFresh(n, tab[t], h2, made) /\ n.kind # "compose"
    BY <1>1, <2>1 DEF TabRooted, CallRooted, AppendFresh
  <2> QED
    BY <2>1, <2>2, <2>3 DEF TabRooted
<1>7. AllRooted'
  <2>1. history' = h2 /\ made' = made /\ tab' = tab
    BY <1>1
  <2> HIDE DEF h2
  <2>2. ASSUME NEW u \in Tabs
        PROVE  TabRooted(tab[u], calls'[u], h2, made)
    <3>1. CASE u = t
      <4>1. calls'[u] = cs2
        BY <1>1, <1>3, <3>1 DEF Types
      <4> QED
        BY <1>6, <3>1, <4>1
    <3>2. CASE u # t
      <4>1. calls'[u] = calls[u]
        BY <1>1, <1>3, <3>2 DEF Types
      <4> QED
        BY <1>5, <4>1
    <3> QED
      BY <3>1, <3>2
  <2> QED
    BY <2>1, <2>2 DEF AllRooted
<1>8. history[Len(history)] \subseteq x
  <2>1. Rooted(Len(history), x, history)
    BY <1>1 DEF AllRooted, TabRooted, CallRooted
  <2>2. ~Lacks(history[Len(history)], x)
    BY <1>1, <1>4 DEF Preserves, Lacks
  <2> QED
    BY <2>1, <2>2 DEF Rooted
<1>9. Grows(h2)
  <2> HIDE DEF h2, x
  <2> SUFFICES ASSUME NEW i \in DOMAIN h2, NEW k \in DOMAIN h2, i <= k
               PROVE  h2[i] \subseteq h2[k]
    BY DEF Grows
  <2>1. CASE k \in DOMAIN history
    <3>1. i \in DOMAIN history
      BY <1>4, <2>1
    <3> QED
      BY <1>4, <2>1, <3>1 DEF Grows
  <2>2. CASE k \notin DOMAIN history /\ i \in DOMAIN history
    <3>1. k = Len(history) + 1 /\ i <= Len(history)
      BY <1>4, <2>2
    <3>2. history[i] \subseteq history[Len(history)]
      BY <1>4, <2>2, <3>1 DEF Grows
    <3> QED
      BY <1>4, <1>8, <2>2, <3>1, <3>2
  <2>3. CASE k \notin DOMAIN history /\ i \notin DOMAIN history
    <3>1. i = k
      BY <1>4, <2>3
    <3> QED
      BY <3>1
  <2> QED
    BY <2>1, <2>2, <2>3
<1> QED
  BY <1>1, <1>7, <1>9

LEMMA InitRooted ==
    ASSUME Init
    PROVE  AllRooted /\ Grows(history)
<1>1. DOMAIN history = {1} /\ history[1] = {}
  BY DEF Init
<1>2. Grows(history)
  BY <1>1 DEF Grows
<1>3. ASSUME NEW t \in Tabs
      PROVE  TabRooted(tab[t], calls[t], history, made)
  <2>1. tab[t] = Blank /\ calls[t] = {}
    BY DEF Init
  <2> QED
    BY <2>1, BlankIs DEF TabRooted, QueueRooted, ShownRooted
<1> QED
  BY <1>2, <1>3 DEF AllRooted

LEMMA NextRooted ==
    ASSUME EditsAreOfTheShown, Shape, AllRooted, Grows(history), [Next]_vars
    PROVE  AllRooted' /\ Grows(history')
<1>1. CASE Next
  <2>1. PICK t \in Tabs : Local(t) \/ Stores(t)
    BY <1>1, StepIs
  <2>2. CASE Local(t)
    BY <2>2, LocalKeepsRooted DEF Local
  <2>3. CASE Stores(t)
    BY <2>3, StoresKeepsRooted
  <2> QED
    BY <2>1, <2>2, <2>3
<1>2. CASE UNCHANGED vars
  BY <1>2 DEF vars, AllRooted
<1> QED
  BY <1>1, <1>2

LEMMA AlwaysRooted ==
    ASSUME EditsAreOfTheShown
    PROVE  Spec => [](Shape /\ AllRooted /\ Grows(history))
<1>1. Init => Shape /\ AllRooted /\ Grows(history)
  BY InitShape, InitRooted
<1>2. Shape /\ AllRooted /\ Grows(history) /\ [Next]_vars => (Shape /\ AllRooted /\ Grows(history))'
  BY NextShape, NextRooted
<1> QED
  BY <1>1, <1>2, PTL DEF Spec

\* A revision contains the one before.
LEMMA StoresContains ==
    ASSUME Shape, (Grows(history))', NEW t \in Tabs, Stores(t)
    PROVE  Last(history) \subseteq Last(history')
<1>1. PICK c \in calls[t] :
         c.document \in Documents /\ history' = Append(history, c.document.content)
  BY StoresIs
<1>2. history \in Seq(Contents) /\ history # <<>> /\ c.document.content \in Contents
  BY <1>1, ShapeAt, DocumentTypes DEF Contents
<1>3. /\ Len(history) \in DOMAIN history /\ Last(history) = history[Len(history)]
      /\ Len(history) \in Nat /\ Len(history) > 0
  BY <1>2, HistoryIs
<1>4. /\ DOMAIN history' = 1..(Len(history) + 1)
      /\ Last(history') = history'[Len(history) + 1]
      /\ history'[Len(history)] = history[Len(history)]
  BY <1>1, <1>2, <1>3, RevisionIs
<1>5. history'[Len(history)] \subseteq history'[Len(history) + 1]
  BY <1>3, <1>4 DEF Grows
<1> QED
  BY <1>3, <1>4, <1>5

\* While every edit is of the document its tab shows, no revision loses a change of the one before,
\* however many tabs write, whatever they missed, and whatever was refused to them.
THEOREM NoUpdateIsLost ==
    ASSUME \A t \in Tabs : "compose" \notin Commands[t]
    PROVE  Spec => NothingIsOverwritten
<1>1. EditsAreOfTheShown
  BY DEF EditsAreOfTheShown
<1>2. Spec => [](Shape /\ AllRooted /\ Grows(history))
  BY <1>1, AlwaysRooted
<1>3. Shape /\ Shape' /\ (Grows(history))' /\ [Next]_vars
         => [history' # history => Last(history) \subseteq Last(history')]_history
  <2> SUFFICES ASSUME Shape, (Grows(history))', Next, history' # history
               PROVE  Last(history) \subseteq Last(history')
    BY DEF vars
  <2>1. PICK t \in Tabs : Stores(t)
    BY StepIs DEF Local
  <2> QED
    BY <2>1, StoresContains
<1> QED
  BY <1>2, <1>3, PTL DEF Spec, NothingIsOverwritten
-----------------------------------------------------------------------------
(* What becomes of the changes *)

\* A tab holds a change: in its queue, or in the document of a call.
Holds(r, cs, x) ==
    \/ \E i \in DOMAIN r.pending : x \in r.pending[i].document.content
    \/ \E c \in cs : c.document # None /\ x \in c.document.content

\* What is stored in the end, or given up.
Settled(s) == s \subseteq Last(history) \cup dropped'
Gone(c)    == c.document # None => Settled(c.document.content)
Queued(t, c) == \E i \in DOMAIN tab'[t].pending : c.document = tab'[t].pending[i].document

\* A step leaves no change of a tab behind, and brings none that is not held.
KeepsChanges(t) ==
    \A x \in Changes :
        Holds(tab[t], calls[t], x) \/ x \in made' \ made =>
            x \in Last(history) \cup dropped' \/ Holds(tab'[t], calls'[t], x)

QueueKept(t) ==
    \A i \in DOMAIN tab[t].pending :
        \/ Settled(tab[t].pending[i].document.content)
        \/ \E k \in DOMAIN tab'[t].pending : tab'[t].pending[k] = tab[t].pending[i]

CallsKept(t) ==
    \A c \in calls[t] : Gone(c) \/ Queued(t, c) \/ \E e \in calls'[t] : e.document = c.document

LEMMA KeptChanges ==
    ASSUME NEW t \in Tabs, QueueKept(t), CallsKept(t),
           \A x \in made' \ made : Holds(tab'[t], calls'[t], x)
    PROVE  KeepsChanges(t)
<1> SUFFICES ASSUME NEW x \in Changes, Holds(tab[t], calls[t], x) \/ x \in made' \ made
             PROVE  x \in Last(history) \cup dropped' \/ Holds(tab'[t], calls'[t], x)
  BY DEF KeepsChanges
<1>1. CASE x \in made' \ made
  BY <1>1
<1>2. ASSUME NEW i \in DOMAIN tab[t].pending, x \in tab[t].pending[i].document.content
      PROVE  x \in Last(history) \cup dropped' \/ Holds(tab'[t], calls'[t], x)
  BY <1>2 DEF QueueKept, Settled, Holds
<1>3. ASSUME NEW c \in calls[t], c.document # None, x \in c.document.content
      PROVE  x \in Last(history) \cup dropped' \/ Holds(tab'[t], calls'[t], x)
  <2>1. CASE Gone(c)
    BY <1>3, <2>1 DEF Gone, Settled
  <2>2. CASE \E e \in calls'[t] : e.document = c.document
    BY <1>3, <2>2 DEF Holds
  <2>3. CASE Queued(t, c)
    BY <1>3, <2>3 DEF Queued, Holds
  <2> QED
    BY <2>1, <2>2, <2>3 DEF CallsKept
<1> QED
  BY <1>1, <1>2, <1>3 DEF Holds

LEMMA SameQueueKept ==
    ASSUME NEW t \in Tabs, tab'[t].pending = tab[t].pending
    PROVE  QueueKept(t)
BY DEF QueueKept

LEMMA GivenUpQueueKept ==
    ASSUME NEW t \in Tabs, Unsaved(t) \subseteq dropped'
    PROVE  QueueKept(t)
<1>1. ASSUME NEW i \in DOMAIN tab[t].pending
      PROVE  Settled(tab[t].pending[i].document.content)
  <2> DEFINE q == tab[t].pending
             all == {q[k].document.content : k \in DOMAIN q}
  <2>1. q[i].document.content \in all
    BY Zenon
  <2>2. q[i].document.content \subseteq UNION all
    BY <2>1
  <2>3. (UNION all) \ Last(history) \subseteq dropped'
    BY DEF Unsaved
  <2> HIDE DEF all
  <2> QED
    BY <2>2, <2>3 DEF Settled
<1> QED
  BY <1>1 DEF QueueKept

LEMMA BroughtGone ==
    ASSUME NEW c, Brought(c) \subseteq dropped'
    PROVE  Gone(c)
BY DEF Brought, Gone, Settled

\* What is stored under any revision is in the last one.
LEMMA StoredSettled ==
    ASSUME Shape, Grows(history), NEW d, StoredIn(history, d)
    PROVE  Settled(d.content)
<1>1. history \in Seq(Contents) /\ history # <<>>
  BY DEF Shape, Types
<1>2. /\ Len(history) \in DOMAIN history /\ Last(history) = history[Len(history)]
      /\ DOMAIN history = 1..Len(history)
  BY <1>1, HistoryIs
<1>3. d.revision \in DOMAIN history /\ d.revision <= Len(history)
      /\ history[d.revision] = d.content
  BY <1>1, <1>2, StoredRevision
<1>4. d.content \subseteq history[Len(history)]
  BY <1>2, <1>3 DEF Grows
<1> QED
  BY <1>2, <1>4 DEF Settled

LEMMA DoneGone ==
    ASSUME Shape, Grows(history), NEW t \in Tabs, NEW c \in calls[t], c.phase = "done",
           c.kind # "compose"
    PROVE  Gone(c)
BY ReadIs, StoredSettled DEF Gone

\* A read that has not ended holds nothing.
LEMMA ReaderGone ==
    ASSUME Shape, NEW t \in Tabs, NEW c \in calls[t], c.phase # "done",
           c.kind \in Reads
    PROVE  Gone(c)
BY ShapeAt DEF Reads, CallOK, Gone

LEMMA MoreCallsKept ==
    ASSUME NEW t \in Tabs, calls[t] \subseteq calls'[t]
    PROVE  CallsKept(t)
BY DEF CallsKept

LEMMA FewerCallsKept ==
    ASSUME Shape, NEW t \in Tabs, NEW c \in calls[t], Gone(c) \/ Queued(t, c),
           \/ calls'[t] = calls[t] \ {c}
           \/ calls'[t] = Replaced(calls[t] \ {c})
           \/ calls'[t] = Disturbed(calls[t] \ {c})
    PROVE  CallsKept(t)
<1> DEFINE left == calls[t] \ {c}
<1>1. left \in SUBSET CallRecord /\ OneDrain(left) /\ \A d \in calls[t] : d = c \/ d \in left
  BY ShapeAt, SomeCalls
<1>2. calls'[t] = left \/ calls'[t] = Replaced(left) \/ calls'[t] = Disturbed(left)
  OBVIOUS
<1> HIDE DEF left
<1>3. \A d \in left : \E e \in calls'[t] : e.document = d.document
  BY <1>1, <1>2, ReplacedIs, DisturbedIs
<1> QED
  BY <1>1, <1>3 DEF CallsKept

\* What a new selection leaves behind is stored or given up.
LEMMA LeftBehind ==
    ASSUME Shape, Grows(history), NEW t \in Tabs, GivenUp(t) \subseteq dropped',
           NEW d \in calls[t], d.kind \in Bound
    PROVE  Gone(d) \/ (d.kind \in Writes /\ d.phase = "sent")
<1>1. CASE d.phase = "done"
  BY <1>1, DoneGone DEF Bound
<1>2. CASE d.phase \notin {"sent", "done"}
  <2>1. Brought(d) \subseteq dropped'
    BY <1>2 DEF GivenUp
  <2> QED
    BY <2>1, BroughtGone
<1>3. CASE d.phase = "sent" /\ d.kind \notin Writes
  <2>1. d.kind \in {"load", "demo"}
    BY <1>3 DEF Bound, Writes
  <2> QED
    BY <1>3, <2>1, ReaderGone DEF Reads
<1> QED
  BY <1>1, <1>2, <1>3

LEMMA ReselectedKept ==
    ASSUME Shape, Grows(history), NEW t \in Tabs, GivenUp(t) \subseteq dropped',
           NEW left \in SUBSET calls[t], \A c \in calls[t] : c \in left \/ Gone(c),
           NEW more \in SUBSET calls'[t], 
           \/ more = Reselected(left)
           \/ more = Replaced(Reselected(left))
    PROVE  CallsKept(t)
<1>1. left \in SUBSET CallRecord
  BY ShapeAt
<1>2. /\ Reselected(left) \in SUBSET CallRecord /\ OneDrain(Reselected(left))
      /\ \A d \in left : d.kind \notin Bound \/ (d.kind \in Writes /\ d.phase = "sent")
                              => \E e \in Reselected(left) : e.document = d.document
  BY <1>1, ReselectedIs
<1>3. \A f \in Reselected(left) : \E e \in more : e.document = f.document
  BY <1>2, ReplacedIs
<1>4. ASSUME NEW d \in left
      PROVE  Gone(d) \/ \E e \in calls'[t] : e.document = d.document
  <2>1. CASE d.kind \notin Bound \/ (d.kind \in Writes /\ d.phase = "sent")
    BY <1>2, <1>3, <2>1
  <2>2. CASE d.kind \in Bound /\ ~(d.kind \in Writes /\ d.phase = "sent")
    BY <2>2, LeftBehind
  <2> QED
    BY <2>1, <2>2
<1> QED
  BY <1>4 DEF CallsKept

-----------------------------------------------------------------------------
(* Every move keeps the changes *)

Ground(t) == Shape /\ Grows(history) /\ \A c \in calls[t] : c.kind # "compose"

LEMMA AtGround ==
    ASSUME NEW t \in Tabs, Ground(t)
    PROVE  /\ Shape /\ Grows(history) /\ Types
           /\ DOMAIN tab = Tabs /\ DOMAIN calls = Tabs
           /\ tab[t] \in TabRecord /\ calls[t] \in SUBSET CallRecord /\ OneDrain(calls[t])
           /\ tab[t].pending \in Seq(Save)
           /\ \A c \in calls[t] : c \in CallRecord /\ c.kind # "compose"
BY ShapeAt DEF Ground, Shape, Types

\* A step that starts calls, or is told something, and leaves the queue.
LEMMA MoreKeeps ==
    ASSUME NEW t \in Tabs, tab'[t].pending = tab[t].pending, calls[t] \subseteq calls'[t],
           \A x \in made' \ made : \E e \in calls'[t] : e.document # None /\ x \in e.document.content
    PROVE  KeepsChanges(t)
<1>1. QueueKept(t) /\ CallsKept(t)
  BY SameQueueKept, MoreCallsKept
<1>2. \A x \in made' \ made : Holds(tab'[t], calls'[t], x)
  BY DEF Holds
<1> QED
  BY <1>1, <1>2, KeptChanges

\* A step that ends a call, and leaves the queue.
LEMMA LessKeeps ==
    ASSUME NEW t \in Tabs, Shape, NEW c \in calls[t], Gone(c) \/ Queued(t, c), made' = made,
           tab'[t].pending = tab[t].pending,
           \/ calls'[t] = calls[t] \ {c}
           \/ calls'[t] = Replaced(calls[t] \ {c})
           \/ calls'[t] = Disturbed(calls[t] \ {c})
    PROVE  KeepsChanges(t)
<1>1. QueueKept(t) /\ CallsKept(t)
  BY SameQueueKept, FewerCallsKept
<1> QED
  BY <1>1, KeptChanges

\* A step that goes on with a call, and leaves the queue.
LEMMA GoesOnKeeps ==
    ASSUME NEW t \in Tabs, NEW c \in calls[t], NEW n, made' = made,
           tab'[t].pending = tab[t].pending,
           \/ calls'[t] = (calls[t] \ {c}) \cup {n} /\ (n.document = c.document \/ Gone(c))
           \/ calls'[t] = calls[t] \ {c} /\ Gone(c)
    PROVE  KeepsChanges(t)
<1>1. QueueKept(t) /\ CallsKept(t)
  BY SameQueueKept DEF CallsKept
<1> QED
  BY <1>1, KeptChanges

LEMMA SelectKeeps ==
    ASSUME NEW t \in Tabs, Ground(t), made' = made, dropped' = dropped \cup GivenUp(t),
           NEW left \in SUBSET calls[t], \A c \in calls[t] : c \in left \/ Gone(c),
           NEW more \in SUBSET calls'[t],
           more = Reselected(left) \/ more = Replaced(Reselected(left))
    PROVE  KeepsChanges(t)
<1>1. Unsaved(t) \subseteq dropped' /\ GivenUp(t) \subseteq dropped'
  BY DEF GivenUp
<1>2. CallsKept(t)
  BY <1>1, ReselectedKept DEF Ground
<1> QED
  BY <1>1, <1>2, GivenUpQueueKept, KeptChanges

LEMMA ReuseKeeps ==
    ASSUME NEW t \in Tabs, Ground(t), ReuseStudy(t)
    PROVE  KeepsChanges(t)
<1>1. /\ calls'[t] = Reselected(calls[t]) /\ made' = made
      /\ dropped' = dropped \cup GivenUp(t)
  BY AtGround DEF ReuseStudy, Deselect
<1> DEFINE more == Reselected(calls[t])
<1>2. more \in SUBSET calls'[t] /\ more = Reselected(calls[t])
  BY <1>1
<1> HIDE DEF more
<1> QED
  BY <1>1, <1>2, SelectKeeps

LEMMA LoadStudyKeeps ==
    ASSUME NEW t \in Tabs, Ground(t), LoadStudy(t)
    PROVE  KeepsChanges(t)
<1> DEFINE more == Reselected(calls[t])
<1>1. /\ calls'[t] = more \cup {Call("load", "sent", 0, None)} /\ made' = made
      /\ dropped' = dropped \cup GivenUp(t)
  BY AtGround DEF LoadStudy
<1>2. more \in SUBSET calls'[t] /\ more = Reselected(calls[t])
  BY <1>1
<1> HIDE DEF more
<1> QED
  BY <1>1, <1>2, SelectKeeps

LEMMA StartNewStudyKeeps ==
    ASSUME NEW t \in Tabs, Ground(t), StartNewStudy(t)
    PROVE  KeepsChanges(t)
<1>1. /\ calls'[t] = Reselected(calls[t]) /\ made' = made
      /\ dropped' = dropped \cup GivenUp(t)
  BY AtGround DEF StartNewStudy, Deselect
<1> DEFINE more == Reselected(calls[t])
<1>2. more \in SUBSET calls'[t] /\ more = Reselected(calls[t])
  BY <1>1
<1> HIDE DEF more
<1> QED
  BY <1>1, <1>2, SelectKeeps

LEMMA SwitchKeeps ==
    ASSUME NEW t \in Tabs, Ground(t), SwitchSession(t)
    PROVE  KeepsChanges(t)
<1>1. /\ made' = made
      /\ dropped' = dropped \cup Unsaved(t) \cup UNION {Brought(c) : c \in calls[t]}
  BY DEF SwitchSession
<1>2. \A c \in calls[t] : Gone(c)
  BY <1>1, BroughtGone
<1>3. QueueKept(t) /\ CallsKept(t)
  BY <1>1, <1>2, GivenUpQueueKept DEF CallsKept
<1> QED
  BY <1>1, <1>3, KeptChanges

LEMMA InstallDemoKeeps ==
    ASSUME NEW t \in Tabs, Ground(t), InstallDemo(t)
    PROVE  KeepsChanges(t)
<1>1. tab' = tab /\ made' = made /\ calls[t] \subseteq calls'[t]
  BY AtGround DEF InstallDemo
<1> QED
  BY <1>1, MoreKeeps

LEMMA PurgeKeeps ==
    ASSUME NEW t \in Tabs, Ground(t), Purge(t)
    PROVE  KeepsChanges(t)
<1>1. tab' = tab /\ made' = made /\ calls[t] \subseteq calls'[t]
  BY AtGround DEF Purge, Command
<1> QED
  BY <1>1, MoreKeeps

\* A command that brings a change has it in its document.
LEMMA CommandKeeps ==
    ASSUME NEW t \in Tabs, Ground(t), NEW x \in Changes, Change(x), NEW kind \in Kinds,
           NEW phase \in Phases, NEW base \in Nat, NEW d \in Documents, x \in d.content,
           Command(t, kind, phase, base, d), tab'[t].pending = tab[t].pending
    PROVE  KeepsChanges(t)
<1> DEFINE c == Call(kind, phase, base, d)
<1>1. calls'[t] = calls[t] \cup {c} /\ made' = made \cup {x}
  BY AtGround DEF Command, Change
<1>2. c.document = d /\ d # None
  BY CallIs, DocumentTypes
<1> HIDE DEF c
<1> QED
  BY <1>1, <1>2, MoreKeeps

LEMMA AttachKeeps ==
    ASSUME NEW t \in Tabs, Ground(t), NEW x \in Changes, Attach(t, x)
    PROVE  KeepsChanges(t)
<1> DEFINE d == Successor(tab[t].document, x)
           base == tab[t].document.revision
<1>1. /\ tab' = tab /\ Change(x) /\ Command(t, "attach", "preparing", base, d)
      /\ tab[t].status = "SAVED" /\ tab[t].document # None
  BY DEF Attach
<1>2. tab[t].document \in Documents /\ base \in Nat
  BY <1>1, AtGround, SavedIsStored, DocumentTypes
<1>3. d \in Documents /\ x \in d.content
  BY <1>2, SuccessorIs
<1>4. "attach" \in Kinds /\ "preparing" \in Phases
  BY DEF Kinds, Bound, Reads, Phases
<1> HIDE DEF d, base
<1> QED
  BY <1>1, <1>2, <1>3, <1>4, CommandKeeps

LEMMA AppendAttemptKeeps ==
    ASSUME NEW t \in Tabs, Ground(t), NEW x \in Changes, AppendAttempt(t, x)
    PROVE  KeepsChanges(t)
<1> DEFINE d == Successor(tab[t].document, x)
           base == tab[t].document.revision
<1>1. /\ tab' = [tab EXCEPT ![t].status = "SAVING"] /\ Change(x)
      /\ Command(t, "append", "sent", base, d)
      /\ tab[t].status = "SAVED" /\ tab[t].document # None
  BY DEF AppendAttempt
<1>2. tab[t].document \in Documents /\ base \in Nat
  BY <1>1, AtGround, SavedIsStored, DocumentTypes
<1>3. d \in Documents /\ x \in d.content
  BY <1>2, SuccessorIs
<1>4. "append" \in Kinds /\ "sent" \in Phases
  BY DEF Kinds, Bound, Reads, Phases
<1>5. tab'[t].pending = tab[t].pending
  BY <1>1, AtGround DEF TabRecord
<1> HIDE DEF d, base
<1> QED
  BY <1>1, <1>2, <1>3, <1>4, <1>5, CommandKeeps

LEMMA WriteDetachedKeeps ==
    ASSUME NEW t \in Tabs, Ground(t), NEW x \in Changes, WriteDetached(t, x)
    PROVE  KeepsChanges(t)
<1>1. PICK kind \in {"detached", "restore"}, k \in DOMAIN history :
         Command(t, kind, "sent", k, [revision |-> k + 1, content |-> history[k] \cup {x}])
  BY DEF WriteDetached
<1> DEFINE d == [revision |-> k + 1, content |-> history[k] \cup {x}]
<1>2. tab' = tab /\ Change(x) /\ Command(t, kind, "sent", k, d)
  BY <1>1 DEF WriteDetached
<1>3. k \in Nat /\ history[k] \in Contents
  BY AtGround, HistoryIs DEF Types
<1>4. d \in Documents /\ x \in d.content
  BY <1>3 DEF Documents, Contents
<1>5. kind \in Kinds /\ "sent" \in Phases
  BY DEF Kinds, Bound, Writes, Reads, Phases
<1> HIDE DEF d
<1> QED
  BY <1>2, <1>3, <1>4, <1>5, CommandKeeps

LEMMA EditKeeps ==
    ASSUME NEW t \in Tabs, Ground(t), NEW x \in Changes, Edit(t, x)
    PROVE  KeepsChanges(t)
<1> DEFINE d == Successor(tab[t].document, x)
           s == [expected |-> Previous(t), document |-> d]
           q == tab[t].pending
<1>1. /\ tab' = [tab EXCEPT ![t] = Enqueued(t, d)]
      /\ calls' = [calls EXCEPT ![t] = Replaced(calls[t])]
      /\ made' = made \cup {x} /\ tab[t].document # None
      /\ tab[t].document.revision = Previous(t)
  BY DEF Edit, Change
<1>2. tab[t].document \in Documents /\ q \in Seq(Save)
  BY <1>1, AtGround, RecordTypes
<1>3. d \in Documents /\ x \in d.content /\ d.revision = tab[t].document.revision + 1
  BY <1>2, SuccessorIs
<1>4. Previous(t) \in Nat
  BY <1>1, <1>2, DocumentTypes
<1>5. s \in Save /\ s.document = d
  BY <1>1, <1>3, <1>4 DEF Save
<1>6. tab'[t].pending = Append(q, s)
  BY <1>1, AtGround DEF Enqueued, TabRecord
<1>7. calls'[t] = Replaced(calls[t])
  BY <1>1, AtGround
<1> HIDE DEF d, s, q
<1>8. /\ Len(q) \in Nat /\ DOMAIN q = 1..Len(q) /\ DOMAIN Append(q, s) = 1..(Len(q) + 1)
      /\ \A i \in DOMAIN q : Append(q, s)[i] = q[i]
      /\ Append(q, s)[Len(q) + 1] = s
  BY <1>2, <1>5, AppendIs
<1>9. QueueKept(t)
  BY <1>6, <1>8 DEF QueueKept, q
<1>10. CallsKept(t)
  BY <1>7, AtGround, ReplacedIs DEF CallsKept
<1>11. Holds(tab'[t], calls'[t], x)
  BY <1>3, <1>5, <1>6, <1>8 DEF Holds
<1> QED
  BY <1>1, <1>9, <1>10, <1>11, KeptChanges

LEMMA StartDrainKeeps ==
    ASSUME NEW t \in Tabs, Ground(t), StartDrain(t)
    PROVE  KeepsChanges(t)
<1>1. made' = made /\ calls[t] \subseteq calls'[t]
  BY AtGround DEF StartDrain
<1>2. tab'[t].pending = tab[t].pending
  BY AtGround DEF StartDrain, TabRecord
<1> QED
  BY <1>1, <1>2, MoreKeeps

LEMMA FailsKeeps ==
    ASSUME NEW t \in Tabs, Ground(t), NEW c \in calls[t], Fails(t, c), made' = made
    PROVE  KeepsChanges(t)
<1>1. calls'[t] = calls[t] \ {c} /\ tab'[t].pending = tab[t].pending
  BY AtGround DEF Fails, TabRecord
<1>2. CASE c.kind # "drain"
  <2>1. Gone(c)
    BY <1>2, BroughtGone DEF Fails
  <2> QED
    BY <1>1, <2>1, AtGround, LessKeeps
<1>3. CASE c.kind = "drain"
  <2>1. tab[t].pending # <<>> /\ c.document = Head(tab[t].pending).document
    BY <1>3, AtGround, ShapeAt DEF Reads, CallOK
  <2>2. Queued(t, c)
    BY <1>1, <2>1, AtGround, QueueIs DEF Queued
  <2> QED
    BY <1>1, <2>2, AtGround, LessKeeps
<1> QED
  BY <1>2, <1>3

\* The edit that was stored leaves the queue.
LEMMA AnswerDrainKeeps ==
    ASSUME NEW t \in Tabs, Ground(t), NEW c \in calls[t], AnswerDrain(t, c)
    PROVE  KeepsChanges(t)
<1>1. CASE Fails(t, c)
  BY <1>1, FailsKeeps DEF AnswerDrain
<1>2. CASE c.phase = "done" /\ DrainSaved(t, c)
  <2> DEFINE q == tab[t].pending
             left == calls[t] \ {c}
  <2>1. /\ c.kind = "drain" /\ made' = made /\ tab'[t].pending = Tail(q)
        /\ left \subseteq calls'[t] \/ Replaced(left) \subseteq calls'[t]
    BY <1>2, AtGround DEF AnswerDrain, DrainSaved, TabRecord
  <2>2. Gone(c)
    BY <1>2, <2>1, AtGround, DoneGone
  <2>3. q # <<>> /\ c.document = Head(q).document /\ q \in Seq(Save)
    BY <2>1, AtGround, ShapeAt DEF Reads, CallOK
  <2>4. /\ 1 \in DOMAIN q /\ Head(q) = q[1] /\ Len(q) \in Nat \ {0} /\ DOMAIN q = 1..Len(q)
        /\ DOMAIN Tail(q) = 1..(Len(q) - 1)
        /\ \A i \in DOMAIN Tail(q) : Tail(q)[i] = q[i + 1]
    BY <2>3, QueueIs, LenProperties
  <2>5. c.document # None
    BY <2>3, <2>4, SaveTypes
  <2>6. left \in SUBSET CallRecord /\ OneDrain(left) /\ \A d \in calls[t] : d = c \/ d \in left
    BY AtGround, SomeCalls
  <2> HIDE DEF left, q
  <2>7. \A d \in left : \E e \in calls'[t] : e.document = d.document
    BY <2>1, <2>6, ReplacedIs
  <2>8. CallsKept(t)
    BY <2>2, <2>6, <2>7 DEF CallsKept
  <2>9. ASSUME NEW i \in DOMAIN q
        PROVE  \/ Settled(q[i].document.content)
               \/ \E k \in DOMAIN Tail(q) : Tail(q)[k] = q[i]
    <3>1. CASE i = 1
      BY <2>2, <2>3, <2>4, <2>5, <3>1 DEF Gone
    <3>2. CASE i # 1
      <4>1. i - 1 \in DOMAIN Tail(q) /\ (i - 1) + 1 = i
        BY <2>4, <3>2
      <4> QED
        BY <2>4, <4>1
    <3> QED
      BY <3>1, <3>2
  <2>10. QueueKept(t)
    BY <2>1, <2>9 DEF QueueKept, q
  <2> QED
    BY <2>1, <2>8, <2>10, KeptChanges
<1> QED
  BY <1>1, <1>2 DEF AnswerDrain

LEMMA AnswerLoadKeeps ==
    ASSUME NEW t \in Tabs, Ground(t), NEW c \in calls[t], AnswerLoad(t, c)
    PROVE  KeepsChanges(t)
<1>1. /\ c.kind = "load" /\ made' = made
      /\ \/ calls'[t] = calls[t] \ {c}
         \/ calls'[t] = Replaced(calls[t] \ {c})
  BY AtGround DEF AnswerLoad
<1>2. tab'[t].pending = tab[t].pending
  <2>1. CASE tab' = tab
    BY <2>1
  <2>2. CASE c.document = None /\ tab' # tab
    BY <2>2, AtGround DEF AnswerLoad, TabRecord
  <2>3. CASE c.document # None /\ tab' # tab
    BY <2>3, AtGround DEF AnswerLoad, TabRecord
  <2> QED
    BY <2>1, <2>2, <2>3 DEF AnswerLoad
<1>3. Gone(c)
  BY <1>1, AtGround, DoneGone, ReaderGone DEF Reads
<1> QED
  BY <1>1, <1>2, <1>3, AtGround, LessKeeps

LEMMA ReadStudyKeeps ==
    ASSUME NEW t \in Tabs, Ground(t), ReadStudy(t)
    PROVE  KeepsChanges(t)
<1>1. tab' = tab /\ made' = made /\ calls[t] \subseteq calls'[t]
  BY AtGround DEF ReadStudy, Command
<1> QED
  BY <1>1, MoreKeeps

LEMMA AnswerReadKeeps ==
    ASSUME NEW t \in Tabs, Ground(t), NEW c \in calls[t], AnswerRead(t, c)
    PROVE  KeepsChanges(t)
<1>1. c.kind = "read" /\ made' = made /\ calls'[t] = calls[t] \ {c}
  BY AtGround DEF AnswerRead
<1>2. tab'[t].pending = tab[t].pending
  BY AtGround DEF AnswerRead, TabRecord
<1>3. Gone(c)
  BY <1>1, AtGround, DoneGone, ReaderGone DEF Reads
<1> QED
  BY <1>1, <1>2, <1>3, AtGround, LessKeeps

LEMMA AnswerReloadKeeps ==
    ASSUME NEW t \in Tabs, Ground(t), NEW c \in calls[t], AnswerReload(t, c)
    PROVE  KeepsChanges(t)
<1>1. /\ c.kind = "reload" /\ made' = made
      /\ \/ calls'[t] = calls[t] \ {c}
         \/ calls'[t] = Replaced(calls[t] \ {c})
         \/ calls'[t] = Disturbed(calls[t] \ {c})
  BY AtGround DEF AnswerReload
<1>2. tab'[t].pending = tab[t].pending
  BY AtGround DEF AnswerReload, TabRecord
<1>3. Gone(c)
  BY <1>1, AtGround, DoneGone, ReaderGone DEF Reads
<1> QED
  BY <1>1, <1>2, <1>3, AtGround, LessKeeps

LEMMA AnswerAttachKeeps ==
    ASSUME NEW t \in Tabs, Ground(t), NEW c \in calls[t], AnswerAttach(t, c)
    PROVE  KeepsChanges(t)
<1>1. CASE Fails(t, c)
  BY <1>1, FailsKeeps DEF AnswerAttach
<1>2. CASE c.phase = "done" /\ ~Fails(t, c)
  <2>1. /\ c.kind = "attach" /\ made' = made /\ calls'[t] = Replaced(calls[t] \ {c})
        /\ tab'[t].pending = tab[t].pending
    BY <1>2, AtGround DEF AnswerAttach, TabRecord
  <2>2. Gone(c)
    BY <1>2, AtGround, DoneGone
  <2> QED
    BY <2>1, <2>2, AtGround, LessKeeps
<1> QED
  BY <1>1, <1>2 DEF AnswerAttach

LEMMA AnswerAppendKeeps ==
    ASSUME NEW t \in Tabs, Ground(t), NEW c \in calls[t], AnswerAppend(t, c)
    PROVE  KeepsChanges(t)
<1>1. CASE Fails(t, c)
  BY <1>1, FailsKeeps DEF AnswerAppend
<1>2. CASE c.phase = "done" /\ ~Fails(t, c)
  <2>1. /\ made' = made /\ tab'[t].pending = tab[t].pending
        /\ \/ calls'[t] = calls[t] \ {c}
           \/ calls'[t] = Replaced(calls[t] \ {c})
    BY <1>2, AtGround DEF AnswerAppend, TabRecord
  <2>2. Gone(c)
    BY <1>2, AtGround, DoneGone
  <2> QED
    BY <2>1, <2>2, AtGround, LessKeeps
<1> QED
  BY <1>1, <1>2 DEF AnswerAppend

LEMMA AnswerDetachedKeeps ==
    ASSUME NEW t \in Tabs, Ground(t), NEW c \in calls[t], AnswerDetached(t, c)
    PROVE  KeepsChanges(t)
<1>1. CASE Fails(t, c)
  BY <1>1, FailsKeeps DEF AnswerDetached
<1>2. CASE c.phase = "done" /\ ~Fails(t, c)
  <2> DEFINE r == tab[t]
             required == Satisfied(r.required, c.document.revision)
             shown == r.document # None /\ r.status = "SAVED"
             persisted == IF shown THEN c.document.revision ELSE r.persisted
             document == IF shown THEN c.document ELSE r.document
             r2 == [r EXCEPT !.required = required, !.persisted = persisted,
                             !.document = document]
             cs2 == IF shown THEN Replaced(calls[t] \ {c}) ELSE calls[t] \ {c}
  <2>3. made' = made /\ tab' = [tab EXCEPT ![t] = r2] /\ calls' = [calls EXCEPT ![t] = cs2]
    BY <1>2 DEF AnswerDetached
  <2>4. cs2 = calls[t] \ {c} \/ cs2 = Replaced(calls[t] \ {c})
    OBVIOUS
  <2> HIDE DEF required, persisted, document, cs2
  <2>5. r2.pending = r.pending
    BY AtGround DEF TabRecord
  <2> HIDE DEF r2
  <2>1. /\ made' = made /\ tab'[t].pending = tab[t].pending
        /\ \/ calls'[t] = calls[t] \ {c}
           \/ calls'[t] = Replaced(calls[t] \ {c})
    BY <2>3, <2>4, <2>5, AtGround
  <2>2. Gone(c)
    BY <1>2, AtGround, DoneGone
  <2> QED
    BY <2>1, <2>2, AtGround, LessKeeps
<1>3. CASE c.kind = "restore" /\ c.phase \in {"refused", "failed"} /\ ~Fails(t, c)
  <2>1. /\ made' = made /\ tab' = tab /\ calls'[t] = calls[t] \ {c}
        /\ dropped' = dropped \cup Brought(c)
    BY <1>3, AtGround DEF AnswerDetached
  <2>2. Gone(c)
    BY <2>1, BroughtGone
  <2> QED
    BY <2>1, <2>2, AtGround, LessKeeps
<1> QED
  BY <1>1, <1>2, <1>3 DEF AnswerDetached

LEMMA AnswerDemoKeeps ==
    ASSUME NEW t \in Tabs, Ground(t), NEW c \in calls[t], AnswerDemo(t, c)
    PROVE  KeepsChanges(t)
<1>1. Gone(c) /\ made' = made
  BY AtGround, DoneGone, ReaderGone DEF Reads, AnswerDemo
<1>2. CASE c.phase = "done" /\ c.same /\ tab[t].pending = <<>>
  <2> DEFINE left == calls[t] \ {c}
             more == Replaced(Reselected(left))
  <2>1. calls'[t] = more /\ dropped' = dropped \cup GivenUp(t)
    BY <1>2, AtGround DEF AnswerDemo
  <2>2. /\ left \in SUBSET calls[t] /\ (\A d \in calls[t] : d \in left \/ Gone(d))
        /\ more \in SUBSET calls'[t] /\ more = Replaced(Reselected(left))
    BY <1>1, <2>1
  <2> HIDE DEF left, more
  <2> QED
    BY <1>1, <2>1, <2>2, SelectKeeps
<1>3. CASE ~(c.phase = "done" /\ c.same /\ tab[t].pending = <<>>)
  <2>1. calls'[t] = calls[t] \ {c} /\ tab'[t].pending = tab[t].pending
    BY <1>3, AtGround DEF AnswerDemo, TabRecord
  <2> QED
    BY <1>1, <2>1, AtGround, LessKeeps
<1> QED
  BY <1>2, <1>3

LEMMA AnswerPurgeKeeps ==
    ASSUME NEW t \in Tabs, Ground(t), NEW c \in calls[t], AnswerPurge(t, c)
    PROVE  KeepsChanges(t)
<1>1. Gone(c) /\ made' = made
  BY AtGround, ShapeAt DEF Reads, AnswerPurge, CallOK, Gone
<1>2. CASE c.phase = "done" /\ tab[t].document # None
  <2> DEFINE left == calls[t] \ {c}
             more == Reselected(left)
  <2>1. calls'[t] = more /\ dropped' = dropped \cup GivenUp(t)
    BY <1>2, AtGround DEF AnswerPurge
  <2>2. /\ left \in SUBSET calls[t] /\ (\A d \in calls[t] : d \in left \/ Gone(d))
        /\ more \in SUBSET calls'[t] /\ more = Reselected(left)
    BY <1>1, <2>1
  <2> HIDE DEF left, more
  <2> QED
    BY <1>1, <2>1, <2>2, SelectKeeps
<1>3. CASE ~(c.phase = "done" /\ tab[t].document # None)
  <2>1. calls'[t] = calls[t] \ {c} /\ tab'[t].pending = tab[t].pending
    BY <1>3, AtGround DEF AnswerPurge, TabRecord
  <2> QED
    BY <1>1, <2>1, AtGround, LessKeeps
<1> QED
  BY <1>2, <1>3

LEMMA DeliverKeeps ==
    ASSUME NEW t \in Tabs, Ground(t), NEW revision \in mailbox[t], Deliver(t, revision)
    PROVE  KeepsChanges(t)
<1>1. /\ made' = made
      /\ calls[t] \subseteq calls'[t] \/ calls'[t] = Disturbed(calls[t])
  BY AtGround DEF Deliver
<1>2. tab'[t].pending = tab[t].pending
  <2> DEFINE required == IF revision > tab[t].required THEN revision ELSE tab[t].required
             told     == [tab[t] EXCEPT !.required = required]
             conflict == [told EXCEPT !.status = "CONFLICT"]
  <2>1. tab' = [tab EXCEPT ![t] = told] \/ tab' = [tab EXCEPT ![t] = conflict]
    BY DEF Deliver
  <2> HIDE DEF required
  <2>2. told.pending = tab[t].pending /\ conflict.pending = tab[t].pending
    BY AtGround DEF TabRecord
  <2> QED
    BY <2>1, <2>2, AtGround
<1>3. CASE calls[t] \subseteq calls'[t]
  BY <1>1, <1>2, <1>3, MoreKeeps
<1>4. CASE calls'[t] = Disturbed(calls[t])
  <2>1. QueueKept(t) /\ CallsKept(t)
    BY <1>2, <1>4, AtGround, DisturbedIs, SameQueueKept DEF CallsKept
  <2> QED
    BY <1>1, <2>1, KeptChanges
<1> QED
  BY <1>1, <1>3, <1>4

LEMMA SendAttachedKeeps ==
    ASSUME NEW t \in Tabs, Ground(t), NEW c \in calls[t], SendAttached(t, c)
    PROVE  KeepsChanges(t)
<1> DEFINE n == [c EXCEPT !.phase = "sent"]
<1>1. /\ made' = made /\ calls'[t] = (calls[t] \ {c}) \cup {n}
      /\ tab'[t].pending = tab[t].pending
  BY AtGround DEF SendAttached, TabRecord
<1>2. n.document = c.document
  BY AtGround DEF CallRecord
<1> HIDE DEF n
<1> QED
  BY <1>1, <1>2, GoesOnKeeps

\* The transaction of a call ends: the call waits for its answer with its document, or nobody does.
LEMMA AnsweredKeeps ==
    ASSUME NEW t \in Tabs, Ground(t), NEW c \in calls[t], NEW phase \in Phases,
           NEW document \in Documents \cup {None}, Answered(t, c, phase, document),
           made' = made, tab' = tab,
           document = c.document \/ Gone(c),
           c.kind = "orphan" => Gone(c)
    PROVE  KeepsChanges(t)
<1>1. PICK n \in CallRecord :
         /\ n.document = document
         /\ \/ c.kind = "orphan" /\ calls' = [calls EXCEPT ![t] = calls[t] \ {c}]
            \/ calls' = [calls EXCEPT ![t] = (calls[t] \ {c}) \cup {n}]
  BY AtGround, AnsweredIs
<1>2. \/ c.kind = "orphan" /\ calls'[t] = calls[t] \ {c}
      \/ calls'[t] = (calls[t] \ {c}) \cup {n}
  BY <1>1, AtGround
<1> QED
  BY <1>1, <1>2, GoesOnKeeps

LEMMA ReadKeeps ==
    ASSUME NEW t \in Tabs, Ground(t), NEW c \in calls[t], Read(t, c)
    PROVE  KeepsChanges(t)
<1>1. /\ c.kind \in Reads /\ c.phase = "sent"
      /\ Answered(t, c, "done", Stored) /\ tab' = tab /\ made' = made
  BY DEF Read
<1>2. Gone(c)
  BY <1>1, AtGround, ReaderGone
<1>3. Stored \in Documents \cup {None} /\ "done" \in Phases
  BY AtGround, StoredIs DEF Phases
<1> QED
  BY <1>1, <1>2, <1>3, AnsweredKeeps

\* A write that was refused, or failed: its caller still has the change, or nobody asks for it.
LEMMA RefusedKeeps ==
    ASSUME NEW t \in Tabs, Ground(t), NEW c \in calls[t], NEW phase \in {"refused", "failed"},
           Answered(t, c, phase, c.document), made' = made, tab' = tab,
           dropped' = IF c.kind = "orphan" THEN dropped \cup Brought(c) ELSE dropped
    PROVE  KeepsChanges(t)
<1>1. phase \in Phases /\ c.document \in Documents \cup {None}
  BY AtGround, CallTypes DEF Phases
<1>2. c.kind = "orphan" => Gone(c)
  BY BroughtGone
<1> QED
  BY <1>1, <1>2, AnsweredKeeps

LEMMA StorageFailsKeeps ==
    ASSUME NEW t \in Tabs, Ground(t), NEW c \in calls[t], StorageFails(t, c)
    PROVE  KeepsChanges(t)
BY RefusedKeeps DEF StorageFails

LEMMA CommitKeepsOrStores ==
    ASSUME NEW t \in Tabs, Ground(t), NEW c \in calls[t], Commit(t, c)
    PROVE  KeepsChanges(t) \/ Stores(t)
<1>1. made' = made /\ tab' = tab /\ c \in CallRecord /\ calls[t] \in SUBSET CallRecord
      /\ c.kind \in Writes /\ c.phase = "sent"
  BY AtGround DEF Commit
<1>2. CASE c.document = None /\ Answered(t, c, "done", None)
  <2>1. Gone(c) /\ "done" \in Phases
    BY <1>2 DEF Gone, Phases
  <2> QED
    BY <1>1, <1>2, <2>1, AnsweredKeeps
<1>3. CASE /\ c.document # None /\ Accepts(c) /\ Preserves(c)
           /\ history' = Append(history, c.document.content)
           /\ Answered(t, c, "done", c.document)
           /\ UNCHANGED <<purged, dropped, mailbox>>
  <2> DEFINE n == [c EXCEPT !.phase = "done"]
             cs2 == IF c.kind = "orphan" THEN calls[t] \ {c}
                    ELSE (calls[t] \ {c}) \cup {n}
  <2>1. [c EXCEPT !.phase = "done", !.document = c.document] = n /\ n \in CallRecord
    BY <1>1 DEF CallRecord, Phases
  <2>2. calls' = [calls EXCEPT ![t] = cs2]
    BY <1>3, <2>1 DEF Answered
  <2>3. cs2 \in SUBSET CallRecord
    BY <1>1, <2>1
  <2> QED
    BY <1>1, <1>3, <2>2, <2>3 DEF Stores
<1>4. CASE /\ \E phase \in {"refused", "failed"} : Answered(t, c, phase, c.document)
           /\ dropped' = IF c.kind = "orphan" THEN dropped \cup Brought(c) ELSE dropped
  BY <1>1, <1>4, RefusedKeeps
<1> QED
  BY <1>2, <1>3, <1>4 DEF Commit

-----------------------------------------------------------------------------
(* No change vanishes *)

NoCompose == \A t \in Tabs : \A c \in calls[t] : c.kind # "compose"

\* Whatever happens, happens to one tab.
Elsewhere(t) ==
    \A u \in Tabs \ {t} : tab'[u] = tab[u] /\ calls'[u] = calls[u]

LEMMA LocalElsewhere ==
    ASSUME Shape, NEW t \in Tabs, Local(t)
    PROVE  Elsewhere(t) /\ history' = history /\ dropped \subseteq dropped' /\ made \subseteq made'
BY DEF Shape, Types, Local, OthersTyped, Elsewhere

LEMMA StepKeeps ==
    ASSUME EditsAreOfTheShown, Shape, Grows(history), NoCompose, Next
    PROVE  \E t \in Tabs : (Local(t) /\ KeepsChanges(t)) \/ Stores(t)
<1>1. PICK t \in Tabs :
         \/ User(t) \/ StartDrain(t)
         \/ \E c \in calls[t] :
               Commit(t, c) \/ Read(t, c) \/ StorageFails(t, c) \/ SendAttached(t, c)
               \/ EditComposed(t, c) \/ Answer(t, c)
         \/ \E revision \in mailbox[t] : Deliver(t, revision)
  BY DEF Next
<1>2. Ground(t) /\ "compose" \notin Commands[t]
  BY DEF Ground, NoCompose, EditsAreOfTheShown
<1>3. CASE User(t)
  <2>1. Local(t)
    BY <1>3, ReuseLocal, LoadStudyLocal, StartNewStudyLocal, SwitchLocal, InstallDemoLocal,
       PurgeLocal, ReadStudyLocal, EditLocal, ComposeLocal, AttachLocal, AppendAttemptLocal,
       WriteDetachedLocal
       DEF User
  <2>2. ASSUME NEW x \in Changes PROVE ~Compose(t, x)
    BY <1>2 DEF Compose
  <2>3. KeepsChanges(t)
    BY <1>2, <1>3, <2>2, ReuseKeeps, LoadStudyKeeps, StartNewStudyKeeps, SwitchKeeps,
       InstallDemoKeeps, PurgeKeeps, ReadStudyKeeps, EditKeeps, AttachKeeps, AppendAttemptKeeps,
       WriteDetachedKeeps
       DEF User
  <2> QED
    BY <2>1, <2>3
<1>4. CASE StartDrain(t)
  BY <1>2, <1>4, StartDrainLocal, StartDrainKeeps
<1>5. ASSUME NEW c \in calls[t], Commit(t, c)
      PROVE  (Local(t) /\ KeepsChanges(t)) \/ Stores(t)
  BY <1>2, <1>5, CommitStoresOrIsLocal, CommitKeepsOrStores
<1>6. ASSUME NEW c \in calls[t],
             Read(t, c) \/ StorageFails(t, c) \/ SendAttached(t, c) \/ EditComposed(t, c)
             \/ Answer(t, c)
      PROVE  Local(t) /\ KeepsChanges(t)
  <2>1. Local(t)
    BY <1>6, ReadLocal, StorageFailsLocal, SendAttachedLocal,
       EditComposedLocal, AnswerDrainLocal, AnswerLoadLocal, AnswerDemoLocal, AnswerAttachLocal,
       AnswerAppendLocal, AnswerDetachedLocal, AnswerPurgeLocal, AnswerReloadLocal,
     AnswerReadLocal DEF Answer
  <2>2. ~EditComposed(t, c)
    BY <1>2 DEF Ground, EditComposed
  <2>3. KeepsChanges(t)
    BY <1>2, <1>6, <2>2, ReadKeeps, StorageFailsKeeps, SendAttachedKeeps, AnswerDrainKeeps,
       AnswerLoadKeeps, AnswerDemoKeeps, AnswerAttachKeeps, AnswerAppendKeeps,
       AnswerDetachedKeeps, AnswerPurgeKeeps, AnswerReloadKeeps, AnswerReadKeeps DEF Answer
  <2> QED
    BY <2>1, <2>3
<1>7. ASSUME NEW revision \in mailbox[t], Deliver(t, revision)
      PROVE  Local(t) /\ KeepsChanges(t)
  BY <1>2, <1>7, DeliverLocal, DeliverKeeps
<1> QED
  BY <1>1, <1>3, <1>4, <1>5, <1>6, <1>7

\* Every change that was made is stored, given up, or held by a tab.
Kept(x, h, d, ts, css) == x \in Last(h) \cup d \/ \E t \in Tabs : Holds(ts[t], css[t], x)

AllKept == \A x \in made : Kept(x, history, dropped, tab, calls)

LEMMA NothingVanishesMeans ==
    NoChangeVanishes <=> AllKept
<1>1. ASSUME NEW x \in made, x \notin Last(history), NEW t \in Tabs
      PROVE  Holds(tab[t], calls[t], x)
             <=> x \in Unsaved(t) \cup UNION {Brought(c) : c \in calls[t]}
  <2> DEFINE q == tab[t].pending
             all == {q[i].document.content : i \in DOMAIN q}
             brought == {Brought(c) : c \in calls[t]}
  <2>1. x \in Unsaved(t) <=> x \in UNION all
    BY <1>1 DEF Unsaved
  <2>2. x \in UNION all <=> \E i \in DOMAIN q : x \in q[i].document.content
    OBVIOUS
  <2>3. x \in UNION brought <=> \E c \in calls[t] : x \in Brought(c)
    OBVIOUS
  <2>4. \A c \in calls[t] : x \in Brought(c) <=> c.document # None /\ x \in c.document.content
    BY <1>1 DEF Brought
  <2> HIDE DEF all, brought
  <2>5. Holds(tab[t], calls[t], x) <=> x \in UNION all \/ x \in UNION brought
    BY <2>2, <2>3, <2>4 DEF Holds
  <2> QED
    BY <2>1, <2>5 DEF brought
<1> DEFINE held(t) == Unsaved(t) \cup UNION {Brought(c) : c \in calls[t]}
<1>2. NoChangeVanishes <=> \A x \in made : x \in Last(history) \cup dropped
                                           \/ \E t \in Tabs : x \in held(t)
  BY DEF NoChangeVanishes
<1>3. ASSUME NEW x \in made, x \notin Last(history), NEW t \in Tabs
      PROVE  Holds(tab[t], calls[t], x) <=> x \in held(t)
  BY <1>1, <1>3
<1> HIDE DEF held
<1> QED
  BY <1>2, <1>3 DEF AllKept, Kept

LEMMA LocalLosesNothing ==
    ASSUME Shape, NEW t \in Tabs, Local(t), KeepsChanges(t),
           AllKept
    PROVE  \A x \in made' : Kept(x, history', dropped', tab', calls')
<1>1. /\ Elsewhere(t) /\ history' = history /\ dropped \subseteq dropped' /\ made \subseteq made'
      /\ made' \subseteq Changes
  BY LocalElsewhere DEF Local, OthersTyped
<1> SUFFICES ASSUME NEW x \in made'
             PROVE  Kept(x, history', dropped', tab', calls')
  OBVIOUS
<1>2. CASE x \in made' \ made \/ Holds(tab[t], calls[t], x)
  BY <1>1, <1>2 DEF KeepsChanges, Kept
<1>3. CASE x \in made /\ x \in Last(history) \cup dropped
  BY <1>1, <1>3 DEF AllKept, Kept
<1>4. ASSUME x \in made, NEW u \in Tabs \ {t}, Holds(tab[u], calls[u], x)
      PROVE  Kept(x, history', dropped', tab', calls')
  <2>1. tab'[u] = tab[u] /\ calls'[u] = calls[u]
    BY <1>1 DEF Elsewhere
  <2> QED
    BY <1>4, <2>1 DEF AllKept, Kept
<1> QED
  BY <1>2, <1>3, <1>4 DEF AllKept, Kept

\* A revision loses nothing: it contains the one before, and what it was brought with.
LEMMA StoresLosesNothing ==
    ASSUME Shape, Last(history) \subseteq Last(history'), NEW t \in Tabs, Stores(t)
    PROVE  AllKept => \A x \in made' : Kept(x, history', dropped', tab', calls')
<1>1. PICK c \in calls[t], n \in CallRecord, cs2 \in SUBSET CallRecord :
         /\ c \in CallRecord /\ c.kind \in Writes
         /\ c.document \in Documents /\ c.document # None /\ Preserves(c)
         /\ c.base = Len(history)
         /\ history' = Append(history, c.document.content)
         /\ n.kind = c.kind /\ n.base = c.base /\ n.document = c.document
         /\ calls' = [calls EXCEPT ![t] = cs2]
         /\ \/ c.kind = "orphan" /\ cs2 = calls[t] \ {c}
            \/ c.kind # "orphan" /\ cs2 = (calls[t] \ {c}) \cup {n}
         /\ UNCHANGED <<purged, tab, mailbox, made, dropped>>
  BY StoresIs
<1>2. history \in Seq(Contents) /\ history # <<>> /\ c.document.content \in Contents
      /\ DOMAIN calls = Tabs
  BY <1>1, ShapeAt, DocumentTypes DEF Contents, Shape, Types
<1>4. Last(history') = c.document.content
  BY <1>1, <1>2, RevisionIs
<1> SUFFICES ASSUME AllKept, NEW x \in made
             PROVE  Kept(x, history', dropped', tab', calls')
  BY <1>1
<1>7. CASE x \in Last(history) \cup dropped
  BY <1>1, <1>7 DEF AllKept, Kept
<1>8. ASSUME NEW u \in Tabs, Holds(tab[u], calls[u], x)
      PROVE  Kept(x, history', dropped', tab', calls')
  <2>1. CASE u # t
    <3>1. tab'[u] = tab[u] /\ calls'[u] = calls[u]
      BY <1>1, <1>2, <2>1
    <3> QED
      BY <1>8, <3>1 DEF AllKept, Kept
  <2>2. CASE u = t /\ \E i \in DOMAIN tab[u].pending : x \in tab[u].pending[i].document.content
    BY <1>1, <2>2 DEF AllKept, Kept, Holds
  <2>3. ASSUME u = t, NEW d \in calls[t], d.document # None, x \in d.document.content
        PROVE  Kept(x, history', dropped', tab', calls')
    <3>1. CASE d = c
      BY <1>4, <2>3, <3>1 DEF AllKept, Kept
    <3>2. CASE d # c
      <4>1. d \in calls'[t]
        BY <1>1, <1>2, <3>2
      <4> QED
        BY <2>3, <4>1 DEF AllKept, Kept, Holds
    <3> QED
      BY <3>1, <3>2
  <2> QED
    BY <1>8, <2>1, <2>2, <2>3 DEF Holds
<1> QED
  BY <1>7, <1>8 DEF AllKept, Kept

LEMMA NextLosesNothing ==
    ASSUME EditsAreOfTheShown, Shape, NoCompose, Grows(history), (Grows(history))',
           NoChangeVanishes, [Next]_vars
    PROVE  NoChangeVanishes'
<1>1. AllKept
  BY NothingVanishesMeans DEF AllKept
<1>2. CASE Next
  <2>1. PICK t \in Tabs : (Local(t) /\ KeepsChanges(t)) \/ Stores(t)
    BY <1>2, StepKeeps
  <2>2. \A x \in made' : Kept(x, history', dropped', tab', calls')
    BY <1>1, <2>1, LocalLosesNothing, StoresLosesNothing, StoresContains
  <2>3. (NoChangeVanishes <=> AllKept)'
    BY NothingVanishesMeans, PTL
  <2>4. AllKept'
    BY <2>2 DEF AllKept, Kept, Holds
  <2> QED
    BY <2>3, <2>4
<1>3. CASE UNCHANGED vars
  BY <1>3 DEF vars, NoChangeVanishes, Unsaved, Brought
<1> QED
  BY <1>2, <1>3

\* While every edit is of the document its tab shows, every change that was made is in the last
\* revision, in a queue or in a call, or was given up with its author told.
THEOREM EveryChangeIsKept ==
    ASSUME \A t \in Tabs : "compose" \notin Commands[t]
    PROVE  Spec => []NoChangeVanishes
<1>1. EditsAreOfTheShown
  BY DEF EditsAreOfTheShown
<1>2. Spec => [](Shape /\ AllRooted /\ Grows(history))
  BY <1>1, AlwaysRooted
<1>3. Init => NoChangeVanishes
  BY DEF Init, NoChangeVanishes
<1>4. Shape /\ AllRooted /\ Grows(history) /\ (Grows(history))' /\ NoChangeVanishes /\ [Next]_vars
         => NoChangeVanishes'
  BY <1>1, NextLosesNothing DEF AllRooted, TabRooted, NoCompose
<1> QED
  BY <1>2, <1>3, <1>4, PTL DEF Spec
=============================================================================
