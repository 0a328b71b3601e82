------------------------- MODULE ConversationsProofs -------------------------
(***************************************************************************)
(* What holds of the conversations of any number of tabs, with any number  *)
(* of conversations, messages, answers, tries and failures.                *)
(*                                                                         *)
(* A save is accepted by its revision alone.  What makes it right is that  *)
(* nobody holds, under the revision that is stored, anything but what is   *)
(* stored: whoever is accepted has edited the stored conversation.         *)
(***************************************************************************)
EXTENDS Conversations, TLAPS

-----------------------------------------------------------------------------
(* The inductive invariant                                                   *)

\* A row of questions, each followed by its one answer (OneAnswerEach).
WellFormed(document) ==
    LET messages == document.messages
    IN  /\ Len(messages) % 2 = 0
        /\ \A i \in DOMAIN messages :
               /\ messages[i].role = IF i % 2 = 1 THEN "USER" ELSE "ASSISTANT"
               /\ messages[i].status = "PENDING" => i = Len(messages)
               /\ \A j \in DOMAIN messages :
                      messages[i].id = messages[j].id /\ messages[i].role = messages[j].role
                          => i = j

\* The answers of a document were asked for before the answer a.
Before(document, a) ==
    \A i \in DOMAIN document.messages : document.messages[i].id < a

\* The answer a of the document has not ended.
Open(document, a) ==
    \A i \in DOMAIN document.messages :
        document.messages[i].role = "ASSISTANT" /\ document.messages[i].id = a
            => document.messages[i].status = "PENDING"

\* The document is an earlier revision of the conversation, or the stored one: of the
\* conversations "rows", of which n were created, and with m answers asked for.
Copy(c, document, rows, n, m) ==
    /\ document.revision >= 1
    /\ c <= n
    /\ Before(document, m + 1)
    /\ \/ rows[c] = None
       \/ document.revision < rows[c].revision
       \/ document = rows[c]

\* The document is a question asked of a copy in which nothing is waited for.
Asks(c, document, a, rows, n, m) ==
    \E d \in Documents, again \in BOOLEAN :
        /\ document = Asked(d, a, again)
        /\ Copy(c, d, rows, n, m)
        /\ Before(d, a)
        /\ PendingIn(d) = {}
        /\ again => Repeatable(d)

SendExact(s, rows, n, m) ==
    s.phase # "idle" =>
        /\ s.conversation \in Conversations
        /\ s.answer \in Answers /\ s.answer <= m
        /\ IF s.phase = "starting" THEN Asks(s.conversation, s.held, s.answer, rows, n, m)
           ELSE Copy(s.conversation, s.held, rows, n, m)
        /\ s.phase \in {"asking", "answering"} => Open(s.held, s.answer)

StoredExact ==
    \A c \in Conversations :
        /\ WellFormed(stored[c])
        /\ stored[c] # None => Copy(c, stored[c], stored, created, issued)

ViewsExact ==
    \A t \in Tabs :
        /\ view[t].active \in Listed(view[t].shown) \cup {0}
        /\ \A c \in Listed(view[t].shown) : Copy(c, view[t].shown[c], stored, created, issued)

SendsExact == \A t \in Tabs : SendExact(send[t], stored, created, issued)

IInv == TypeOK /\ StoredExact /\ ViewsExact /\ SendsExact

-----------------------------------------------------------------------------
(* Documents                                                                 *)

LEMMA NoDocument == None \in Documents /\ WellFormed(None) /\ None.revision = 0
  BY DEF None, Documents, WellFormed

Empty == [revision |-> 1, messages |-> <<>>]

LEMMA NewDocument == Empty \in Documents /\ WellFormed(Empty) /\ \A a : Before(Empty, a)
  BY DEF Empty, Documents, WellFormed, Before

\* Only answers are waited for.
LEMMA PendingIsLast ==
    ASSUME NEW d \in Documents, WellFormed(d), NEW m \in PendingIn(d)
    PROVE  /\ m = d.messages[Len(d.messages)]
           /\ Len(d.messages) \in DOMAIN d.messages
           /\ m.role = "ASSISTANT"
<1>1. PICK i \in DOMAIN d.messages : m = d.messages[i] /\ m.status = "PENDING"
  BY DEF PendingIn, Range
<1>2. i = Len(d.messages)
  BY <1>1 DEF WellFormed
<1>3. Len(d.messages) % 2 = 0
  BY DEF WellFormed
<1>4. i % 2 = 0
  BY <1>2, <1>3, Zenon
<1>5. m.role = "ASSISTANT"
  BY <1>1, <1>4 DEF WellFormed
<1> QED
  BY <1>1, <1>2, <1>5

\* What ends the answers of a set leaves the other messages as they are.
LEMMA EndedDocument ==
    ASSUME NEW d \in Documents, NEW answers, NEW status \in Endings
    PROVE  LET e == Ended(d, answers, status)
           IN  /\ e \in Documents
               /\ e.revision = d.revision + 1
               /\ DOMAIN e.messages = DOMAIN d.messages
               /\ Len(e.messages) = Len(d.messages)
               /\ \A i \in DOMAIN d.messages :
                      e.messages[i] =
                          IF d.messages[i].role = "ASSISTANT" /\ d.messages[i].id \in answers
                          THEN Answer(d.messages[i].id, status)
                          ELSE d.messages[i]
<1> DEFINE F(i) == IF d.messages[i].role = "ASSISTANT" /\ d.messages[i].id \in answers
                   THEN Answer(d.messages[i].id, status)
                   ELSE d.messages[i]
           E == [i \in 1..Len(d.messages) |-> F(i)]
<1>1. d.messages \in Seq(Messages) /\ d.revision \in Nat /\ Len(d.messages) \in Nat
      /\ DOMAIN d.messages = 1..Len(d.messages)
  BY DEF Documents
<1>2. \A i \in 1..Len(d.messages) : d.messages[i] \in Messages
  BY <1>1
<1>3. \A i \in 1..Len(d.messages) : F(i) \in Messages
  BY <1>2 DEF Messages, Answer, Endings
<1> HIDE DEF F
<1>4. E \in Seq(Messages) /\ Len(E) = Len(d.messages) /\ DOMAIN E = DOMAIN d.messages
  BY <1>1, <1>3
<1>5. \A i \in DOMAIN d.messages : E[i] = F(i)
  BY <1>1
<1>6. Ended(d, answers, status) = [revision |-> d.revision + 1, messages |-> E]
  BY <1>1 DEF Ended, F
<1> HIDE DEF E
<1>7. [revision |-> d.revision + 1, messages |-> E] \in Documents
  BY <1>1, <1>4 DEF Documents
<1> QED
  BY <1>4, <1>5, <1>6, <1>7 DEF F

LEMMA EndedKeeps ==
    ASSUME NEW d \in Documents, NEW answers, NEW status \in Endings,
           WellFormed(d),
           \A i \in DOMAIN d.messages :
               d.messages[i].role = "ASSISTANT" /\ d.messages[i].id \in answers
                   => d.messages[i].status = "PENDING"
    PROVE  /\ WellFormed(Ended(d, answers, status))
           /\ Continues(d.messages, Ended(d, answers, status).messages)
           /\ \A a \in Nat : Before(d, a) => Before(Ended(d, answers, status), a)
<1> DEFINE e == Ended(d, answers, status)
           Ends(i) == d.messages[i].role = "ASSISTANT" /\ d.messages[i].id \in answers
<1>1. /\ e \in Documents
      /\ DOMAIN e.messages = DOMAIN d.messages
      /\ Len(e.messages) = Len(d.messages)
      /\ \A i \in DOMAIN d.messages :
             e.messages[i] = IF Ends(i) THEN Answer(d.messages[i].id, status) ELSE d.messages[i]
  BY EndedDocument
<1> HIDE DEF e
<1>2. ASSUME NEW i \in DOMAIN d.messages
      PROVE  /\ e.messages[i].role = d.messages[i].role
             /\ e.messages[i].id = d.messages[i].id
             /\ e.messages[i].status = "PENDING" => d.messages[i].status = "PENDING"
  <2>1. CASE Ends(i)
    <3>1. e.messages[i] = Answer(d.messages[i].id, status)
      BY <1>1, <2>1
    <3> QED
      BY <2>1, <3>1 DEF Answer, Endings
  <2>2. CASE ~Ends(i)
    <3>1. e.messages[i] = d.messages[i]
      BY <1>1, <2>2
    <3> QED
      BY <3>1
  <2> QED
    BY <2>1, <2>2
<1>3. WellFormed(e)
  <2>1. Len(e.messages) % 2 = 0
    BY <1>1 DEF WellFormed
  <2>2. ASSUME NEW i \in DOMAIN e.messages
        PROVE  /\ e.messages[i].role = IF i % 2 = 1 THEN "USER" ELSE "ASSISTANT"
               /\ e.messages[i].status = "PENDING" => i = Len(e.messages)
               /\ \A j \in DOMAIN e.messages :
                      e.messages[i].id = e.messages[j].id
                        /\ e.messages[i].role = e.messages[j].role => i = j
    BY <1>1, <1>2 DEF WellFormed
  <2> QED
    BY <2>1, <2>2 DEF WellFormed
<1>4. Continues(d.messages, e.messages)
  BY <1>1 DEF Continues
<1>5. \A a \in Nat : Before(d, a) => Before(e, a)
  BY <1>1, <1>2 DEF Before
<1> QED
  BY <1>3, <1>4, <1>5 DEF e

\* A question, or the last one again, at the end.
LEMMA AskedDocument ==
    ASSUME NEW d \in Documents, NEW a \in Answers, NEW again \in BOOLEAN,
           again => Repeatable(d)
    PROVE  LET e == Asked(d, a, again)
               n == IF again THEN Len(d.messages) ELSE Len(d.messages) + 2
           IN  /\ e \in Documents
               /\ e.revision = d.revision + 1
               /\ Len(e.messages) = n /\ DOMAIN e.messages = 1..n
               /\ n \in Nat /\ n > 0
               /\ \A i \in 1..n :
                      e.messages[i] = IF i = n THEN Answer(a, "PENDING")
                                      ELSE IF i <= Len(d.messages) THEN d.messages[i]
                                      ELSE Question(a)
<1> DEFINE D == d.messages
           A == Answer(a, "PENDING")
           E == (IF again THEN Front(D) ELSE Append(D, Question(a))) \o <<A>>
<1>1. D \in Seq(Messages) /\ d.revision \in Nat /\ Len(D) \in Nat
  BY DEF Documents
<1>2. A \in Messages /\ Question(a) \in Messages
  BY DEF Answer, Question, Messages, Endings
<1>3. Asked(d, a, again) = [revision |-> d.revision + 1, messages |-> E]
  BY DEF Asked
<1>4. CASE again
  <2>1. Len(D) > 0
    BY <1>1, <1>4 DEF Repeatable
  <2> DEFINE P == SubSeq(D, 1, Len(D) - 1)
  <2>2. P \in Seq(Messages) /\ Len(P) = Len(D) - 1 /\ \A i \in 1..Len(P) : P[i] = D[i]
    BY <1>1, <2>1
  <2>3. E = P \o <<A>>
    BY <1>4 DEF Front
  <2> HIDE DEF P, A
  <2>4. /\ P \o <<A>> \in Seq(Messages)
        /\ Len(P \o <<A>>) = Len(D)
        /\ \A i \in 1..Len(D) :
               (P \o <<A>>)[i] = IF i = Len(D) THEN A ELSE D[i]
    BY <1>1, <1>2, <2>1, <2>2
  <2> HIDE DEF E
  <2>5. [revision |-> d.revision + 1, messages |-> E] \in Documents
    BY <1>1, <2>3, <2>4 DEF Documents
  <2> QED
    BY <1>1, <1>3, <1>4, <2>1, <2>3, <2>4, <2>5 DEF A
<1>5. CASE ~again
  <2> DEFINE P == Append(D, Question(a))
  <2>1. E = P \o <<A>>
    BY <1>5
  <2> HIDE DEF A
  <2>2. P \in Seq(Messages) /\ Len(P) = Len(D) + 1
        /\ \A i \in 1..Len(P) : P[i] = IF i <= Len(D) THEN D[i] ELSE Question(a)
    BY <1>1, <1>2
  <2> HIDE DEF P
  <2>3. /\ P \o <<A>> \in Seq(Messages)
        /\ Len(P \o <<A>>) = Len(D) + 2
        /\ \A i \in 1..(Len(D) + 2) :
               (P \o <<A>>)[i] = IF i = Len(D) + 2 THEN A
                                 ELSE IF i <= Len(D) THEN D[i] ELSE Question(a)
    BY <1>1, <1>2, <2>2
  <2> HIDE DEF E
  <2>4. [revision |-> d.revision + 1, messages |-> E] \in Documents
    BY <1>1, <2>1, <2>3 DEF Documents
  <2> DEFINE e == Asked(d, a, again)
  <2>5. /\ e \in Documents /\ e.revision = d.revision + 1 /\ e.messages = P \o <<A>>
    BY <1>3, <2>1, <2>4
  <2> HIDE DEF e
  <2>6. /\ DOMAIN e.messages = 1..(Len(D) + 2) /\ Len(D) + 2 \in Nat /\ Len(D) + 2 > 0
    BY <1>1, <2>3, <2>5
  <2>7. /\ Len(e.messages) = Len(D) + 2
        /\ \A i \in 1..(Len(D) + 2) :
               e.messages[i] = IF i = Len(D) + 2 THEN A
                               ELSE IF i <= Len(D) THEN D[i] ELSE Question(a)
    BY <2>3, <2>5
  <2> QED
    BY <1>5, <2>5, <2>6, <2>7 DEF A, e
<1> QED
  BY <1>4, <1>5

LEMMA AskedKeeps ==
    ASSUME NEW d \in Documents, NEW a \in Answers, NEW again \in BOOLEAN,
           again => Repeatable(d),
           WellFormed(d), PendingIn(d) = {}, Before(d, a)
    PROVE  /\ WellFormed(Asked(d, a, again))
           /\ Continues(d.messages, Asked(d, a, again).messages)
           /\ Before(Asked(d, a, again), a + 1)
           /\ Open(Asked(d, a, again), a)
<1> DEFINE D == d.messages
           L == Len(D)
           e == Asked(d, a, again)
           E == e.messages
           n == IF again THEN L ELSE L + 2
<1>1. /\ Len(E) = n /\ DOMAIN E = 1..n /\ n \in Nat /\ n > 0
      /\ \A i \in 1..n : E[i] = IF i = n THEN Answer(a, "PENDING")
                               ELSE IF i <= L THEN D[i] ELSE Question(a)
  BY AskedDocument
<1>2. /\ L \in Nat /\ DOMAIN D = 1..L /\ L % 2 = 0 /\ a \in Nat
      /\ \A i \in 1..L : D[i] \in Messages
  BY DEF Documents, WellFormed, Answers
<1>3. ASSUME NEW i \in 1..L
      PROVE  /\ D[i].status # "PENDING"
             /\ D[i].id \in Nat /\ D[i].id < a
             /\ D[i].role = IF i % 2 = 1 THEN "USER" ELSE "ASSISTANT"
  <2>1. D[i] \in Range(D)
    BY <1>2 DEF Range
  <2> QED
    BY <1>2, <2>1 DEF PendingIn, Before, WellFormed, Messages, Answers
<1>4. \A i, j \in 1..L : D[i].id = D[j].id /\ D[i].role = D[j].role => i = j
  BY <1>2 DEF WellFormed
<1>5. again => D[L].status = "FAILED"
  BY DEF Repeatable, Last
<1>6. IF again THEN n = L ELSE n = L + 2
  OBVIOUS
<1> HIDE DEF E, e, L, n, D
<1>7. n % 2 = 0 /\ (L + 1) % 2 = 1
  BY <1>2, <1>6
<1> DEFINE New(i) == i = n \/ (~again /\ i = L + 1)
<1>8. ASSUME NEW i \in 1..n
      PROVE  /\ E[i].role = IF i % 2 = 1 THEN "USER" ELSE "ASSISTANT"
             /\ E[i].status = "PENDING" <=> i = n
             /\ E[i].id < a + 1
             /\ E[i].id = a <=> New(i)
             /\ ~New(i) => i \in 1..L /\ E[i] = D[i]
  <2>1. CASE i = n
    <3>1. E[i] = Answer(a, "PENDING") /\ i % 2 = 0
      BY <1>1, <1>7, <2>1
    <3> QED
      BY <1>2, <2>1, <3>1 DEF Answer
  <2>2. CASE i # n /\ i <= L
    <3>1. E[i] = D[i] /\ i \in 1..L
      BY <1>1, <1>2, <2>2
    <3>2. ~New(i)
      BY <1>2, <2>2
    <3> QED
      BY <1>2, <1>3, <2>2, <3>1, <3>2
  <2>3. CASE i # n /\ ~(i <= L)
    <3>1. E[i] = Question(a)
      BY <1>1, <2>3
    <3>2. ~again /\ i = L + 1
      BY <1>2, <1>6, <2>3
    <3> QED
      BY <1>2, <1>7, <2>3, <3>1, <3>2 DEF Question
  <2> QED
    BY <2>1, <2>2, <2>3
<1>9. ASSUME NEW i \in 1..n, NEW j \in 1..n, E[i].id = E[j].id, E[i].role = E[j].role
      PROVE  i = j
  <2>1. CASE New(i)
    <3>1. New(j)
      BY <1>8, <1>9, <2>1
    <3>2. E[n].role = "ASSISTANT" /\ (~again => E[L + 1].role = "USER")
      BY <1>1, <1>2, <1>6, <1>7, <1>8
    <3> QED
      BY <1>9, <2>1, <3>1, <3>2
  <2>2. CASE ~New(i)
    <3>1. ~New(j)
      BY <1>8, <1>9, <2>2
    <3> QED
      BY <1>4, <1>8, <1>9, <2>2, <3>1
  <2> QED
    BY <2>1, <2>2
<1>10. WellFormed(e)
  BY <1>1, <1>7, <1>8, <1>9 DEF WellFormed, E
<1>11. Continues(D, E)
  <2> SUFFICES ASSUME NEW i \in DOMAIN D
               PROVE  /\ i \in DOMAIN E
                      /\ \/ E[i] = D[i]
                         \/ D[i].status = "FAILED" /\ i = Len(D) /\ E[i].status = "PENDING"
    BY DEF Continues
  <2>1. i \in 1..n
    BY <1>2, <1>6
  <2>2. CASE ~New(i)
    BY <1>1, <1>8, <2>1, <2>2
  <2>3. CASE New(i)
    <3>1. again /\ i = L /\ i = n
      BY <1>2, <1>6, <2>3
    <3> QED
      BY <1>1, <1>5, <1>8, <2>1, <3>1 DEF L
  <2> QED
    BY <2>2, <2>3
<1>12. Before(e, a + 1)
  BY <1>1, <1>8 DEF Before, E
<1>13. Open(e, a)
  <2> SUFFICES ASSUME NEW i \in 1..n, E[i].role = "ASSISTANT", E[i].id = a
               PROVE  E[i].status = "PENDING"
    BY <1>1 DEF Open, E
  <2>1. i # L + 1 \/ again
    BY <1>7, <1>8
  <2> QED
    BY <1>8, <2>1
<1> QED
  BY <1>10, <1>11, <1>12, <1>13 DEF e, E, D

-----------------------------------------------------------------------------
(* What a step does to the stored conversations                              *)

\* Of the changes of a stored conversation: it stays, is deleted, begins, or goes on.
Legal(c) ==
    \/ stored'[c] = stored[c]
    \/ c <= created /\ stored'[c] = None
    \/ created < c /\ c <= created' /\ stored'[c] = Empty
    \/ /\ stored[c] # None
       /\ stored'[c].revision = stored[c].revision + 1
       /\ WellFormed(stored'[c]) /\ Before(stored'[c], issued' + 1)
       /\ Continues(stored[c].messages, stored'[c].messages)

Legals ==
    /\ created <= created' /\ issued <= issued'
    /\ \A c \in Conversations : Legal(c)

LEMMA BeforeMore ==
    ASSUME NEW d \in Documents, NEW a \in Nat, NEW b \in Nat, a <= b, Before(d, a)
    PROVE  Before(d, b)
<1>1. \A i \in DOMAIN d.messages : d.messages[i] \in Messages
  BY DEF Documents
<1>2. \A i \in DOMAIN d.messages : d.messages[i].id \in Int
  BY <1>1 DEF Messages, Answers
<1> QED
  BY <1>2 DEF Before

LEMMA Counters ==
    ASSUME TypeOK
    PROVE  created \in Nat /\ issued \in Nat /\ MaxAnswers \in Nat /\ MaxConversations \in Nat
  BY ConversationsAssumption DEF ConversationsAssumption, TypeOK

\* A copy stays one.
LEMMA CopyStays ==
    ASSUME IInv, TypeOK', Legals, NEW c \in Conversations, NEW d \in Documents,
           Copy(c, d, stored, created, issued)
    PROVE  Copy(c, d, stored', created', issued')
<1>1. created \in Nat /\ created' \in Nat /\ issued \in Nat /\ issued' \in Nat /\ c \in Nat
  BY Counters, ConversationsAssumption DEF IInv, TypeOK, ConversationsAssumption, Conversations
<1>2. d.revision >= 1 /\ c <= created' /\ Before(d, issued' + 1)
  BY <1>1, BeforeMore DEF Copy, Legals
<1>3. stored[c] \in Documents /\ stored'[c] \in Documents
  BY DEF IInv, TypeOK
<1>4. stored[c].revision \in Nat /\ stored'[c].revision \in Nat /\ d.revision \in Nat
  BY <1>3 DEF Documents
<1>5. stored'[c] = None \/ d.revision < stored'[c].revision \/ d = stored'[c]
  BY <1>1, <1>2, <1>4 DEF Copy, Legals, Legal
<1> QED
  BY <1>2, <1>5 DEF Copy

LEMMA SendStays ==
    ASSUME IInv, TypeOK', Legals, NEW s, s.held \in Documents,
           SendExact(s, stored, created, issued)
    PROVE  SendExact(s, stored', created', issued')
<1> SUFFICES ASSUME s.phase # "idle"
             PROVE  SendExact(s, stored', created', issued')
  BY DEF SendExact
<1>1. s.conversation \in Conversations /\ s.answer \in Answers /\ s.answer <= issued'
  BY ConversationsAssumption DEF SendExact, Legals, IInv, TypeOK, Answers, ConversationsAssumption
<1>2. CASE s.phase = "starting"
  <2>1. Asks(s.conversation, s.held, s.answer, stored', created', issued')
    BY <1>1, <1>2, CopyStays DEF SendExact, Asks
  <2> QED
    BY <1>1, <1>2, <2>1 DEF SendExact
<1>3. CASE s.phase # "starting"
  BY <1>1, <1>3, CopyStays DEF SendExact
<1> QED
  BY <1>2, <1>3

LEMMA StoredStays ==
    ASSUME IInv, TypeOK', Legals
    PROVE  StoredExact'
<1> SUFFICES ASSUME NEW c \in Conversations
             PROVE  /\ WellFormed(stored'[c])
                    /\ stored'[c] # None => Copy(c, stored'[c], stored', created', issued')
  BY DEF StoredExact
<1>1. /\ stored[c] \in Documents /\ stored'[c] \in Documents
      /\ WellFormed(stored[c])
      /\ stored[c] # None => Copy(c, stored[c], stored, created, issued)
  BY DEF IInv, TypeOK, StoredExact
<1>2. CASE stored'[c] = stored[c]
  BY <1>1, <1>2, CopyStays
<1>3. CASE stored'[c] = None
  BY <1>3, NoDocument
<1>4. CASE c <= created' /\ stored'[c] = Empty
  BY <1>4, NewDocument DEF Copy, Empty
<1>5. CASE /\ stored[c] # None
           /\ stored'[c].revision = stored[c].revision + 1
           /\ WellFormed(stored'[c]) /\ Before(stored'[c], issued' + 1)
  <2>1. Copy(c, stored[c], stored', created', issued')
    BY <1>1, <1>5, CopyStays
  <2>2. stored[c].revision \in Nat
    BY <1>1 DEF Documents
  <2> QED
    BY <1>5, <2>1, <2>2 DEF Copy
<1> QED
  BY <1>2, <1>3, <1>4, <1>5 DEF Legals, Legal

\* What was said stays, in such a step.
LEMMA HistoryStep ==
    ASSUME IInv, TypeOK', Legals, NEW c \in Conversations
    PROVE  /\ c <= created /\ stored[c] = None => stored'[c] = None
           /\ stored[c] # None /\ stored'[c] # None
                  => Continues(stored[c].messages, stored'[c].messages)
<1>1. stored[c] # None => c <= created
  BY DEF IInv, StoredExact, Copy
<1>2. c \in Int /\ created \in Int
  BY Counters DEF IInv, Conversations
<1>3. Continues(stored[c].messages, stored[c].messages)
  BY DEF Continues
<1> QED
  BY <1>1, <1>2, <1>3 DEF Legals, Legal

-----------------------------------------------------------------------------
(* What a step of a tab does to what it shows and sends                      *)

\* The tab goes on showing what it showed, or shows copies.
ShowsCopies(t) ==
    /\ view' \in [Tabs -> Views]
    /\ \A u \in Tabs \ {t} : view'[u] = view[u]
    /\ view'[t].active \in Listed(view'[t].shown) \cup {0}
    /\ \A c \in Listed(view'[t].shown) :
           \/ view'[t].shown[c] = view[t].shown[c]
           \/ Copy(c, view'[t].shown[c], stored', created', issued')

\* The tab goes on sending what it sent, or sends what it may.
SendsCopies(t) ==
    /\ send' \in [Tabs -> Sendings]
    /\ \A u \in Tabs \ {t} : send'[u] = send[u]
    /\ send'[t] = send[t] \/ SendExact(send'[t], stored', created', issued')

LEMMA StepKeeps ==
    ASSUME IInv, TypeOK', Legals, NEW t \in Tabs, ShowsCopies(t), SendsCopies(t)
    PROVE  IInv'
<1>1. StoredExact'
  BY StoredStays
<1>2. ASSUME NEW u \in Tabs
      PROVE  /\ view'[u].active \in Listed(view'[u].shown) \cup {0}
             /\ \A c \in Listed(view'[u].shown) :
                    Copy(c, view'[u].shown[c], stored', created', issued')
  <2>1. view[u] \in Views /\ view'[u] \in Views
    BY DEF IInv, TypeOK
  <2>2. \A c \in Listed(view[u].shown) :
            /\ c \in Conversations /\ view[u].shown[c] \in Documents
            /\ Copy(c, view[u].shown[c], stored', created', issued')
    BY <2>1, CopyStays DEF IInv, ViewsExact, Listed, Views
  <2>3. CASE u # t
    BY <2>2, <2>3 DEF ShowsCopies, IInv, ViewsExact
  <2>4. CASE u = t
    <3>1. \A c \in Listed(view'[t].shown) :
              view'[t].shown[c] = view[t].shown[c] => c \in Listed(view[t].shown)
      BY DEF Listed
    <3> QED
      BY <2>2, <2>4, <3>1 DEF ShowsCopies
  <2> QED
    BY <2>3, <2>4
<1>3. ViewsExact'
  BY <1>2 DEF ViewsExact
<1>4. ASSUME NEW u \in Tabs
      PROVE  SendExact(send'[u], stored', created', issued')
  <2>1. send[u].held \in Documents /\ SendExact(send[u], stored, created, issued)
    BY DEF IInv, TypeOK, Sendings, SendsExact
  <2>2. SendExact(send[u], stored', created', issued')
    BY <2>1, SendStays
  <2> QED
    BY <2>2 DEF SendsCopies
<1>5. SendsExact'
  BY <1>4 DEF SendsExact
<1> QED
  BY <1>1, <1>3, <1>5 DEF IInv

LEMMA SameConversations ==
    ASSUME IInv, UNCHANGED <<stored, created>>, issued' \in Nat, issued <= issued'
    PROVE  Legals
  BY Counters DEF Legals, Legal, IInv

LEMMA SameView ==
    ASSUME IInv, NEW t \in Tabs, UNCHANGED view
    PROVE  ShowsCopies(t)
  BY DEF ShowsCopies, IInv, TypeOK, ViewsExact

LEMMA SameSend ==
    ASSUME IInv, NEW t \in Tabs, UNCHANGED send
    PROVE  SendsCopies(t)
  BY DEF SendsCopies, IInv, TypeOK

LEMMA IdleIsExact ==
    /\ Idle \in Sendings
    /\ \A rows, n, m : SendExact(Idle, rows, n, m)
<1>1. 0 \in 0..MaxConversations /\ 0 \in 0..MaxAnswers
  BY ConversationsAssumption DEF ConversationsAssumption
<1> QED
  BY <1>1, NoDocument DEF Idle, Sendings, Phases, SendExact

LEMMA DoneSends ==
    ASSUME IInv, NEW t \in Tabs, Done(t)
    PROVE  SendsCopies(t)
  BY IdleIsExact DEF SendsCopies, IInv, TypeOK, Done, Sends

\* What a tab shows after a transaction was answered with a copy, or nothing.
LEMMA AppliedShows ==
    ASSUME IInv, NEW t \in Tabs, NEW c \in Conversations, NEW d \in Documents,
           d = None \/ Copy(c, d, stored', created', issued'),
           NEW v, v = Applied(t, c, d)
    PROVE  /\ v \in Views
           /\ v.active \in Listed(v.shown) \cup {0}
           /\ \A x \in Listed(v.shown) :
                  \/ v.shown[x] = view[t].shown[x]
                  \/ Copy(x, v.shown[x], stored', created', issued')
<1>1. view[t] \in Views /\ view[t].shown \in [Conversations -> Documents]
  BY DEF IInv, TypeOK, Views
<1>2. view[t].active \in Listed(view[t].shown) \cup {0}
  BY DEF IInv, ViewsExact
<1>3. CASE v = view[t]
  BY <1>1, <1>2, <1>3
<1>4. CASE /\ view[t].shown[c] # None /\ d # None
           /\ v = [view[t] EXCEPT !.shown[c] = d]
  <2>1. v.shown = [view[t].shown EXCEPT ![c] = d] /\ v.active = view[t].active /\ v \in Views
    BY <1>1, <1>4 DEF Views
  <2>2. \A x \in Conversations : v.shown[x] = IF x = c THEN d ELSE view[t].shown[x]
    BY <1>1, <2>1
  <2>3. Listed(view[t].shown) \subseteq Listed(v.shown)
    BY <1>4, <2>2 DEF Listed
  <2> QED
    BY <1>2, <1>4, <2>1, <2>2, <2>3 DEF Listed
<1> QED
  BY <1>3, <1>4 DEF Applied

LEMMA OnSavedShows ==
    ASSUME IInv, NEW t \in Tabs, NEW c \in Conversations, NEW d \in Documents,
           d = None \/ Copy(c, d, stored', created', issued'),
           OnSaved(t, c, d)
    PROVE  ShowsCopies(t)
<1>1. view \in [Tabs -> Views] /\ view[t].active \in Listed(view[t].shown) \cup {0}
  BY DEF IInv, TypeOK, ViewsExact
<1>2. CASE send[t].here
  <2> DEFINE v == Applied(t, c, d)
  <2>1. /\ v \in Views
        /\ v.active \in Listed(v.shown) \cup {0}
        /\ \A x \in Listed(v.shown) :
               \/ v.shown[x] = view[t].shown[x]
               \/ Copy(x, v.shown[x], stored', created', issued')
    BY AppliedShows
  <2>2. view' = [view EXCEPT ![t] = v]
    BY <1>2 DEF OnSaved, Shows
  <2> HIDE DEF v
  <2> QED
    BY <1>1, <2>1, <2>2 DEF ShowsCopies
<1>3. CASE ~send[t].here
  BY <1>1, <1>3 DEF OnSaved, Shows, ShowsCopies
<1> QED
  BY <1>2, <1>3

\* What a tab shows after it read all the conversations.
LEMMA ReadShows ==
    ASSUME IInv, NEW t \in Tabs, NEW v \in Views,
           v.shown = stored, v.active \in Listed(stored) \cup {0},
           Shows(t, v), UNCHANGED <<stored, created, issued>>
    PROVE  ShowsCopies(t)
<1>1. view \in [Tabs -> Views] /\ \A c \in Listed(stored) : Copy(c, stored[c], stored, created, issued)
  BY DEF IInv, TypeOK, StoredExact, Listed
<1>2. view'[t] = v
  BY <1>1 DEF Shows
<1> QED
  BY <1>1, <1>2 DEF ShowsCopies, Shows

LEMMA FirstIsListed ==
    ASSUME NEW rows, NEW x \in First(rows)
    PROVE  x \in Listed(rows) \cup {0}
  BY DEF First

LEMMA RefreshShows ==
    ASSUME IInv, NEW t \in Tabs, RefreshConversations(t), UNCHANGED <<stored, created, issued>>
    PROVE  ShowsCopies(t)
<1>1. PICK active \in IF view[t].active \in Listed(stored) THEN {view[t].active} ELSE First(stored) :
          Shows(t, [view[t] EXCEPT !.shown = stored, !.active = active])
  BY DEF RefreshConversations
<1>2. active \in Listed(stored) \cup {0}
  BY FirstIsListed
<1>3. view[t] \in Views /\ stored \in [Conversations -> Documents]
      /\ active \in 0..MaxConversations
  BY <1>2, ConversationsAssumption
     DEF IInv, TypeOK, Listed, Conversations, ConversationsAssumption
<1>4. [view[t] EXCEPT !.shown = stored, !.active = active] \in Views
  BY <1>3 DEF Views
<1>5. /\ [view[t] EXCEPT !.shown = stored, !.active = active].shown = stored
      /\ [view[t] EXCEPT !.shown = stored, !.active = active].active = active
  BY <1>3 DEF Views
<1> QED
  BY <1>1, <1>2, <1>4, <1>5, ReadShows

-----------------------------------------------------------------------------
(* Saves                                                                     *)

\* A save that follows on a copy is accepted only if the copy is what is stored.
LEMMA Accepted ==
    ASSUME IInv, NEW c \in Conversations, NEW d \in Documents, NEW document \in Documents,
           Copy(c, d, stored, created, issued), document.revision = d.revision + 1,
           Accepts(c, document)
    PROVE  d = stored[c] /\ stored[c] # None
<1>1. stored[c].revision \in Nat /\ d.revision \in Nat
  BY DEF IInv, TypeOK, Documents
<1>2. stored[c].revision = d.revision
  BY <1>1 DEF Accepts
<1>3. stored[c] # None
  BY <1>1, <1>2, NoDocument DEF Copy
<1> QED
  BY <1>1, <1>2, <1>3 DEF Copy

LEMMA PutIsLegal ==
    ASSUME IInv, NEW c \in Conversations, NEW document \in Documents,
           stored[c] # None, document.revision = stored[c].revision + 1,
           WellFormed(document), Before(document, issued + 1),
           Continues(stored[c].messages, document.messages),
           Put(c, document), UNCHANGED <<created, issued>>
    PROVE  /\ Legals
           /\ stored' \in [Conversations -> Documents]
           /\ Copy(c, document, stored', created', issued')
<1>1. stored \in [Conversations -> Documents] /\ created \in Nat /\ issued \in Nat
  BY Counters DEF IInv, TypeOK
<1>2. stored' \in [Conversations -> Documents] /\ stored'[c] = document
      /\ \A x \in Conversations : x # c => stored'[x] = stored[x]
  BY <1>1 DEF Put
<1>3. Legals
  BY <1>1, <1>2 DEF Legals, Legal
<1>4. Copy(c, stored[c], stored, created, issued) /\ stored[c].revision \in Nat
  BY <1>1 DEF IInv, StoredExact, Documents
<1> QED
  BY <1>2, <1>3, <1>4 DEF Copy

\* The end of the answers of a set that are all waited for, in a copy.
LEMMA EndIsLegal ==
    ASSUME IInv, NEW c \in Conversations, NEW d \in Documents, NEW answers,
           NEW status \in Endings,
           Copy(c, d, stored, created, issued),
           d = stored[c] =>
               \A i \in DOMAIN d.messages :
                   d.messages[i].role = "ASSISTANT" /\ d.messages[i].id \in answers
                       => d.messages[i].status = "PENDING",
           Accepts(c, Ended(d, answers, status)),
           Put(c, Ended(d, answers, status)), UNCHANGED <<created, issued>>
    PROVE  /\ Legals
           /\ stored' \in [Conversations -> Documents]
           /\ Ended(d, answers, status) \in Documents
           /\ Copy(c, Ended(d, answers, status), stored', created', issued')
<1> DEFINE e == Ended(d, answers, status)
<1>1. e \in Documents /\ e.revision = d.revision + 1
  BY EndedDocument
<1>2. d = stored[c] /\ stored[c] # None
  BY <1>1, Accepted
<1>3. WellFormed(d) /\ Before(d, issued + 1) /\ issued + 1 \in Nat
  BY <1>2, Counters DEF IInv, StoredExact, Copy
<1>4. WellFormed(e) /\ Before(e, issued + 1) /\ Continues(d.messages, e.messages)
  BY <1>2, <1>3, EndedKeeps
<1> HIDE DEF e
<1>5. Put(c, e)
  BY DEF e
<1>6. /\ Legals /\ stored' \in [Conversations -> Documents]
      /\ Copy(c, e, stored', created', issued')
  BY <1>1, <1>2, <1>4, <1>5, PutIsLegal
<1> QED
  BY <1>1, <1>6 DEF e

-----------------------------------------------------------------------------
(* The steps: each is legal and keeps the invariant                          *)

\* A step that neither saves nor asks.
LEMMA StepKeepsRows ==
    ASSUME IInv, TypeOK', UNCHANGED <<stored, created, issued>>,
           NEW t \in Tabs, ShowsCopies(t), SendsCopies(t)
    PROVE  Legals /\ IInv'
<1>1. Legals
  BY SameConversations, Counters DEF IInv
<1> QED
  BY <1>1, StepKeeps

LEMMA TypeStays ==
    ASSUME IInv, NEW t \in Tabs,
           stored' \in [Conversations -> Documents], created' \in 0..MaxConversations,
           issued' \in 0..MaxAnswers, left' \subseteq Answers, events' \in 0..MaxEvents,
           ShowsCopies(t), SendsCopies(t)
    PROVE  TypeOK'
  BY DEF TypeOK, ShowsCopies, SendsCopies

LEMMA Types ==
    ASSUME IInv
    PROVE  /\ stored \in [Conversations -> Documents] /\ created \in 0..MaxConversations
           /\ issued \in 0..MaxAnswers /\ left \subseteq Answers /\ events \in 0..MaxEvents
           /\ view \in [Tabs -> Views] /\ send \in [Tabs -> Sendings]
  BY DEF IInv, TypeOK

LEMMA EventCounts ==
    ASSUME IInv, Event
    PROVE  events' \in 0..MaxEvents
  BY ConversationsAssumption DEF ConversationsAssumption, IInv, TypeOK, Event

LEMMA BlankIsView == Blank \in Views /\ Blank.active = 0 /\ Listed(Blank.shown) = {}
<1>1. 0 \in 0..MaxConversations
  BY ConversationsAssumption DEF ConversationsAssumption
<1> QED
  BY <1>1, NoDocument DEF Blank, Views, Listed

LEMMA BlankShows ==
    ASSUME IInv, NEW t \in Tabs, Shows(t, Blank)
    PROVE  ShowsCopies(t)
  BY BlankIsView, Types DEF Shows, ShowsCopies

\* The same request, given up or answered; its new phase asks no more of it.
LEMMA SameRequest ==
    ASSUME IInv, NEW t \in Tabs, UNCHANGED <<stored, created, issued>>,
           NEW s \in Sendings, Sends(t, s),
           s.conversation = send[t].conversation, s.held = send[t].held,
           s.answer = send[t].answer, send[t].phase # "idle",
           \/ s.phase = send[t].phase
           \/ /\ send[t].phase # "starting" /\ s.phase # "starting"
              /\ s.phase \in {"asking", "answering"}
                     => send[t].phase \in {"asking", "answering"}
    PROVE  SendsCopies(t)
<1>1. SendExact(send[t], stored, created, issued)
  BY DEF IInv, SendsExact
<1>2. SendExact(s, stored, created, issued)
  BY <1>1 DEF SendExact
<1> QED
  BY <1>2, Types DEF Sends, SendsCopies

LEMMA LoadKeeps ==
    ASSUME IInv, NEW t \in Tabs, Load(t)
    PROVE  Legals /\ IInv'
<1> DEFINE fresh == {<<c, stored[c].revision>> :
                         c \in {x \in Conversations : PendingIn(stored[x]) # {}}}
<1>1. PICK active \in First(stored) :
          Shows(t, [ready |-> TRUE, shown |-> stored, active |-> active, fresh |-> fresh])
  BY DEF Load
<1>2. fresh \in SUBSET (Conversations \X Nat)
  BY Types DEF Documents
<1> HIDE DEF fresh
<1>3. active \in Listed(stored) \cup {0}
  BY FirstIsListed
<1>4. active \in 0..MaxConversations
  BY <1>3, ConversationsAssumption DEF Listed, Conversations, ConversationsAssumption
<1>5. [ready |-> TRUE, shown |-> stored, active |-> active, fresh |-> fresh] \in Views
  BY <1>2, <1>4, Types DEF Views
<1>6. UNCHANGED <<stored, created, send, issued, left, events>>
  BY DEF Load
<1>7. ShowsCopies(t)
  BY <1>1, <1>3, <1>5, <1>6, ReadShows
<1>8. SendsCopies(t)
  BY <1>6, SameSend
<1>9. TypeOK'
  BY <1>6, <1>7, <1>8, Types, TypeStays
<1> QED
  BY <1>6, <1>7, <1>8, <1>9, StepKeepsRows

LEMMA LeaveKeeps ==
    ASSUME IInv, NEW t \in Tabs, Leave(t)
    PROVE  Legals /\ IInv'
<1>1. ShowsCopies(t)
  BY BlankShows DEF Leave
<1>2. UNCHANGED <<stored, created, issued, left>> /\ events' \in 0..MaxEvents
  BY EventCounts DEF Leave
<1>3. SendsCopies(t)
  <2>1. CASE Busy(t)
    <3> DEFINE s == [send[t] EXCEPT !.aborted = TRUE, !.here = FALSE]
    <3>1. /\ s \in Sendings /\ s.conversation = send[t].conversation /\ s.held = send[t].held
          /\ s.answer = send[t].answer /\ s.phase = send[t].phase
      BY Types DEF Sendings
    <3>2. Sends(t, s) /\ send[t].phase # "idle"
      BY <2>1 DEF Leave, Busy
    <3> HIDE DEF s
    <3> QED
      BY <1>2, <3>1, <3>2, SameRequest
  <2>2. CASE ~Busy(t)
    BY <2>2, SameSend DEF Leave
  <2> QED
    BY <2>1, <2>2
<1>4. TypeOK'
  BY <1>1, <1>2, <1>3, Types, TypeStays
<1> QED
  BY <1>1, <1>2, <1>3, <1>4, StepKeepsRows

LEMMA CloseTabKeeps ==
    ASSUME IInv, NEW t \in Tabs, CloseTab(t)
    PROVE  Legals /\ IInv'
<1>1. ShowsCopies(t)
  BY BlankShows DEF CloseTab
<1>2. UNCHANGED <<stored, created, issued>> /\ events' \in 0..MaxEvents
  BY EventCounts DEF CloseTab
<1>3. SendsCopies(t)
  BY DoneSends DEF CloseTab
<1>4. send[t].phase \in {"asking", "answering", "failing"} => send[t].answer \in Answers
  BY DEF IInv, SendsExact, SendExact
<1>5. left' \subseteq Answers
  BY <1>4, Types DEF CloseTab
<1>6. TypeOK'
  BY <1>1, <1>2, <1>3, <1>5, Types, TypeStays
<1> QED
  BY <1>1, <1>2, <1>3, <1>6, StepKeepsRows

LEMMA CancelKeeps ==
    ASSUME IInv, NEW t \in Tabs, Cancel(t)
    PROVE  Legals /\ IInv'
<1> DEFINE s == [send[t] EXCEPT !.aborted = TRUE]
<1>1. UNCHANGED <<stored, created, view, issued, left, events>>
  BY DEF Cancel
<1>2. /\ s \in Sendings /\ s.conversation = send[t].conversation /\ s.held = send[t].held
      /\ s.answer = send[t].answer /\ s.phase = send[t].phase
  BY Types DEF Sendings
<1>3. Sends(t, s) /\ send[t].phase # "idle"
  BY DEF Cancel, Busy
<1> HIDE DEF s
<1>4. SendsCopies(t)
  BY <1>1, <1>2, <1>3, SameRequest
<1>5. ShowsCopies(t)
  BY <1>1, SameView
<1>6. TypeOK'
  BY <1>1, <1>4, <1>5, Types, TypeStays
<1> QED
  BY <1>1, <1>4, <1>5, <1>6, StepKeepsRows

LEMMA SelectConversationKeeps ==
    ASSUME IInv, NEW t \in Tabs, NEW c \in Conversations, SelectConversation(t, c)
    PROVE  Legals /\ IInv'
<1>1. UNCHANGED <<stored, created, send, issued, left, events>>
  BY DEF SelectConversation
<1>2. c \in 0..MaxConversations /\ c \in Listed(view[t].shown)
  BY ConversationsAssumption DEF SelectConversation, Conversations, ConversationsAssumption
<1>3. ShowsCopies(t)
  <2>1. view' = [view EXCEPT ![t] = [view[t] EXCEPT !.active = c]]
    BY DEF SelectConversation, Shows
  <2>2. [view[t] EXCEPT !.active = c] \in Views
    BY <1>2, Types DEF Views
  <2>3. view'[t].shown = view[t].shown /\ view'[t].active = c
    BY <2>1, Types DEF Views
  <2> QED
    BY <1>2, <2>1, <2>2, <2>3, Types DEF ShowsCopies
<1>4. SendsCopies(t)
  BY <1>1, SameSend
<1>5. TypeOK'
  BY <1>1, <1>3, <1>4, Types, TypeStays
<1> QED
  BY <1>1, <1>3, <1>4, <1>5, StepKeepsRows

\* The list of a tab with one conversation changed.
LEMMA ChangedShows ==
    ASSUME IInv, NEW t \in Tabs, NEW c \in Conversations, NEW d \in Documents,
           NEW active \in 0..MaxConversations,
           d = None \/ Copy(c, d, stored', created', issued'),
           active \in Listed([view[t].shown EXCEPT ![c] = d]) \cup {0},
           Shows(t, [view[t] EXCEPT !.shown = [view[t].shown EXCEPT ![c] = d],
                                    !.active = active])
    PROVE  ShowsCopies(t)
<1> DEFINE rows == [view[t].shown EXCEPT ![c] = d]
           v == [view[t] EXCEPT !.shown = rows, !.active = active]
<1>1. rows \in [Conversations -> Documents]
      /\ \A x \in Conversations : rows[x] = IF x = c THEN d ELSE view[t].shown[x]
  BY Types DEF Views
<1> HIDE DEF rows
<1>2. v \in Views /\ v.shown = rows /\ v.active = active
  BY <1>1, Types DEF Views
<1> HIDE DEF v
<1>3. view' = [view EXCEPT ![t] = v]
  BY DEF Shows, v, rows
<1>4. active \in Listed(rows) \cup {0}
  BY DEF rows
<1> QED
  BY <1>1, <1>2, <1>3, <1>4, Types DEF ShowsCopies, Listed

LEMMA NewConversationKeeps ==
    ASSUME IInv, NEW t \in Tabs, NEW c \in Conversations, NewConversation(t, c)
    PROVE  Legals /\ IInv'
<1>1. UNCHANGED <<send, issued, left, events>> /\ c = created + 1
  BY DEF NewConversation
<1>2. SendsCopies(t)
  BY <1>1, SameSend
<1>3. CASE Cardinality(Listed(stored)) < Limit
  <2>1. Put(c, Empty) /\ created' = c
        /\ Shows(t, [view[t] EXCEPT !.shown[c] = Empty, !.active = c])
    BY <1>3 DEF NewConversation, Empty
  <2>2. created \in Nat /\ created < c /\ created <= created' /\ c \in 0..MaxConversations
        /\ created' \in 0..MaxConversations /\ issued \in Nat
    BY <1>1, <2>1, Counters, ConversationsAssumption
       DEF IInv, Conversations, ConversationsAssumption
  <2>3. stored' \in [Conversations -> Documents] /\ stored'[c] = Empty
        /\ \A x \in Conversations : x # c => stored'[x] = stored[x]
    BY <2>1, NewDocument, Types DEF Put
  <2>4. Legals
    BY <1>1, <2>1, <2>2, <2>3 DEF Legals, Legal
  <2>5. Copy(c, Empty, stored', created', issued')
    BY <1>1, <2>1, <2>2, <2>3, NewDocument DEF Copy, Empty
  <2>6. [view[t] EXCEPT !.shown[c] = Empty, !.active = c]
          = [view[t] EXCEPT !.shown = [view[t].shown EXCEPT ![c] = Empty], !.active = c]
    BY Types DEF Views
  <2>7. c \in Listed([view[t].shown EXCEPT ![c] = Empty])
    BY Types DEF Views, Listed, Empty, None
  <2>8. ShowsCopies(t)
    BY <2>1, <2>2, <2>5, <2>6, <2>7, NewDocument, ChangedShows
  <2>9. TypeOK'
    BY <1>1, <1>2, <2>2, <2>3, <2>8, Types, TypeStays
  <2> QED
    BY <1>2, <2>4, <2>8, <2>9, StepKeeps
<1>4. CASE ~(Cardinality(Listed(stored)) < Limit)
  <2>1. RefreshConversations(t) /\ UNCHANGED <<stored, created>>
    BY <1>4 DEF NewConversation
  <2>2. ShowsCopies(t)
    BY <1>1, <2>1, RefreshShows
  <2>3. TypeOK'
    BY <1>1, <1>2, <2>1, <2>2, Types, TypeStays
  <2> QED
    BY <1>1, <1>2, <2>1, <2>2, <2>3, StepKeepsRows
<1> QED
  BY <1>3, <1>4

LEMMA DeleteConversationKeeps ==
    ASSUME IInv, NEW t \in Tabs, NEW c \in Conversations, DeleteConversation(t, c)
    PROVE  Legals /\ IInv'
<1>1. UNCHANGED <<created, send, issued, left>> /\ events' \in 0..MaxEvents
  BY EventCounts DEF DeleteConversation
<1>2. SendsCopies(t)
  BY <1>1, SameSend
<1>3. CASE stored[c].revision = view[t].shown[c].revision
  <2> DEFINE rest == [view[t].shown EXCEPT ![c] = None]
  <2>1. Put(c, None)
    BY <1>3 DEF DeleteConversation
  <2>2. PICK active \in IF view[t].active = c THEN First(rest) ELSE {view[t].active} :
            Shows(t, [view[t] EXCEPT !.shown = rest, !.active = active])
    BY <1>3 DEF DeleteConversation
  <2>3. Copy(c, view[t].shown[c], stored, created, issued)
    BY DEF DeleteConversation, IInv, ViewsExact
  <2>4. stored' \in [Conversations -> Documents] /\ stored'[c] = None
        /\ \A x \in Conversations : x # c => stored'[x] = stored[x]
    BY <2>1, NoDocument, Types DEF Put
  <2>5. Legals
    BY <1>1, <2>3, <2>4, Counters DEF Legals, Legal, Copy, IInv
  <2>6. active \in Listed(rest) \cup {0}
    <3>1. view[t].active \in Listed(view[t].shown) \cup {0}
      BY DEF IInv, ViewsExact
    <3>2. \A x \in Conversations : x # c => rest[x] = view[t].shown[x]
      BY Types DEF Views
    <3> HIDE DEF rest
    <3>3. CASE view[t].active = c
      BY <2>2, <3>3, FirstIsListed
    <3>4. CASE view[t].active # c
      BY <2>2, <3>1, <3>2, <3>4 DEF Listed
    <3> QED
      BY <3>3, <3>4
  <2>7. active \in 0..MaxConversations
    BY <2>6, ConversationsAssumption DEF Listed, Conversations, ConversationsAssumption
  <2>8. ShowsCopies(t)
    BY <2>2, <2>6, <2>7, NoDocument, ChangedShows
  <2>9. TypeOK'
    BY <1>1, <1>2, <2>4, <2>8, Types, TypeStays
  <2> QED
    BY <1>2, <2>5, <2>8, <2>9, StepKeeps
<1>4. CASE stored[c].revision # view[t].shown[c].revision
  <2>1. RefreshConversations(t) /\ UNCHANGED stored
    BY <1>4 DEF DeleteConversation
  <2>2. ShowsCopies(t)
    BY <1>1, <2>1, RefreshShows
  <2>3. TypeOK'
    BY <1>1, <1>2, <2>1, <2>2, Types, TypeStays
  <2> QED
    BY <1>1, <1>2, <2>1, <2>2, <2>3, StepKeepsRows
<1> QED
  BY <1>3, <1>4

\* Of the documents with a copy, the stored ones are those.
LEMMA StoredCopies ==
    ASSUME IInv, UNCHANGED <<stored, created, issued>>, NEW c \in Conversations
    PROVE  /\ stored[c] \in Documents
           /\ stored[c] = None \/ Copy(c, stored[c], stored', created', issued')
  BY Types DEF IInv, StoredExact

\* A tab that recovered, or did not, and tries that no more.
LEMMA SpentShows ==
    ASSUME IInv, NEW t \in Tabs, NEW c \in Conversations, NEW d \in Documents,
           d = None \/ Copy(c, d, stored', created', issued'),
           NEW spent \in SUBSET (Conversations \X Nat),
           Shows(t, [Applied(t, c, d) EXCEPT !.fresh = spent])
    PROVE  ShowsCopies(t)
<1> DEFINE a == Applied(t, c, d)
           v == [a EXCEPT !.fresh = spent]
<1>1. /\ a \in Views
      /\ a.active \in Listed(a.shown) \cup {0}
      /\ \A x \in Listed(a.shown) :
             \/ a.shown[x] = view[t].shown[x]
             \/ Copy(x, a.shown[x], stored', created', issued')
  BY AppliedShows
<1> HIDE DEF a
<1>2. v \in Views /\ v.shown = a.shown /\ v.active = a.active
  BY <1>1 DEF Views
<1> HIDE DEF v
<1>3. view' = [view EXCEPT ![t] = v]
  BY DEF Shows, v, a
<1> QED
  BY <1>1, <1>2, <1>3, Types DEF ShowsCopies

LEMMA RecoverKeeps ==
    ASSUME IInv, NEW t \in Tabs, NEW c \in Conversations, Recover(t, c)
    PROVE  Legals /\ IInv'
<1> DEFINE shown == view[t].shown[c]
           answers == {m.id : m \in PendingIn(shown)}
           failed == Ended(shown, answers, "FAILED")
           spent == view[t].fresh \ {<<c, shown.revision>>}
<1>1. UNCHANGED <<created, send, issued, left, events>> /\ PendingIn(shown) # {}
  BY DEF Recover
<1>2. SendsCopies(t)
  BY <1>1, SameSend
<1>3. shown \in Documents /\ spent \in SUBSET (Conversations \X Nat)
  BY Types DEF Views
<1>4. Copy(c, shown, stored, created, issued)
  <2>1. shown # None
    BY <1>1 DEF PendingIn, None, Range
  <2> QED
    BY <2>1 DEF Listed, IInv, ViewsExact
<1>5. shown = stored[c] =>
          \A i \in DOMAIN shown.messages :
              shown.messages[i].role = "ASSISTANT" /\ shown.messages[i].id \in answers
                  => shown.messages[i].status = "PENDING"
  <2> SUFFICES ASSUME shown = stored[c], NEW i \in DOMAIN shown.messages,
                      shown.messages[i].role = "ASSISTANT", shown.messages[i].id \in answers
               PROVE  shown.messages[i].status = "PENDING"
    OBVIOUS
  <2>1. WellFormed(shown)
    BY DEF IInv, StoredExact
  <2>2. PICK m \in PendingIn(shown) : shown.messages[i].id = m.id
    OBVIOUS
  <2> HIDE DEF shown, answers
  <2>3. /\ m = shown.messages[Len(shown.messages)]
        /\ Len(shown.messages) \in DOMAIN shown.messages
        /\ m.role = "ASSISTANT"
    BY <1>3, <2>1, PendingIsLast
  <2>4. m.status = "PENDING"
    BY DEF PendingIn
  <2> QED
    BY <2>1, <2>2, <2>3, <2>4 DEF WellFormed
<1>6. CASE Accepts(c, failed)
  <2>1. Put(c, failed) /\ Shows(t, [Applied(t, c, failed) EXCEPT !.fresh = spent])
    BY <1>6 DEF Recover
  <2> HIDE DEF shown, answers, spent
  <2>2. /\ Legals /\ stored' \in [Conversations -> Documents] /\ failed \in Documents
        /\ Copy(c, failed, stored', created', issued')
    BY <1>1, <1>3, <1>4, <1>5, <1>6, <2>1, EndIsLegal DEF Endings
  <2> HIDE DEF failed
  <2>3. ShowsCopies(t)
    BY <1>3, <2>1, <2>2, SpentShows
  <2>4. TypeOK'
    BY <1>1, <1>2, <2>2, <2>3, Types, TypeStays
  <2> QED
    BY <1>2, <2>2, <2>3, <2>4, StepKeeps
<1>7. CASE ~Accepts(c, failed)
  <2>1. UNCHANGED stored /\ Shows(t, [Applied(t, c, stored[c]) EXCEPT !.fresh = spent])
    BY <1>7 DEF Recover
  <2> HIDE DEF shown, answers, spent, failed
  <2>2. ShowsCopies(t)
    BY <1>1, <1>3, <2>1, StoredCopies, SpentShows
  <2>3. TypeOK'
    BY <1>1, <1>2, <2>1, <2>2, Types, TypeStays
  <2> QED
    BY <1>1, <1>2, <2>1, <2>2, <2>3, StepKeepsRows
<1> QED
  BY <1>6, <1>7

LEMMA AskKeeps ==
    ASSUME IInv, NEW t \in Tabs, NEW c \in Conversations, NEW again \in BOOLEAN,
           Ask(t, c, again)
    PROVE  Legals /\ IInv'
<1> DEFINE d == view[t].shown[c]
           a == issued + 1
           s == [phase |-> "starting", conversation |-> c, answer |-> a,
                 held |-> Asked(d, a, again), tries |-> 0, aborted |-> FALSE, here |-> TRUE]
<1>1. /\ UNCHANGED <<stored, created, view, left, events>>
      /\ issued' = a /\ issued < MaxAnswers
      /\ Sends(t, s) /\ PendingIn(d) = {} /\ (again => Repeatable(d))
      /\ view[t].active = c
  BY DEF Ask
<1>2. d \in Documents
  BY Types DEF Views
<1>3. a \in Answers /\ issued \in Nat /\ issued' \in 0..MaxAnswers /\ issued <= issued'
  BY <1>1, Counters DEF IInv, Answers
<1>4. Copy(c, d, stored, created, issued)
  <2>1. c # 0
    BY DEF Conversations
  <2> QED
    BY <1>1, <2>1 DEF IInv, ViewsExact
<1>5. Before(d, a)
  BY <1>4 DEF Copy
<1>6. Asked(d, a, again) \in Documents
  BY <1>1, <1>2, <1>3, AskedDocument
<1>7. s \in Sendings /\ s.phase = "starting" /\ s.conversation = c /\ s.answer = a
      /\ s.held = Asked(d, a, again)
  BY <1>6, <1>3, ConversationsAssumption
     DEF Sendings, Phases, Conversations, Answers, ConversationsAssumption
<1> HIDE DEF s, d, a
<1>8. send' = [send EXCEPT ![t] = s]
  BY <1>1 DEF Sends
<1>9. TypeOK'
  BY <1>1, <1>3, <1>7, <1>8, Types DEF TypeOK
<1>10. Legals
  BY <1>1, <1>3, SameConversations
<1>11. Copy(c, d, stored', created', issued')
  BY <1>2, <1>4, <1>9, <1>10, CopyStays
<1>12. SendExact(s, stored', created', issued')
  <2>1. Asks(c, s.held, a, stored', created', issued')
    BY <1>1, <1>2, <1>5, <1>7, <1>11 DEF Asks
  <2>2. a <= issued'
    BY <1>1, <1>3
  <2> QED
    BY <1>3, <1>7, <2>1, <2>2 DEF SendExact
<1>13. SendsCopies(t)
  BY <1>7, <1>8, <1>12, Types DEF SendsCopies
<1>14. ShowsCopies(t)
  BY <1>1, SameView
<1> QED
  BY <1>9, <1>10, <1>13, <1>14, StepKeeps

LEMMA AbandonKeeps ==
    ASSUME IInv, NEW t \in Tabs, Abandon(t)
    PROVE  Legals /\ IInv'
<1>1. UNCHANGED <<stored, created, view, issued, left, events>>
  BY DEF Abandon
<1>2. SendsCopies(t)
  BY DoneSends DEF Abandon
<1>3. ShowsCopies(t)
  BY <1>1, SameView
<1>4. TypeOK'
  BY <1>1, <1>2, <1>3, Types, TypeStays
<1> QED
  BY <1>1, <1>2, <1>3, <1>4, StepKeepsRows

LEMMA FirstSaveKeeps ==
    ASSUME IInv, NEW t \in Tabs, FirstSave(t)
    PROVE  Legals /\ IInv'
<1> DEFINE c == send[t].conversation
           h == send[t].held
           a == send[t].answer
           s == [send[t] EXCEPT !.phase = "asking"]
<1>1. UNCHANGED <<created, issued, left, events>> /\ send[t].phase = "starting"
  BY DEF FirstSave
<1>2. /\ c \in Conversations /\ a \in Answers /\ a <= issued
      /\ Asks(c, h, a, stored, created, issued)
  BY <1>1 DEF IInv, SendsExact, SendExact
<1>3. CASE Accepts(c, h)
  <2>1. Put(c, h) /\ OnSaved(t, c, h) /\ Sends(t, s)
    BY <1>3 DEF FirstSave
  <2>2. /\ s \in Sendings /\ s.phase = "asking" /\ s.conversation = c /\ s.held = h
        /\ s.answer = a
    BY Types DEF Sendings, Phases
  <2> HIDE DEF s
  <2>3. PICK d \in Documents, again \in BOOLEAN :
            /\ h = Asked(d, a, again)
            /\ Copy(c, d, stored, created, issued)
            /\ Before(d, a) /\ PendingIn(d) = {}
            /\ again => Repeatable(d)
    BY <1>2 DEF Asks
  <2> HIDE DEF c, h, a
  <2>4. h \in Documents /\ h.revision = d.revision + 1
    BY <1>2, <2>3, AskedDocument
  <2>5. d = stored[c] /\ stored[c] # None
    BY <1>2, <1>3, <2>3, <2>4, Accepted
  <2>6. WellFormed(d)
    BY <1>2, <2>5 DEF IInv, StoredExact
  <2>7. /\ WellFormed(h) /\ Continues(d.messages, h.messages)
        /\ Before(h, a + 1) /\ Open(h, a)
    BY <1>2, <2>3, <2>6, AskedKeeps
  <2>8. Before(h, issued + 1)
    BY <1>2, <2>4, <2>7, Counters, BeforeMore DEF IInv, Answers
  <2>9. /\ Legals /\ stored' \in [Conversations -> Documents]
        /\ Copy(c, h, stored', created', issued')
    BY <1>1, <1>2, <2>1, <2>4, <2>5, <2>7, <2>8, PutIsLegal
  <2>10. ShowsCopies(t)
    BY <1>2, <2>1, <2>4, <2>9, OnSavedShows
  <2>11. SendExact(s, stored', created', issued')
    BY <1>1, <1>2, <2>2, <2>7, <2>9 DEF SendExact
  <2>12. SendsCopies(t)
    BY <2>1, <2>2, <2>11, Types DEF SendsCopies, Sends
  <2>13. TypeOK'
    BY <1>1, <2>9, <2>10, <2>12, Types, TypeStays
  <2> QED
    BY <2>9, <2>10, <2>12, <2>13, StepKeeps
<1>4. CASE ~Accepts(c, h)
  <2>1. OnSaved(t, c, stored[c]) /\ Done(t) /\ UNCHANGED stored
    BY <1>4 DEF FirstSave
  <2> HIDE DEF c
  <2>2. ShowsCopies(t)
    BY <1>1, <1>2, <2>1, StoredCopies, OnSavedShows
  <2>3. SendsCopies(t)
    BY <2>1, DoneSends
  <2>4. TypeOK'
    BY <1>1, <2>1, <2>2, <2>3, Types, TypeStays
  <2> QED
    BY <1>1, <2>1, <2>2, <2>3, <2>4, StepKeepsRows
<1> QED
  BY <1>3, <1>4

\* A request goes on, with nothing stored.
LEMMA RequestGoesOn ==
    ASSUME IInv, NEW t \in Tabs, UNCHANGED <<stored, created, view, issued, left, events>>,
           NEW phase, phase \in {"answering", "failing"},
           phase = "answering" => send[t].phase = "asking",
           send[t].phase \in {"asking", "answering"},
           Sends(t, [send[t] EXCEPT !.phase = phase])
    PROVE  Legals /\ IInv'
<1> DEFINE s == [send[t] EXCEPT !.phase = phase]
<1>1. /\ s \in Sendings /\ s.conversation = send[t].conversation /\ s.held = send[t].held
      /\ s.answer = send[t].answer /\ s.phase = phase
  BY Types DEF Sendings, Phases
<1>2. Sends(t, s)
  OBVIOUS
<1> HIDE DEF s
<1>3. SendsCopies(t)
  BY <1>1, <1>2, SameRequest
<1>4. ShowsCopies(t)
  BY SameView
<1>5. TypeOK'
  BY <1>3, <1>4, Types, TypeStays
<1> QED
  BY <1>3, <1>4, <1>5, StepKeepsRows

LEMMA RespondKeeps ==
    ASSUME IInv, NEW t \in Tabs, Respond(t)
    PROVE  Legals /\ IInv'
  BY RequestGoesOn DEF Respond

LEMMA RefuseKeeps ==
    ASSUME IInv, NEW t \in Tabs, Refuse(t)
    PROVE  Legals /\ IInv'
  BY RequestGoesOn DEF Refuse

LEMMA SaveAnswerKeeps ==
    ASSUME IInv, NEW t \in Tabs, SaveAnswer(t)
    PROVE  Legals /\ IInv'
<1> DEFINE c == send[t].conversation
           h == send[t].held
           a == send[t].answer
           final == Ended(h, {a}, "SUCCEEDED")
<1>1. UNCHANGED <<created, issued, left, events>> /\ send[t].phase = "answering"
  BY DEF SaveAnswer
<1>2. c \in Conversations /\ Copy(c, h, stored, created, issued) /\ Open(h, a)
  BY <1>1 DEF IInv, SendsExact, SendExact
<1>3. h \in Documents
  BY Types DEF Sendings
<1>4. CASE Accepts(c, final)
  <2>1. Put(c, final) /\ OnSaved(t, c, final) /\ Done(t)
    BY <1>4 DEF SaveAnswer
  <2> HIDE DEF c, h, a
  <2>2. \A i \in DOMAIN h.messages :
            h.messages[i].role = "ASSISTANT" /\ h.messages[i].id \in {a}
                => h.messages[i].status = "PENDING"
    BY <1>2 DEF Open
  <2>3. /\ Legals /\ stored' \in [Conversations -> Documents] /\ final \in Documents
        /\ Copy(c, final, stored', created', issued')
    BY <1>1, <1>2, <1>3, <1>4, <2>1, <2>2, EndIsLegal DEF Endings
  <2> HIDE DEF final
  <2>4. ShowsCopies(t)
    BY <1>2, <2>1, <2>3, OnSavedShows
  <2>5. SendsCopies(t)
    BY <2>1, DoneSends
  <2>6. TypeOK'
    BY <1>1, <2>3, <2>4, <2>5, Types, TypeStays
  <2> QED
    BY <2>3, <2>4, <2>5, <2>6, StepKeeps
<1>5. CASE ~Accepts(c, final)
  <2>1. Sends(t, [send[t] EXCEPT !.phase = "failing"]) /\ UNCHANGED <<stored, view>>
    BY <1>5 DEF SaveAnswer
  <2> QED
    BY <1>1, <2>1, RequestGoesOn
<1> QED
  BY <1>4, <1>5

LEMMA SaveFailureKeeps ==
    ASSUME IInv, NEW t \in Tabs, SaveFailure(t)
    PROVE  Legals /\ IInv'
<1> DEFINE c == send[t].conversation
           h == send[t].held
           a == send[t].answer
           failed == Ended(h, {a}, "FAILED")
           wanted == Answer(a, "PENDING") \in Range(h.messages)
<1>1. UNCHANGED <<created, issued, left, events>> /\ send[t].phase = "failing"
  BY DEF SaveFailure
<1>2. /\ c \in Conversations /\ Copy(c, h, stored, created, issued)
      /\ a \in Answers /\ a <= issued
  BY <1>1 DEF IInv, SendsExact, SendExact
<1>3. h \in Documents
  BY Types DEF Sendings
<1>4. CASE OnSaved(t, c, h) /\ Done(t) /\ UNCHANGED stored
  <2> HIDE DEF c, h
  <2>1. ShowsCopies(t)
    BY <1>1, <1>2, <1>3, <1>4, OnSavedShows
  <2>2. SendsCopies(t)
    BY <1>4, DoneSends
  <2>3. TypeOK'
    BY <1>1, <1>4, <2>1, <2>2, Types, TypeStays
  <2> QED
    BY <1>1, <1>4, <2>1, <2>2, <2>3, StepKeepsRows
<1>5. CASE wanted /\ Accepts(c, failed) /\ Put(c, failed) /\ OnSaved(t, c, failed) /\ Done(t)
  <2>1. h = stored[c] =>
            \A i \in DOMAIN h.messages :
                h.messages[i].role = "ASSISTANT" /\ h.messages[i].id \in {a}
                    => h.messages[i].status = "PENDING"
    <3> SUFFICES ASSUME h = stored[c], NEW i \in DOMAIN h.messages,
                        h.messages[i].role = "ASSISTANT", h.messages[i].id = a
                 PROVE  h.messages[i].status = "PENDING"
      OBVIOUS
    <3>1. WellFormed(h)
      BY <1>2 DEF IInv, StoredExact
    <3>2. PICK j \in DOMAIN h.messages : h.messages[j] = Answer(a, "PENDING")
      BY <1>5 DEF Range
    <3> HIDE DEF h, a
    <3>3. h.messages[j].id = a /\ h.messages[j].role = "ASSISTANT"
          /\ h.messages[j].status = "PENDING"
      BY <3>2 DEF Answer
    <3> QED
      BY <3>1, <3>3 DEF WellFormed
  <2> HIDE DEF c, h, a
  <2>2. /\ Legals /\ stored' \in [Conversations -> Documents] /\ failed \in Documents
        /\ Copy(c, failed, stored', created', issued')
    BY <1>1, <1>2, <1>3, <1>5, <2>1, EndIsLegal DEF Endings
  <2> HIDE DEF failed
  <2>3. ShowsCopies(t)
    BY <1>2, <1>5, <2>2, OnSavedShows
  <2>4. SendsCopies(t)
    BY <1>5, DoneSends
  <2>5. TypeOK'
    BY <1>1, <2>2, <2>3, <2>4, Types, TypeStays
  <2> QED
    BY <2>2, <2>3, <2>4, <2>5, StepKeeps
<1>6. CASE /\ OnSaved(t, c, stored[c]) /\ UNCHANGED stored
           /\ IF stored[c] = None \/ send[t].tries + 1 = MaxTries THEN Done(t)
              ELSE Sends(t, [send[t] EXCEPT !.held = stored[c], !.tries = send[t].tries + 1])
  <2> DEFINE s == [send[t] EXCEPT !.held = stored[c], !.tries = send[t].tries + 1]
  <2>1. stored[c] \in Documents
        /\ (stored[c] = None \/ Copy(c, stored[c], stored', created', issued'))
    BY <1>1, <1>2, <1>6, StoredCopies
  <2>2. ShowsCopies(t)
    BY <1>2, <1>6, <2>1, OnSavedShows
  <2>3. SendsCopies(t)
    <3>1. CASE Done(t)
      BY <3>1, DoneSends
    <3>2. CASE stored[c] # None /\ Sends(t, s)
      <4>1. /\ s \in Sendings /\ s.phase = "failing" /\ s.conversation = c
            /\ s.held = stored[c] /\ s.answer = a
        <5>1. send[t] \in Sendings /\ send[t].tries + 1 \in Nat
          BY Types DEF Sendings
        <5>2. s = [send[t] EXCEPT !.held = stored[c], !.tries = send[t].tries + 1]
          OBVIOUS
        <5> HIDE DEF s
        <5> QED
          BY <1>1, <2>1, <5>1, <5>2 DEF Sendings
      <4> HIDE DEF s, c, a
      <4>2. SendExact(s, stored', created', issued')
        BY <1>1, <1>2, <2>1, <3>2, <4>1 DEF SendExact
      <4> QED
        BY <3>2, <4>1, <4>2, Types DEF SendsCopies, Sends
    <3> QED
      BY <1>6, <3>1, <3>2
  <2>4. TypeOK'
    BY <1>1, <1>6, <2>2, <2>3, Types, TypeStays
  <2> QED
    BY <1>1, <1>6, <2>2, <2>3, <2>4, StepKeepsRows
<1> QED
  BY <1>4, <1>5, <1>6 DEF SaveFailure

LEMMA StorageFailsKeeps ==
    ASSUME IInv, NEW t \in Tabs, StorageFails(t)
    PROVE  Legals /\ IInv'
<1>1. UNCHANGED <<stored, created, view, issued>> /\ events' \in 0..MaxEvents
  BY EventCounts DEF StorageFails
<1>2. SendsCopies(t)
  BY DoneSends DEF StorageFails
<1>3. ShowsCopies(t)
  BY <1>1, SameView
<1>4. send[t].answer \in Answers
  BY DEF StorageFails, IInv, SendsExact, SendExact
<1>5. left' \subseteq Answers
  BY <1>4, Types DEF StorageFails
<1>6. TypeOK'
  BY <1>1, <1>2, <1>3, <1>5, Types, TypeStays
<1> QED
  BY <1>1, <1>2, <1>3, <1>6, StepKeepsRows

LEMMA NextKeeps ==
    ASSUME IInv, [Next]_vars
    PROVE  Legals /\ IInv'
<1>1. CASE UNCHANGED vars
  <2>1. UNCHANGED <<stored, created, view, send, issued, left, events>>
    BY <1>1 DEF vars
  <2>2. IInv'
    BY <2>1 DEF IInv, TypeOK, StoredExact, ViewsExact, SendsExact, Listed
  <2>3. Legals
    BY <2>1, SameConversations, Counters DEF IInv
  <2> QED
    BY <2>2, <2>3
<1>2. ASSUME NEW t \in Tabs, User(t)
      PROVE  Legals /\ IInv'
  BY <1>2, LoadKeeps, LeaveKeeps, CloseTabKeeps, CancelKeeps, SelectConversationKeeps,
     NewConversationKeeps, DeleteConversationKeeps, AskKeeps DEF User
<1>3. ASSUME NEW t \in Tabs, SendChatMessage(t)
      PROVE  Legals /\ IInv'
  BY <1>3, AbandonKeeps, FirstSaveKeeps, RespondKeeps, RefuseKeeps, SaveAnswerKeeps,
     SaveFailureKeeps DEF SendChatMessage
<1>4. ASSUME NEW t \in Tabs,
             StorageFails(t) \/ \E c \in Conversations : Recover(t, c)
      PROVE  Legals /\ IInv'
  BY <1>4, StorageFailsKeeps, RecoverKeeps
<1> QED
  BY <1>1, <1>2, <1>3, <1>4 DEF Next

LEMMA InitHolds ==
    ASSUME Init
    PROVE  IInv
<1>1. 0 \in 0..MaxConversations /\ 0 \in 0..MaxAnswers /\ 0 \in 0..MaxEvents
  BY ConversationsAssumption DEF ConversationsAssumption
<1>2. TypeOK
  BY <1>1, NoDocument, BlankIsView, IdleIsExact DEF Init, TypeOK
<1>3. StoredExact
  BY NoDocument DEF Init, StoredExact
<1>4. ViewsExact
  BY BlankIsView DEF Init, ViewsExact
<1>5. SendsExact
  BY IdleIsExact DEF Init, SendsExact
<1> QED
  BY <1>2, <1>3, <1>4, <1>5 DEF IInv

-----------------------------------------------------------------------------
(* Theorems                                                                  *)

\* In every reachable state what is stored, shown and being sent is right in itself and to
\* each other: every save of chatService.ts, ChatProvider.tsx and repository.ts keeps this.
THEOREM InvariantHolds == Spec => []IInv
<1>1. Init => IInv
  BY InitHolds
<1>2. IInv /\ [Next]_vars => IInv'
  BY NextKeeps
<1> QED
  BY <1>1, <1>2, PTL DEF Spec

\* Every variable of the conversations has its type.
THEOREM TypesHold == Spec => []TypeOK
<1>1. IInv => TypeOK
  BY DEF IInv
<1> QED
  BY <1>1, InvariantHolds, PTL

\* A stored conversation is a row of questions, each with one answer, and only the last is
\* waited for, whatever the tabs that save it (saveChatConversation checks revisions alone).
THEOREM AnswersHold == Spec => []OneAnswerEach
<1>1. IInv => OneAnswerEach
  BY DEF IInv, StoredExact, WellFormed, OneAnswerEach
<1> QED
  BY <1>1, InvariantHolds, PTL

\* What a tab shows under the stored revision (applySaved, refreshConversations) is what is
\* stored, and it shows no revision that was not stored.
THEOREM ViewsHold == Spec => []ShowsStored
<1>1. IInv => ShowsStored
  BY DEF IInv, ViewsExact, Copy, ShowsStored
<1> QED
  BY <1>1, InvariantHolds, PTL

\* Messages stay, with their endings, in every conversation that is not deleted, and a deleted
\* one stays deleted, through every save of sendChatMessage and recoverInterruptedConversation.
THEOREM HistoryHolds == Spec => HistoryStays
<1> DEFINE Keeps ==
        \A c \in Conversations :
            /\ c <= created /\ stored[c] = None => stored'[c] = None
            /\ stored[c] # None /\ stored'[c] # None
                   => Continues(stored[c].messages, stored'[c].messages)
<1>1. IInv /\ [Next]_vars => Legals /\ IInv'
  BY NextKeeps
<1>2. IInv /\ [Next]_vars => [Keeps]_vars
  <2> SUFFICES ASSUME IInv, [Next]_vars
               PROVE  Keeps
    OBVIOUS
  <2>1. Legals /\ IInv /\ TypeOK'
    BY <1>1 DEF IInv
  <2> QED
    BY <2>1, HistoryStep
<1> QED
  BY <1>2, InvariantHolds, PTL DEF Spec, HistoryStays
=============================================================================
