--------------------------- MODULE Conversations ---------------------------
(***************************************************************************)
(* What users say to each other and how they hear of it: the conversation  *)
(* of a drawn raffle between its winner and its seller                     *)
(* (messaging.service.ts), the public questions of an active raffle        *)
(* (questions.service.ts), and the notifications that both produce         *)
(* (notifications.service.ts).  The messages page polls the conversation   *)
(* it shows every five seconds; the bell polls, and is also refetched when *)
(* a subscription event gets through, which nothing guarantees.            *)
(***************************************************************************)
EXTENDS Clients

CONSTANTS
    MaxMessages, MaxQuestions   \* bounds: messages and questions created

ASSUME TalkAssumption == MaxMessages \in Nat /\ MaxQuestions \in Nat

Winner == 1
Seller == 2
Parties == {Winner, Seller}
Other(u) == 3 - u
MessageIds == 1 .. MaxMessages
QuestionIds == 1 .. MaxQuestions

VARIABLES
    conversation,       \* the raffle's conversation: none, open or closed
    sender, isRead,     \* per message: its sender (0: no message), isRead
    fetch,              \* per party: the page's query under way
    shown,              \* per party: the messages its page shows
    listed,             \* the raffle of the questions is active and visible
    question,           \* per question: none, asked, answered or deleted
    notes, readNotes,   \* notifications; those marked as read
    bell,               \* per party: the notifications its bell shows
    unnoticed           \* ghost: what was said by a handler lost to a crash

messageVars == <<conversation, sender, isRead>>
pageVars == <<fetch, shown>>
noteVars == <<notes, readNotes, bell>>
questionVars == <<listed, question>>
talkVars == <<messageVars, pageVars, questionVars, noteVars, unnoticed>>
vars == <<clientVars, talkVars>>

NoFetch == [pc |-> "idle", ids |-> {}]
Messages == {m \in MessageIds : sender[m] # 0}
FreeMessage == {m \in MessageIds \ Messages : \A k \in 1 .. m - 1 : k \in Messages}
FreeQuestion == {q \in QuestionIds : /\ question[q] = "none"
                                     /\ \A k \in 1 .. q - 1 : question[k] # "none"}
Note(to, about, id) == [to |-> to, about |-> about, id |-> id]
Notes == [to : Parties, about : {"message", "question", "answer"},
          id : MessageIds \cup QuestionIds]

\* What a request that has stored its text still has to announce.
Announcement(r) ==
    IF r.op \in {"startConversation", "sendMessage"}
    THEN Note(Other(r.by), "message", r.id)
    ELSE IF r.op = "askQuestion" THEN Note(Seller, "question", r.id)
    ELSE Note(Winner, "answer", r.id)

-----------------------------------------------------------------------------
(* Conversation *)

Say(op, pc, u) == [NoReq EXCEPT !.op = op, !.pc = pc, !.by = u]

Store(t, m, pc) ==
    /\ sender' = [sender EXCEPT ![m] = req[t].by]
    /\ req' = [req EXCEPT ![t].pc = pc, ![t].id = m]
    /\ UNCHANGED <<budget, ghostVars, isRead, pageVars, questionVars, noteVars,
                   unnoticed>>

\* The sales and tickets pages start the conversation; one that exists already
\* gets the message as another one (sendMessage).
startConversationRead(t) ==
    /\ conversation = "none"
    /\ \E u \in Parties :
          Start(t, "talk", "talk", Say("startConversation", "found", u))
    /\ UNCHANGED talkVars

\* raffleId is unique: the second of two creations throws.
startConversation(t) ==
    /\ At(t, "startConversation", "found")
    /\ IF conversation # "none"
       THEN Done(t) /\ UNCHANGED talkVars
       ELSE /\ conversation' = "open"
            /\ \E m \in FreeMessage : Store(t, m, "stored")

\* The form is disabled when the page shows a closed conversation.
sendMessageRead(t) ==
    /\ conversation = "open"
    /\ \E u \in Parties :
          Start(t, "talk", "talk", Say("sendMessage", "found", u))
    /\ UNCHANGED talkVars

\* The message, then the conversation's date, which orders the list.
sendMessage(t) ==
    /\ At(t, "sendMessage", "found")
    /\ \E m \in FreeMessage : Store(t, m, "stored")
    /\ UNCHANGED conversation

closeConversation(t) ==
    /\ conversation \in {"open", "closed"} /\ req[t] = NoReq
    /\ budget["talk"] > 0
    /\ budget' = [budget EXCEPT !["talk"] = @ - 1]
    /\ conversation' = "closed"
    /\ UNCHANGED <<req, ghostVars, sender, isRead, pageVars, questionVars, noteVars,
                   unnoticed>>

-----------------------------------------------------------------------------
(* Questions on an active raffle of the seller *)

\* The raffle is drawn, cancelled or hidden (RaffleSale, Listings).
unlist ==
    /\ listed /\ budget["talk"] > 0
    /\ budget' = [budget EXCEPT !["talk"] = @ - 1]
    /\ listed' = FALSE
    /\ UNCHANGED <<messageVars, pageVars, question, noteVars, unnoticed, req, ghostVars>>

\* The form is there for who is signed in and not the seller, while the raffle
\* is active.
canAsk(u) == listed /\ u # Seller

askQuestionRead(t) ==
    /\ canAsk(Winner)
    /\ Start(t, "talk", "talk", Say("askQuestion", "found", Winner))
    /\ UNCHANGED talkVars

askQuestion(t) ==
    /\ At(t, "askQuestion", "found")
    /\ \E q \in FreeQuestion :
          /\ question' = [question EXCEPT ![q] = "asked"]
          /\ req' = [req EXCEPT ![t].pc = "stored", ![t].id = q]
    /\ UNCHANGED <<budget, ghostVars, listed, messageVars, pageVars, noteVars,
                   unnoticed>>

\* Each question without an answer offers its seller the form for one, on a
\* raffle that is no longer active too.
canAnswer(u) == {q \in QuestionIds : question[q] = "asked" /\ u = Seller}

answerQuestionRead(t) ==
    /\ \E q \in canAnswer(Seller) :
          Start(t, "talk", "talk",
                [Say("answerQuestion", "found", Seller) EXCEPT !.id = q])
    /\ UNCHANGED talkVars

\* questionId is unique among the answers and refers to the question: a second
\* answer, or one to a question deleted meanwhile, throws.
answerQuestion(t) ==
    /\ At(t, "answerQuestion", "found")
    /\ IF question[req[t].id] # "asked"
       THEN Done(t) /\ UNCHANGED question
       ELSE /\ question' = [question EXCEPT ![req[t].id] = "answered"]
            /\ To(t, "stored")
    /\ UNCHANGED <<listed, messageVars, pageVars, noteVars, unnoticed>>

\* The asker or an administrator deletes the question with its answer.
deleteQuestion(t) ==
    /\ req[t] = NoReq /\ budget["talk"] > 0
    /\ \E q \in QuestionIds :
          /\ question[q] \in {"asked", "answered"}
          /\ question' = [question EXCEPT ![q] = "deleted"]
    /\ budget' = [budget EXCEPT !["talk"] = @ - 1]
    /\ UNCHANGED <<req, ghostVars, listed, messageVars, pageVars, noteVars,
                   unnoticed>>

-----------------------------------------------------------------------------
(* Notifications *)

\* NotificationsService.create; for questions the mail goes first and its
\* failure is caught in sendEmail.
notify(t) ==
    /\ req[t].pc = "stored" /\ req[t].group = "talk"
    /\ notes' = notes \cup {Announcement(req[t])}
    /\ Done(t)
    /\ UNCHANGED <<readNotes, bell, messageVars, pageVars, questionVars, unnoticed>>

\* The bell's query: polled, or refetched on an event or after a mutation.
refetchBell(u) ==
    /\ bell[u] # {n \in notes : n.to = u}
    /\ bell' = [bell EXCEPT ![u] = {n \in notes : n.to = u}]
    /\ UNCHANGED <<notes, readNotes, messageVars, pageVars, questionVars, unnoticed,
                   clientVars>>

\* The badge counts them; each has a button, and so has the whole list.
unread(u) == bell[u] \ readNotes

markAsRead(u) ==
    /\ budget["talk"] > 0 /\ budget' = [budget EXCEPT !["talk"] = @ - 1]
    /\ \E n \in unread(u) : readNotes' = readNotes \cup {n}
    /\ UNCHANGED <<notes, bell, messageVars, pageVars, questionVars, unnoticed,
                   req, ghostVars>>

\* The button is shown with unread notifications and marks all that are stored,
\* those the bell does not show yet included.
markAllAsRead(u) ==
    /\ budget["talk"] > 0 /\ budget' = [budget EXCEPT !["talk"] = @ - 1]
    /\ unread(u) # {}
    /\ readNotes' = readNotes \cup {n \in notes : n.to = u}
    /\ UNCHANGED <<notes, bell, messageVars, pageVars, questionVars, unnoticed,
                   req, ghostVars>>

-----------------------------------------------------------------------------
(* The messages page of each party, with the conversation selected *)

getConversationRead(u) ==
    /\ conversation # "none" /\ fetch[u].pc = "idle"
    /\ Messages # shown[u]
    /\ fetch' = [fetch EXCEPT ![u] = [pc |-> "read", ids |-> Messages]]
    /\ UNCHANGED <<shown, messageVars, questionVars, noteVars, unnoticed, clientVars>>

\* Every message of the other side is marked, not only the ones that were read.
getConversationMark(u) ==
    /\ fetch[u].pc = "read"
    /\ isRead' = isRead \cup {m \in Messages : sender[m] # u}
    /\ fetch' = [fetch EXCEPT ![u].pc = "marked"]
    /\ UNCHANGED <<conversation, sender, shown, questionVars, noteVars, unnoticed,
                   clientVars>>

MutGetConversationAnswer(u) ==
    /\ fetch[u].pc = "marked"
    /\ shown' = [shown EXCEPT ![u] = {m \in fetch[u].ids : sender[m] = u}]
    /\ fetch' = [fetch EXCEPT ![u] = NoFetch]
    /\ UNCHANGED <<messageVars, questionVars, noteVars, unnoticed, clientVars>>

getConversationAnswer(u) ==
    /\ fetch[u].pc = "marked"
    /\ shown' = [shown EXCEPT ![u] = fetch[u].ids]
    /\ fetch' = [fetch EXCEPT ![u] = NoFetch]
    /\ UNCHANGED <<messageVars, questionVars, noteVars, unnoticed, clientVars>>

-----------------------------------------------------------------------------
\* A crash loses the queries too; the pages ask again.
Stop ==
    /\ StopBackend
    /\ fetch' = [u \in Parties |-> NoFetch]
    /\ unnoticed' = unnoticed \cup
          {Announcement(req[t]) : t \in {b \in Busy("talk") : req[b].pc = "stored"}}
    /\ UNCHANGED <<messageVars, shown, questionVars, noteVars>>

Init ==
    /\ ClientsInit
    /\ conversation = "none"
    /\ sender = [m \in MessageIds |-> 0] /\ isRead = {}
    /\ fetch = [u \in Parties |-> NoFetch] /\ shown = [u \in Parties |-> {}]
    /\ listed = TRUE /\ question = [q \in QuestionIds |-> "none"]
    /\ notes = {} /\ readNotes = {} /\ bell = [u \in Parties |-> {}]
    /\ unnoticed = {}

\* The steps of a request that is under way.
TalkGoesOn(t) ==
    \/ startConversation(t) \/ sendMessage(t)
    \/ askQuestion(t) \/ answerQuestion(t) \/ notify(t)

TalkStep(t) ==
    \/ startConversationRead(t) \/ sendMessageRead(t) \/ closeConversation(t)
    \/ askQuestionRead(t) \/ answerQuestionRead(t) \/ deleteQuestion(t)
    \/ TalkGoesOn(t)

Polls(u) ==
    \/ getConversationRead(u) \/ getConversationMark(u) \/ getConversationAnswer(u)

Next ==
    \/ \E t \in Tabs : TalkStep(t)
    \/ \E u \in Parties :
          Polls(u) \/ refetchBell(u) \/ markAsRead(u) \/ markAllAsRead(u)
    \/ unlist \/ Stop

Spec == Init /\ [][Next]_vars

\* A handler that runs goes on, the messages page polls the conversation it
\* shows and the bell its notifications; nobody has to write or to ask.
FairSpec ==
    /\ Spec
    /\ \A t \in Tabs : WF_vars(TalkGoesOn(t))
    /\ \A u \in Parties : WF_vars(Polls(u)) /\ WF_vars(refetchBell(u))

-----------------------------------------------------------------------------
(* Properties *)

TalkTypeOK ==
    /\ conversation \in {"none", "open", "closed"}
    /\ sender \in [MessageIds -> {0} \cup Parties] /\ isRead \subseteq MessageIds
    /\ fetch \in [Parties -> [pc : {"idle", "read", "marked"},
                              ids : SUBSET MessageIds]]
    /\ shown \in [Parties -> SUBSET MessageIds]
    /\ listed \in BOOLEAN
    /\ question \in [QuestionIds -> {"none", "asked", "answered", "deleted"}]
    /\ notes \subseteq Notes /\ readNotes \subseteq notes
    /\ bell \in [Parties -> SUBSET notes]
    /\ unnoticed \subseteq Notes

\* A message that is stored is in the end shown to the other side, although the
\* query that marked it as read may not have fetched it, and its recipient, like
\* the asker of an answered question, finds the notification in the bell,
\* although queries and subscription events get lost; only a crash between the
\* text and its notification loses the latter.
TalkArrives ==
    /\ \A m \in MessageIds, u \in Parties :
          (sender[m] = Other(u))
             ~> /\ m \in shown[u]
                /\ Note(u, "message", m) \in bell[u] \cup unnoticed
    /\ \A q \in QuestionIds :
          (question[q] = "answered")
             ~> (Note(Winner, "answer", q) \in bell[Winner] \cup unnoticed)
=============================================================================
