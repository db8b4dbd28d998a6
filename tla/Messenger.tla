----------------------------- MODULE Messenger -----------------------------
(***************************************************************************)
(* messenger_service: chats, their members and their messages, all in the   *)
(* first shard. ChatHandler and MessageHandler serve requests in many       *)
(* threads; every statement is a transaction of its own, so a request that  *)
(* needs two of them can be overtaken, or fail, between them.               *)
(*                                                                         *)
(* Who makes a request is what authRequest came to (module AuthCalls);      *)
(* here it is any user id. Rows are never changed or deleted, so the tables  *)
(* Chat and Message are sequences and an AUTO_INCREMENT id is a position.   *)
(***************************************************************************)
EXTENDS Integers, Sequences, FiniteSets

CONSTANTS
  UserIds,      \* the ids auth_service hands out
  Texts,        \* what messages say
  Garbage,      \* an uninitialized long that is no user's id
  None,         \* no job, no answer
  Refusals,     \* the statuses answered without a statement: 400, 401, 404, 500
  Threads,      \* the threads of messenger_service's HTTPServer
  MaxChats,     \* bound: rows of Chat
  MaxMessages,  \* bound: rows of Message
  MaxFaults     \* bound: failed statements and crashes

ChatIds    == 1..MaxChats     \* also the chat ids clients name, existing or not
MessageIds == 1..MaxMessages

ASSUME BoundAssumption == /\ MaxChats \in Nat
                          /\ MaxMessages \in Nat
                          /\ MaxFaults \in Nat
ASSUME GarbageAssumption == Garbage \notin UserIds
ASSUME ThreadsAssumption == IsFiniteSet(Threads)   \* the server has a thread pool

VARIABLES
  chats,     \* chats[c]: the creator_id of chat c
  members,   \* table UserToChat: pairs of a chat id and a user id
  messages,  \* messages[m]: chat, user and text of message m
  at,        \* at[t]: the statement thread t is about to execute
  job,       \* job[t]: the request it serves or has served last
  session,   \* session[t]: LAST_INSERT_ID() of the session it holds
  chatId,    \* chatId[t]: the chat's _id, once read back
  answer,    \* answer[t]: the answer to the last request
  failed,    \* history: a statement of the request failed
  known,     \* history: what had been confirmed when the request came in
  confirmed, \* history: every row a client was answered 200 for
  faults     \* how many faults have happened

tableVars  == <<chats, members, messages>>
threadVars == <<at, job, session, chatId, answer, failed, known>>
vars == <<tableVars, threadVars, confirmed, faults>>

Message == [chat : ChatIds, user : UserIds, text : Texts]

Jobs == [op : {"create"}, user : UserIds]
          \cup [op : {"addMember"}, chat : ChatIds, user : UserIds]
          \cup [op : {"chats"}, user : UserIds]
          \cup [op : {"chat", "messages"}, chat : ChatIds]
          \cup [op : {"post"}, chat : ChatIds, user : UserIds, text : Texts]

Statements == {"Chat", "ChatId", "UserToChat", "Message", "MessageId", "select"}

Facts == [kind : {"chat"}, id : ChatIds]
           \cup [kind : {"member"}, chat : ChatIds, user : UserIds]
           \cup [kind : {"message"}, id : MessageIds]

Answers == [status : {200}, id : Nat]
             \cup [status : {200}, creator : UserIds]
             \cup [status : {200}, list : SUBSET ChatIds,
                   creator : UserIds \cup {Garbage}]
             \cup [status : {200}, list : SUBSET MessageIds]
             \cup [status : {200, 404, 422, 500} \cup Refusals]

TypeOK ==
  /\ chats \in Seq(UserIds) /\ Len(chats) <= MaxChats
  /\ members \subseteq ChatIds \X UserIds
  /\ messages \in Seq(Message) /\ Len(messages) <= MaxMessages
  /\ at \in [Threads -> Statements \cup {"idle"}]
  /\ job \in [Threads -> Jobs \cup {None}]
  /\ session \in [Threads -> Nat]
  /\ chatId \in [Threads -> ChatIds \cup {0}]
  /\ answer \in [Threads -> Answers \cup {None}]
  /\ failed \in [Threads -> BOOLEAN]
  /\ known \in [Threads -> SUBSET Facts]
  /\ confirmed \subseteq Facts
  /\ faults \in 0..MaxFaults

Init ==
  /\ chats = <<>>
  /\ members = {}
  /\ messages = <<>>
  /\ at = [t \in Threads |-> "idle"]
  /\ job = [t \in Threads |-> None]
  /\ session = [t \in Threads |-> 0]
  /\ chatId = [t \in Threads |-> 0]
  /\ answer = [t \in Threads |-> None]
  /\ failed = [t \in Threads |-> FALSE]
  /\ known = [t \in Threads |-> {}]
  /\ confirmed = {}
  /\ faults = 0

Fault == faults < MaxFaults /\ faults' = faults + 1

\* Bounds the rows of a table: those in it and those about to be inserted.
Room(rows, statement, max) ==
  Len(rows) + Cardinality({t \in Threads : at[t] = statement}) < max

-----------------------------------------------------------------------------
(***************************************************************************)
(* A request and its answer                                                *)
(***************************************************************************)

\* authRequest succeeded and the parameters are there: the first statement is
\* next.
Receive(t, j, first) ==
  /\ at[t] = "idle"
  /\ at' = [at EXCEPT ![t] = first]
  /\ job' = [job EXCEPT ![t] = j]
  /\ answer' = [answer EXCEPT ![t] = None]
  /\ failed' = [failed EXCEPT ![t] = FALSE]
  /\ known' = [known EXCEPT ![t] = confirmed]
  /\ UNCHANGED <<tableVars, session, chatId, confirmed, faults>>

\* auth_service does not confirm the user, or cannot be reached (401), its
\* answer is cut off or the request has no credentials (500), a parameter is
\* missing (400) or the path leads nowhere (404).
Refuse(t, status) ==
  /\ at[t] = "idle"
  /\ job' = [job EXCEPT ![t] = None]
  /\ answer' = [answer EXCEPT ![t] = [status |-> status]]
  /\ UNCHANGED <<tableVars, at, session, chatId, failed, known, confirmed, faults>>

\* The answer a, which tells the client of the facts in told, ends the request.
Send(t, a, told) ==
  /\ at' = [at EXCEPT ![t] = "idle"]
  /\ answer' = [answer EXCEPT ![t] = a]
  /\ session' = [session EXCEPT ![t] = 0]
  /\ chatId' = [chatId EXCEPT ![t] = 0]
  /\ confirmed' = confirmed \cup told

\* The request goes on with another statement.
Continue(t, next) ==
  /\ at' = [at EXCEPT ![t] = next]
  /\ UNCHANGED <<answer, confirmed>>

-----------------------------------------------------------------------------
(***************************************************************************)
(* ChatHandler                                                             *)
(***************************************************************************)
Create(t, u) ==
  /\ Room(chats, "Chat", MaxChats)
  /\ Receive(t, [op |-> "create", user |-> u], "Chat")

\* The INSERT of Chat::save_to_mysql.
InsertChat(t) ==
  /\ at[t] = "Chat"
  /\ chats' = Append(chats, job[t].user)
  /\ session' = [session EXCEPT ![t] = Len(chats) + 1]
  /\ Continue(t, "ChatId")
  /\ UNCHANGED <<members, messages, job, chatId, failed, known, faults>>

\* Variants with a plausible bug: SELECT MAX(id) is not the session's own id;
\* the counter of SHOW TABLE STATUS is the next id; the creator is not made a
\* member.
SelectMaxChatId(t) ==
  /\ at[t] = "ChatId"
  /\ chatId' = [chatId EXCEPT ![t] = Len(chats)]
  /\ Continue(t, "UserToChat")
  /\ UNCHANGED <<tableVars, job, session, failed, known, faults>>

SelectNextChatId(t) ==
  /\ at[t] = "ChatId"
  /\ chatId' = [chatId EXCEPT ![t] = session[t] + 1]
  /\ Continue(t, "UserToChat")
  /\ UNCHANGED <<tableVars, job, session, failed, known, faults>>

SelectChatIdOnly(t) ==
  /\ at[t] = "ChatId"
  /\ Send(t, [status |-> 200, id |-> session[t]], {[kind |-> "chat", id |-> session[t]]})
  /\ UNCHANGED <<tableVars, job, failed, known, faults>>

\* SELECT LAST_INSERT_ID() in the session of the INSERT. The two saves of a
\* create request are in different sessions.
SelectChatId(t) ==
  /\ at[t] = "ChatId"
  /\ chatId' = [chatId EXCEPT ![t] = session[t]]
  /\ Continue(t, "UserToChat")
  /\ UNCHANGED <<tableVars, job, session, failed, known, faults>>

\* addMember asks neither whether the chat exists nor whose it is.
AddMember(t, c, u) ==
  Receive(t, [op |-> "addMember", chat |-> c, user |-> u], "UserToChat")

\* The row UserToChat::save_to_mysql inserts, for a chat just created or for
\* the parameters of addMember.
NewMember(t) ==
  [kind |-> "member", user |-> job[t].user,
   chat |-> IF job[t].op = "create" THEN chatId[t] ELSE job[t].chat]

MemberAnswer(t) ==
  IF job[t].op = "create" THEN [status |-> 200, id |-> chatId[t]]
                          ELSE [status |-> 200]

MemberFacts(t) ==
  {NewMember(t)} \cup
  IF job[t].op = "create" THEN {[kind |-> "chat", id |-> chatId[t]]} ELSE {}

\* A pair that is there already violates the primary key.
InsertMember(t) ==
  LET m == NewMember(t) IN
  /\ at[t] = "UserToChat"
  /\ \/ /\ <<m.chat, m.user>> \notin members
        /\ members' = members \cup {<<m.chat, m.user>>}
        /\ Send(t, MemberAnswer(t), MemberFacts(t))
     \/ /\ <<m.chat, m.user>> \in members
        /\ Send(t, [status |-> IF job[t].op = "create" THEN 500 ELSE 422], {})
        /\ UNCHANGED members
  /\ UNCHANGED <<chats, messages, job, failed, known, faults>>

\* Variant with a plausible bug: only the chats the user created are listed.
ReadCreatedChats(t) ==
  /\ at[t] = "select"
  /\ job[t].op = "chats"
  /\ Send(t, [status |-> 200, creator |-> Garbage,
              list |-> {c \in 1..Len(chats) : chats[c] = job[t].user}], {})
  /\ UNCHANGED <<tableVars, job, failed, known, faults>>

\* searchByUserId: the ids and names of the chats that exist and have the user
\* as a member. creator_id is not selected: whatever was in memory is sent.
ListChats(t, u) ==
  Receive(t, [op |-> "chats", user |-> u], "select")

ReadChats(t) ==
  /\ at[t] = "select"
  /\ job[t].op = "chats"
  /\ \E memory \in UserIds \cup {Garbage} :
       Send(t, [status |-> 200, creator |-> memory,
                list |-> {c \in 1..Len(chats) : <<c, job[t].user>> \in members}], {})
  /\ UNCHANGED <<tableVars, job, failed, known, faults>>

\* searchByChatId.
GetChat(t, c) == Receive(t, [op |-> "chat", chat |-> c], "select")

ReadChat(t) ==
  LET c == job[t].chat IN
  /\ at[t] = "select"
  /\ job[t].op = "chat"
  /\ \/ c <= Len(chats) /\ Send(t, [status |-> 200, creator |-> chats[c]], {})
     \/ c > Len(chats) /\ Send(t, [status |-> 404], {})
  /\ UNCHANGED <<tableVars, job, failed, known, faults>>

-----------------------------------------------------------------------------
(***************************************************************************)
(* MessageHandler                                                          *)
(***************************************************************************)
Post(t, c, u, text) ==
  /\ Room(messages, "Message", MaxMessages)
  /\ Receive(t, [op |-> "post", chat |-> c, user |-> u, text |-> text], "Message")

InsertMessage(t) ==
  /\ at[t] = "Message"
  /\ messages' = Append(messages, [chat |-> job[t].chat, user |-> job[t].user,
                                   text |-> job[t].text])
  /\ session' = [session EXCEPT ![t] = Len(messages) + 1]
  /\ Continue(t, "MessageId")
  /\ UNCHANGED <<chats, members, job, chatId, failed, known, faults>>

\* Variant with a plausible bug: SELECT MAX(id).
SelectMaxMessageId(t) ==
  /\ at[t] = "MessageId"
  /\ Send(t, [status |-> 200, id |-> Len(messages)],
          {[kind |-> "message", id |-> Len(messages)]})
  /\ UNCHANGED <<tableVars, job, failed, known, faults>>

SelectMessageId(t) ==
  /\ at[t] = "MessageId"
  /\ Send(t, [status |-> 200, id |-> session[t]],
          {[kind |-> "message", id |-> session[t]]})
  /\ UNCHANGED <<tableVars, job, failed, known, faults>>

GetMessages(t, c) == Receive(t, [op |-> "messages", chat |-> c], "select")

\* Variant with a plausible bug: the loop stops before the last row.
ReadAllButLast(t) ==
  /\ at[t] = "select"
  /\ job[t].op = "messages"
  /\ Send(t, [status |-> 200,
              list |-> {m \in 1..(Len(messages) - 1) : messages[m].chat = job[t].chat}], {})
  /\ UNCHANGED <<tableVars, job, failed, known, faults>>

\* Everybody may read every chat.
ReadMessages(t) ==
  /\ at[t] = "select"
  /\ job[t].op = "messages"
  /\ Send(t, [status |-> 200,
              list |-> {m \in 1..Len(messages) : messages[m].chat = job[t].chat}], {})
  /\ UNCHANGED <<tableVars, job, failed, known, faults>>

-----------------------------------------------------------------------------
(***************************************************************************)
(* Failures                                                                *)
(***************************************************************************)

\* What the handlers answer when a statement throws: writes rethrow, reads
\* return nothing.
FailureAnswer(op) ==
  CASE op \in {"create", "post"} -> [status |-> 500]
    [] op = "addMember"          -> [status |-> 422]
    [] op = "chat"               -> [status |-> 404]
    [] op = "chats"              -> [status |-> 200, list |-> {}, creator |-> Garbage]
    [] op = "messages"           -> [status |-> 200, list |-> {}]

Fails(t) ==
  /\ Fault
  /\ Send(t, FailureAnswer(job[t].op), {})
  /\ failed' = [failed EXCEPT ![t] = TRUE]
  /\ UNCHANGED <<job, known>>

\* The statement has no effect.
StatementFails(t) ==
  /\ at[t] # "idle"
  /\ Fails(t)
  /\ UNCHANGED tableVars

\* The statement has its effect, and then the connection breaks.
InsertUnanswered(t) ==
  /\ \/ /\ at[t] = "Chat"
        /\ chats' = Append(chats, job[t].user)
        /\ UNCHANGED <<members, messages>>
     \/ /\ at[t] = "UserToChat"
        /\ members' = members \cup {<<NewMember(t).chat, NewMember(t).user>>}
        /\ UNCHANGED <<chats, messages>>
     \/ /\ at[t] = "Message"
        /\ messages' = Append(messages, [chat |-> job[t].chat, user |-> job[t].user,
                                         text |-> job[t].text])
        /\ UNCHANGED <<chats, members>>
  /\ Fails(t)

\* The service is killed and started again.
Crash ==
  /\ Fault
  /\ at' = [t \in Threads |-> "idle"]
  /\ job' = [t \in Threads |-> None]
  /\ session' = [t \in Threads |-> 0]
  /\ chatId' = [t \in Threads |-> 0]
  /\ answer' = [t \in Threads |-> None]
  /\ failed' = [t \in Threads |-> FALSE]
  /\ known' = [t \in Threads |-> {}]
  /\ UNCHANGED <<tableVars, confirmed>>

-----------------------------------------------------------------------------
Request(t) ==
  \/ \E u \in UserIds : Create(t, u) \/ ListChats(t, u)
  \/ \E c \in ChatIds : GetChat(t, c) \/ GetMessages(t, c)
  \/ \E c \in ChatIds, u \in UserIds : AddMember(t, c, u)
  \/ \E c \in ChatIds, u \in UserIds, text \in Texts : Post(t, c, u, text)
  \/ \E status \in Refusals : Refuse(t, status)

Step(t) ==
  \/ InsertChat(t) \/ SelectChatId(t) \/ InsertMember(t)
  \/ ReadChats(t) \/ ReadChat(t)
  \/ InsertMessage(t) \/ SelectMessageId(t) \/ ReadMessages(t)
  \/ StatementFails(t) \/ InsertUnanswered(t)

Next == Crash \/ \E t \in Threads : Request(t) \/ Step(t)

Spec == Init /\ [][Next]_vars

-----------------------------------------------------------------------------
(***************************************************************************)
(* Correctness                                                             *)
(***************************************************************************)
Answered(t, op, status) ==
  /\ at[t] = "idle"
  /\ job[t] # None
  /\ job[t].op = op
  /\ answer[t] # None
  /\ answer[t].status = status

Told(t, op) == Answered(t, op, 200)

\* However the statements of several requests interleave, the id a client gets
\* is that of the row its own request made, which nobody else is told; and a new
\* chat has its creator as a member.
AnswersNameOwnRows ==
  /\ \A t \in Threads :
       /\ Told(t, "create") =>
            /\ answer[t].id \in 1..Len(chats)
            /\ chats[answer[t].id] = job[t].user
            /\ <<answer[t].id, job[t].user>> \in members
       /\ Told(t, "post") =>
            /\ answer[t].id \in 1..Len(messages)
            /\ messages[answer[t].id] = [chat |-> job[t].chat, user |-> job[t].user,
                                         text |-> job[t].text]
  /\ \A op \in {"create", "post"}, t1, t2 \in Threads :
       t1 # t2 /\ Told(t1, op) /\ Told(t2, op) => answer[t1].id # answer[t2].id

\* The two inserts of a create request are not one transaction. Without its
\* creator as a member a chat is only while it is being created, or for good
\* when a fault fell between the two: one chat per thread and fault.
Creating(c) ==
  \E t \in Threads : at[t] \in {"ChatId", "UserToChat"} /\ session[t] = c

Orphans == {c \in 1..Len(chats) : <<c, chats[c]>> \notin members /\ ~Creating(c)}

OrphansAreFaults == Cardinality(Orphans) <= faults * Cardinality(Threads)

\* A read shows everything it should of what was confirmed, to whichever client,
\* before it came in: every confirmed message of the chat; and every chat that a
\* create request was confirmed for and in which the user's membership was
\* confirmed, by that request or by addMember. (addMember confirms a membership
\* of a chat that need not exist: it shows nothing until it does.) A confirmed
\* chat is never 404. A read that failed shows nothing, and never a part: the
\* client of a list cannot tell it from an empty one.
ReadsSeeConfirmed ==
  \A t \in Threads :
    /\ Answered(t, "messages", 200) =>
         IF failed[t] THEN answer[t].list = {}
         ELSE \A f \in known[t] : f.kind = "message" /\ messages[f.id].chat = job[t].chat
                => f.id \in answer[t].list
    /\ Answered(t, "chats", 200) =>
         IF failed[t] THEN answer[t].list = {}
         ELSE \A f \in known[t] :
                f.kind = "member" /\ f.user = job[t].user
                  /\ [kind |-> "chat", id |-> f.chat] \in known[t]
                => f.chat \in answer[t].list
    /\ Answered(t, "chat", 404) /\ ~failed[t] =>
         [kind |-> "chat", id |-> job[t].chat] \notin known[t]
=============================================================================
