-------------------------- MODULE MessengerProofs --------------------------
(***************************************************************************)
(* Theorems about Messenger for every finite set of threads, every set of  *)
(* users and texts, and every bound.                                       *)
(*                                                                         *)
(* The inductive invariant is Inv. Its parts:                              *)
(*   TypeOK  types;                                                        *)
(*   Rooms   the tables have room for the rows that are about to be         *)
(*           inserted;                                                     *)
(*   Fits    a thread executes a statement of the request it serves, none   *)
(*           of whose statements has failed, and its session remembers an  *)
(*           id only while the request needs it;                           *)
(*   OwnRow  the row that a request has made, and whose id it holds or was  *)
(*           answered, is there and is what was asked for;                 *)
(*   OneEach no two requests have made the same row;                       *)
(*   Backed  what has been confirmed is in the tables;                     *)
(*   Earlier what a request knows of had been confirmed;                   *)
(*   and the properties of orphans and of reads.                           *)
(***************************************************************************)
EXTENDS Messenger, FiniteSetTheorems, TLAPS

Waiting(statement) == {t \in Threads : at[t] = statement}

Rooms ==
  /\ Len(chats) + Cardinality(Waiting("Chat")) <= MaxChats
  /\ Len(messages) + Cardinality(Waiting("Message")) <= MaxMessages

Creates == [op : {"create"}, user : UserIds]
Adds    == [op : {"addMember"}, chat : ChatIds, user : UserIds]
Reads   == [op : {"chats"}, user : UserIds]
             \cup [op : {"chat", "messages"}, chat : ChatIds]
Posts   == [op : {"post"}, chat : ChatIds, user : UserIds, text : Texts]

\* The requests that execute a statement.
Serves(statement) ==
  CASE statement \in {"Chat", "ChatId"}       -> Creates
    [] statement = "UserToChat"               -> Creates \cup Adds
    [] statement \in {"Message", "MessageId"} -> Posts
    [] statement = "select"                   -> Reads

\* The request of thread t has made a row of Chat, or of Message, that it has
\* not been answered for.
HoldsChat(t) ==
  at[t] = "ChatId" \/ (at[t] = "UserToChat" /\ job[t].op = "create")

HoldsMessage(t) == at[t] = "MessageId"

Fits ==
  \A t \in Threads :
    /\ at[t] # "idle" => job[t] \in Serves(at[t]) /\ ~failed[t]
    /\ ~HoldsChat(t) /\ ~HoldsMessage(t) => session[t] = 0
    /\ at[t] = "UserToChat" /\ job[t].op = "create" => chatId[t] = session[t]

\* The same, or it has been answered with the row's id; and that id.
MadeChat(t)    == HoldsChat(t) \/ Told(t, "create")
MadeMessage(t) == HoldsMessage(t) \/ Told(t, "post")

Row(t) == IF at[t] = "idle" THEN answer[t].id ELSE session[t]

OwnRow ==
  \A t \in Threads :
    /\ MadeChat(t) => /\ Row(t) \in 1..Len(chats)
                      /\ chats[Row(t)] = job[t].user
                      /\ at[t] = "idle" => <<Row(t), job[t].user>> \in members
    /\ MadeMessage(t) => /\ Row(t) \in 1..Len(messages)
                         /\ messages[Row(t)] = [chat |-> job[t].chat,
                                                user |-> job[t].user,
                                                text |-> job[t].text]

OneEach ==
  \A s, t \in Threads : s # t =>
    /\ MadeChat(s) /\ MadeChat(t) => Row(s) # Row(t)
    /\ MadeMessage(s) /\ MadeMessage(t) => Row(s) # Row(t)

\* The fact f is in the tables Chat, UserToChat and Message.
Holds(f, Chat, UserToChat, Messages) ==
  /\ f.kind = "chat" => /\ f.id \in 1..Len(Chat)
                        /\ <<f.id, Chat[f.id]>> \in UserToChat
  /\ f.kind = "member" => <<f.chat, f.user>> \in UserToChat
  /\ f.kind = "message" => f.id \in 1..Len(Messages)

Backed == \A f \in confirmed : Holds(f, chats, members, messages)

Earlier == \A t \in Threads : known[t] \subseteq confirmed

Inv == /\ TypeOK /\ Rooms /\ Fits /\ OwnRow /\ OneEach /\ Backed /\ Earlier
       /\ OrphansAreFaults /\ ReadsSeeConfirmed

-----------------------------------------------------------------------------
(***************************************************************************)
(* Tables and threads                                                      *)
(***************************************************************************)

\* What a table of rows is after an INSERT.
LEMMA AppendedRow ==
  ASSUME NEW S, NEW rows \in Seq(S), NEW e \in S
  PROVE  /\ Append(rows, e) \in Seq(S)
         /\ Len(rows) \in Nat
         /\ Len(Append(rows, e)) = Len(rows) + 1
         /\ \A i \in 1..Len(rows) : Append(rows, e)[i] = rows[i]
         /\ Append(rows, e)[Len(rows) + 1] = e
  OBVIOUS

\* TypeOK in two parts: the tables, and the threads.
TablesOK ==
  /\ chats \in Seq(UserIds) /\ Len(chats) <= MaxChats
  /\ members \subseteq ChatIds \X UserIds
  /\ messages \in Seq(Message) /\ Len(messages) <= MaxMessages
  /\ confirmed \subseteq Facts
  /\ faults \in 0..MaxFaults

ThreadsOK ==
  /\ at \in [Threads -> Statements \cup {"idle"}]
  /\ job \in [Threads -> Jobs \cup {None}]
  /\ session \in [Threads -> Nat]
  /\ chatId \in [Threads -> ChatIds \cup {0}]
  /\ answer \in [Threads -> Answers \cup {None}]
  /\ failed \in [Threads -> BOOLEAN]
  /\ known \in [Threads -> SUBSET Facts]

\* The two parts are all of TypeOK.
LEMMA TypeParts == TypeOK <=> TablesOK /\ ThreadsOK
  BY DEF TypeOK, TablesOK, ThreadsOK

\* The requests, by what they execute.
LEMMA ServesJobs ==
  /\ Serves("Chat") = Creates /\ Serves("ChatId") = Creates
  /\ Serves("UserToChat") = Creates \cup Adds
  /\ Serves("Message") = Posts /\ Serves("MessageId") = Posts
  /\ Serves("select") = Reads
  /\ \A j \in Creates : j \in Jobs /\ j.op = "create" /\ j.user \in UserIds
  /\ \A j \in Adds : /\ j \in Jobs /\ j.op = "addMember"
                     /\ j.chat \in ChatIds /\ j.user \in UserIds
  /\ \A j \in Posts : /\ j \in Jobs /\ j.op = "post"
                      /\ j.chat \in ChatIds /\ j.user \in UserIds /\ j.text \in Texts
  /\ \A j \in Reads : /\ j \in Jobs /\ j.op \in {"chats", "chat", "messages"}
                      /\ j.op = "chats" => j.user \in UserIds
                      /\ j.op # "chats" => j.chat \in ChatIds
<1>1. /\ Serves("Chat") = Creates /\ Serves("ChatId") = Creates
      /\ Serves("UserToChat") = Creates \cup Adds
      /\ Serves("Message") = Posts /\ Serves("MessageId") = Posts
      /\ Serves("select") = Reads
  BY DEF Serves
<1>2. \A j \in Creates : j \in Jobs /\ j.op = "create" /\ j.user \in UserIds
  BY DEF Creates, Jobs
<1>3. \A j \in Adds : /\ j \in Jobs /\ j.op = "addMember"
                      /\ j.chat \in ChatIds /\ j.user \in UserIds
  BY DEF Adds, Jobs
<1>4. \A j \in Posts : /\ j \in Jobs /\ j.op = "post"
                       /\ j.chat \in ChatIds /\ j.user \in UserIds /\ j.text \in Texts
  BY DEF Posts, Jobs
<1>5. \A j \in Reads : /\ j \in Jobs /\ j.op \in {"chats", "chat", "messages"}
                       /\ j.op = "chats" => j.user \in UserIds
                       /\ j.op # "chats" => j.chat \in ChatIds
  BY DEF Reads, Jobs
<1> QED
  BY <1>1, <1>2, <1>3, <1>4, <1>5

\* Every form of answer.
LEMMA AnswerForms ==
  /\ \A n \in Nat : [status |-> 200, id |-> n] \in Answers
  /\ \A u \in UserIds : [status |-> 200, creator |-> u] \in Answers
  /\ \A l \in SUBSET ChatIds, u \in UserIds \cup {Garbage} :
       [status |-> 200, list |-> l, creator |-> u] \in Answers
  /\ \A l \in SUBSET MessageIds : [status |-> 200, list |-> l] \in Answers
  /\ \A s \in {200, 404, 422, 500} \cup Refusals : [status |-> s] \in Answers
  BY DEF Answers

\* The facts a client can be told are facts.
LEMMA FactForms ==
  /\ \A c \in ChatIds : [kind |-> "chat", id |-> c] \in Facts
  /\ \A c \in ChatIds, u \in UserIds :
       [kind |-> "member", user |-> u, chat |-> c] \in Facts
  /\ \A m \in MessageIds : [kind |-> "message", id |-> m] \in Facts
  BY DEF Facts

\* What a thread holds while it is about to execute a statement.
LEMMA AtStatement ==
  ASSUME TypeOK, Fits, OwnRow, NEW t \in Threads
  PROVE  /\ at[t] \in {"Chat", "ChatId"} => job[t] \in Creates
         /\ at[t] = "UserToChat" => job[t] \in Creates \cup Adds
         /\ at[t] \in {"Message", "MessageId"} => job[t] \in Posts
         /\ at[t] = "select" => job[t] \in Reads
         /\ at[t] = "ChatId" => /\ session[t] \in 1..Len(chats)
                                /\ chats[session[t]] = job[t].user
                                /\ session[t] \in ChatIds
         /\ at[t] = "UserToChat" =>
              /\ NewMember(t).kind = "member"
              /\ NewMember(t).chat \in ChatIds /\ NewMember(t).user \in UserIds
              /\ NewMember(t) \in Facts
              /\ NewMember(t).user = job[t].user
              /\ job[t].op = "create" =>
                   /\ NewMember(t).chat = session[t] /\ chatId[t] = session[t]
                   /\ session[t] \in 1..Len(chats)
                   /\ chats[session[t]] = job[t].user
                   /\ session[t] \in ChatIds
         /\ at[t] = "MessageId" => /\ session[t] \in 1..Len(messages)
                                   /\ session[t] \in MessageIds
<1> USE BoundAssumption
<1>1. /\ at[t] \in {"Chat", "ChatId"} => job[t] \in Creates
      /\ at[t] = "UserToChat" => job[t] \in Creates \cup Adds
      /\ at[t] \in {"Message", "MessageId"} => job[t] \in Posts
      /\ at[t] = "select" => job[t] \in Reads
  BY ServesJobs DEF Fits
<1>2. /\ \A i \in 1..Len(chats) : i \in ChatIds
      /\ \A i \in 1..Len(messages) : i \in MessageIds
  <2>1. Len(chats) \in Nat /\ Len(messages) \in Nat
    BY AppendedRow DEF TypeOK
  <2> QED
    BY <2>1 DEF TypeOK, ChatIds, MessageIds
<1>3. HoldsChat(t) => /\ session[t] \in 1..Len(chats)
                      /\ chats[session[t]] = job[t].user
  BY DEF OwnRow, MadeChat, Row, HoldsChat
<1>4. at[t] = "ChatId" => /\ session[t] \in 1..Len(chats)
                          /\ chats[session[t]] = job[t].user
                          /\ session[t] \in ChatIds
  BY <1>2, <1>3 DEF HoldsChat
<1>5. at[t] = "MessageId" => /\ session[t] \in 1..Len(messages)
                             /\ session[t] \in MessageIds
  BY <1>2 DEF OwnRow, MadeMessage, Row, HoldsMessage
<1>6. ASSUME at[t] = "UserToChat", job[t].op = "create"
      PROVE  /\ NewMember(t).chat = session[t] /\ chatId[t] = session[t]
             /\ session[t] \in 1..Len(chats)
             /\ chats[session[t]] = job[t].user
             /\ session[t] \in ChatIds
             /\ NewMember(t).user = job[t].user /\ job[t].user \in UserIds
  BY <1>1, <1>2, <1>3, <1>6, ServesJobs DEF Fits, HoldsChat, NewMember
<1>7. ASSUME at[t] = "UserToChat", job[t].op # "create"
      PROVE  /\ NewMember(t).chat = job[t].chat /\ job[t].chat \in ChatIds
             /\ NewMember(t).user = job[t].user /\ job[t].user \in UserIds
  BY <1>1, <1>7, ServesJobs DEF NewMember
<1>8. NewMember(t) = [kind |-> "member", user |-> NewMember(t).user,
                      chat |-> NewMember(t).chat]
  BY DEF NewMember
<1>9. at[t] = "UserToChat" => NewMember(t) \in Facts
  BY <1>6, <1>7, <1>8, FactForms
<1> QED
  BY <1>1, <1>4, <1>5, <1>6, <1>7, <1>8, <1>9

-----------------------------------------------------------------------------
(***************************************************************************)
(* What a step does to the tables and to a thread                          *)
(***************************************************************************)

\* Rows are only ever added, and at the end.
Grows ==
  /\ chats' \in Seq(UserIds) /\ messages' \in Seq(Message)
  /\ Len(chats) \in Nat /\ Len(chats') \in Nat /\ Len(chats) <= Len(chats')
  /\ \A i \in 1..Len(chats) : chats'[i] = chats[i]
  /\ Len(messages) \in Nat /\ Len(messages') \in Nat /\ Len(messages) <= Len(messages')
  /\ \A i \in 1..Len(messages) : messages'[i] = messages[i]
  /\ members \subseteq members' /\ members' \subseteq ChatIds \X UserIds

\* Every step does: there is no UPDATE and no DELETE.
LEMMA RowsAreAdded ==
  ASSUME TypeOK, Fits, OwnRow, [Next]_vars
  PROVE  Grows
<1>a. TablesOK
  BY TypeParts
<1>b. ASSUME UNCHANGED tableVars
      PROVE  Grows
  BY <1>a, <1>b, AppendedRow DEF TablesOK, tableVars, Grows
<1>c. ASSUME NEW t \in Threads, at[t] = "Chat", chats' = Append(chats, job[t].user),
             UNCHANGED <<members, messages>>
      PROVE  Grows
  <2>1. job[t].user \in UserIds
    BY <1>c, AtStatement, ServesJobs
  <2> QED
    BY <1>a, <1>c, <2>1, AppendedRow DEF TablesOK, Grows
<1>d. ASSUME NEW t \in Threads, at[t] = "Message", UNCHANGED <<chats, members>>,
             messages' = Append(messages, [chat |-> job[t].chat, user |-> job[t].user,
                                           text |-> job[t].text])
      PROVE  Grows
  <2>1. [chat |-> job[t].chat, user |-> job[t].user, text |-> job[t].text] \in Message
    BY <1>d, AtStatement, ServesJobs DEF Message
  <2> QED
    BY <1>a, <1>d, <2>1, AppendedRow DEF TablesOK, Grows
<1>e. ASSUME NEW t \in Threads, at[t] = "UserToChat", UNCHANGED <<chats, messages>>,
             members' = members \cup {<<NewMember(t).chat, NewMember(t).user>>}
      PROVE  Grows
  <2>1. <<NewMember(t).chat, NewMember(t).user>> \in ChatIds \X UserIds
    BY <1>e, AtStatement
  <2> QED
    BY <1>a, <1>e, <2>1, AppendedRow DEF TablesOK, Grows
<1>1. ASSUME NEW t \in Threads, Request(t)
      PROVE  UNCHANGED tableVars
  BY <1>1 DEF Request, Create, ListChats, GetChat, GetMessages, AddMember, Post,
              Receive, Refuse, tableVars
<1>2. ASSUME NEW t \in Threads, InsertChat(t) PROVE Grows
  BY <1>2, <1>c DEF InsertChat
<1>3. ASSUME NEW t \in Threads, InsertMessage(t) PROVE Grows
  BY <1>3, <1>d DEF InsertMessage
<1>4. ASSUME NEW t \in Threads, InsertMember(t) PROVE Grows
  BY <1>4, <1>b, <1>e DEF InsertMember, tableVars
<1>5. ASSUME NEW t \in Threads, InsertUnanswered(t) PROVE Grows
  BY <1>5, <1>c, <1>d, <1>e DEF InsertUnanswered
<1>6. ASSUME NEW t \in Threads, \/ SelectChatId(t) \/ ReadChats(t) \/ ReadChat(t)
                                \/ SelectMessageId(t) \/ ReadMessages(t)
                                \/ StatementFails(t)
      PROVE  UNCHANGED tableVars
  BY <1>6 DEF SelectChatId, ReadChats, ReadChat, SelectMessageId, ReadMessages,
              StatementFails
<1>7. Crash => UNCHANGED tableVars
  BY DEF Crash
<1>8. UNCHANGED vars => UNCHANGED tableVars
  BY DEF vars
<1> QED
  BY <1>b, <1>1, <1>2, <1>3, <1>4, <1>5, <1>6, <1>7, <1>8 DEF Next, Step

\* What can happen to thread t in a step.
Same(t) ==
  /\ at'[t] = at[t] /\ job'[t] = job[t] /\ session'[t] = session[t]
  /\ chatId'[t] = chatId[t] /\ answer'[t] = answer[t]
  /\ failed'[t] = failed[t] /\ known'[t] = known[t]

Killed(t) ==
  /\ at'[t] = "idle" /\ job'[t] = None /\ session'[t] = 0 /\ chatId'[t] = 0
  /\ answer'[t] = None /\ failed'[t] = FALSE /\ known'[t] = {}

Refused(t) ==
  /\ at[t] = "idle" /\ at'[t] = "idle" /\ job'[t] = None
  /\ answer'[t] \in Answers
  /\ session'[t] = session[t] /\ chatId'[t] = chatId[t]
  /\ failed'[t] = failed[t] /\ known'[t] = known[t]

Begins(t) ==
  /\ at[t] = "idle" /\ at'[t] \in Statements \ {"ChatId", "MessageId"}
  /\ job'[t] \in Serves(at'[t])
  /\ at'[t] = "UserToChat" => job'[t] \in Adds
  /\ session'[t] = session[t] /\ chatId'[t] = chatId[t]
  /\ answer'[t] = None /\ failed'[t] = FALSE /\ known'[t] = confirmed

Continues(t) ==
  /\ job'[t] = job[t] /\ answer'[t] = answer[t] /\ failed'[t] = failed[t]
  /\ known'[t] = known[t]
  /\ \/ /\ at[t] = "Chat" /\ at'[t] = "ChatId"
        /\ chats' = Append(chats, job[t].user)
        /\ session'[t] = Len(chats) + 1 /\ chatId'[t] = chatId[t]
     \/ /\ at[t] = "ChatId" /\ at'[t] = "UserToChat"
        /\ session'[t] = session[t] /\ chatId'[t] = session[t]
     \/ /\ at[t] = "Message" /\ at'[t] = "MessageId"
        /\ messages' = Append(messages, [chat |-> job[t].chat, user |-> job[t].user,
                                         text |-> job[t].text])
        /\ session'[t] = Len(messages) + 1 /\ chatId'[t] = chatId[t]

Ends(t) ==
  /\ at[t] # "idle" /\ at'[t] = "idle"
  /\ job'[t] = job[t] /\ known'[t] = known[t]
  /\ session'[t] = 0 /\ chatId'[t] = 0
  /\ answer'[t] \in Answers /\ failed'[t] \in BOOLEAN

\* A step in which thread t answers its request.
Answering(t) ==
  \/ InsertMember(t) \/ ReadChats(t) \/ ReadChat(t) \/ SelectMessageId(t)
  \/ ReadMessages(t) \/ StatementFails(t) \/ InsertUnanswered(t)

\* A request is either given to a thread or refused without a statement.
LEMMA RequestBegins ==
  ASSUME TypeOK, NEW t \in Threads, Request(t)
  PROVE  Begins(t) \/ Refused(t)
<1>a. ThreadsOK
  BY TypeParts
<1>1. ASSUME NEW j \in Jobs, NEW first \in Statements \ {"ChatId", "MessageId"},
             j \in Serves(first), first = "UserToChat" => j \in Adds,
             Receive(t, j, first)
      PROVE  Begins(t)
  BY <1>a, <1>1 DEF Receive, Begins, ThreadsOK
<1>2. ASSUME NEW u \in UserIds, Create(t, u) PROVE Begins(t)
  <2>1. [op |-> "create", user |-> u] \in Creates
    BY DEF Creates
  <2> QED
    BY <1>1, <1>2, <2>1, ServesJobs DEF Create, Statements
<1>3. ASSUME NEW u \in UserIds, ListChats(t, u) PROVE Begins(t)
  <2>1. [op |-> "chats", user |-> u] \in Reads
    BY DEF Reads
  <2> QED
    BY <1>1, <1>3, <2>1, ServesJobs DEF ListChats, Statements
<1>4. ASSUME NEW c \in ChatIds, GetChat(t, c) PROVE Begins(t)
  <2>1. [op |-> "chat", chat |-> c] \in Reads
    BY DEF Reads
  <2> QED
    BY <1>1, <1>4, <2>1, ServesJobs DEF GetChat, Statements
<1>5. ASSUME NEW c \in ChatIds, GetMessages(t, c) PROVE Begins(t)
  <2>1. [op |-> "messages", chat |-> c] \in Reads
    BY DEF Reads
  <2> QED
    BY <1>1, <1>5, <2>1, ServesJobs DEF GetMessages, Statements
<1>6. ASSUME NEW c \in ChatIds, NEW u \in UserIds, AddMember(t, c, u) PROVE Begins(t)
  <2>1. [op |-> "addMember", chat |-> c, user |-> u] \in Adds
    BY DEF Adds
  <2> QED
    BY <1>1, <1>6, <2>1, ServesJobs DEF AddMember, Statements
<1>7. ASSUME NEW c \in ChatIds, NEW u \in UserIds, NEW text \in Texts,
             Post(t, c, u, text)
      PROVE  Begins(t)
  <2>1. [op |-> "post", chat |-> c, user |-> u, text |-> text] \in Posts
    BY DEF Posts
  <2> QED
    BY <1>1, <1>7, <2>1, ServesJobs DEF Post, Statements
<1>8. ASSUME NEW status \in Refusals, Refuse(t, status) PROVE Refused(t)
  BY <1>a, <1>8, AnswerForms DEF Refuse, Refused, ThreadsOK
<1> QED
  BY <1>2, <1>3, <1>4, <1>5, <1>6, <1>7, <1>8 DEF Request

\* The answer to the request of thread t that has just been sent.
LEMMA WhatIsAnswered ==
  ASSUME TypeOK, Fits, OwnRow, NEW t \in Threads, Answering(t)
  PROVE  /\ Ends(t)
         /\ \A f \in confirmed' : 
             f \in confirmed \/ (f \in Facts /\ Holds(f, chats', members', messages'))
         /\ job[t].op = "create" /\ answer'[t].status = 200 =>
              /\ HoldsChat(t) /\ answer'[t].id = session[t]
              /\ <<session[t], job[t].user>> \in members'
         /\ job[t].op = "post" /\ answer'[t].status = 200 =>
              HoldsMessage(t) /\ answer'[t].id = session[t]
         /\ failed'[t] /\ job[t].op \in {"chats", "messages"} => answer'[t].list = {}
         /\ ~failed'[t] =>
              /\ job[t].op = "messages" =>
                   answer'[t].list = {m \in 1..Len(messages) :
                                        messages[m].chat = job[t].chat}
              /\ job[t].op = "chats" =>
                   answer'[t].list = {c \in 1..Len(chats) : <<c, job[t].user>> \in members}
              /\ job[t].op = "chat" /\ answer'[t].status = 404 =>
                   job[t].chat \notin 1..Len(chats)
<1>a. ThreadsOK /\ TablesOK
  BY TypeParts
<1>b. ASSUME NEW a \in Answers, NEW told, Send(t, a, told), UNCHANGED <<job, known>>,
             at[t] # "idle", failed'[t] \in BOOLEAN
      PROVE  Ends(t) /\ answer'[t] = a /\ confirmed' = confirmed \cup told
  BY <1>a, <1>b DEF Send, Ends, ThreadsOK
<1>c. ASSUME UNCHANGED failed
      PROVE  failed'[t] \in BOOLEAN
  BY <1>a, <1>c DEF ThreadsOK
<1>d. ASSUME UNCHANGED failed, at[t] # "idle"
      PROVE  ~failed'[t]
  BY <1>d DEF Fits
<1>1. CASE InsertMember(t)
  <2> DEFINE m == NewMember(t)
  <2>a. /\ at[t] = "UserToChat" /\ job[t] \in Creates \cup Adds
        /\ job[t].op = "create" \/ job[t].op = "addMember"
    BY <1>1, AtStatement, ServesJobs DEF InsertMember
  <2>1. CASE <<m.chat, m.user>> \notin members
    <3>1. members' = members \cup {<<m.chat, m.user>>} /\ chats' = chats
          /\ Send(t, MemberAnswer(t), MemberFacts(t))
      BY <1>1, <2>1 DEF InsertMember
    <3>2. MemberAnswer(t) \in Answers
      <4>1. job[t].op = "create" => chatId[t] \in Nat
        BY <1>a, <2>a, AtStatement DEF ChatIds
      <4> QED
        BY <4>1, AnswerForms DEF MemberAnswer
    <3>3. Ends(t) /\ answer'[t] = MemberAnswer(t)
          /\ confirmed' = confirmed \cup MemberFacts(t)
      BY <1>1, <1>b, <1>c, <2>a, <3>1, <3>2 DEF InsertMember
    <3>4. m \in Facts /\ Holds(m, chats', members', messages')
      BY <2>a, <3>1, AtStatement DEF Holds, NewMember
    <3>5. job[t].op = "create" =>
            /\ [kind |-> "chat", id |-> chatId[t]] \in Facts
            /\ Holds([kind |-> "chat", id |-> chatId[t]],
                     chats', members', messages')
      <4>1. SUFFICES ASSUME job[t].op = "create"
                     PROVE  /\ [kind |-> "chat", id |-> chatId[t]] \in Facts
                            /\ chatId[t] \in 1..Len(chats')
                            /\ <<chatId[t], chats'[chatId[t]]>> \in members'
        BY DEF Holds
      <4>2. /\ chatId[t] = session[t] /\ m.chat = session[t] /\ session[t] \in ChatIds
            /\ session[t] \in 1..Len(chats) /\ chats[session[t]] = job[t].user
            /\ m.user = job[t].user
        BY <2>a, <4>1, AtStatement
      <4> QED
        BY <3>1, <4>2, FactForms
    <3>6. \A f \in confirmed' : 
             f \in confirmed \/ (f \in Facts /\ Holds(f, chats', members', messages'))
      BY <3>3, <3>4, <3>5 DEF MemberFacts
    <3>7. job[t].op = "create" =>
              /\ HoldsChat(t) /\ answer'[t].id = session[t]
              /\ <<session[t], job[t].user>> \in members'
      BY <2>a, <3>1, <3>3, AtStatement DEF HoldsChat, MemberAnswer
    <3> QED
      BY <2>a, <3>3, <3>6, <3>7
  <2>2. CASE <<m.chat, m.user>> \in members
    <3> DEFINE a == [status |-> IF job[t].op = "create" THEN 500 ELSE 422]
    <3>1. Send(t, a, {})
      BY <1>1, <2>2 DEF InsertMember
    <3>2. a \in Answers
      BY AnswerForms
    <3>3. Ends(t) /\ answer'[t] = a /\ confirmed' = confirmed \cup {}
      BY <1>1, <1>b, <1>c, <2>a, <3>1, <3>2 DEF InsertMember
    <3> QED
      BY <2>a, <3>3
  <2> QED
    BY <2>1, <2>2
<1>2. CASE ReadChats(t)
  <2> DEFINE l == {c \in 1..Len(chats) : <<c, job[t].user>> \in members}
  <2>1. PICK memory \in UserIds \cup {Garbage} :
          Send(t, [status |-> 200, creator |-> memory, list |-> l], {})
    BY <1>2 DEF ReadChats
  <2>2. l \in SUBSET ChatIds
    BY <1>a, AppendedRow, BoundAssumption DEF TablesOK, ChatIds
  <2> HIDE DEF l
  <2>3. [status |-> 200, creator |-> memory, list |-> l] \in Answers
    BY <2>2, AnswerForms
  <2>4. Ends(t) /\ answer'[t] = [status |-> 200, creator |-> memory, list |-> l]
        /\ confirmed' = confirmed \cup {}
    BY <1>2, <1>b, <1>c, <2>1, <2>3 DEF ReadChats
  <2>5. ~failed'[t]
    BY <1>2, <1>d DEF ReadChats
  <2> QED
    BY <1>2, <2>4, <2>5 DEF ReadChats, l
<1>3. CASE ReadChat(t)
  <2> DEFINE c == job[t].chat
  <2>a. c \in ChatIds /\ job[t].op = "chat" /\ at[t] = "select" /\ Len(chats) \in Nat
    BY <1>3, <1>a, AtStatement, ServesJobs, AppendedRow DEF ReadChat, TablesOK
  <2>b. c \in Nat
    BY <2>a DEF ChatIds
  <2>1. CASE c <= Len(chats) /\ Send(t, [status |-> 200, creator |-> chats[c]], {})
    <3>1. chats[c] \in UserIds
      BY <1>a, <2>a, <2>1 DEF TablesOK, ChatIds
    <3>2. Ends(t) /\ answer'[t] = [status |-> 200, creator |-> chats[c]]
          /\ confirmed' = confirmed \cup {}
      BY <1>3, <1>b, <1>c, <2>a, <2>1, <3>1, AnswerForms DEF ReadChat
    <3> QED
      BY <2>a, <3>2
  <2>2. CASE c > Len(chats) /\ Send(t, [status |-> 404], {})
    <3>1. Ends(t) /\ answer'[t] = [status |-> 404]
          /\ confirmed' = confirmed \cup {}
      BY <1>3, <1>b, <1>c, <2>a, <2>2, AnswerForms DEF ReadChat
    <3> QED
      BY <2>a, <2>b, <2>2, <3>1
  <2> QED
    BY <1>3, <2>1, <2>2 DEF ReadChat
<1>4. CASE SelectMessageId(t)
  <2>a. /\ at[t] = "MessageId" /\ job[t].op = "post"
        /\ session[t] \in MessageIds /\ session[t] \in 1..Len(messages)
    BY <1>4, AtStatement, ServesJobs DEF SelectMessageId
  <2>b. session[t] \in Nat /\ messages' = messages
    BY <1>4, <1>a DEF ThreadsOK, SelectMessageId, tableVars
  <2>1. Ends(t) /\ answer'[t] = [status |-> 200, id |-> session[t]]
        /\ confirmed' = confirmed \cup {[kind |-> "message", id |-> session[t]]}
    BY <1>4, <1>b, <1>c, <2>a, <2>b, AnswerForms DEF SelectMessageId
  <2>2. /\ [kind |-> "message", id |-> session[t]] \in Facts
        /\ Holds([kind |-> "message", id |-> session[t]],
                 chats', members', messages')
    BY <2>a, <2>b, FactForms DEF Holds
  <2> QED
    BY <2>a, <2>1, <2>2 DEF HoldsMessage
<1>5. CASE ReadMessages(t)
  <2> DEFINE l == {m \in 1..Len(messages) : messages[m].chat = job[t].chat}
  <2>1. Send(t, [status |-> 200, list |-> l], {})
    BY <1>5 DEF ReadMessages
  <2>2. l \in SUBSET MessageIds
    BY <1>a, AppendedRow, BoundAssumption DEF TablesOK, MessageIds
  <2> HIDE DEF l
  <2>3. Ends(t) /\ answer'[t] = [status |-> 200, list |-> l]
        /\ confirmed' = confirmed \cup {}
    BY <1>5, <1>b, <1>c, <2>1, <2>2, AnswerForms DEF ReadMessages
  <2>4. ~failed'[t]
    BY <1>5, <1>d DEF ReadMessages
  <2> QED
    BY <1>5, <2>3, <2>4 DEF ReadMessages, l
<1>6. ASSUME Fails(t), at[t] # "idle"
      PROVE  /\ Ends(t) /\ failed'[t] /\ confirmed' = confirmed
             /\ job[t].op \in {"create", "post"} => answer'[t].status = 500
             /\ job[t].op \in {"chats", "messages"} => answer'[t].list = {}
  <2> DEFINE a == FailureAnswer(job[t].op)
  <2>1. job[t].op \in {"create", "post", "addMember", "chat", "chats", "messages"}
    BY <1>a, <1>6, AtStatement, ServesJobs DEF ThreadsOK, Statements
  <2>a. a \in Answers
    BY <2>1, AnswerForms DEF FailureAnswer
  <2>2. /\ job[t].op \in {"create", "post"} => a.status = 500
        /\ job[t].op \in {"chats", "messages"} => a.list = {}
    BY <2>1 DEF FailureAnswer
  <2>3. failed'[t] = TRUE
    BY <1>a, <1>6 DEF Fails, ThreadsOK
  <2> HIDE DEF a
  <2>4. Send(t, a, {}) /\ UNCHANGED <<job, known>>
    BY <1>6 DEF Fails, a
  <2>5. failed'[t] \in BOOLEAN
    BY <2>3, Zenon
  <2>6. Ends(t) /\ answer'[t] = a /\ confirmed' = confirmed \cup {}
    BY <1>6, <1>b, <2>a, <2>4, <2>5
  <2> QED
    BY <2>2, <2>3, <2>6
<1>7. CASE StatementFails(t)
  BY <1>6, <1>7 DEF StatementFails
<1>8. CASE InsertUnanswered(t)
  BY <1>6, <1>8 DEF InsertUnanswered
<1> QED
  BY <1>1, <1>2, <1>3, <1>4, <1>5, <1>7, <1>8 DEF Answering

\* After these statements the request goes on.
LEMMA StepContinues ==
  ASSUME TypeOK, NEW t \in Threads, InsertChat(t) \/ SelectChatId(t) \/ InsertMessage(t)
  PROVE  Continues(t)
<1>a. ThreadsOK
  BY TypeParts
<1>1. CASE InsertChat(t)
  BY <1>a, <1>1 DEF InsertChat, Continue, Continues, ThreadsOK
<1>2. CASE SelectChatId(t)
  BY <1>a, <1>2 DEF SelectChatId, Continue, Continues, ThreadsOK
<1>3. CASE InsertMessage(t)
  BY <1>a, <1>3 DEF InsertMessage, Continue, Continues, ThreadsOK
<1> QED
  BY <1>1, <1>2, <1>3

\* Whoever else moves, a thread stays as it is.
LEMMA OthersStay ==
  ASSUME TypeOK, NEW s \in Threads, Request(s) \/ Step(s), NEW t \in Threads, t # s
  PROVE  Same(t)
<1>a. ThreadsOK
  BY TypeParts
<1>1. ASSUME NEW j, NEW first, Receive(s, j, first) PROVE Same(t)
  BY <1>a, <1>1 DEF Receive, Same, ThreadsOK
<1>2. ASSUME NEW status, Refuse(s, status) PROVE Same(t)
  BY <1>a, <1>2 DEF Refuse, Same, ThreadsOK
<1>3. Request(s) => Same(t)
  BY <1>1, <1>2 DEF Request, Create, ListChats, GetChat, GetMessages, AddMember, Post
<1>4. ASSUME NEW a, NEW told, Send(s, a, told), job' = job, known' = known,
             failed'[t] = failed[t]
      PROVE  Same(t)
  BY <1>a, <1>4 DEF Send, Same, ThreadsOK
<1>5. ASSUME \/ InsertMember(s) \/ ReadChats(s) \/ ReadChat(s)
             \/ SelectMessageId(s) \/ ReadMessages(s)
      PROVE  Same(t)
  BY <1>4, <1>5 DEF InsertMember, ReadChats, ReadChat, SelectMessageId, ReadMessages
<1>6. ASSUME Fails(s) PROVE Same(t)
  <2>1. failed'[t] = failed[t]
    BY <1>a, <1>6 DEF Fails, ThreadsOK
  <2> QED
    BY <1>4, <1>6, <2>1 DEF Fails
<1>7. StatementFails(s) \/ InsertUnanswered(s) => Same(t)
  BY <1>6 DEF StatementFails, InsertUnanswered
<1>8. ASSUME InsertChat(s) \/ SelectChatId(s) \/ InsertMessage(s) PROVE Same(t)
  <2>1. InsertChat(s) => Same(t)
    BY <1>a DEF InsertChat, Continue, Same, ThreadsOK
  <2>2. SelectChatId(s) => Same(t)
    BY <1>a DEF SelectChatId, Continue, Same, ThreadsOK
  <2>3. InsertMessage(s) => Same(t)
    BY <1>a DEF InsertMessage, Continue, Same, ThreadsOK
  <2> QED
    BY <1>8, <2>1, <2>2, <2>3
<1> QED
  BY <1>3, <1>5, <1>7, <1>8 DEF Step

\* Whatever steps are taken, that is all that can happen to a thread.
LEMMA StepOfThread ==
  ASSUME TypeOK, Fits, OwnRow, [Next]_vars, NEW t \in Threads
  PROVE  \/ Same(t) \/ Killed(t) \/ Refused(t) \/ Begins(t) \/ Continues(t)
         \/ Answering(t) /\ Ends(t)
<1>1. Crash => Killed(t)
  BY DEF Crash, Killed
<1>2. UNCHANGED vars => Same(t)
  BY DEF vars, threadVars, Same
<1>3. ASSUME NEW s \in Threads, s # t, Request(s) \/ Step(s) PROVE Same(t)
  BY <1>3, OthersStay
<1>4. Request(t) => Begins(t) \/ Refused(t)
  BY RequestBegins
<1>5. Step(t) => Continues(t) \/ (Answering(t) /\ Ends(t))
  BY StepContinues, WhatIsAnswered DEF Step, Answering
<1> QED
  BY <1>1, <1>2, <1>3, <1>4, <1>5 DEF Next

\* Facts are confirmed by answers only, and they are in the tables.
LEMMA Confirmed ==
  ASSUME TypeOK, Fits, OwnRow, [Next]_vars
  PROVE  /\ confirmed \subseteq confirmed'
         /\ \A f \in confirmed' : f \in confirmed \/
              (f \in Facts /\ Holds(f, chats', members', messages'))
<1>1. ASSUME NEW t \in Threads, Answering(t)
      PROVE  /\ confirmed \subseteq confirmed'
             /\ \A f \in confirmed' : f \in confirmed \/
                  (f \in Facts /\ Holds(f, chats', members', messages'))
  <2>1. \A f \in confirmed' : f \in confirmed \/
                  (f \in Facts /\ Holds(f, chats', members', messages'))
    BY <1>1, WhatIsAnswered
  <2>2. confirmed \subseteq confirmed'
    BY <1>1 DEF Answering, InsertMember, ReadChats, ReadChat, SelectMessageId,
                ReadMessages, StatementFails, InsertUnanswered, Fails, Send
  <2> QED
    BY <2>1, <2>2
<1>2. ASSUME NEW t \in Threads, Request(t) PROVE UNCHANGED confirmed
  BY <1>2 DEF Request, Create, ListChats, GetChat, GetMessages, AddMember, Post,
              Receive, Refuse
<1>3. ASSUME NEW t \in Threads, InsertChat(t) \/ SelectChatId(t) \/ InsertMessage(t)
      PROVE  UNCHANGED confirmed
  BY <1>3 DEF InsertChat, SelectChatId, InsertMessage, Continue
<1>4. UNCHANGED vars \/ Crash => UNCHANGED confirmed
  BY DEF vars, Crash
<1> QED
  BY <1>1, <1>2, <1>3, <1>4 DEF Next, Step, Answering

\* What is kept per thread stays a function of the threads.
LEMMA StillFunctions ==
  ASSUME TypeOK, [Next]_vars
  PROVE  /\ at' = [t \in Threads |-> at'[t]]
         /\ job' = [t \in Threads |-> job'[t]]
         /\ session' = [t \in Threads |-> session'[t]]
         /\ chatId' = [t \in Threads |-> chatId'[t]]
         /\ answer' = [t \in Threads |-> answer'[t]]
         /\ failed' = [t \in Threads |-> failed'[t]]
         /\ known' = [t \in Threads |-> known'[t]]
<1> DEFINE P == /\ at' = [t \in Threads |-> at'[t]]
                /\ job' = [t \in Threads |-> job'[t]]
                /\ session' = [t \in Threads |-> session'[t]]
                /\ chatId' = [t \in Threads |-> chatId'[t]]
                /\ answer' = [t \in Threads |-> answer'[t]]
                /\ failed' = [t \in Threads |-> failed'[t]]
                /\ known' = [t \in Threads |-> known'[t]]
<1>a. ThreadsOK
  BY TypeParts
<1>1. Crash => P
  BY DEF Crash
<1>2. UNCHANGED vars => P
  BY <1>a DEF vars, threadVars, ThreadsOK
<1>3. ASSUME NEW s \in Threads, NEW j, NEW first, Receive(s, j, first) PROVE P
  BY <1>a, <1>3 DEF Receive, ThreadsOK
<1>4. ASSUME NEW s \in Threads, NEW status, Refuse(s, status) PROVE P
  BY <1>a, <1>4 DEF Refuse, ThreadsOK
<1>5. ASSUME NEW s \in Threads, Request(s) PROVE P
  <2> HIDE DEF P
  <2> QED
    BY <1>3, <1>4, <1>5 DEF Request, Create, ListChats, GetChat, GetMessages,
                            AddMember, Post
<1>6. ASSUME NEW s \in Threads, NEW a, NEW told, Send(s, a, told), UNCHANGED <<job, known>>,
             failed' = failed \/ failed' = [failed EXCEPT ![s] = TRUE]
      PROVE  P
  BY <1>a, <1>6 DEF Send, ThreadsOK
<1>7. ASSUME NEW s \in Threads, Answering(s) PROVE P
  <2> HIDE DEF P
  <2> QED
    BY <1>6, <1>7 DEF Answering, InsertMember, ReadChats, ReadChat, SelectMessageId,
                      ReadMessages, StatementFails, InsertUnanswered, Fails
<1>8. ASSUME NEW s \in Threads, InsertChat(s) \/ SelectChatId(s) \/ InsertMessage(s)
      PROVE  P
  BY <1>a, <1>8 DEF InsertChat, SelectChatId, InsertMessage, Continue, ThreadsOK
<1> HIDE DEF P
<1>9. P
  BY <1>1, <1>2, <1>5, <1>7, <1>8 DEF Next, Step, Answering
<1> QED
  BY <1>9 DEF P

-----------------------------------------------------------------------------
(***************************************************************************)
(* Rooms and types                                                         *)
(***************************************************************************)

\* How many threads wait for a statement when one of them has moved.
LEMMA WaitingAfter ==
  ASSUME NEW statement, NEW t \in Threads, NEW next,
         at' = [at EXCEPT ![t] = next], at = [s \in Threads |-> at[s]]
  PROVE  LET n == Cardinality(Waiting(statement)) IN
         /\ n \in Nat
         /\ next # statement /\ at[t] = statement =>
              n >= 1 /\ Cardinality(Waiting(statement))' = n - 1
         /\ next = statement => Cardinality(Waiting(statement))' <= n + 1
         /\ next # statement => Cardinality(Waiting(statement))' <= n
<1> DEFINE W == Waiting(statement)
           V == Waiting(statement)'
<1>1. IsFiniteSet(W)
  BY ThreadsAssumption, FS_Subset DEF Waiting
<1>2. Cardinality(W) \in Nat
  BY <1>1, FS_CardinalityType
<1>3. next = statement => V = W \cup {t}
  BY DEF Waiting
<1>4. next # statement => V = W \ {t}
  BY DEF Waiting
<1>5. at[t] = statement <=> t \in W
  BY DEF Waiting
<1> HIDE DEF W, V
<1>6. next = statement =>
        Cardinality(V) = IF t \in W THEN Cardinality(W) ELSE Cardinality(W) + 1
  BY <1>1, <1>3, FS_AddElement
<1>7. next # statement =>
        Cardinality(V) = IF t \in W THEN Cardinality(W) - 1 ELSE Cardinality(W)
  BY <1>1, <1>4, FS_RemoveElement
<1>8. t \in W => Cardinality(W) # 0
  BY <1>1, FS_EmptySet
<1> QED
  BY <1>2, <1>5, <1>6, <1>7, <1>8 DEF W, V

\* There stays room for the rows that are about to be inserted.
LEMMA NextRooms ==
  ASSUME TypeOK, Fits, OwnRow, Rooms, [Next]_vars
  PROVE  Rooms'
<1> USE BoundAssumption
<1>a. TablesOK /\ ThreadsOK /\ at = [s \in Threads |-> at[s]]
  BY TypeParts DEF ThreadsOK
<1>b. Len(chats) \in Nat /\ Len(messages) \in Nat
  BY <1>a, AppendedRow DEF TablesOK
<1>c. ASSUME NEW t \in Threads, NEW next, at' = [at EXCEPT ![t] = next],
             next = "Chat" => Room(chats, "Chat", MaxChats),
             next = "Message" => Room(messages, "Message", MaxMessages),
             \/ UNCHANGED <<chats, messages>>
             \/ /\ at[t] = "Chat" /\ next # "Chat" /\ UNCHANGED messages
                /\ Len(chats') = Len(chats) + 1
             \/ /\ at[t] = "Message" /\ next # "Message" /\ UNCHANGED chats
                /\ Len(messages') = Len(messages) + 1
      PROVE  Rooms'
  <2> DEFINE n == Cardinality(Waiting("Chat"))
             m == Cardinality(Waiting("Message"))
  <2>1. /\ n \in Nat
        /\ next # "Chat" /\ at[t] = "Chat" => n' = n - 1
        /\ next = "Chat" => n' <= n + 1
        /\ next # "Chat" => n' <= n
    BY <1>a, <1>c, WaitingAfter
  <2>2. /\ m \in Nat
        /\ next # "Message" /\ at[t] = "Message" => m' = m - 1
        /\ next = "Message" => m' <= m + 1
        /\ next # "Message" => m' <= m
    BY <1>a, <1>c, WaitingAfter
  <2>3. n' \in Nat /\ m' \in Nat
    <3>1. IsFiniteSet(Waiting("Chat")') /\ IsFiniteSet(Waiting("Message")')
      BY ThreadsAssumption, FS_Subset DEF Waiting
    <3> QED
      BY <3>1, FS_CardinalityType
  <2>4. /\ Len(chats) + n <= MaxChats /\ Len(messages) + m <= MaxMessages
        /\ next = "Chat" => Len(chats) + n < MaxChats
        /\ next = "Message" => Len(messages) + m < MaxMessages
    BY <1>c DEF Rooms, Room, Waiting
  <2> HIDE DEF n, m
  <2>5. Len(chats') + n' <= MaxChats /\ Len(messages') + m' <= MaxMessages
    BY <1>b, <1>c, <2>1, <2>2, <2>3, <2>4
  <2> QED
    BY <2>5 DEF Rooms, n, m
<1>1. ASSUME NEW t \in Threads, NEW u, Create(t, u) PROVE Rooms'
  BY <1>1, <1>c DEF Create, Receive, tableVars
<1>2. ASSUME NEW t \in Threads, NEW c, NEW u, NEW text, Post(t, c, u, text) PROVE Rooms'
  BY <1>2, <1>c DEF Post, Receive, tableVars
<1>3. ASSUME NEW t \in Threads, NEW j, NEW first, Receive(t, j, first),
             first # "Chat", first # "Message"
      PROVE  Rooms'
  BY <1>3, <1>c DEF Receive, tableVars
<1>4. ASSUME UNCHANGED <<at, chats, messages>> PROVE Rooms'
  BY <1>4 DEF Rooms, Waiting
<1>5. ASSUME NEW t \in Threads, Request(t) PROVE Rooms'
  BY <1>1, <1>2, <1>3, <1>4, <1>5
     DEF Request, ListChats, GetChat, GetMessages, AddMember, Refuse, tableVars
<1>6. ASSUME NEW t \in Threads, InsertChat(t) PROVE Rooms'
  <2>1. Len(chats') = Len(chats) + 1
    BY <1>6, AtStatement, ServesJobs, <1>a, AppendedRow DEF InsertChat, TablesOK
  <2> QED
    BY <1>6, <2>1, <1>c DEF InsertChat, Continue
<1>7. ASSUME NEW t \in Threads, InsertMessage(t) PROVE Rooms'
  <2>1. [chat |-> job[t].chat, user |-> job[t].user, text |-> job[t].text] \in Message
    BY <1>7, AtStatement, ServesJobs DEF Message, InsertMessage
  <2>2. Len(messages') = Len(messages) + 1
    BY <1>7, <2>1, <1>a, AppendedRow DEF InsertMessage, TablesOK
  <2> QED
    BY <1>7, <2>2, <1>c DEF InsertMessage, Continue
<1>8. ASSUME NEW t \in Threads, SelectChatId(t) PROVE Rooms'
  BY <1>8, <1>c DEF SelectChatId, Continue, tableVars
<1>9. ASSUME NEW t \in Threads, Answering(t) PROVE Rooms'
  <2>1. at' = [at EXCEPT ![t] = "idle"]
    BY <1>9 DEF Answering, InsertMember, ReadChats, ReadChat, SelectMessageId,
                ReadMessages, StatementFails, InsertUnanswered, Fails, Send
  <2>2. CASE UNCHANGED <<chats, messages>>
    BY <2>1, <2>2, <1>c
  <2>3. CASE InsertUnanswered(t)
    <3>1. CASE at[t] = "Chat"
      <4>1. Len(chats') = Len(chats) + 1 /\ UNCHANGED messages
        BY <2>3, <3>1, AtStatement, ServesJobs, <1>a, AppendedRow
           DEF InsertUnanswered, TablesOK
      <4> QED
        BY <2>1, <3>1, <4>1, <1>c
    <3>2. CASE at[t] = "Message"
      <4>1. [chat |-> job[t].chat, user |-> job[t].user, text |-> job[t].text] \in Message
        BY <3>2, AtStatement, ServesJobs DEF Message
      <4>2. Len(messages') = Len(messages) + 1 /\ UNCHANGED chats
        BY <2>3, <3>2, <4>1, <1>a, AppendedRow DEF InsertUnanswered, TablesOK
      <4> QED
        BY <2>1, <3>2, <4>2, <1>c
    <3> QED
      BY <2>2, <2>3, <3>1, <3>2 DEF InsertUnanswered
  <2> QED
    BY <1>9, <2>2, <2>3 DEF Answering, InsertMember, ReadChats, ReadChat,
       SelectMessageId, ReadMessages, StatementFails, tableVars
<1>10. ASSUME Crash PROVE Rooms'
  <2> DEFINE n == Cardinality(Waiting("Chat"))
             m == Cardinality(Waiting("Message"))
  <2>1. n \in Nat /\ m \in Nat
    <3>1. IsFiniteSet(Waiting("Chat")) /\ IsFiniteSet(Waiting("Message"))
      BY ThreadsAssumption, FS_Subset DEF Waiting
    <3> QED
      BY <3>1, FS_CardinalityType
  <2>2. n' = 0 /\ m' = 0
    <3>1. Waiting("Chat")' = {} /\ Waiting("Message")' = {}
      BY <1>10 DEF Crash, Waiting
    <3> QED
      BY <3>1, FS_EmptySet
  <2>3. chats' = chats /\ messages' = messages
    BY <1>10 DEF Crash, tableVars
  <2>4. Len(chats) + n <= MaxChats /\ Len(messages) + m <= MaxMessages
    BY DEF Rooms
  <2> HIDE DEF n, m
  <2>5. Len(chats') + n' <= MaxChats /\ Len(messages') + m' <= MaxMessages
    BY <1>b, <2>1, <2>2, <2>3, <2>4
  <2> QED
    BY <2>5 DEF Rooms, n, m
<1>11. UNCHANGED vars => Rooms'
  BY <1>4 DEF vars, tableVars, threadVars
<1> QED
  BY <1>5, <1>6, <1>7, <1>8, <1>9, <1>10, <1>11 DEF Next, Step, Answering

\* Every step keeps the types.
LEMMA NextTypeOK ==
  ASSUME TypeOK, Fits, OwnRow, Rooms, [Next]_vars
  PROVE  TypeOK'
<1> USE BoundAssumption
<1> SUFFICES TablesOK' /\ ThreadsOK'
  BY TypeParts, PTL
<1>a. TablesOK /\ ThreadsOK
  BY TypeParts
<1>1. TablesOK'
  <2>1. Len(chats') <= MaxChats /\ Len(messages') <= MaxMessages
    <3> DEFINE n == Cardinality(Waiting("Chat"))
               m == Cardinality(Waiting("Message"))
    <3>1. n' \in Nat /\ m' \in Nat
      <4>1. IsFiniteSet(Waiting("Chat")') /\ IsFiniteSet(Waiting("Message")')
        BY ThreadsAssumption, FS_Subset DEF Waiting
      <4> QED
        BY <4>1, FS_CardinalityType
    <3>2. Len(chats') + n' <= MaxChats /\ Len(messages') + m' <= MaxMessages
      BY NextRooms DEF Rooms
    <3>3. Len(chats') \in Nat /\ Len(messages') \in Nat
      BY RowsAreAdded DEF Grows
    <3> HIDE DEF n, m
    <3> QED
      BY <3>1, <3>2, <3>3
  <2>2. confirmed' \subseteq Facts
    BY <1>a, Confirmed DEF TablesOK
  <2>3. faults' = faults \/ Fault
    <3>1. ASSUME NEW t \in Threads, Request(t) PROVE faults' = faults
      BY <3>1 DEF Request, Create, ListChats, GetChat, GetMessages, AddMember, Post,
                  Receive, Refuse
    <3>2. ASSUME NEW t \in Threads, Step(t) PROVE faults' = faults \/ Fault
      BY <3>2 DEF Step, InsertChat, SelectChatId, InsertMember, ReadChats, ReadChat,
                  InsertMessage, SelectMessageId, ReadMessages, StatementFails,
                  InsertUnanswered, Fails
    <3>3. UNCHANGED vars \/ Crash => faults' = faults \/ Fault
      BY DEF vars, Crash
    <3> QED
      BY <3>1, <3>2, <3>3 DEF Next
  <2>4. faults' \in 0..MaxFaults
    BY <1>a, <2>3 DEF TablesOK, Fault
  <2> QED
    BY <2>1, <2>2, <2>4, RowsAreAdded DEF TablesOK, Grows
<1>2. ThreadsOK'
  <2>1. ASSUME NEW t \in Threads
        PROVE  /\ at'[t] \in Statements \cup {"idle"} /\ job'[t] \in Jobs \cup {None}
               /\ session'[t] \in Nat /\ chatId'[t] \in ChatIds \cup {0}
               /\ answer'[t] \in Answers \cup {None}
               /\ failed'[t] \in BOOLEAN
               /\ known'[t] \in SUBSET Facts
    <3>0. /\ at[t] \in Statements \cup {"idle"} /\ job[t] \in Jobs \cup {None}
          /\ session[t] \in Nat /\ chatId[t] \in ChatIds \cup {0}
          /\ answer[t] \in Answers \cup {None}
          /\ failed[t] \in BOOLEAN
          /\ known[t] \in SUBSET Facts /\ confirmed \in SUBSET Facts
      BY <1>a DEF ThreadsOK, TablesOK
    <3>1. CASE Same(t)
      BY <3>0, <3>1 DEF Same
    <3>2. CASE Killed(t)
      <4>1. failed'[t] \in BOOLEAN
        BY <3>2, Zenon DEF Killed
      <4> QED
        BY <3>2, <4>1 DEF Killed
    <3>3. CASE Refused(t)
      BY <3>0, <3>3 DEF Refused
    <3>4. CASE Begins(t)
      <4>1. failed'[t] \in BOOLEAN
        BY <3>4, Zenon DEF Begins
      <4>2. job'[t] \in Jobs
        BY <3>4, ServesJobs DEF Begins, Statements
      <4> QED
        BY <3>0, <3>4, <4>1, <4>2 DEF Begins
    <3>5. CASE Continues(t)
      <4>1. Len(chats) \in Nat /\ Len(messages) \in Nat
        BY <1>a, AppendedRow DEF TablesOK
      <4> QED
        BY <3>0, <3>5, <4>1, AtStatement DEF Continues, Statements
    <3>6. CASE Ends(t)
      BY <3>0, <3>6 DEF Ends
    <3> QED
      BY <3>1, <3>2, <3>3, <3>4, <3>5, <3>6, StepOfThread
  <2> QED
    BY <2>1, StillFunctions DEF ThreadsOK
<1> QED
  BY <1>1, <1>2

-----------------------------------------------------------------------------
(***************************************************************************)
(* Requests, their rows and what is known of them                          *)
(***************************************************************************)

\* Threads stay with their requests.
LEMMA NextFits ==
  ASSUME TypeOK, Fits, OwnRow, [Next]_vars
  PROVE  Fits'
<1> SUFFICES ASSUME NEW t \in Threads
             PROVE  /\ at'[t] # "idle" => job'[t] \in Serves(at'[t]) /\ ~failed'[t]
                    /\ ~HoldsChat(t)' /\ ~HoldsMessage(t)' => session'[t] = 0
                    /\ at'[t] = "UserToChat" /\ job'[t].op = "create" =>
                         chatId'[t] = session'[t]
  BY DEF Fits, Serves
<1>0. /\ at[t] # "idle" => job[t] \in Serves(at[t]) /\ ~failed[t]
      /\ ~HoldsChat(t) /\ ~HoldsMessage(t) => session[t] = 0
      /\ at[t] = "UserToChat" /\ job[t].op = "create" => chatId[t] = session[t]
  BY DEF Fits
<1>1. CASE Same(t)
  BY <1>0, <1>1 DEF Same, HoldsChat, HoldsMessage
<1>2. CASE Killed(t)
  BY <1>2 DEF Killed
<1>3. CASE Refused(t)
  BY <1>0, <1>3 DEF Refused, HoldsChat, HoldsMessage
<1>4. CASE Begins(t)
  <2>1. session'[t] = 0
    BY <1>0, <1>4 DEF Begins, HoldsChat, HoldsMessage
  <2>2. at'[t] = "UserToChat" => job'[t].op # "create"
    BY <1>4, ServesJobs DEF Begins
  <2> QED
    BY <1>4, <2>1, <2>2 DEF Begins
<1>5. CASE Continues(t)
  BY <1>0, <1>5, AtStatement, ServesJobs DEF Continues, HoldsChat, HoldsMessage
<1>6. CASE Ends(t)
  BY <1>6 DEF Ends
<1> QED
  BY <1>1, <1>2, <1>3, <1>4, <1>5, <1>6, StepOfThread

\* Where the row that a request has made comes from: it held the row already,
\* or has just inserted it at the end of the table.
LEMMA RowsMade ==
  ASSUME TypeOK, Fits, OwnRow, [Next]_vars, NEW t \in Threads
  PROVE  /\ MadeChat(t)' =>
              /\ job'[t] = job[t]
              /\ \/ MadeChat(t) /\ Row(t)' = Row(t)
                 \/ /\ chats' = Append(chats, job[t].user)
                    /\ job[t].user \in UserIds
                    /\ Row(t)' = Len(chats) + 1 /\ at'[t] # "idle"
              /\ at'[t] = "idle" /\ at[t] # "idle" =>
                   <<Row(t)', job[t].user>> \in members'
         /\ MadeMessage(t)' =>
              /\ job'[t] = job[t]
              /\ \/ MadeMessage(t) /\ Row(t)' = Row(t)
                 \/ /\ messages' = Append(messages, [chat |-> job[t].chat,
                                                     user |-> job[t].user,
                                                     text |-> job[t].text])
                    /\ [chat |-> job[t].chat, user |-> job[t].user,
                        text |-> job[t].text] \in Message
                    /\ Row(t)' = Len(messages) + 1
<1> DEFINE C == /\ job'[t] = job[t]
                /\ \/ MadeChat(t) /\ Row(t)' = Row(t)
                   \/ /\ chats' = Append(chats, job[t].user)
                      /\ job[t].user \in UserIds
                      /\ Row(t)' = Len(chats) + 1 /\ at'[t] # "idle"
                /\ at'[t] = "idle" /\ at[t] # "idle" =>
                     <<Row(t)', job[t].user>> \in members'
           M == /\ job'[t] = job[t]
                /\ \/ MadeMessage(t) /\ Row(t)' = Row(t)
                   \/ /\ messages' = Append(messages, [chat |-> job[t].chat,
                                                       user |-> job[t].user,
                                                       text |-> job[t].text])
                      /\ [chat |-> job[t].chat, user |-> job[t].user,
                          text |-> job[t].text] \in Message
                      /\ Row(t)' = Len(messages) + 1
<1>1. CASE Same(t)
  BY <1>1 DEF Same, MadeChat, MadeMessage, HoldsChat, HoldsMessage, Told, Answered, Row
<1>2. CASE Killed(t)
  BY <1>2 DEF Killed, MadeChat, MadeMessage, HoldsChat, HoldsMessage, Told, Answered
<1>3. CASE Refused(t)
  BY <1>3 DEF Refused, MadeChat, MadeMessage, HoldsChat, HoldsMessage, Told, Answered
<1>4. CASE Begins(t)
  <2>1. at'[t] = "UserToChat" => job'[t].op # "create"
    BY <1>4, ServesJobs DEF Begins
  <2> QED
    BY <1>4, <2>1 DEF Begins, MadeChat, MadeMessage, HoldsChat, HoldsMessage,
                      Told, Answered, Statements
<1>5. CASE Continues(t)
  <2>1. CASE at[t] = "Chat"
    BY <1>5, <2>1, AtStatement, ServesJobs
       DEF Continues, MadeChat, MadeMessage, HoldsChat, HoldsMessage, Told, Answered, Row
  <2>2. CASE at[t] = "ChatId"
    BY <1>5, <2>2
       DEF Continues, MadeChat, MadeMessage, HoldsChat, HoldsMessage, Told, Answered, Row
  <2>3. CASE at[t] = "Message"
    <3>1. [chat |-> job[t].chat, user |-> job[t].user, text |-> job[t].text] \in Message
      BY <2>3, AtStatement, ServesJobs DEF Message
    <3> QED
      BY <1>5, <2>3, <3>1
         DEF Continues, MadeChat, MadeMessage, HoldsChat, HoldsMessage, Told, Answered, Row
  <2> QED
    BY <1>5, <2>1, <2>2, <2>3 DEF Continues
<1>6. CASE Answering(t) /\ Ends(t)
  <2>1. /\ job[t].op = "create" /\ answer'[t].status = 200 =>
              /\ HoldsChat(t) /\ answer'[t].id = session[t]
              /\ <<session[t], job[t].user>> \in members'
        /\ job[t].op = "post" /\ answer'[t].status = 200 =>
              HoldsMessage(t) /\ answer'[t].id = session[t]
    BY <1>6, WhatIsAnswered
  <2>2. at'[t] = "idle" /\ at[t] # "idle" /\ job'[t] = job[t]
    BY <1>6 DEF Ends
  <2>3. Row(t)' = answer'[t].id /\ Row(t) = session[t]
    BY <2>2 DEF Row
  <2>4. MadeChat(t)' => C
    BY <2>1, <2>2, <2>3 DEF MadeChat, HoldsChat, Told, Answered
  <2>5. MadeMessage(t)' => M
    BY <2>1, <2>2, <2>3 DEF MadeMessage, HoldsMessage, Told, Answered
  <2> QED
    BY <2>4, <2>5
<1> QED
  BY <1>1, <1>2, <1>3, <1>4, <1>5, <1>6, StepOfThread

\* A row that a request has made stays what the request asked for.
LEMMA NextOwnRow ==
  ASSUME TypeOK, Fits, OwnRow, [Next]_vars
  PROVE  OwnRow'
<1> SUFFICES ASSUME NEW t \in Threads
             PROVE  /\ MadeChat(t)' => /\ Row(t)' \in 1..Len(chats')
                                       /\ chats'[Row(t)'] = job'[t].user
                                       /\ at'[t] = "idle" =>
                                            <<Row(t)', job'[t].user>> \in members'
                    /\ MadeMessage(t)' => /\ Row(t)' \in 1..Len(messages')
                                          /\ messages'[Row(t)'] =
                                               [chat |-> job'[t].chat,
                                                user |-> job'[t].user,
                                                text |-> job'[t].text]
  BY DEF OwnRow
<1>a. TablesOK
  BY TypeParts
<1>b. Grows
  BY RowsAreAdded
<1>c. /\ MadeChat(t) => /\ Row(t) \in 1..Len(chats)
                        /\ chats[Row(t)] = job[t].user
                        /\ at[t] = "idle" => <<Row(t), job[t].user>> \in members
      /\ MadeMessage(t) => /\ Row(t) \in 1..Len(messages)
                           /\ messages[Row(t)] = [chat |-> job[t].chat,
                                                  user |-> job[t].user,
                                                  text |-> job[t].text]
  BY DEF OwnRow
<1>1. ASSUME MadeChat(t)'
      PROVE  /\ Row(t)' \in 1..Len(chats') /\ chats'[Row(t)'] = job'[t].user
             /\ at'[t] = "idle" => <<Row(t)', job'[t].user>> \in members'
  <2>a. job'[t] = job[t] /\ (at'[t] = "idle" /\ at[t] # "idle" =>
                               <<Row(t)', job[t].user>> \in members')
    BY <1>1, RowsMade
  <2>1. CASE MadeChat(t) /\ Row(t)' = Row(t)
    <3> DEFINE r == Row(t)
    <3>1. /\ r \in 1..Len(chats) /\ chats[r] = job[t].user
          /\ at[t] = "idle" => <<r, job[t].user>> \in members
      BY <1>c, <2>1
    <3>2. Row(t)' = r
      BY <2>1
    <3> HIDE DEF r
    <3> QED
      BY <1>b, <2>a, <3>1, <3>2 DEF Grows
  <2>2. CASE /\ chats' = Append(chats, job[t].user) /\ job[t].user \in UserIds
             /\ Row(t)' = Len(chats) + 1 /\ at'[t] # "idle"
    BY <1>a, <2>a, <2>2, AppendedRow DEF TablesOK
  <2> QED
    BY <1>1, <2>1, <2>2, RowsMade
<1>2. ASSUME MadeMessage(t)'
      PROVE  /\ Row(t)' \in 1..Len(messages')
             /\ messages'[Row(t)'] = [chat |-> job'[t].chat, user |-> job'[t].user,
                                      text |-> job'[t].text]
  <2> DEFINE m == [chat |-> job[t].chat, user |-> job[t].user, text |-> job[t].text]
  <2>a. job'[t] = job[t]
    BY <1>2, RowsMade
  <2>1. CASE MadeMessage(t) /\ Row(t)' = Row(t)
    <3> DEFINE r == Row(t)
    <3>1. r \in 1..Len(messages) /\ messages[r] = m
      BY <1>c, <2>1
    <3>2. Row(t)' = r
      BY <2>1
    <3> HIDE DEF r
    <3> QED
      BY <1>b, <2>a, <3>1, <3>2 DEF Grows
  <2>2. CASE /\ messages' = Append(messages, m) /\ m \in Message
             /\ Row(t)' = Len(messages) + 1
    <3> HIDE DEF m
    <3>1. Row(t)' \in 1..Len(messages') /\ messages'[Row(t)'] = m
      BY <1>a, <2>2, AppendedRow DEF TablesOK
    <3> QED
      BY <2>a, <3>1 DEF m
  <2> QED
    BY <1>2, <2>1, <2>2, RowsMade
<1> QED
  BY <1>1, <1>2

\* Two threads do not insert into the same table in one step.
LEMMA OneInsert ==
  ASSUME TypeOK, Fits, OwnRow, [Next]_vars, NEW s \in Threads, NEW t \in Threads, s # t
  PROVE  /\ Same(s) \/ Same(t) \/ (Killed(s) /\ Killed(t))
         /\ Same(s) /\ MadeChat(s)' => MadeChat(s) /\ Row(s)' = Row(s)
         /\ Same(s) /\ MadeMessage(s)' => MadeMessage(s) /\ Row(s)' = Row(s)
<1>1. Crash => Killed(s) /\ Killed(t)
  BY DEF Crash, Killed
<1>2. UNCHANGED vars => Same(s)
  BY DEF vars, threadVars, Same
<1>3. ASSUME NEW w \in Threads, Request(w) \/ Step(w) PROVE Same(s) \/ Same(t)
  BY <1>3, OthersStay
<1>4. /\ Same(s) /\ MadeChat(s)' => MadeChat(s) /\ Row(s)' = Row(s)
      /\ Same(s) /\ MadeMessage(s)' => MadeMessage(s) /\ Row(s)' = Row(s)
  BY DEF Same, MadeChat, MadeMessage, HoldsChat, HoldsMessage, Told, Answered, Row
<1> QED
  BY <1>1, <1>2, <1>3, <1>4 DEF Next

\* No row is made twice.
LEMMA NextOneEach ==
  ASSUME TypeOK, Fits, OwnRow, OneEach, [Next]_vars
  PROVE  OneEach'
<1> SUFFICES ASSUME NEW s \in Threads, NEW t \in Threads, s # t
             PROVE  /\ MadeChat(s)' /\ MadeChat(t)' => Row(s)' # Row(t)'
                    /\ MadeMessage(s)' /\ MadeMessage(t)' => Row(s)' # Row(t)'
  BY DEF OneEach
<1>a. Len(chats) \in Nat /\ Len(messages) \in Nat
  BY RowsAreAdded DEF Grows
<1>b. /\ MadeChat(s) /\ MadeChat(t) => Row(s) # Row(t)
      /\ MadeMessage(s) /\ MadeMessage(t) => Row(s) # Row(t)
  BY DEF OneEach
<1>c. \A w \in Threads : /\ MadeChat(w) => Row(w) \in 1..Len(chats)
                         /\ MadeMessage(w) => Row(w) \in 1..Len(messages)
  BY DEF OwnRow
<1>1. ASSUME NEW v \in {s, t}, NEW w \in {s, t}, v # w, Same(v)
      PROVE  /\ MadeChat(v)' /\ MadeChat(w)' => Row(v)' # Row(w)'
             /\ MadeMessage(v)' /\ MadeMessage(w)' => Row(v)' # Row(w)'
  <2>1. /\ MadeChat(v)' => MadeChat(v) /\ Row(v)' = Row(v)
        /\ MadeMessage(v)' => MadeMessage(v) /\ Row(v)' = Row(v)
    BY <1>1, OneInsert
  <2>2. /\ MadeChat(w)' => \/ MadeChat(w) /\ Row(w)' = Row(w)
                           \/ Row(w)' = Len(chats) + 1
        /\ MadeMessage(w)' => \/ MadeMessage(w) /\ Row(w)' = Row(w)
                              \/ Row(w)' = Len(messages) + 1
    BY RowsMade
  <2> QED
    BY <1>1, <1>a, <1>b, <1>c, <2>1, <2>2
<1>2. ASSUME Killed(s), Killed(t)
      PROVE  ~MadeChat(s)' /\ ~MadeMessage(s)'
  BY <1>2 DEF Killed, MadeChat, MadeMessage, HoldsChat, HoldsMessage, Told, Answered
<1> QED
  BY <1>1, <1>2, OneInsert

\* What has been confirmed stays in the tables.
LEMMA NextBacked ==
  ASSUME TypeOK, Fits, OwnRow, Backed, [Next]_vars
  PROVE  Backed'
<1> SUFFICES ASSUME NEW f \in confirmed' PROVE Holds(f, chats', members', messages')
  BY DEF Backed
<1>1. CASE f \in confirmed
  <2>1. Holds(f, chats, members, messages)
    BY <1>1 DEF Backed
  <2>2. /\ \A i \in 1..Len(chats) : i \in 1..Len(chats') /\ chats'[i] = chats[i]
        /\ \A i \in 1..Len(messages) : i \in 1..Len(messages')
        /\ members \subseteq members'
    BY RowsAreAdded DEF Grows
  <2> QED
    BY <2>1, <2>2 DEF Holds
<1> QED
  BY <1>1, Confirmed

\* What a request knows of is fixed when it comes in, and nothing confirmed is
\* taken back.
LEMMA NextEarlier ==
  ASSUME TypeOK, Fits, OwnRow, Earlier, [Next]_vars
  PROVE  Earlier'
<1> SUFFICES ASSUME NEW t \in Threads PROVE known'[t] \subseteq confirmed'
  BY DEF Earlier
<1>1. known'[t] = known[t] \/ known'[t] = {} \/ known'[t] = confirmed
  BY StepOfThread DEF Same, Killed, Refused, Begins, Continues, Ends
<1> QED
  BY <1>1, Confirmed DEF Earlier

\* A read that was answered before stays right, as rows stay; one that is
\* answered now read every row, and what it knows of is in the tables, or it
\* failed and shows nothing.
LEMMA NextReadsSeeConfirmed ==
  ASSUME TypeOK, Fits, OwnRow, Backed, Earlier, ReadsSeeConfirmed, [Next]_vars
  PROVE  ReadsSeeConfirmed'
<1> SUFFICES ASSUME NEW t \in Threads, at'[t] = "idle", job'[t] # None, answer'[t] # None
             PROVE  /\ job'[t].op = "messages" /\ answer'[t].status = 200 =>
                         IF failed'[t] THEN answer'[t].list = {}
                         ELSE \A f \in known'[t] :
                                f.kind = "message" /\ messages'[f.id].chat = job'[t].chat
                                  => f.id \in answer'[t].list
                    /\ job'[t].op = "chats" /\ answer'[t].status = 200 =>
                         IF failed'[t] THEN answer'[t].list = {}
                         ELSE \A f \in known'[t] :
                                f.kind = "member" /\ f.user = job'[t].user
                                  /\ [kind |-> "chat", id |-> f.chat] \in known'[t]
                                => f.chat \in answer'[t].list
                    /\ job'[t].op = "chat" /\ answer'[t].status = 404 /\ ~failed'[t] =>
                         [kind |-> "chat", id |-> job'[t].chat] \notin known'[t]
  BY DEF ReadsSeeConfirmed, Answered
<1>a. \A f \in known[t] : Holds(f, chats, members, messages)
  BY DEF Earlier, Backed
<1>b. /\ \A c : [kind |-> "chat", id |-> c] \in known[t] => c \in 1..Len(chats)
      /\ \A f \in known[t] : f.kind = "member" => <<f.chat, f.user>> \in members
      /\ \A f \in known[t] : f.kind = "message" =>
           f.id \in 1..Len(messages) /\ messages'[f.id] = messages[f.id]
  BY <1>a, RowsAreAdded DEF Grows, Holds
<1>1. CASE Same(t)
  <2>1. /\ at[t] = "idle" /\ job[t] # None /\ answer[t] # None
        /\ job'[t] = job[t] /\ answer'[t] = answer[t] /\ known'[t] = known[t]
        /\ failed'[t] = failed[t]
    BY <1>1 DEF Same
  <2>2. /\ job[t].op = "messages" /\ answer[t].status = 200 =>
             IF failed[t] THEN answer[t].list = {}
             ELSE \A f \in known[t] :
                    f.kind = "message" /\ messages[f.id].chat = job[t].chat
                      => f.id \in answer[t].list
        /\ job[t].op = "chats" /\ answer[t].status = 200 =>
             IF failed[t] THEN answer[t].list = {}
             ELSE \A f \in known[t] :
                    f.kind = "member" /\ f.user = job[t].user
                      /\ [kind |-> "chat", id |-> f.chat] \in known[t]
                    => f.chat \in answer[t].list
        /\ job[t].op = "chat" /\ answer[t].status = 404 /\ ~failed[t] =>
             [kind |-> "chat", id |-> job[t].chat] \notin known[t]
    BY <2>1 DEF ReadsSeeConfirmed, Answered
  <2>3. \A f \in known[t] : f.kind = "message" => messages'[f.id] = messages[f.id]
    BY <1>b
  <2> QED
    BY <2>1, <2>2, <2>3
<1>2. CASE Answering(t) /\ Ends(t)
  <2>1. job'[t] = job[t] /\ known'[t] = known[t]
    BY <1>2 DEF Ends
  <2>2. /\ failed'[t] /\ job[t].op \in {"chats", "messages"} => answer'[t].list = {}
        /\ ~failed'[t] =>
             /\ job[t].op = "messages" =>
                  answer'[t].list = {m \in 1..Len(messages) :
                                       messages[m].chat = job[t].chat}
             /\ job[t].op = "chats" =>
                  answer'[t].list = {c \in 1..Len(chats) : <<c, job[t].user>> \in members}
             /\ job[t].op = "chat" /\ answer'[t].status = 404 =>
                  job[t].chat \notin 1..Len(chats)
    BY <1>2, WhatIsAnswered
  <2>3. job[t].op = "messages" /\ ~failed'[t] =>
          \A f \in known[t] : f.kind = "message" /\ messages'[f.id].chat = job[t].chat
                                => f.id \in answer'[t].list
    BY <1>b, <2>2
  <2>4. job[t].op = "chats" /\ ~failed'[t] =>
          \A f \in known[t] : f.kind = "member" /\ f.user = job[t].user
                                /\ [kind |-> "chat", id |-> f.chat] \in known[t]
                              => f.chat \in answer'[t].list
    BY <1>b, <2>2
  <2>5. job[t].op = "chat" /\ answer'[t].status = 404 /\ ~failed'[t] =>
          [kind |-> "chat", id |-> job[t].chat] \notin known[t]
    BY <1>b, <2>2
  <2> QED
    BY <2>1, <2>2, <2>3, <2>4, <2>5
<1>3. ~Killed(t) /\ ~Refused(t) /\ ~Begins(t)
  BY DEF Killed, Refused, Begins
<1>4. ~Continues(t)
  BY DEF Continues
<1> QED
  BY <1>1, <1>2, <1>3, <1>4, StepOfThread

-----------------------------------------------------------------------------
(***************************************************************************)
(* Chats without their creator                                             *)
(***************************************************************************)

\* Orphans are chats: their number is a number.
LEMMA FinitelyMany ==
  ASSUME TypeOK
  PROVE  /\ IsFiniteSet(Orphans) /\ Cardinality(Orphans) \in Nat
         /\ IsFiniteSet(Threads) /\ Cardinality(Threads) \in Nat
<1>1. Len(chats) \in Nat
  BY AppendedRow DEF TypeOK
<1>2. IsFiniteSet(1..Len(chats))
  BY <1>1, FS_Interval
<1>3. Orphans \in SUBSET (1..Len(chats))
  BY DEF Orphans
<1>4. IsFiniteSet(Orphans)
  BY <1>2, <1>3, FS_Subset
<1> QED
  BY <1>4, FS_CardinalityType, ThreadsAssumption

\* A chat that is an orphan after a step was one before, or was held by a
\* thread whose request the step has ended.
LEMMA NewOrphans ==
  ASSUME TypeOK, Fits, OwnRow, [Next]_vars, NEW c \in Orphans'
  PROVE  \/ c \in Orphans
         \/ \E t \in Threads : /\ at[t] \in {"ChatId", "UserToChat"} /\ session[t] = c
                               /\ ~Same(t)
         \/ \E t \in Threads : InsertUnanswered(t) /\ at[t] = "Chat" /\ c = Len(chats) + 1
<1>a. TablesOK
  BY TypeParts
<1>b. /\ c \in 1..Len(chats') /\ <<c, chats'[c]>> \notin members' /\ ~Creating(c)'
  BY DEF Orphans
<1>c. Len(chats) \in Nat /\ Len(chats') \in Nat
  BY RowsAreAdded DEF Grows
<1>1. CASE c \in 1..Len(chats)
  <2>1. <<c, chats[c]>> \notin members
    BY <1>b, <1>1, RowsAreAdded DEF Grows
  <2>2. CASE Creating(c)
    <3>1. PICK t \in Threads : at[t] \in {"ChatId", "UserToChat"} /\ session[t] = c
      BY <2>2 DEF Creating
    <3>2. Same(t) => Creating(c)'
      BY <3>1 DEF Same, Creating
    <3> QED
      BY <1>b, <3>1, <3>2
  <2>3. CASE ~Creating(c)
    BY <1>1, <2>1, <2>3 DEF Orphans
  <2> QED
    BY <2>2, <2>3
<1>2. CASE c \notin 1..Len(chats)
  <2>1. chats' # chats
    BY <1>b, <1>2
  <2>2. PICK t \in Threads : at[t] = "Chat" /\ (InsertChat(t) \/ InsertUnanswered(t))
    <3>1. UNCHANGED vars \/ Crash => chats' = chats
      BY DEF vars, tableVars, Crash
    <3>2. ASSUME NEW t \in Threads, Request(t) PROVE chats' = chats
      BY <3>2 DEF Request, Create, ListChats, GetChat, GetMessages, AddMember, Post,
                  Receive, Refuse, tableVars
    <3>3. ASSUME NEW t \in Threads, Step(t)
          PROVE  chats' = chats \/ (at[t] = "Chat" /\ (InsertChat(t) \/ InsertUnanswered(t)))
      BY <3>3 DEF Step, InsertChat, SelectChatId, InsertMember, ReadChats, ReadChat,
                  InsertMessage, SelectMessageId, ReadMessages, StatementFails,
                  InsertUnanswered, tableVars
    <3> QED
      BY <2>1, <3>1, <3>2, <3>3 DEF Next
  <2>3. job[t].user \in UserIds /\ chats' = Append(chats, job[t].user)
    BY <2>2, AtStatement, ServesJobs DEF InsertChat, InsertUnanswered
  <2>4. c = Len(chats) + 1
    BY <1>a, <1>b, <1>c, <1>2, <2>3, AppendedRow DEF TablesOK
  <2>5. InsertChat(t) => Creating(c)'
    BY <2>4, TypeParts DEF InsertChat, Continue, Creating, ThreadsOK
  <2> QED
    BY <1>b, <2>2, <2>4, <2>5
<1> QED
  BY <1>1, <1>2

\* A step without a fault leaves no chat behind.
LEMMA OrphansNeedFaults ==
  ASSUME TypeOK, Fits, OwnRow, [Next]_vars, faults' = faults
  PROVE  Orphans' \subseteq Orphans
<1> SUFFICES ASSUME NEW c \in Orphans', c \notin Orphans PROVE FALSE
  OBVIOUS
<1>a. ThreadsOK /\ TablesOK
  BY TypeParts
<1>b. /\ c \in 1..Len(chats') /\ <<c, chats'[c]>> \notin members' /\ ~Creating(c)'
  BY DEF Orphans
<1>c. ~Fault
  BY <1>a DEF Fault, TablesOK
<1>1. PICK t \in Threads : /\ at[t] \in {"ChatId", "UserToChat"} /\ session[t] = c
                           /\ ~Same(t)
  BY <1>c, NewOrphans DEF InsertUnanswered, Fails
<1>2. SelectChatId(t) \/ InsertMember(t)
  <2>1. Request(t) => at[t] = "idle"
    BY DEF Request, Create, ListChats, GetChat, GetMessages, AddMember, Post,
           Receive, Refuse
  <2>2. Step(t) => SelectChatId(t) \/ InsertMember(t)
    BY <1>1, <1>c DEF Step, InsertChat, ReadChats, ReadChat, InsertMessage,
                      SelectMessageId, ReadMessages, StatementFails, InsertUnanswered, Fails
  <2>3. ASSUME NEW s \in Threads, Request(s) \/ Step(s) PROVE s = t
    BY <1>1, <2>3, OthersStay
  <2>4. ~Crash /\ ~UNCHANGED vars
    BY <1>1, <1>c DEF Crash, vars, threadVars, Same
  <2> QED
    BY <1>1, <2>1, <2>2, <2>3, <2>4 DEF Next
<1>3. CASE SelectChatId(t)
  <2>1. at'[t] = "UserToChat" /\ session'[t] = c
    BY <1>a, <1>1, <1>3 DEF SelectChatId, Continue, ThreadsOK
  <2> QED
    BY <1>b, <2>1 DEF Creating
<1>4. CASE InsertMember(t)
  <2>1. at[t] = "UserToChat" /\ chats' = chats
    BY <1>4 DEF InsertMember
  <2>2. job[t].op = "create"
    <3>1. SUFFICES ASSUME job[t].op # "create" PROVE FALSE
      OBVIOUS
    <3>2. session[t] = 0
      BY <2>1, <3>1 DEF Fits, HoldsChat, HoldsMessage
    <3> QED
      BY <1>1, <1>b, <3>2, RowsAreAdded DEF Grows
  <2>3. NewMember(t).chat = c /\ NewMember(t).user = chats[c]
    BY <1>1, <2>1, <2>2, AtStatement
  <2>4. <<c, chats[c]>> \in members'
    BY <1>4, <2>3 DEF InsertMember
  <2> QED
    BY <1>b, <2>1, <2>4
<1> QED
  BY <1>2, <1>3, <1>4

\* A fault leaves one chat behind per thread, at most.
LEMMA FaultyOrphans ==
  ASSUME TypeOK, Fits, OwnRow, [Next]_vars, faults' # faults
  PROVE  Cardinality(Orphans') <= Cardinality(Orphans) + Cardinality(Threads)
<1> DEFINE N == Cardinality(Threads)
           K == Cardinality(Orphans)
           O == Orphans
           P == Orphans'
<1>a. /\ IsFiniteSet(O) /\ K \in Nat /\ K = Cardinality(O)
      /\ IsFiniteSet(Threads) /\ N \in Nat
  BY FinitelyMany
<1>b. Crash \/ \E t \in Threads : Step(t) /\ at[t] # "idle"
  <2>1. ASSUME NEW t \in Threads, Request(t) PROVE faults' = faults
    BY <2>1 DEF Request, Create, ListChats, GetChat, GetMessages, AddMember, Post,
                Receive, Refuse
  <2>2. ASSUME NEW t \in Threads, Step(t) PROVE at[t] # "idle"
    BY <2>2 DEF Step, InsertChat, SelectChatId, InsertMember, ReadChats, ReadChat,
                InsertMessage, SelectMessageId, ReadMessages, StatementFails,
                InsertUnanswered
  <2>3. UNCHANGED vars => faults' = faults
    BY DEF vars
  <2> QED
    BY <2>1, <2>2, <2>3 DEF Next
<1>1. CASE \E t \in Threads : Step(t) /\ at[t] # "idle"
  <2>1. PICK t \in Threads : Step(t) /\ at[t] # "idle"
    BY <1>1
  <2> DEFINE x == IF at[t] = "Chat" THEN Len(chats) + 1 ELSE session[t]
  <2>2. P \subseteq O \cup {x}
    <3> SUFFICES ASSUME NEW c \in P, c \notin O PROVE c = x
      OBVIOUS
    <3>1. CASE \E s \in Threads : /\ at[s] \in {"ChatId", "UserToChat"}
                                  /\ session[s] = c /\ ~Same(s)
      <4>1. PICK s \in Threads : /\ at[s] \in {"ChatId", "UserToChat"}
                                 /\ session[s] = c /\ ~Same(s)
        BY <3>1
      <4>2. s = t
        BY <2>1, <4>1, OthersStay
      <4> QED
        BY <4>1, <4>2
    <3>2. CASE \E s \in Threads : InsertUnanswered(s) /\ at[s] = "Chat"
                                  /\ c = Len(chats) + 1
      <4>1. PICK s \in Threads : InsertUnanswered(s) /\ at[s] = "Chat"
                                 /\ c = Len(chats) + 1
        BY <3>2
      <4>2. at'[s] = "idle"
        BY <4>1, TypeParts DEF InsertUnanswered, Fails, Send, ThreadsOK
      <4>3. s = t
        BY <2>1, <4>1, <4>2, OthersStay DEF Same
      <4> QED
        BY <4>1, <4>3
    <3> QED
      BY <3>1, <3>2, NewOrphans
  <2> HIDE DEF O, P, x
  <2>3. /\ IsFiniteSet(O \cup {x})
        /\ Cardinality(O \cup {x}) = IF x \in O THEN Cardinality(O) ELSE Cardinality(O) + 1
    BY <1>a, FS_AddElement
  <2>4. IsFiniteSet(P) /\ Cardinality(P) <= Cardinality(O \cup {x})
    BY <2>2, <2>3, FS_Subset
  <2>5. Cardinality(P) \in Nat /\ Cardinality(O \cup {x}) \in Nat
    BY <2>3, <2>4, FS_CardinalityType
  <2>6. N # 0
    BY <1>a, FS_EmptySet
  <2> HIDE DEF N, K
  <2>7. Cardinality(P) <= K + N
    BY <1>a, <2>3, <2>4, <2>5, <2>6
  <2> QED
    BY <2>7 DEF P, K, N
<1>2. CASE Crash
  <2> DEFINE Held == {session[t] : t \in Threads}
  <2>1. P \subseteq O \cup Held
    <3>1. ASSUME NEW s \in Threads PROVE ~InsertUnanswered(s) \/ at[s] # "Chat"
      BY <1>2 DEF Crash, InsertUnanswered, tableVars
    <3> QED
      BY <3>1, NewOrphans
  <2>2. IsFiniteSet(Held) /\ Cardinality(Held) <= N
    <3>1. session \in [Threads -> Held] /\ \A c \in Held : \E t \in Threads : session[t] = c
      BY TypeParts DEF ThreadsOK
    <3>2. session \in Surjection(Threads, Held)
      BY <3>1 DEF Surjection
    <3> QED
      BY <1>a, <3>2, FS_Surjection
  <2> HIDE DEF O, P, Held
  <2>3. /\ IsFiniteSet(O \cup Held) /\ Cardinality(O \cap Held) \in Nat
        /\ Cardinality(Held) \in Nat
        /\ Cardinality(O \cup Held)
             = Cardinality(O) + Cardinality(Held) - Cardinality(O \cap Held)
    BY <1>a, <2>2, FS_Union, FS_Intersection, FS_CardinalityType
  <2>4. Cardinality(O \cup Held) <= K + N
    BY <1>a, <2>2, <2>3
  <2>5. IsFiniteSet(P) /\ Cardinality(P) <= Cardinality(O \cup Held)
    BY <2>1, <2>3, FS_Subset
  <2>6. Cardinality(P) \in Nat /\ Cardinality(O \cup Held) \in Nat
    BY <2>3, <2>5, FS_CardinalityType
  <2> HIDE DEF N, K
  <2>7. Cardinality(P) <= K + N
    BY <1>a, <2>4, <2>5, <2>6
  <2> QED
    BY <2>7 DEF P, K, N
<1> QED
  BY <1>b, <1>1, <1>2

\* Only a fault makes orphans, one for each thread at most.
LEMMA NextOrphansAreFaults ==
  ASSUME TypeOK, Fits, OwnRow, OrphansAreFaults, [Next]_vars, TypeOK'
  PROVE  OrphansAreFaults'
<1> DEFINE N == Cardinality(Threads)
           K == Cardinality(Orphans)
           L == Cardinality(Orphans')
<1>1. /\ K \in Nat /\ N \in Nat /\ K <= faults * N
      /\ faults \in Nat /\ faults' \in Nat
  BY FinitelyMany, BoundAssumption DEF OrphansAreFaults, TypeOK
<1>2. L \in Nat /\ IsFiniteSet(Orphans)
  <2>1. IsFiniteSet(Orphans) /\ IsFiniteSet(Orphans')
    <3>1. Len(chats') \in Nat
      BY RowsAreAdded DEF Grows
    <3>2. IsFiniteSet(1..Len(chats'))
      BY <3>1, FS_Interval
    <3>3. Orphans' \in SUBSET (1..Len(chats'))
      BY DEF Orphans
    <3> QED
      BY <3>2, <3>3, FS_Subset, FinitelyMany
  <2> QED
    BY <2>1, FS_CardinalityType
<1>3. CASE faults' = faults
  <2>1. Orphans' \in SUBSET Orphans
    BY <1>3, OrphansNeedFaults
  <2>2. L <= K
    BY <1>2, <2>1, FS_Subset
  <2>3. L <= faults' * N
    <3> HIDE DEF K, L, N
    <3>1. faults * N \in Nat
      BY <1>1
    <3> QED
      BY <1>1, <1>2, <1>3, <2>2, <3>1
  <2> QED
    BY <2>3 DEF OrphansAreFaults
<1>4. CASE faults' # faults
  <2>1. L <= K + N
    BY <1>4, FaultyOrphans
  <2>2. faults' = faults + 1
    <3>1. ASSUME NEW t \in Threads, Request(t) PROVE faults' = faults
      BY <3>1 DEF Request, Create, ListChats, GetChat, GetMessages, AddMember, Post,
                  Receive, Refuse
    <3>2. ASSUME NEW t \in Threads, Step(t) PROVE faults' = faults \/ Fault
      BY <3>2 DEF Step, InsertChat, SelectChatId, InsertMember, ReadChats, ReadChat,
                  InsertMessage, SelectMessageId, ReadMessages, StatementFails,
                  InsertUnanswered, Fails
    <3>3. UNCHANGED vars \/ Crash => faults' = faults \/ Fault
      BY DEF vars, Crash
    <3> QED
      BY <1>4, <3>1, <3>2, <3>3 DEF Next, Fault
  <2>3. L <= faults' * N
    <3> HIDE DEF K, L, N
    <3>1. faults * N \in Nat /\ (faults + 1) * N = faults * N + N
      BY <1>1
    <3> QED
      BY <1>1, <1>2, <2>1, <2>2, <3>1
  <2> QED
    BY <2>3 DEF OrphansAreFaults
<1> QED
  BY <1>3, <1>4

-----------------------------------------------------------------------------
(***************************************************************************)
(* The theorems                                                            *)
(***************************************************************************)
LEMMA InitInv == Init => Inv
<1> SUFFICES ASSUME Init PROVE Inv
  OBVIOUS
<1> USE BoundAssumption DEF Init
<1>1. TypeOK
  <2>1. TablesOK
    BY DEF TablesOK
  <2>2. ThreadsOK
    <3>1. failed \in [Threads -> BOOLEAN]
      BY Zenon
    <3> QED
      BY <3>1 DEF ThreadsOK
  <2> QED
    BY <2>1, <2>2, TypeParts
<1>2. Rooms
  <2>1. Waiting("Chat") = {} /\ Waiting("Message") = {}
    BY DEF Waiting
  <2>2. Cardinality(Waiting("Chat")) = 0 /\ Cardinality(Waiting("Message")) = 0
    BY <2>1, FS_EmptySet
  <2> QED
    BY <2>2 DEF Rooms
<1>3. Fits /\ OwnRow /\ OneEach /\ ReadsSeeConfirmed
  BY DEF Fits, OwnRow, OneEach, MadeChat, MadeMessage, HoldsChat, HoldsMessage,
         ReadsSeeConfirmed, Told, Answered
<1>4. Backed /\ Earlier
  BY DEF Backed, Earlier
<1>5. OrphansAreFaults
  <2>1. Orphans = {}
    BY DEF Orphans
  <2>2. Cardinality(Orphans) = 0
    BY <2>1, FS_EmptySet
  <2>3. Cardinality(Threads) \in Nat
    BY ThreadsAssumption, FS_CardinalityType
  <2> QED
    BY <2>2, <2>3 DEF OrphansAreFaults
<1> QED
  BY <1>1, <1>2, <1>3, <1>4, <1>5 DEF Inv

\* Inv is inductive.
LEMMA Invariance == Spec => []Inv
<1>1. Inv /\ [Next]_vars => Inv'
  BY NextTypeOK, NextRooms, NextFits, NextOwnRow, NextOneEach, NextBacked,
     NextEarlier, NextReadsSeeConfirmed, NextOrphansAreFaults DEF Inv
<1> QED
  BY InitInv, <1>1, PTL DEF Spec

\* Whatever the requests, statements and faults, the tables and the threads of
\* messenger_service have their types, and the tables stay within their bounds.
THEOREM TypeCorrect == Spec => []TypeOK
<1>1. Inv => TypeOK
  BY DEF Inv
<1> QED
  BY Invariance, <1>1, PTL

\* POST /chat and POST /message answer with the id of the row their own request
\* inserted, which no other request is answered with, however many threads
\* insert between INSERT and LAST_INSERT_ID; and a chat that has been answered
\* has its creator as a member.
THEOREM IdsAreOwn == Spec => []AnswersNameOwnRows
<1>1. Inv => AnswersNameOwnRows
  <2> SUFFICES ASSUME Inv PROVE AnswersNameOwnRows
    OBVIOUS
  <2>1. ASSUME NEW t \in Threads
        PROVE  /\ Told(t, "create") =>
                    /\ answer[t].id \in 1..Len(chats)
                    /\ chats[answer[t].id] = job[t].user
                    /\ <<answer[t].id, job[t].user>> \in members
               /\ Told(t, "post") =>
                    /\ answer[t].id \in 1..Len(messages)
                    /\ messages[answer[t].id] = [chat |-> job[t].chat,
                                                 user |-> job[t].user,
                                                 text |-> job[t].text]
    BY DEF Inv, OwnRow, MadeChat, MadeMessage, Row, Told, Answered
  <2>2. ASSUME NEW op \in {"create", "post"}, NEW s \in Threads, NEW t \in Threads,
               s # t, Told(s, op), Told(t, op)
        PROVE  answer[s].id # answer[t].id
    BY <2>2 DEF Inv, OneEach, MadeChat, MadeMessage, Row, Told, Answered
  <2> QED
    BY <2>1, <2>2 DEF AnswersNameOwnRows
<1> QED
  BY Invariance, <1>1, PTL

\* The two INSERTs of POST /chat leave a chat without its creator only when a
\* fault falls between them: one chat per thread and fault.
THEOREM OrphansComeFromFaults == Spec => []OrphansAreFaults
<1>1. Inv => OrphansAreFaults
  BY DEF Inv
<1> QED
  BY Invariance, <1>1, PTL

\* GET /message lists every message of the chat, and GET /chat every chat whose
\* creation and the user's membership of which, as its creator or through
\* addMember, a client had been answered 200 for before the request came in; a
\* request whose statement failed lists nothing, and no other is answered 404
\* for such a chat.
THEOREM ReadsAreFresh == Spec => []ReadsSeeConfirmed
<1>1. Inv => ReadsSeeConfirmed
  BY DEF Inv
<1> QED
  BY Invariance, <1>1, PTL
=============================================================================
