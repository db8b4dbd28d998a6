------------------------------ MODULE Answering ------------------------------
(***************************************************************************)
(* How both services answer: which handler and which branch a request       *)
(* comes to, what is sent on the way, and where an exception goes.         *)
(*                                                                         *)
(* A response can be sent once. Poco's send() asserts it, so that a second  *)
(* one throws (external, as is what the server does with an exception that  *)
(* leaves handleRequest: it answers 500 if nothing was sent, and closes the *)
(* connection). Some branches of the handlers do send twice.               *)
(*                                                                         *)
(* What the calls of a branch do is in Registration, UserDirectory,         *)
(* Messenger and AuthCalls; here they succeed, find nothing, or throw.      *)
(***************************************************************************)
EXTENDS Integers

CONSTANT None   \* no request, nothing sent

Statuses == {200, 400, 401, 404, 422, 500, 501}

ASSUME NoneAssumption == None \notin Statuses

Methods == {"GET", "POST", "PUT"}

\* What a request's URI holds, and which parameters come with it.
AuthRequests ==
  [service : {"auth"}, method : Methods,
   uri    : SUBSET {"/user", "/auth", "/search"},
   params : SUBSET {"id", "names", "profile"}]

MessengerRequests ==
  [service : {"messenger"}, method : Methods,
   prefix : {"/chat", "/message", "other"},
   uri    : SUBSET {"searchByChatId", "searchByUserId", "addMember"},
   params : SUBSET {"chatId", "userId", "chatName", "text"}]

Requests == AuthRequests \cup MessengerRequests

VARIABLES
  request,   \* the request being served or served last, or None
  at,        \* "idle", or the place in the handler, a name
  sent,      \* the status of the answer that was sent, or None
  wrote,     \* the request has changed a table or the queue
  closed     \* the server has closed the connection

vars == <<request, at, sent, wrote, closed>>

Init ==
  /\ request = None
  /\ at = "idle"
  /\ sent = None
  /\ wrote = FALSE
  /\ closed = FALSE

Has(p)     == p \in request.params
UriHas(s)  == s \in request.uri
Method(m)  == request.method = m

Goto(place) == at' = place /\ UNCHANGED sent

\* response.send() with a status, then on to `next`; `catch` is where its
\* exception goes if something was sent before.
Send(status, next, catch) ==
  IF sent = None THEN sent' = status /\ at' = next ELSE Goto(catch)

\* `return`, and the request is over.
Return(status, catch) == Send(status, "idle", catch)

Quiet == UNCHANGED <<request, wrote, closed>>

\* A request on a new connection or on one that was kept open.
Receive(r) ==
  /\ at = "idle"
  /\ request' = r
  /\ at' = "factory"
  /\ sent' = None
  /\ wrote' = FALSE
  /\ closed' = FALSE

\* createRequestHandler. Without a handler Poco answers 501.
Factory ==
  /\ at = "factory"
  /\ \/ request.service = "auth" /\ request.uri # {} /\ Goto("UserHandler")
     \/ request.service = "messenger" /\ request.prefix # "other" /\ Goto("authRequest")
     \/ request.service = "auth" /\ request.uri = {} /\ Return(501, "escaped")
     \/ request.service = "messenger" /\ request.prefix = "other" /\ Return(501, "escaped")
  /\ Quiet

\* An exception has left handleRequest.
Escaped ==
  /\ at = "escaped"
  /\ sent' = IF sent = None THEN 500 ELSE sent
  /\ at' = "idle"
  /\ closed' = TRUE
  /\ UNCHANGED <<request, wrote>>

-----------------------------------------------------------------------------
(***************************************************************************)
(* UserHandler: everything up to its catch (...) leads to its 404.          *)
(***************************************************************************)
UserBranch ==
  IF Has("id") /\ Method("GET") THEN "read"
  ELSE IF UriHas("/auth") THEN "auth"
  ELSE IF UriHas("/search") THEN "search"
  ELSE IF Method("POST") /\ {"names", "profile"} \subseteq request.params THEN "check"
  ELSE "notFound"

\* The form is read before the try.
User == at = "UserHandler" /\ (Goto(UserBranch) \/ Goto("escaped")) /\ Quiet

\* read_by_id returns a user or nobody, or put throws.
ReadUser ==
  /\ at = "read"
  /\ Return(200, "notFound") \/ Return(404, "notFound") \/ Goto("notFound")
  /\ Quiet

\* auth swallows its exceptions; getCredentials throws if there are none.
AuthUser ==
  /\ at = "auth"
  /\ Return(200, "notFound") \/ Return(401, "notFound") \/ Goto("notFound")
  /\ Quiet

\* form.get throws without a mask, and search when a SELECT does.
SearchUsers ==
  /\ at = "search"
  /\ (Has("names") /\ Return(200, "notFound")) \/ Goto("notFound")
  /\ Quiet

CheckProfile ==
  /\ at = "check"
  /\ Goto("produce") \/ Send(404, "sendAgain", "notFound")
  /\ Quiet

\* A produce that throws is called again, for ever if it must (Registration).
Produce ==
  /\ at = "produce"
  /\ wrote' = TRUE
  /\ Return(200, "notFound")
  /\ UNCHANGED <<request, closed>>

\* The rejected profile: ostr << message; response.send(); return;
SendAgain == at = "sendAgain" /\ Return(404, "notFound") /\ Quiet

NotFound == at = "notFound" /\ Return(404, "escaped") /\ Quiet

-----------------------------------------------------------------------------
(***************************************************************************)
(* messenger_service                                                       *)
(***************************************************************************)
Handler == IF request.prefix = "/chat" THEN "ChatHandler" ELSE "MessageHandler"

\* Before any try: no is 401, while a request without credentials and an answer
\* that cannot be parsed throw.
AuthRequest ==
  /\ at = "authRequest"
  /\ Goto(Handler) \/ Return(401, "escaped") \/ Goto("escaped")
  /\ Quiet

\* ChatHandler's branches, each with a 400 for parameters that are missing;
\* the 400 of searchByChatId lacks its return.
Chat ==
  /\ at = "ChatHandler"
  /\ IF Method("GET") /\ UriHas("searchByChatId")
       THEN IF Has("chatId") THEN Goto("readChat") ELSE Send(400, "getChatId", "unexpected")
     ELSE IF Method("GET") /\ UriHas("searchByUserId")
       THEN IF Has("userId") THEN Goto("readChats") ELSE Return(400, "unexpected")
     ELSE IF Method("POST") /\ UriHas("addMember")
       THEN IF Has("chatId") /\ Has("userId") THEN Goto("member")
                                              ELSE Return(400, "unexpected")
     ELSE IF Method("POST") /\ Has("chatName") THEN Goto("create")
     ELSE Goto("end")
  /\ Quiet

\* form.get("chatId") throws: it is not there.
GetChatId == at = "getChatId" /\ Goto("unexpected") /\ Quiet

ReadChat ==
  /\ at = "readChat"
  /\ Return(200, "unexpected") \/ Return(404, "unexpected")
  /\ Quiet

ReadChats == at = "readChats" /\ Return(200, "unexpected") /\ Quiet

\* Both writes have a catch of their own, inside the one that leads to the
\* unexpected error.
AddMember ==
  /\ at = "member"
  /\ \/ wrote' = TRUE /\ Return(200, "unexpected")
     \/ wrote' \in BOOLEAN /\ Return(422, "unexpected")
  /\ UNCHANGED <<request, closed>>

Create ==
  /\ at = "create"
  /\ \/ wrote' = TRUE /\ Return(200, "unexpected")
     \/ wrote' \in BOOLEAN /\ Return(500, "unexpected")
  /\ UNCHANGED <<request, closed>>

Unexpected == at = "unexpected" /\ Return(500, "escaped") /\ Quiet

Message ==
  /\ at = "MessageHandler"
  /\ IF Method("GET")
       THEN IF Has("chatId") THEN Goto("readMessages") ELSE Return(400, "failed")
     ELSE IF Method("POST")
       THEN IF Has("chatId") /\ Has("text") THEN Goto("save") ELSE Return(400, "failed")
     ELSE Goto("end")
  /\ Quiet

ReadMessages == at = "readMessages" /\ Return(200, "failed") /\ Quiet

\* Variants with a plausible bug: the answer is sent before the message is
\* saved; no return after the answer.
SaveLate ==
  /\ at = "save"
  /\ wrote' \in BOOLEAN
  /\ Return(200, "failed")
  /\ UNCHANGED <<request, closed>>

SaveGoesOn ==
  /\ at = "save"
  /\ wrote' = TRUE
  /\ Send(200, "end", "failed")
  /\ UNCHANGED <<request, closed>>

Save ==
  /\ at = "save"
  /\ \/ wrote' = TRUE /\ Return(200, "failed")
     \/ wrote' \in BOOLEAN /\ Goto("failed")
  /\ UNCHANGED <<request, closed>>

\* MessageHandler's catch answers and does not return.
Failed == at = "failed" /\ Send(500, "end", "escaped") /\ Quiet

\* Variant with a plausible bug: nobody answers for an unknown branch.
EndSilent == at = "end" /\ Goto("idle") /\ Quiet

End == at = "end" /\ Return(404, "escaped") /\ Quiet

-----------------------------------------------------------------------------
UserSteps ==
  User \/ ReadUser \/ AuthUser \/ SearchUsers \/ CheckProfile \/ Produce \/ SendAgain
       \/ NotFound

MessengerSteps ==
  AuthRequest \/ Chat \/ GetChatId \/ ReadChat \/ ReadChats \/ AddMember \/ Create
              \/ Unexpected \/ Message \/ ReadMessages \/ Save \/ Failed \/ End

Next ==
  \/ \E r \in Requests : Receive(r)
  \/ Factory \/ UserSteps \/ MessengerSteps \/ Escaped

Spec == Init /\ [][Next]_vars

-----------------------------------------------------------------------------
(***************************************************************************)
(* Correctness                                                             *)
(***************************************************************************)
Over == at = "idle" /\ request # None

\* Whatever is thrown where: a request that is over was answered.
AlwaysAnswered == Over => sent # None

\* What a client is told of a write is true. 200 to a write means that it was
\* made; 400, 401, 404 and 501 that it was not. (500 and 422 leave it open: an
\* INSERT may have had its effect.)
AnswerTellsEffect ==
  /\ Over /\ sent = 200 /\ Method("POST") /\ request.service = "messenger" => wrote
  /\ Over /\ sent \in {400, 401, 404, 501} => ~wrote

\* An exception that closes the connection never follows a good answer: a
\* client that was told 200 can go on with its connection.
GoodAnswersKeepConnection == sent = 200 => ~closed
=============================================================================
