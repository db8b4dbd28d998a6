-------------------------- MODULE AnsweringProofs --------------------------
(***************************************************************************)
(* Theorems about Answering: the properties of every path through the       *)
(* handlers, whichever call throws.                                        *)
(*                                                                         *)
(* The inductive invariant is Inv. It says of every place in a handler      *)
(*   Whose   which request can be there;                                   *)
(*   SoFar   what can have been sent when the place is reached: a second    *)
(*           answer throws exactly at the places where one can have been;   *)
(*   Undone  that nothing has been written, but for a message whose INSERT  *)
(*           failed after all;                                             *)
(*   Shut    that the connection is still open while a request is served;   *)
(* and AnswerTellsEffect, which has to hold of the last request until the   *)
(* next one.                                                               *)
(***************************************************************************)
EXTENDS Answering, TLAPS

UserPlaces == {"UserHandler", "read", "auth", "search", "check", "produce",
               "sendAgain", "notFound"}

ReadPlaces == {"readChat", "readChats", "readMessages"}

MessengerPlaces == ReadPlaces \cup {"ChatHandler", "getChatId", "member", "create",
                                "unexpected", "MessageHandler", "save", "failed", "end"}

Places == UserPlaces \cup MessengerPlaces \cup {"idle", "factory", "authRequest", "escaped"}

TypeOK ==
  /\ request \in Requests \cup {None}
  /\ at \in Places
  /\ sent \in Statuses \cup {None}
  /\ wrote \in BOOLEAN
  /\ closed \in BOOLEAN

Whose ==
  /\ at # "idle" => request \in Requests
  /\ at \in UserPlaces => request.service = "auth"
  /\ at \in MessengerPlaces => request.service = "messenger"
  /\ at \in ReadPlaces => request.method = "GET"
  /\ at = "authRequest" => request.service = "messenger"

\* The places that can be reached when something has been sent, and what.
SoFar ==
  sent # None => \/ at = "idle"
                 \/ at \in {"sendAgain", "notFound"} /\ sent = 404
                 \/ at \in {"getChatId", "unexpected"} /\ sent = 400
                 \/ at = "end" /\ sent = 500
                 \/ at = "escaped" /\ sent \in {400, 404, 500}

Undone ==
  /\ wrote => \/ at \in {"idle", "failed"}
              \/ at \in {"end", "escaped"} /\ sent = 500

Shut == closed => at = "idle" /\ sent # None

Inv == /\ TypeOK /\ Whose /\ SoFar /\ Undone /\ Shut
       /\ AlwaysAnswered /\ AnswerTellsEffect /\ GoodAnswersKeepConnection

-----------------------------------------------------------------------------
\* Everything but the types.
Control == /\ Whose /\ SoFar /\ Undone /\ Shut
           /\ AlwaysAnswered /\ AnswerTellsEffect /\ GoodAnswersKeepConnection
    
\* Every step keeps the types.
LEMMA NextTypeOK ==
  ASSUME TypeOK, Whose, [Next]_vars
  PROVE  TypeOK'
<1> DEFINE AtOK == at' \in Places /\ sent' \in Statuses \cup {None}
<1> USE DEF Statuses, Places, UserPlaces, MessengerPlaces, ReadPlaces
<1>1. ASSUME UNCHANGED <<request, wrote, closed>>, AtOK
      PROVE  TypeOK'
  BY <1>1 DEF TypeOK
<1>2. ASSUME NEW r \in Requests, Receive(r) PROVE TypeOK'
  <2>1. wrote' \in BOOLEAN /\ closed' \in BOOLEAN
    BY <1>2, Zenon DEF Receive
  <2> QED
    BY <1>2, <2>1 DEF Receive, TypeOK
<1>3. Factory => AtOK
  BY DEF TypeOK, Goto, Send, Return, Factory
<1>4. User => AtOK
  BY DEF TypeOK, Goto, Send, Return, User, UserBranch
<1>5. ReadUser \/ AuthUser \/ SearchUsers \/ CheckProfile => AtOK
  BY DEF TypeOK, Goto, Send, Return, ReadUser, AuthUser, SearchUsers, CheckProfile
<1>6. Produce \/ SendAgain \/ NotFound => AtOK
  BY DEF TypeOK, Goto, Send, Return, Produce, SendAgain, NotFound
<1>7. AuthRequest => AtOK
  BY DEF TypeOK, Goto, Send, Return, AuthRequest, Handler
<1>8. Chat => AtOK
  BY DEF TypeOK, Goto, Send, Return, Chat
<1>9. GetChatId \/ ReadChat \/ ReadChats \/ AddMember \/ Create \/ Unexpected => AtOK
  BY DEF TypeOK, Goto, Send, Return, GetChatId, ReadChat, ReadChats, AddMember, Create,
         Unexpected
<1>10. Message \/ ReadMessages \/ Save \/ Failed \/ End => AtOK
  BY DEF TypeOK, Goto, Send, Return, Message, ReadMessages, Save, Failed, End
<1>11. Escaped => AtOK
  BY DEF Escaped, TypeOK
<1> HIDE DEF AtOK
<1>12. \/ User \/ ReadUser \/ AuthUser \/ SearchUsers \/ CheckProfile \/ SendAgain \/ NotFound
       \/ Factory \/ Chat \/ GetChatId \/ ReadChat \/ ReadChats \/ Unexpected \/ Message
       \/ ReadMessages \/ Failed \/ End
       => UNCHANGED <<request, wrote, closed>>
  BY DEF User, ReadUser, AuthUser, SearchUsers, CheckProfile, SendAgain, NotFound, Factory,
         Chat, GetChatId, ReadChat, ReadChats, Unexpected, Message, ReadMessages, Failed, End,
         Quiet
<1>13. CASE AuthRequest
  BY <1>1, <1>7, <1>13 DEF AuthRequest, Quiet
<1>14. CASE Produce \/ AddMember \/ Create \/ Save
  <2>1. wrote' \in BOOLEAN
    <3>1. wrote' = TRUE \/ wrote' \in BOOLEAN
      BY <1>14 DEF Produce, AddMember, Create, Save
    <3> QED
      BY <3>1, Zenon
  <2>2. UNCHANGED <<request, closed>>
    BY <1>14 DEF Produce, AddMember, Create, Save
  <2> QED
    BY <1>6, <1>9, <1>10, <1>14, <2>1, <2>2 DEF TypeOK, AtOK
<1>15. CASE Escaped
  <2>1. closed' \in BOOLEAN
    BY <1>15, Zenon DEF Escaped
  <2> QED
    BY <1>11, <1>15, <2>1 DEF Escaped, TypeOK, AtOK
<1>16. CASE UNCHANGED vars
  BY <1>16 DEF vars, TypeOK
<1> QED
  BY <1>1, <1>2, <1>3, <1>4, <1>5, <1>6, <1>8, <1>9, <1>10, <1>12, <1>13, <1>14, <1>15,
     <1>16 DEF Next, UserSteps, MessengerSteps

\* Every step of a handler leads to a place where Control says the truth.
LEMMA NextControl ==
  ASSUME TypeOK, Control, [Next]_vars
  PROVE  Control'
<1> USE NoneAssumption
    DEF Control, Whose, SoFar, Undone, Shut, AlwaysAnswered, AnswerTellsEffect,
        GoodAnswersKeepConnection, Over, Statuses, Places, UserPlaces,
        MessengerPlaces, ReadPlaces, Goto, Send, Return, Quiet, Method
<1>1. ASSUME NEW r \in Requests, Receive(r) PROVE Control'
  BY <1>1 DEF Receive
<1>2. CASE Factory
  BY <1>2 DEF Factory
<1>3. CASE User
  BY <1>3 DEF User, UserBranch
<1>4. CASE ReadUser
  BY <1>4 DEF ReadUser
<1>5. CASE AuthUser
  BY <1>5 DEF AuthUser
<1>6. CASE SearchUsers
  BY <1>6 DEF SearchUsers
<1>7. CASE CheckProfile
  BY <1>7 DEF CheckProfile
<1>8. CASE Produce
  BY <1>8 DEF Produce
<1>9. CASE SendAgain
  BY <1>9 DEF SendAgain
<1>10. CASE NotFound
  BY <1>10 DEF NotFound
<1>11. CASE AuthRequest
  BY <1>11 DEF AuthRequest, Handler
<1>12. CASE Chat
  BY <1>12 DEF Chat
<1>13. CASE GetChatId
  BY <1>13 DEF GetChatId
<1>14. CASE ReadChat
  BY <1>14 DEF ReadChat
<1>15. CASE ReadChats
  BY <1>15 DEF ReadChats
<1>16. CASE AddMember
  BY <1>16 DEF AddMember
<1>17. CASE Create
  BY <1>17 DEF Create
<1>18. CASE Unexpected
  BY <1>18 DEF Unexpected
<1>19. CASE Message
  BY <1>19 DEF Message
<1>20. CASE ReadMessages
  BY <1>20 DEF ReadMessages
<1>21. CASE Save
  BY <1>21 DEF Save
<1>22. CASE Failed
  BY <1>22 DEF Failed
<1>23. CASE End
  BY <1>23 DEF End
<1>24. CASE Escaped
  BY <1>24 DEF Escaped
<1>25. CASE UNCHANGED vars
  BY <1>25 DEF vars
<1> QED
  BY <1>1, <1>2, <1>3, <1>4, <1>5, <1>6, <1>7, <1>8, <1>9, <1>10, <1>11, <1>12, <1>13,
     <1>14, <1>15, <1>16, <1>17, <1>18, <1>19, <1>20, <1>21, <1>22, <1>23, <1>24, <1>25
     DEF Next, UserSteps, MessengerSteps

-----------------------------------------------------------------------------
\* Initially there is no request.
LEMMA InitInv == Init => Inv
<1> SUFFICES ASSUME Init PROVE Inv
  OBVIOUS
<1>1. TypeOK
  <2>1. wrote \in BOOLEAN /\ closed \in BOOLEAN
    BY Zenon DEF Init
  <2> QED
    BY <2>1 DEF Init, TypeOK, Places
<1>2. Control
  BY DEF Init, Control, Whose, SoFar, Undone, Shut, AlwaysAnswered, AnswerTellsEffect,
         GoodAnswersKeepConnection, Over, UserPlaces, MessengerPlaces,
         ReadPlaces
<1> QED
  BY <1>1, <1>2 DEF Inv, Control

\* Inv is inductive.
LEMMA Invariance == Spec => []Inv
<1>1. Inv => TypeOK /\ Whose /\ Control
  BY DEF Inv, Control
<1>2. TypeOK /\ Control => Inv
  BY DEF Inv, Control
<1>3. Inv /\ [Next]_vars => TypeOK' /\ Control'
  BY <1>1, NextTypeOK, NextControl
<1> QED
  BY InitInv, <1>2, <1>3, PTL DEF Spec

\* Whatever the request, and whatever throws in its handler: when it is over, it
\* has been answered.
THEOREM NobodyWaitsInVain == Spec => []AlwaysAnswered
<1>1. Inv => AlwaysAnswered
  BY DEF Inv
<1> QED
  BY Invariance, <1>1, PTL

\* 200 to a POST to messenger_service means that it was written; 400, 401, 404
\* and 501 mean, from either service, that nothing was.
THEOREM AnswersAreTrue == Spec => []AnswerTellsEffect
<1>1. Inv => AnswerTellsEffect
  BY DEF Inv
<1> QED
  BY Invariance, <1>1, PTL

\* No exception escapes from a handler, second send or other, once 200 has been
\* sent: the connection stays open.
THEOREM GoodAnswersAreFinal == Spec => []GoodAnswersKeepConnection
<1>1. Inv => GoodAnswersKeepConnection
  BY DEF Inv
<1> QED
  BY Invariance, <1>1, PTL
=============================================================================
