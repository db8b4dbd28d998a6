------------------------------ MODULE AuthCalls ------------------------------
(***************************************************************************)
(* How messenger_service finds out who a request is from: authRequest of    *)
(* its handlers makes a connection of its own to auth_service and asks GET  *)
(* /auth, while auth_service serves POST /user with the same threads.       *)
(*                                                                         *)
(*   Callers    threads of messenger_service in authRequest and do_get      *)
(*   queue      accepted connections waiting for a thread of auth_service   *)
(*   Workers    threads of auth_service; one in a POST is stuck as long as  *)
(*              the producer's local queue is full (send_to_queue), and for *)
(*              good once a profile too long for a message is posted        *)
(*                                                                         *)
(* What /auth answers for credentials is modelled by UserDirectory, and what*)
(* the messenger does with the user id by Messenger. Poco's HTTPServer and  *)
(* HTTPClientSession are external: threads, backlog and the timeout of 60   *)
(* seconds are their defaults, which the code does not change.              *)
(***************************************************************************)
EXTENDS Integers, Sequences, FiniteSets

CONSTANTS
  Callers,     \* threads of messenger_service
  Workers,     \* threads of auth_service's HTTPServer
  Users,       \* logins and passwords
  Registered,  \* those that have a row
  IdOf,        \* the id auth answers for each of them
  SeenAs,      \* the login and password auth_service reads of what do_get
               \* forwards: their Base64 text is cut after its first line
               \* (module Credentials)
  None,        \* no credentials, no reply, no verdict
  Outside,     \* the clients that POST users
  MaxQueued,   \* HTTPServerParams::maxQueued
  MaxCalls,    \* bound: calls of one thread
  MaxPosts,    \* bound: users posted
  MaxFaults    \* bound: crashes, outages, failing SELECTs, slow networks

ASSUME UserAssumption == /\ Registered \subseteq Users
                         /\ IdOf \in [Registered -> Nat]
                         /\ SeenAs \in [Users -> Users]
ASSUME BoundAssumption == /\ MaxQueued \in Nat /\ MaxCalls \in Nat
                          /\ MaxPosts \in Nat /\ MaxFaults \in Nat

VARIABLES
  at,       \* at[c]: "calling" while thread c waits in do_get
  calls,    \* calls[c]: the number of its call; each has its own connection
  cred,     \* cred[c]: the login and password it presents
  reply,    \* reply[c]: what has arrived on its connection
  closed,   \* closed[c]: its connection was closed at the other end
  verdict,  \* verdict[c]: what authRequest came to in the last call
  hit,      \* history: a fault, a full backlog or starved threads hit the call
  queue,    \* the connections no thread of auth_service serves yet
  serving,  \* serving[w]: the connection thread w serves
  doing,    \* doing[w]: where it is in handleRequest
  found,    \* found[w]: what User::auth returned
  up,       \* auth_service runs
  full,     \* the producer's local queue is full: the broker is away
  posts,    \* how many users were posted
  faults    \* how many faults have happened

callerVars == <<at, calls, cred, reply, closed, verdict, hit>>
workerVars == <<serving, doing, found>>
vars == <<callerVars, queue, workerVars, up, full, posts, faults>>

Statuses    == {200, 401}
Connections == [from : Callers, n : 1..MaxCalls] \cup [from : {Outside}, n : {0}]
Ids         == {IdOf[u] : u \in Registered}

ASSUME NamesAssumption == /\ None \notin Users \cup Connections \cup Ids
                          /\ Outside \notin Callers

TypeOK ==
  /\ at \in [Callers -> {"idle", "calling"}]
  /\ calls \in [Callers -> 0..MaxCalls]
  /\ cred \in [Callers -> Users \cup {None}]
  /\ reply \in [Callers -> {None} \cup [status : Statuses, id : Ids \cup {None},
                                        whole : BOOLEAN]]
  /\ closed \in [Callers -> BOOLEAN]
  /\ verdict \in [Callers -> {None} \cup [status : {200}, id : Ids]
                                    \cup [status : {401, 500}]]
  /\ hit \in [Callers -> BOOLEAN]
  /\ queue \in Seq(Connections) /\ Len(queue) <= MaxQueued
  /\ serving \in [Workers -> Connections \cup {None}]
  /\ doing \in [Workers -> {"idle", "post", "spin", "select", "head", "body"}]
  /\ \A w \in Workers : doing[w] = "idle" <=> serving[w] = None
  /\ found \in [Workers -> Ids \cup {None}]
  /\ up \in BOOLEAN
  /\ full \in BOOLEAN
  /\ posts \in 0..MaxPosts
  /\ faults \in 0..MaxFaults

Init ==
  /\ at = [c \in Callers |-> "idle"]
  /\ calls = [c \in Callers |-> 0]
  /\ cred = [c \in Callers |-> None]
  /\ reply = [c \in Callers |-> None]
  /\ closed = [c \in Callers |-> FALSE]
  /\ verdict = [c \in Callers |-> None]
  /\ hit = [c \in Callers |-> FALSE]
  /\ queue = <<>>
  /\ serving = [w \in Workers |-> None]
  /\ doing = [w \in Workers |-> "idle"]
  /\ found = [w \in Workers |-> None]
  /\ up = TRUE
  /\ full = FALSE
  /\ posts = 0
  /\ faults = 0

Fault == faults < MaxFaults /\ faults' = faults + 1

Connection(c) == [from |-> c, n |-> calls[c]]

\* Somebody still listens at the other end of connection k.
Open(k) ==
  /\ k.from # Outside
  /\ at[k.from] = "calling"
  /\ k.n = calls[k.from]
  /\ ~closed[k.from]

-----------------------------------------------------------------------------
(***************************************************************************)
(* messenger_service                                                       *)
(***************************************************************************)

\* A request whose scheme is not Basic is refused without a call. Without the
\* Authorization header getCredentials throws, outside every try block.
CallNobody(c) ==
  /\ at[c] = "idle"
  /\ cred' = [cred EXCEPT ![c] = None]
  /\ \E status \in {401, 500} : verdict' = [verdict EXCEPT ![c] = [status |-> status]]
  /\ hit' = [hit EXCEPT ![c] = FALSE]
  /\ UNCHANGED <<at, calls, reply, closed, queue, workerVars, up, full, posts, faults>>

\* do_get connects and sends its request. Without the service, or with a full
\* backlog, the connection is closed at once.
Call(c, u) ==
  LET accepted == up /\ Len(queue) < MaxQueued IN
  /\ at[c] = "idle"
  /\ calls[c] < MaxCalls
  /\ at' = [at EXCEPT ![c] = "calling"]
  /\ calls' = [calls EXCEPT ![c] = @ + 1]
  /\ cred' = [cred EXCEPT ![c] = u]
  /\ reply' = [reply EXCEPT ![c] = None]
  /\ verdict' = [verdict EXCEPT ![c] = None]
  /\ closed' = [closed EXCEPT ![c] = ~accepted]
  /\ hit' = [hit EXCEPT ![c] = ~accepted]
  /\ queue' = IF accepted THEN Append(queue, [from |-> c, n |-> calls[c] + 1])
                          ELSE queue
  /\ UNCHANGED <<workerVars, up, full, posts, faults>>

\* authRequest ends with verdict v, and the session with its connection.
Conclude(c, v) ==
  /\ at' = [at EXCEPT ![c] = "idle"]
  /\ verdict' = [verdict EXCEPT ![c] = v]
  /\ reply' = [reply EXCEPT ![c] = None]
  /\ UNCHANGED <<calls, cred, queue, workerVars, up, full, posts>>

Whole(c) == reply[c] # None /\ reply[c].whole

\* The whole answer is there: any status but 200 means no.
Receive(c) ==
  LET r == reply[c] IN
  /\ at[c] = "calling"
  /\ Whole(c)
  /\ \/ r.status = 200 /\ Conclude(c, [status |-> 200, id |-> r.id])
     \/ r.status # 200 /\ Conclude(c, [status |-> 401])
  /\ UNCHANGED <<closed, hit, faults>>

\* No more of the answer comes. If nothing had come, receiveResponse throws and
\* do_get returns nothing. If the head had, the loop over the body just ends:
\* with status 200 half a body is parsed, outside every try block, and the
\* server answers 500 for the handler.
GiveUp(c) ==
  LET r == reply[c]
      cut == r # None /\ r.status = 200
  IN
  /\ at[c] = "calling"
  /\ ~Whole(c)
  /\ Conclude(c, [status |-> IF cut THEN 500 ELSE 401])

\* The other end has closed the connection.
Closed(c) == closed[c] /\ GiveUp(c) /\ UNCHANGED <<closed, hit, faults>>

\* A thread of auth_service spins in send_to_queue, with its mutex, for good.
Spinning == \E w \in Workers : doing[w] = "spin"

\* Every thread of auth_service is stuck in a POST and c's connection waits.
Starved(c) ==
  /\ full \/ Spinning
  /\ \A w \in Workers : doing[w] \in {"post", "spin"}
  /\ \E i \in 1..Len(queue) : queue[i] = Connection(c)

Late(c) ==
  /\ GiveUp(c)
  /\ hit' = [hit EXCEPT ![c] = TRUE]
  /\ UNCHANGED closed

\* Variant with a plausible bug: setTimeout(0), which waits for ever.
WaitForEver(c) == FALSE /\ Late(c) /\ UNCHANGED faults

\* Nothing has come for 60 seconds because auth_service is starved, or because
\* it, the database or the network is slow. Nobody tells it that the caller has
\* gone.
Timeout(c) == Starved(c) /\ Late(c) /\ UNCHANGED faults
Slow(c)    == Fault /\ Late(c)

-----------------------------------------------------------------------------
(***************************************************************************)
(* auth_service                                                            *)
(***************************************************************************)

\* A client POSTs a user. With a full backlog it is turned away.
Post ==
  /\ up
  /\ posts < MaxPosts
  /\ Len(queue) < MaxQueued
  /\ posts' = posts + 1
  /\ queue' = Append(queue, [from |-> Outside, n |-> 0])
  /\ UNCHANGED <<callerVars, workerVars, up, full, faults>>

\* A free thread takes the connection that waits longest; the factory finds
\* the handler, and handleRequest the branch.
Dispatch(w) ==
  LET k == Head(queue) IN
  /\ doing[w] = "idle"
  /\ queue # <<>>
  /\ queue' = Tail(queue)
  /\ serving' = [serving EXCEPT ![w] = k]
  /\ doing' = [doing EXCEPT ![w] = IF k.from = Outside THEN "post" ELSE "select"]
  /\ UNCHANGED <<callerVars, found, up, full, posts, faults>>

\* The posted profile is one whose message the Kafka client never takes
\* (Sendable of module Registration): the thread never comes back, and every
\* other one with a POST waits for its mutex.
Spin(w) ==
  /\ doing[w] = "post"
  /\ ~full
  /\ ~Spinning
  /\ doing' = [doing EXCEPT ![w] = "spin"]
  /\ UNCHANGED <<callerVars, queue, serving, found, up, full, posts, faults>>

\* A POST ends when the local queue has room (module Registration).
PostEnds(w) ==
  /\ doing[w] = "post"
  /\ ~full
  /\ ~Spinning
  /\ doing' = [doing EXCEPT ![w] = "idle"]
  /\ serving' = [serving EXCEPT ![w] = None]
  /\ UNCHANGED <<callerVars, queue, found, up, full, posts, faults>>

\* What auth_service can read of the credentials forwarded with connection k,
\* also when its caller has gone. Of a long login and password that is not
\* what the caller was given.
Asked(k) == IF Open(k) THEN {SeenAs[cred[k.from]]} ELSE Users

\* Variant with a plausible bug: login and password are members of a handler
\* that all threads share.
AuthShared(w) ==
  /\ doing[w] = "select"
  /\ \E c \in Callers, u \in Users :
       /\ cred[c] # None
       /\ u = SeenAs[cred[c]]
       /\ found' = [found EXCEPT ![w] = IF u \in Registered THEN IdOf[u] ELSE None]
  /\ doing' = [doing EXCEPT ![w] = "head"]
  /\ UNCHANGED <<callerVars, queue, serving, up, full, posts, faults>>

\* User::auth with what was read. A failing SELECT finds nobody.
Auth(w) ==
  /\ doing[w] = "select"
  /\ \E u \in Asked(serving[w]) :
       found' = [found EXCEPT ![w] = IF u \in Registered THEN IdOf[u] ELSE None]
  /\ doing' = [doing EXCEPT ![w] = "head"]
  /\ UNCHANGED <<callerVars, queue, serving, up, full, posts, faults>>

AuthFails(w) ==
  LET k == serving[w] IN
  /\ doing[w] = "select"
  /\ Fault
  /\ found' = [found EXCEPT ![w] = None]
  /\ doing' = [doing EXCEPT ![w] = "head"]
  /\ hit' = IF Open(k) THEN [hit EXCEPT ![k.from] = TRUE] ELSE hit
  /\ UNCHANGED <<at, calls, cred, reply, closed, verdict, queue, serving, up, full, posts>>

\* What thread w writes reaches the caller, or nobody.
Write(w, whole) ==
  LET k == serving[w]
      status == IF found[w] = None THEN 401 ELSE 200
  IN reply' = IF Open(k)
              THEN [reply EXCEPT ![k.from] =
                      [status |-> status, id |-> found[w], whole |-> whole]]
              ELSE reply

\* Variant with a plausible bug: the session is kept from one call to the next,
\* so that a late answer reaches whoever calls now.
SendToCaller(w) ==
  LET c == serving[w].from
      status == IF found[w] = None THEN 401 ELSE 200
  IN
  /\ doing[w] = "head"
  /\ reply' = IF at[c] = "calling" /\ ~closed[c]
              THEN [reply EXCEPT ![c] =
                      [status |-> status, id |-> found[w], whole |-> TRUE]]
              ELSE reply
  /\ doing' = [doing EXCEPT ![w] = "body"]
  /\ UNCHANGED <<at, calls, cred, closed, verdict, hit, queue, serving, found, up,
                 full, posts, faults>>

\* response.send() writes the status line and the headers ...
SendHead(w) ==
  /\ doing[w] = "head"
  /\ Write(w, FALSE)
  /\ doing' = [doing EXCEPT ![w] = "body"]
  /\ UNCHANGED <<at, calls, cred, closed, verdict, hit, queue, serving, found, up,
                 full, posts, faults>>

\* Variant with a plausible bug: the thread does not return to the pool.
SendBodyStays(w) ==
  /\ doing[w] = "body"
  /\ serving[w] # None
  /\ Write(w, TRUE)
  /\ found' = [found EXCEPT ![w] = None]
  /\ serving' = [serving EXCEPT ![w] = None]
  /\ UNCHANGED <<at, calls, cred, closed, verdict, hit, queue, doing, up, full, posts,
                 faults>>

\* ... and the stream the body.
SendBody(w) ==
  /\ doing[w] = "body"
  /\ Write(w, TRUE)
  /\ doing' = [doing EXCEPT ![w] = "idle"]
  /\ serving' = [serving EXCEPT ![w] = None]
  /\ found' = [found EXCEPT ![w] = None]
  /\ UNCHANGED <<at, calls, cred, closed, verdict, hit, queue, up, full, posts, faults>>

\* auth_service dies, and its connections with it. It stays down until
\* somebody starts it: docker-compose.yml has no restart policy for it.
Crash ==
  LET cutOff == {c \in Callers : at[c] = "calling" /\ ~Whole(c)} IN
  /\ up
  /\ Fault
  /\ up' = FALSE
  /\ full' = FALSE
  /\ queue' = <<>>
  /\ serving' = [w \in Workers |-> None]
  /\ doing' = [w \in Workers |-> "idle"]
  /\ found' = [w \in Workers |-> None]
  /\ closed' = [c \in Callers |-> closed[c] \/ c \in cutOff]
  /\ hit' = [c \in Callers |-> hit[c] \/ c \in cutOff]
  /\ UNCHANGED <<at, calls, cred, reply, verdict, posts>>

Start ==
  /\ ~up
  /\ up' = TRUE
  /\ UNCHANGED <<callerVars, queue, workerVars, full, posts, faults>>

\* The broker goes away and the local queue fills up; or it comes back, or
\* messages expire.
QueueFills ==
  /\ up
  /\ ~full
  /\ Fault
  /\ full' = TRUE
  /\ UNCHANGED <<callerVars, queue, workerVars, up, posts>>

QueueDrains ==
  /\ full
  /\ full' = FALSE
  /\ UNCHANGED <<callerVars, queue, workerVars, up, posts, faults>>

-----------------------------------------------------------------------------
CallerSteps(c) == Receive(c) \/ Closed(c) \/ Timeout(c)

WorkerSteps(w) ==
  Dispatch(w) \/ PostEnds(w) \/ Auth(w) \/ SendHead(w) \/ SendBody(w)

Next ==
  \/ \E c \in Callers : \/ \E u \in Users : Call(c, u)
                        \/ CallNobody(c) \/ CallerSteps(c) \/ Slow(c)
  \/ \E w \in Workers : WorkerSteps(w) \/ Spin(w) \/ AuthFails(w)
  \/ Post \/ Crash \/ Start \/ QueueFills \/ QueueDrains

Spec == Init /\ [][Next]_vars

\* Threads that can take a step take it. Nobody has to restart auth_service or
\* to bring the broker back.
FairSpec ==
  /\ Spec
  /\ \A c \in Callers : WF_vars(CallerSteps(c))
  /\ \A w \in Workers : WF_vars(WorkerSteps(w))

-----------------------------------------------------------------------------
(***************************************************************************)
(* Correctness                                                             *)
(***************************************************************************)
\* The login and password that auth_service reads in c's call have a row. This
\* is not the same as that those c presents have one: a user whose login and
\* password are too long for a line is not Good, although it has a row.
Good(c) == SeenAs[cred[c]] \in Registered

\* However late, cut or lost answers are, and whoever else calls: a request is
\* only ever let through as the user whose login and password auth_service
\* reads in what this very request forwards. For credentials of up to 54 bytes
\* that is the user who presents them; longer ones pass as the user, if there
\* is one, whose login and password are their first 54 bytes.
VerdictIsOwn ==
  \A c \in Callers : (verdict[c] # None /\ verdict[c].status = 200) =>
    Good(c) /\ verdict[c].id = IdOf[SeenAs[cred[c]]]

\* Nobody is turned away without a reason. Whoever auth_service can recognise
\* is only when something went wrong during this very call: nothing of an
\* earlier call lingers. Everybody else is 401 whatever goes wrong, also a user
\* with a row whose credentials were cut: an answer cut off after its head is
\* an error of the server only for somebody who was let in.
RefusedForReason ==
  \A c \in Callers : (verdict[c] # None /\ cred[c] # None) =>
    IF Good(c) THEN hit[c] \/ verdict[c].status = 200
               ELSE verdict[c].status = 401

\* Every call ends, even if every thread of auth_service spins in a POST for
\* ever, or auth_service never comes back.
EveryCallEnds == \A c \in Callers : at[c] = "calling" ~> at[c] = "idle"
=============================================================================
