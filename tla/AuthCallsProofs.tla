-------------------------- MODULE AuthCallsProofs --------------------------
(***************************************************************************)
(* Theorems about AuthCalls for every set of threads on either side, every *)
(* set of credentials, every backlog and every bound.                      *)
(*                                                                         *)
(* The inductive invariant is Inv. Its parts:                              *)
(*   TypeOK  types;                                                        *)
(*   Past    connections are numbered by the calls their callers have made,*)
(*           so that none that is queued or served belongs to a call still *)
(*           to come;                                                      *)
(*   Own     what a thread of auth_service has found for a connection that *)
(*           is still open was found for what its caller forwarded;        *)
(*   Heard   so was what has arrived on it, and a closed connection means  *)
(*           that something went wrong;                                    *)
(*   and the two properties of verdicts.                                   *)
(***************************************************************************)
EXTENDS AuthCalls, TLAPS

\* Connection k was made by one of the calls that `begun` counts.
Made(k, begun) == k.from \in Callers => k.n <= begun[k.from]

Past ==
  /\ \A i \in 1..Len(queue) : Made(queue[i], calls)
  /\ \A w \in Workers : serving[w] # None => Made(serving[w], calls)

\* The id, or None, is what there is to say about the credentials that c's call
\* forwards.
Says(c, id) == IF id = None THEN Good(c) => hit[c]
                            ELSE Good(c) /\ id = IdOf[SeenAs[cred[c]]]

Own ==
  \A w \in Workers : doing[w] \in {"head", "body"} /\ Open(serving[w]) =>
    Says(serving[w].from, found[w])

HeardBy(c) ==
  /\ cred[c] \in Users
  /\ closed[c] => hit[c]
  /\ reply[c] # None => /\ Says(c, reply[c].id)
                        /\ reply[c].status = IF reply[c].id = None THEN 401 ELSE 200

Heard == \A c \in Callers : at[c] = "calling" => HeardBy(c)

Inv == TypeOK /\ Past /\ Own /\ Heard /\ VerdictIsOwn /\ RefusedForReason

-----------------------------------------------------------------------------
(***************************************************************************)
(* Types and connections                                                   *)
(***************************************************************************)

\* What a queue of connections is after an arrival and after a departure.
LEMMA QueueSteps ==
  ASSUME NEW S, NEW q \in Seq(S), NEW e \in S
  PROVE  /\ Len(q) \in Nat /\ \A i \in 1..Len(q) : q[i] \in S
         /\ Append(q, e) \in Seq(S)
         /\ Len(Append(q, e)) = Len(q) + 1
         /\ \A i \in 1..Len(q) : Append(q, e)[i] = q[i]
         /\ Append(q, e)[Len(q) + 1] = e
         /\ q # <<>> => /\ Head(q) = q[1] /\ Len(q) >= 1
                        /\ Tail(q) \in Seq(S) /\ Len(Tail(q)) = Len(q) - 1
                        /\ \A i \in 1..Len(Tail(q)) : Tail(q)[i] = q[i + 1]
  OBVIOUS

\* TypeOK in two parts: the threads of the messenger and auth_service.
CallersOK ==
  /\ at \in [Callers -> {"idle", "calling"}]
  /\ calls \in [Callers -> 0..MaxCalls]
  /\ cred \in [Callers -> Users \cup {None}]
  /\ reply \in [Callers -> {None} \cup [status : Statuses, id : Ids \cup {None},
                                        whole : BOOLEAN]]
  /\ closed \in [Callers -> BOOLEAN]
  /\ verdict \in [Callers -> {None} \cup [status : {200}, id : Ids]
                                    \cup [status : {401, 500}]]
  /\ hit \in [Callers -> BOOLEAN]

ServiceOK ==
  /\ queue \in Seq(Connections) /\ Len(queue) <= MaxQueued
  /\ serving \in [Workers -> Connections \cup {None}]
  /\ doing \in [Workers -> {"idle", "post", "spin", "select", "head", "body"}]
  /\ \A w \in Workers : doing[w] = "idle" <=> serving[w] = None
  /\ found \in [Workers -> Ids \cup {None}]
  /\ up \in BOOLEAN
  /\ full \in BOOLEAN
  /\ posts \in 0..MaxPosts
  /\ faults \in 0..MaxFaults

\* The two parts are all of TypeOK.
LEMMA TypeParts == TypeOK <=> CallersOK /\ ServiceOK
  BY DEF TypeOK, CallersOK, ServiceOK

\* Initially nobody has called.
LEMMA InitInv == Init => Inv
<1> SUFFICES ASSUME Init PROVE Inv
  OBVIOUS
<1> USE BoundAssumption DEF Init
<1>1. TypeOK
  <2>1. CallersOK
    BY DEF CallersOK
  <2>2. ServiceOK
    <3>1. queue \in Seq(Connections) /\ Len(queue) <= MaxQueued
      OBVIOUS
    <3>2. posts \in 0..MaxPosts /\ faults \in 0..MaxFaults
      OBVIOUS
    <3>3. up \in BOOLEAN /\ full \in BOOLEAN
      BY Zenon
    <3> QED
      BY <3>1, <3>2, <3>3 DEF ServiceOK
  <2> QED
    BY <2>1, <2>2, TypeParts
<1>2. Past /\ Own /\ Heard
  BY DEF Past, Own, Heard
<1>3. VerdictIsOwn /\ RefusedForReason
  BY DEF VerdictIsOwn, RefusedForReason
<1> QED
  BY <1>1, <1>2, <1>3 DEF Inv

\* Every step keeps the types. A verdict carries an id of some user because
\* what has been heard is the id of the caller.
LEMMA NextTypeOK ==
  ASSUME TypeOK, Heard, [Next]_vars
  PROVE  TypeOK'
<1> USE BoundAssumption, NamesAssumption, UserAssumption
<1> SUFFICES CallersOK' /\ ServiceOK'
  BY TypeParts, PTL
<1>a. CallersOK /\ ServiceOK
  BY TypeParts
<1>b. ASSUME UNCHANGED callerVars
      PROVE  CallersOK'
  BY <1>a, <1>b DEF CallersOK, callerVars
<1>1. ASSUME NEW c \in Callers, NEW u \in Users, Call(c, u)
      PROVE  CallersOK' /\ ServiceOK'
  <2> DEFINE k == [from |-> c, n |-> calls[c] + 1]
  <2>1. k \in Connections /\ calls[c] + 1 \in 0..MaxCalls
    BY <1>a, <1>1 DEF CallersOK, Call, Connections
  <2>2. queue' \in Seq(Connections) /\ Len(queue') <= MaxQueued
    BY <1>a, <1>1, <2>1, QueueSteps DEF ServiceOK, Call
  <2> HIDE DEF k
  <2>3. CallersOK'
    BY <1>a, <1>1, <2>1 DEF CallersOK, Call
  <2>4. ServiceOK'
    BY <1>a, <1>1, <2>2 DEF ServiceOK, Call, workerVars
  <2> QED
    BY <2>3, <2>4
<1>2. ASSUME NEW c \in Callers, CallNobody(c)
      PROVE  CallersOK' /\ ServiceOK'
  <2>1. CallersOK'
    BY <1>a, <1>2 DEF CallersOK, CallNobody
  <2>2. ServiceOK'
    BY <1>a, <1>2 DEF ServiceOK, CallNobody, workerVars
  <2> QED
    BY <2>1, <2>2
<1>3. ASSUME NEW c \in Callers, NEW v, Conclude(c, v),
             v \in [status : {200}, id : Ids] \cup [status : {401, 500}],
             UNCHANGED closed, hit' \in [Callers -> BOOLEAN], faults' \in 0..MaxFaults
      PROVE  CallersOK' /\ ServiceOK'
  <2>1. CallersOK'
    BY <1>a, <1>3 DEF CallersOK, Conclude
  <2>2. ServiceOK'
    BY <1>a, <1>3 DEF ServiceOK, Conclude, workerVars
  <2> QED
    BY <2>1, <2>2
<1>4. ASSUME NEW c \in Callers, Receive(c)
      PROVE  CallersOK' /\ ServiceOK'
  <2>1. UNCHANGED <<closed, hit, faults>>
    BY <1>4 DEF Receive
  <2>2. hit' \in [Callers -> BOOLEAN] /\ faults' \in 0..MaxFaults
    BY <1>a, <2>1 DEF CallersOK, ServiceOK
  <2>3. CASE Conclude(c, [status |-> 401])
    BY <1>3, <2>1, <2>2, <2>3
  <2>4. CASE reply[c].status = 200 /\ Conclude(c, [status |-> 200, id |-> reply[c].id])
    <3>1. reply[c].id \in Ids
      BY <1>4, <2>4 DEF Receive, Whole, Heard, HeardBy, Says, Good, Ids
    <3> QED
      BY <1>3, <2>1, <2>2, <2>4, <3>1
  <2> QED
    BY <1>4, <2>3, <2>4 DEF Receive
<1>5. ASSUME NEW c \in Callers, Closed(c) \/ Timeout(c) \/ Slow(c)
      PROVE  CallersOK' /\ ServiceOK'
  <2>1. hit' \in [Callers -> BOOLEAN] /\ UNCHANGED closed
    <3>1. UNCHANGED closed /\ (UNCHANGED hit \/ hit' = [hit EXCEPT ![c] = TRUE])
      BY <1>5 DEF Closed, Timeout, Slow, Late
    <3>2. hit \in [Callers -> BOOLEAN]
      BY <1>a DEF CallersOK
    <3> QED
      BY <3>1, <3>2
  <2>2. faults' \in 0..MaxFaults
    BY <1>a, <1>5 DEF ServiceOK, Closed, Timeout, Slow, Fault
  <2>3. \E code \in {401, 500} : Conclude(c, [status |-> code])
    BY <1>5 DEF Closed, Timeout, Slow, Late, GiveUp
  <2> QED
    BY <1>3, <2>1, <2>2, <2>3
<1>6. ASSUME NEW w \in Workers, Dispatch(w)
      PROVE  CallersOK' /\ ServiceOK'
  <2>1. queue' \in Seq(Connections) /\ Len(queue') <= MaxQueued /\ Head(queue) \in Connections
    BY <1>a, <1>6, QueueSteps DEF ServiceOK, Dispatch
  <2>2. ServiceOK'
    BY <1>a, <1>6, <2>1 DEF ServiceOK, Dispatch
  <2> QED
    BY <1>b, <1>6, <2>2 DEF Dispatch
<1>7. ASSUME NEW w \in Workers, PostEnds(w)
      PROVE  CallersOK' /\ ServiceOK'
  <2>1. ServiceOK'
    BY <1>a, <1>7 DEF ServiceOK, PostEnds
  <2> QED
    BY <1>b, <1>7, <2>1 DEF PostEnds
<1>8. ASSUME NEW w \in Workers, Spin(w)
      PROVE  CallersOK' /\ ServiceOK'
  <2>1. ServiceOK'
    BY <1>a, <1>8 DEF ServiceOK, Spin
  <2> QED
    BY <1>b, <1>8, <2>1 DEF Spin
<1>9. ASSUME NEW w \in Workers, Auth(w)
      PROVE  CallersOK' /\ ServiceOK'
  <2>1. found' \in [Workers -> Ids \cup {None}]
    BY <1>a, <1>9 DEF ServiceOK, Auth, Ids
  <2>2. ServiceOK'
    BY <1>a, <1>9, <2>1 DEF ServiceOK, Auth
  <2> QED
    BY <1>b, <1>9, <2>2 DEF Auth
<1>10. ASSUME NEW w \in Workers, AuthFails(w)
      PROVE  CallersOK' /\ ServiceOK'
  <2>1. CallersOK'
    BY <1>a, <1>10 DEF CallersOK, AuthFails
  <2>2. ServiceOK'
    BY <1>a, <1>10 DEF ServiceOK, AuthFails, Fault
  <2> QED
    BY <2>1, <2>2
<1>11. ASSUME NEW w \in Workers, NEW whole \in BOOLEAN, Write(w, whole),
              UNCHANGED <<at, calls, cred, closed, verdict, hit>>
       PROVE  CallersOK'
  <2>1. found[w] \in Ids \cup {None}
    BY <1>a DEF ServiceOK
  <2>2. reply \in [Callers -> {None} \cup [status : Statuses, id : Ids \cup {None},
                                          whole : BOOLEAN]]
    BY <1>a DEF CallersOK
  <2>3. [status |-> IF found[w] = None THEN 401 ELSE 200, id |-> found[w], whole |-> whole]
          \in [status : Statuses, id : Ids \cup {None}, whole : BOOLEAN]
    BY <2>1 DEF Statuses
  <2>4. reply' \in [Callers -> {None} \cup [status : Statuses, id : Ids \cup {None},
                                           whole : BOOLEAN]]
    BY <1>11, <2>2, <2>3 DEF Write
  <2> QED
    BY <1>a, <1>11, <2>4 DEF CallersOK
<1>12. ASSUME NEW w \in Workers, SendHead(w)
       PROVE  CallersOK' /\ ServiceOK'
  <2>1. CallersOK'
    BY <1>11, <1>12 DEF SendHead
  <2>2. ServiceOK'
    BY <1>a, <1>12 DEF ServiceOK, SendHead
  <2> QED
    BY <2>1, <2>2
<1>13. ASSUME NEW w \in Workers, SendBody(w)
       PROVE  CallersOK' /\ ServiceOK'
  <2>1. CallersOK'
    BY <1>11, <1>13 DEF SendBody
  <2>2. ServiceOK'
    BY <1>a, <1>13 DEF ServiceOK, SendBody
  <2> QED
    BY <2>1, <2>2
<1>14. CASE Post
  <2>1. [from |-> Outside, n |-> 0] \in Connections
    BY DEF Connections
  <2>2. queue' \in Seq(Connections) /\ Len(queue') <= MaxQueued
    BY <1>a, <1>14, <2>1, QueueSteps DEF ServiceOK, Post
  <2>3. ServiceOK'
    BY <1>a, <1>14, <2>2 DEF ServiceOK, Post, workerVars
  <2> QED
    BY <1>b, <1>14, <2>3 DEF Post
<1>15. CASE Crash
  <2>1. CallersOK'
    BY <1>a, <1>15 DEF CallersOK, Crash
  <2>2. ServiceOK'
    <3>1. queue' \in Seq(Connections) /\ Len(queue') <= MaxQueued
      BY <1>15 DEF Crash
    <3>2. faults' \in 0..MaxFaults
      BY <1>a, <1>15 DEF ServiceOK, Crash, Fault
    <3>3. up' \in BOOLEAN /\ full' \in BOOLEAN
      BY <1>15, Zenon DEF Crash
    <3> QED
      BY <1>a, <1>15, <3>1, <3>2, <3>3 DEF ServiceOK, Crash
  <2> QED
    BY <2>1, <2>2
<1>16. CASE Start \/ QueueFills \/ QueueDrains
  <2>1. ServiceOK'
    <3>1. faults' \in 0..MaxFaults
      BY <1>a, <1>16 DEF ServiceOK, Start, QueueFills, QueueDrains, Fault
    <3>2. up' \in BOOLEAN /\ full' \in BOOLEAN
      BY <1>a, <1>16, Zenon DEF ServiceOK, Start, QueueFills, QueueDrains
    <3>3. UNCHANGED <<queue, workerVars, posts>>
      BY <1>16 DEF Start, QueueFills, QueueDrains
    <3> QED
      BY <1>a, <3>1, <3>2, <3>3 DEF ServiceOK, workerVars
  <2> QED
    BY <1>b, <1>16, <2>1 DEF Start, QueueFills, QueueDrains
<1>17. CASE UNCHANGED vars
  BY <1>a, <1>b, <1>17 DEF ServiceOK, vars, workerVars
<1> QED
  BY <1>1, <1>2, <1>4, <1>5, <1>6, <1>7, <1>8, <1>9, <1>10, <1>12, <1>13, <1>14, <1>15, <1>16,
  <1>17 DEF Next, CallerSteps, WorkerSteps

\* No step lets a connection be queued or served that nobody has made: a call
\* takes the next number before its connection is queued.
LEMMA NextPast ==
  ASSUME TypeOK, Past, [Next]_vars
  PROVE  Past'
<1> USE NamesAssumption
<1>1. \A c \in Callers : calls[c] \in Nat /\ calls'[c] \in Nat /\ calls[c] <= calls'[c]
  <2>1. calls \in [Callers -> 0..MaxCalls]
    BY DEF TypeOK
  <2>2. UNCHANGED calls \/ \E c \in Callers : calls' = [calls EXCEPT ![c] = @ + 1]
    BY DEF Next, vars, callerVars, Call, CallNobody, CallerSteps, Receive, Closed, Timeout,
       Slow, Late, GiveUp, Conclude, WorkerSteps, Dispatch, PostEnds, Spin, Auth, AuthFails,
       SendHead, SendBody, Post, Crash, Start, QueueFills, QueueDrains
  <2> QED
    BY <2>1, <2>2, BoundAssumption
<1>2. \A k \in Connections : Made(k, calls) => Made(k, calls')
  <2>1. \A k \in Connections : k.n \in Int
    BY DEF Connections
  <2> QED
    BY <1>1, <2>1 DEF Made
<1>3. queue \in Seq(Connections) /\ serving \in [Workers -> Connections \cup {None}]
  BY DEF TypeOK
<1>4. \A i \in 1..Len(queue') : queue'[i] \in Connections /\ Made(queue'[i], calls')
  <2>1. \A i \in 1..Len(queue) : queue[i] \in Connections /\ Made(queue[i], calls')
    BY <1>2, <1>3 DEF Past
  <2>2. ASSUME NEW k \in Connections, Made(k, calls'), queue' = Append(queue, k)
        PROVE  \A i \in 1..Len(queue') : queue'[i] \in Connections /\ Made(queue'[i], calls')
    BY <1>3, <2>1, <2>2 DEF Made
  <2>3. ASSUME NEW c \in Callers, NEW u \in Users, Call(c, u)
        PROVE  \A i \in 1..Len(queue') : queue'[i] \in Connections /\ Made(queue'[i], calls')
    <3> DEFINE k == [from |-> c, n |-> calls[c] + 1]
    <3>1. k \in Connections
      <4>1. calls[c] \in 0..MaxCalls /\ calls[c] < MaxCalls
        BY <2>3 DEF TypeOK, Call
      <4> QED
        BY <4>1, BoundAssumption DEF Connections
    <3>2. Made(k, calls')
      BY <2>3 DEF TypeOK, Call, Made
    <3> QED
      BY <2>1, <2>2, <2>3, <3>1, <3>2 DEF Call, Made
  <2>4. CASE Post
    <3> DEFINE k == [from |-> Outside, n |-> 0]
    <3>1. k \in Connections /\ Made(k, calls')
      BY DEF Connections, Made
    <3> QED
      BY <2>2, <2>4, <3>1 DEF Post, Made
  <2>5. CASE queue # <<>> /\ queue' = Tail(queue)
    BY <1>3, <2>1, <2>5 DEF Made
  <2>6. CASE queue' = <<>> \/ UNCHANGED queue
    BY <2>1, <2>6 DEF Made
  <2> QED
    BY <2>3, <2>4, <2>5, <2>6 DEF Next, vars, CallNobody, CallerSteps, Receive, Closed,
       Timeout, Slow, Late, GiveUp, Conclude, WorkerSteps, Dispatch, PostEnds, Spin, Auth,
       AuthFails, SendHead, SendBody, Crash, Start, QueueFills, QueueDrains
<1>5. ASSUME NEW w \in Workers, serving'[w] # None
      PROVE  Made(serving'[w], calls')
  <2>1. ASSUME NEW v \in Workers, Dispatch(v)
        PROVE  serving'[w] = serving[w] \/ (serving'[w] = queue[1] /\ Len(queue) >= 1)
    BY <1>3, <2>1 DEF Dispatch
  <2>2. ASSUME ~ \E v \in Workers : Dispatch(v)
        PROVE  serving'[w] \in {None, serving[w]}
    BY <1>3, <2>2 DEF Next, vars, workerVars, Call, CallNobody, CallerSteps, Receive, Closed,
       Timeout, Slow, Late, GiveUp, Conclude, WorkerSteps, PostEnds, Spin, Auth, AuthFails,
       SendHead, SendBody, Post, Crash, Start, QueueFills, QueueDrains
  <2>3. CASE serving'[w] = serving[w]
    <3>1. serving[w] \in Connections /\ Made(serving[w], calls)
      BY <1>3, <1>5, <2>3 DEF Past
    <3> QED
      BY <1>2, <2>3, <3>1 DEF Made
  <2>4. CASE serving'[w] = queue[1] /\ Len(queue) >= 1
    <3>1. queue[1] \in Connections /\ Made(queue[1], calls)
      BY <1>3, <2>4 DEF Past
    <3> QED
      BY <1>2, <2>4, <3>1 DEF Made
  <2> QED
    BY <1>5, <2>1, <2>2, <2>3, <2>4
<1> QED
  BY <1>4, <1>5 DEF Past

-----------------------------------------------------------------------------
(***************************************************************************)
(* Answers and verdicts                                                    *)
(***************************************************************************)

\* What there is to say of a call stays so while its credentials do and no hit
\* is forgotten.
SameCall(c) == cred'[c] = cred[c] /\ (hit[c] => hit'[c])

\* Only a call of its own opens a connection to a caller.
LEMMA NextSameCall ==
  ASSUME TypeOK, [Next]_vars, NEW c \in Callers
  PROVE  \/ SameCall(c) /\ (at'[c] = "calling" => /\ at[c] = "calling"
                                                  /\ calls'[c] = calls[c]
                                                  /\ closed[c] => closed'[c])
         \/ CallNobody(c)
         \/ \E u \in Users : Call(c, u)
<1>1. ASSUME NEW d \in Callers, NEW u \in Users, Call(d, u), d # c
      PROVE  SameCall(c) /\ at'[c] = at[c] /\ calls'[c] = calls[c] /\ closed'[c] = closed[c]
  BY <1>1 DEF Call, TypeOK, SameCall
<1>2. ASSUME NEW d \in Callers, CallNobody(d), d # c
      PROVE  SameCall(c) /\ at'[c] = at[c] /\ calls'[c] = calls[c] /\ closed'[c] = closed[c]
  BY <1>2 DEF CallNobody, TypeOK, SameCall
<1>3. ASSUME NEW d \in Callers, CallerSteps(d) \/ Slow(d)
      PROVE  /\ SameCall(c) /\ calls'[c] = calls[c] /\ closed'[c] = closed[c]
             /\ at'[c] = "calling" => at[c] = "calling"
  <2>1. \E v : Conclude(d, v)
    BY <1>3 DEF CallerSteps, Receive, Closed, Timeout, Slow, Late, GiveUp
  <2>2. UNCHANGED hit \/ hit' = [hit EXCEPT ![d] = TRUE]
    BY <1>3 DEF CallerSteps, Receive, Closed, Timeout, Slow, Late
  <2>3. UNCHANGED closed
    BY <1>3 DEF CallerSteps, Receive, Closed, Timeout, Slow, Late
  <2>4. UNCHANGED <<cred, calls>> /\ at' = [at EXCEPT ![d] = "idle"]
    BY <2>1 DEF Conclude
  <2> QED
    <3>1. hit \in [Callers -> BOOLEAN] /\ at \in [Callers -> {"idle", "calling"}]
      BY DEF TypeOK
    <3>2. hit[c] => hit'[c]
      BY <2>2, <3>1
    <3>3. at'[c] = "calling" => at[c] = "calling"
      BY <2>4, <3>1
    <3> QED
      BY <2>3, <2>4, <3>2, <3>3 DEF SameCall
<1>4. ASSUME NEW w \in Workers, AuthFails(w)
      PROVE  SameCall(c) /\ UNCHANGED <<at, calls, closed>>
  BY <1>4 DEF AuthFails, TypeOK, SameCall
<1>5. CASE Crash
  BY <1>5 DEF Crash, SameCall
<1>6. CASE UNCHANGED <<at, calls, cred, closed, hit>>
  BY <1>6 DEF SameCall
<1> QED
  BY <1>1, <1>2, <1>3, <1>4, <1>5, <1>6 DEF Next, vars, callerVars, WorkerSteps, Dispatch,
     PostEnds, Spin, Auth, SendHead, SendBody, Post, Start, QueueFills, QueueDrains

\* A thread of auth_service that has something to send either had it before, or
\* has just asked the database.
LEMMA NextFound ==
  ASSUME TypeOK, [Next]_vars, NEW w \in Workers, doing'[w] \in {"head", "body"}
  PROVE  /\ serving'[w] = serving[w]
         /\ \/ doing[w] \in {"head", "body"} /\ found'[w] = found[w]
            \/ Auth(w) \/ AuthFails(w)
<1>1. ASSUME NEW v \in Workers, WorkerSteps(v) \/ Spin(v) \/ AuthFails(v)
      PROVE  /\ serving'[w] = serving[w]
             /\ \/ doing[w] \in {"head", "body"} /\ found'[w] = found[w]
                \/ Auth(w) \/ AuthFails(w)
  <2> USE DEF TypeOK
  <2>1. CASE Dispatch(v)
    BY <2>1 DEF Dispatch
  <2>2. CASE PostEnds(v)
    BY <2>2 DEF PostEnds
  <2>3. CASE Auth(v)
    BY <2>3 DEF Auth
  <2>4. CASE AuthFails(v)
    BY <2>4 DEF AuthFails
  <2>5. CASE SendHead(v)
    BY <2>5 DEF SendHead
  <2>6. CASE SendBody(v)
    BY <2>6 DEF SendBody
  <2>7. CASE Spin(v)
    BY <2>7 DEF Spin
  <2> QED
    BY <1>1, <2>1, <2>2, <2>3, <2>4, <2>5, <2>6, <2>7 DEF WorkerSteps
<1>2. CASE Crash
  BY <1>2 DEF Crash
<1>3. CASE UNCHANGED workerVars
  BY <1>3 DEF workerVars
<1> QED
  BY <1>1, <1>2, <1>3 DEF Next, vars, Call, CallNobody, CallerSteps, Receive, Closed, Timeout,
     Slow, Late, GiveUp, Conclude, Post, Start, QueueFills, QueueDrains

\* Every step keeps what was found true of the caller it was found for, if that
\* caller still listens: had it begun another call, this connection would be an
\* old one.
LEMMA NextOwn ==
  ASSUME TypeOK, Past, Own, Heard, [Next]_vars
  PROVE  Own'
<1> USE NamesAssumption
<1> SUFFICES ASSUME NEW w \in Workers, doing'[w] \in {"head", "body"}, Open(serving[w])'
             PROVE  Says(serving[w].from, found[w])'
  BY DEF Own
<1> DEFINE k == serving[w]
           c == k.from
<1>1. serving'[w] = k
  BY NextFound
<1>2. /\ c \in Callers /\ k \in Connections /\ k.n \in Int
      /\ at'[c] = "calling" /\ k.n = calls'[c] /\ ~closed'[c]
  <2>1. k \in Connections
    BY <1>1, NextTypeOK DEF TypeOK
  <2>2. c # Outside
    BY <1>1 DEF Open
  <2> QED
    BY <1>1, <2>1, <2>2 DEF Connections, Open
<1>3. CASE \/ CallNobody(c)
           \/ \E u \in Users : Call(c, u)
  <2>1. calls[c] \in Nat /\ k # None /\ k.n <= calls[c]
    BY <1>2 DEF TypeOK, Past, Made
  <2> QED
    BY <1>2, <1>3, <2>1 DEF CallNobody, Call, TypeOK
<1>4. CASE SameCall(c) /\ Open(k)
  <2>1. CASE doing[w] \in {"head", "body"} /\ found'[w] = found[w]
    BY <1>1, <1>4, <2>1 DEF Own, Says, SameCall, Good
  <2>2. CASE Auth(w)
    <3>1. found'[w] = IF Good(c) THEN IdOf[SeenAs[cred[c]]] ELSE None
      BY <1>4, <2>2 DEF Auth, Asked, Good, TypeOK
    <3>2. Good(c) => IdOf[SeenAs[cred[c]]] # None
      BY DEF Ids, Good
    <3> QED
      BY <1>1, <1>4, <3>1, <3>2 DEF Says, Good, SameCall
  <2>3. CASE AuthFails(w)
    <3>1. found'[w] = None /\ hit'[c]
      BY <1>2, <1>4, <2>3 DEF AuthFails, TypeOK
    <3> QED
      BY <1>1, <3>1 DEF Says
  <2> QED
    BY <2>1, <2>2, <2>3, NextFound
<1> QED
  BY <1>2, <1>3, <1>4, NextSameCall DEF Open

\* Every step keeps what a caller has heard true: what is written to it was
\* found for it, and its connection is only closed by something that hits it.
LEMMA NextHeard ==
  ASSUME TypeOK, Past, Own, Heard, [Next]_vars
  PROVE  Heard'
<1> USE NamesAssumption
<1> SUFFICES ASSUME NEW c \in Callers, at'[c] = "calling"
             PROVE  HeardBy(c)'
  BY DEF Heard
<1>1. ASSUME NEW u \in Users, Call(c, u)
      PROVE  HeardBy(c)'
  BY <1>1 DEF Call, TypeOK, HeardBy
<1>2. CASE CallNobody(c)
  BY <1>2 DEF CallNobody
<1>3. CASE SameCall(c) /\ at[c] = "calling" /\ ~ \E u \in Users : Call(c, u)
  <2>1. HeardBy(c)
    BY <1>3 DEF Heard
  <2>2. cred'[c] \in Users
    BY <1>3, <2>1 DEF HeardBy, SameCall
  <2>3. closed'[c] => hit'[c]
    <3>1. CASE closed'[c] = closed[c]
      BY <1>3, <2>1, <3>1 DEF HeardBy, SameCall
    <3>2. CASE Crash
      BY <2>1, <3>2 DEF Crash, HeardBy
    <3>3. ASSUME NEW d \in Callers, NEW u \in Users, Call(d, u), d # c
          PROVE  closed'[c] = closed[c]
      BY <3>3 DEF Call, TypeOK
    <3> QED
      BY <1>3, <3>1, <3>2, <3>3 DEF Next, vars, callerVars, CallNobody, CallerSteps, Receive,
         Closed, Timeout, Slow, Late, WorkerSteps, Dispatch, PostEnds, Spin, Auth, AuthFails,
         SendHead, SendBody, Post, Start, QueueFills, QueueDrains
  <2>4. reply'[c] # None => /\ Says(c, reply[c].id)'
                            /\ reply'[c].status = IF reply'[c].id = None THEN 401 ELSE 200
    <3>1. CASE reply'[c] = reply[c]
      BY <1>3, <2>1, <3>1 DEF HeardBy, SameCall, Says, Good
    <3>2. CASE reply'[c] = None
      BY <3>2
    <3>3. ASSUME NEW w \in Workers, NEW whole \in BOOLEAN, Write(w, whole),
                 doing[w] \in {"head", "body"}, UNCHANGED <<cred, hit>>, reply'[c] # reply[c]
          PROVE  /\ Says(c, reply[c].id)'
                 /\ reply'[c].status = IF reply'[c].id = None THEN 401 ELSE 200
      <4>1. /\ Open(serving[w]) /\ serving[w].from = c
            /\ reply'[c] = [status |-> IF found[w] = None THEN 401 ELSE 200,
                            id |-> found[w], whole |-> whole]
        BY <3>3 DEF Write, TypeOK
      <4>2. Says(c, found[w])
        BY <3>3, <4>1 DEF Own
      <4> QED
        BY <3>3, <4>1, <4>2 DEF Says, Good
    <3>4. ASSUME NEW w \in Workers, SendHead(w) \/ SendBody(w)
          PROVE  /\ \E whole \in BOOLEAN : Write(w, whole)
                 /\ doing[w] \in {"head", "body"} /\ UNCHANGED <<cred, hit>>
      BY <3>4 DEF SendHead, SendBody
    <3>5. ASSUME NEW d \in Callers, NEW u \in Users, Call(d, u), d # c
          PROVE  reply'[c] = reply[c]
      BY <3>5 DEF Call, TypeOK
    <3>6. ASSUME NEW d \in Callers, NEW v, Conclude(d, v)
          PROVE  reply'[c] \in {None, reply[c]}
      BY <3>6 DEF Conclude, TypeOK
    <3>7. ASSUME NEW d \in Callers, CallerSteps(d) \/ Slow(d)
          PROVE  \E v : Conclude(d, v)
      BY <3>7 DEF CallerSteps, Receive, Closed, Timeout, Slow, Late, GiveUp
    <3>8. CASE UNCHANGED reply
      BY <3>1, <3>8
    <3> QED
      BY <1>3, <3>1, <3>2, <3>3, <3>4, <3>5, <3>6, <3>7, <3>8 DEF Next, vars, callerVars,
         CallNobody, WorkerSteps, Dispatch, PostEnds, Spin, Auth, AuthFails, Post, Crash, Start,
         QueueFills, QueueDrains
  <2> QED
    BY <2>2, <2>3, <2>4 DEF HeardBy
<1> QED
  BY <1>1, <1>2, <1>3, NextSameCall

\* A verdict on what was heard is the caller's own, and a refusal has a reason.
LEMMA NextVerdicts ==
  ASSUME TypeOK, Heard, VerdictIsOwn, RefusedForReason, [Next]_vars
  PROVE  VerdictIsOwn' /\ RefusedForReason'
<1> USE NamesAssumption
<1> DEFINE Fair(c, v) ==
      /\ v.status = 200 => Good(c) /\ v.id = IdOf[SeenAs[cred[c]]]
      /\ cred[c] # None => IF Good(c) THEN hit[c] \/ v.status = 200 ELSE v.status = 401
<1>1. \A c \in Callers : verdict[c] # None => Fair(c, verdict[c])
  BY DEF VerdictIsOwn, RefusedForReason
<1> SUFFICES ASSUME NEW c \in Callers, verdict'[c] # None
             PROVE  Fair(c, verdict[c])'
  BY DEF VerdictIsOwn, RefusedForReason
<1>2. ASSUME NEW u \in Users, Call(c, u)
      PROVE  Fair(c, verdict[c])'
  BY <1>2 DEF Call, TypeOK
<1>3. CASE CallNobody(c)
  <2>1. cred'[c] = None /\ verdict'[c].status \in {401, 500}
    BY <1>3 DEF CallNobody, TypeOK
  <2> QED
    BY <2>1
<1>4. CASE SameCall(c) /\ verdict'[c] = verdict[c]
  BY <1>1, <1>4 DEF SameCall, Good
<1>5. CASE SameCall(c) /\ Receive(c)
  <2>1. HeardBy(c) /\ reply[c] # None
    BY <1>5 DEF Receive, Whole, Heard
  <2>2. CASE reply[c].status = 200 /\ Conclude(c, [status |-> 200, id |-> reply[c].id])
    <3>1. verdict'[c] = [status |-> 200, id |-> reply[c].id]
      BY <2>2 DEF Conclude, TypeOK
    <3> QED
      BY <1>5, <2>1, <2>2, <3>1 DEF HeardBy, Says, SameCall, Good
  <2>3. CASE reply[c].status # 200 /\ Conclude(c, [status |-> 401])
    <3>1. verdict'[c] = [status |-> 401]
      BY <2>3 DEF Conclude, TypeOK
    <3> QED
      BY <1>5, <2>1, <2>3, <3>1 DEF HeardBy, Says, SameCall, Good
  <2> QED
    BY <1>5, <2>2, <2>3 DEF Receive
<1>6. CASE SameCall(c) /\ (Closed(c) \/ Timeout(c) \/ Slow(c))
  <2>1. HeardBy(c) /\ GiveUp(c)
    BY <1>6 DEF Closed, Timeout, Slow, Late, GiveUp, Heard
  <2>2. verdict'[c] = [status |-> IF reply[c] # None /\ reply[c].status = 200 THEN 500 ELSE 401]
    BY <2>1 DEF GiveUp, Conclude, TypeOK
  <2>3. hit'[c]
    <3>1. CASE Closed(c)
      BY <1>6, <2>1, <3>1 DEF Closed, HeardBy, SameCall
    <3>2. CASE Timeout(c) \/ Slow(c)
      BY <3>2 DEF Timeout, Slow, Late, TypeOK
    <3> QED
      BY <1>6, <3>1, <3>2
  <2>4. reply[c] # None /\ reply[c].status = 200 => Good(c)
    BY <2>1 DEF HeardBy, Says
  <2> QED
    BY <1>6, <2>2, <2>3, <2>4 DEF SameCall, Good
<1>7. ASSUME ~ (Receive(c) \/ Closed(c) \/ Timeout(c) \/ Slow(c)),
             ~ CallNobody(c), ~ \E u \in Users : Call(c, u)
      PROVE  verdict'[c] = verdict[c]
  <2>1. ASSUME NEW d \in Callers, d # c, NEW u \in Users, Call(d, u)
        PROVE  verdict'[c] = verdict[c]
    BY <2>1 DEF Call, TypeOK
  <2>2. ASSUME NEW d \in Callers, d # c, CallNobody(d)
        PROVE  verdict'[c] = verdict[c]
    BY <2>2 DEF CallNobody, TypeOK
  <2>3. ASSUME NEW d \in Callers, d # c, CallerSteps(d) \/ Slow(d)
        PROVE  verdict'[c] = verdict[c]
    <3>1. \E v : Conclude(d, v)
      BY <2>3 DEF CallerSteps, Receive, Closed, Timeout, Slow, Late, GiveUp
    <3> QED
      BY <2>3, <3>1 DEF Conclude, TypeOK
  <2> QED
    BY <1>7, <2>1, <2>2, <2>3 DEF Next, vars, callerVars, CallerSteps, WorkerSteps, Dispatch,
       PostEnds, Spin, Auth, AuthFails, SendHead, SendBody, Post, Crash, Start, QueueFills,
QueueDrains <1> QED
  BY <1>2, <1>3, <1>4, <1>5, <1>6, <1>7, NextSameCall

\* Inv is inductive.
LEMMA InvStep == Inv /\ [Next]_vars => Inv'
  BY NextTypeOK, NextPast, NextOwn, NextHeard, NextVerdicts DEF Inv

\* In every reachable state the invariant holds.
LEMMA Invariance == Spec => []Inv
  BY InitInv, InvStep, PTL DEF Spec

-----------------------------------------------------------------------------
(***************************************************************************)
(* The properties                                                          *)
(***************************************************************************)

\* Every variable always has its type.
THEOREM TypeCorrect == Spec => []TypeOK
<1>1. Inv => TypeOK
  BY DEF Inv
<1> QED
  BY <1>1, Invariance, PTL

\* However many threads call and serve, and however late, cut or lost answers
\* are: a request is only ever let through as the user whose login and password
\* auth_service reads in what this very request forwards, be they all that its
\* client presented or the first line of it.
THEOREM LetThroughAsForwarded == Spec => []VerdictIsOwn
<1>1. Inv => VerdictIsOwn
  BY DEF Inv
<1> QED
  BY <1>1, Invariance, PTL

\* A user whom auth_service can recognise in what is forwarded is only turned
\* away when something went wrong during this very call; everybody else, a user
\* whose credentials were cut included, is always answered 401.
THEOREM RefusedOnlyForReason == Spec => []RefusedForReason
<1>1. Inv => RefusedForReason
  BY DEF Inv
<1> QED
  BY <1>1, Invariance, PTL
=============================================================================
