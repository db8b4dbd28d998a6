----------------------- MODULE CacheConnectionProofs -----------------------
(***************************************************************************)
(* Theorems about CacheConnection for every set of threads, keys and       *)
(* values: the stream only ever carries the command of the thread that     *)
(* waits for a reply, and the calls implement AtomicCache.                 *)
(*                                                                         *)
(* The inductive invariant is Inv. Its parts:                              *)
(*   TypeOK  types, and who holds the mutex and makes the stream;          *)
(*   Making  while there is no stream nobody is past making it;            *)
(*   Calls   a thread in a call has its command, and a result only once    *)
(*           the call is done;                                             *)
(*   Stream  at most one command or reply is on the stream, and it is the  *)
(*           receiving thread's.                                           *)
(***************************************************************************)
EXTENDS CacheConnection, Integers, SequenceTheorems, TLAPS

Making ==
  /\ \A t \in Threads : at[t] = "connect" => link = "none"
  /\ link = "none" =>
       /\ \A t \in Threads : at[t] \in {"idle", "instance", "connect", "failed"}
       /\ wire = <<>> /\ replies = <<>>

Calls ==
  \A t \in Threads : /\ at[t] # "idle" => cmd[t] \in Commands
                     /\ at[t] # "done" => result[t] = None

Stream ==
  /\ wire = <<>> \/ replies = <<>>
  /\ wire # <<>> =>
       /\ Len(wire) = 1
       /\ link = "open" => \E t \in Threads : at[t] = "receive" /\ cmd[t] = wire[1]
  /\ replies # <<>> =>
       /\ Len(replies) = 1
       /\ \E t \in Threads : at[t] = "receive"
  /\ \A t \in Threads : at[t] = "receive" /\ link = "open" => wire # <<>> \/ replies # <<>>

Inv == TypeOK /\ Making /\ Calls /\ Stream

-----------------------------------------------------------------------------
(***************************************************************************)
(* The invariant                                                           *)
(***************************************************************************)

\* What a queue on the stream is after an arrival and after a departure.
LEMMA QueueSteps ==
  ASSUME NEW S, NEW q \in Seq(S)
  PROVE  /\ Len(q) \in Nat
         /\ \A e \in S : Append(q, e) \in Seq(S)
         /\ q = <<>> => \A e \in S : /\ Append(q, e) # <<>> /\ Len(Append(q, e)) = 1
                                     /\ Append(q, e)[1] = e /\ Head(Append(q, e)) = e
         /\ q # <<>> => Head(q) = q[1] /\ Head(q) \in S /\ Tail(q) \in Seq(S)
         /\ q # <<>> /\ Len(q) = 1 => Tail(q) = <<>>
<1>1. /\ Len(q) \in Nat
      /\ \A e \in S : Append(q, e) \in Seq(S)
  OBVIOUS
<1>2. ASSUME q = <<>>, NEW e \in S
      PROVE  /\ Append(q, e) # <<>> /\ Len(Append(q, e)) = 1
             /\ Append(q, e)[1] = e /\ Head(Append(q, e)) = e
  BY <1>2
<1>3. ASSUME q # <<>>
      PROVE  Head(q) = q[1] /\ Head(q) \in S /\ Tail(q) \in Seq(S)
  BY <1>3, HeadTailProperties
<1>4. ASSUME q # <<>>, Len(q) = 1
      PROVE  Tail(q) = <<>>
  <2>1. Tail(q) \in Seq(S) /\ Len(Tail(q)) = Len(q) - 1
    BY <1>4, HeadTailProperties
  <2>2. Len(Tail(q)) \notin Nat \ {0}
    BY <1>4, <2>1
  <2>3. \A r \in Seq(S) : r # <<>> => Len(r) \in Nat \ {0}
    BY EmptySeq
  <2> QED
    BY <2>1, <2>2, <2>3
<1> QED
  BY <1>1, <1>2, <1>3, <1>4

\* What Redis replies to a command and what it leaves in the store.
LEMMA RedisTypes ==
  ASSUME NEW c \in Commands, NEW s \in [Keys -> Vals \cup {None}]
  PROVE  /\ Atomic!After(c, s) \in [Keys -> Vals \cup {None}]
         /\ Atomic!ReplyTo(c, s) \in Replies
  BY DEF Atomic!After, Atomic!ReplyTo, Replies, Commands, Atomic!Commands

\* Initially there is no stream and no call.
LEMMA InitInv == Init => Inv
  BY NoneAssumption DEF Init, Inv, TypeOK, Making, Calls, Stream, Replies

\* Every step keeps the types and the agreement between the places of the
\* threads, the mutex and the constructor.
LEMMA NextTypeOK ==
  ASSUME TypeOK, Making, Calls, Stream, [Next]_vars
  PROVE  TypeOK'
<1> USE NoneAssumption DEF TypeOK, Goto
<1>1. ASSUME NEW t \in Threads, NEW c \in Commands, Enter(t, c)
      PROVE  TypeOK'
  BY <1>1 DEF Enter, wireVars
<1>2. ASSUME NEW t \in Threads, Instance(t)
      PROVE  TypeOK'
  BY <1>2 DEF Instance, wireVars
<1>3. ASSUME NEW t \in Threads, Make(t)
      PROVE  TypeOK'
  BY <1>3 DEF Make, wireVars
<1>4. ASSUME NEW t \in Threads, Made(t) \/ MakeThrows(t)
      PROVE  TypeOK'
  BY <1>4 DEF Made, MakeThrows, wireVars
<1>5. ASSUME NEW t \in Threads, Lock(t)
      PROVE  TypeOK'
  BY <1>5 DEF Lock, wireVars
<1>6. ASSUME NEW t \in Threads, Send(t)
      PROVE  TypeOK'
  <2>1. wire' \in Seq(Commands)
    BY <1>6, QueueSteps DEF Send, Calls
  <2> QED
    BY <1>6, <2>1 DEF Send
<1>7. ASSUME NEW t \in Threads, Receive(t)
      PROVE  TypeOK'
  <2>1. Head(replies) \in Replies /\ Tail(replies) \in Seq(Replies)
    BY <1>7, QueueSteps DEF Receive
  <2> QED
    BY <1>7, <2>1 DEF Receive
<1>8. ASSUME NEW t \in Threads, Throw(t)
      PROVE  TypeOK'
  BY <1>8 DEF Throw, wireVars
<1>9. ASSUME NEW t \in Threads, Return(t)
      PROVE  TypeOK'
  BY <1>9 DEF Return, wireVars, Replies
<1>10. CASE Serve
  <2>1. Head(wire) \in Commands /\ Tail(wire) \in Seq(Commands)
    BY <1>10, QueueSteps DEF Serve
  <2>2. store' \in [Keys -> Vals \cup {None}] /\ replies' \in Seq(Replies)
    BY <1>10, <2>1, RedisTypes, QueueSteps DEF Serve
  <2> QED
    BY <1>10, <2>1, <2>2 DEF Serve, threadVars
<1>11. CASE Break
  <2>1. <<>> \in Seq(Commands) /\ <<>> \in Seq(Replies)
    OBVIOUS
  <2>2. wire' \in Seq(Commands) /\ replies' \in Seq(Replies)
    BY <1>11, <2>1 DEF Break
  <2> QED
    BY <1>11, <2>2 DEF Break, threadVars
<1>12. ASSUME NEW k \in Keys, Expire(k)
       PROVE  TypeOK'
  BY <1>12 DEF Expire, threadVars, wireVars
<1>13. CASE UNCHANGED vars
  BY <1>13 DEF vars, threadVars, wireVars
<1> QED
  BY <1>1, <1>2, <1>3, <1>4, <1>5, <1>6, <1>7, <1>8, <1>9, <1>10, <1>11, <1>12, <1>13
  DEF Next, Step

\* Every step keeps what holds while there is no stream, and what threads know
\* of their calls.
LEMMA NextCalls ==
  ASSUME TypeOK, Making, Calls, Stream, [Next]_vars
  PROVE  Making' /\ Calls'
<1> USE NoneAssumption DEF TypeOK, Making, Calls, Goto
<1>1. ASSUME NEW t \in Threads, \/ \E c \in Commands : Enter(t, c)
                                \/ Instance(t) \/ Make(t) \/ MakeThrows(t)
      PROVE  Making' /\ Calls'
  BY <1>1 DEF Enter, Instance, Make, MakeThrows, wireVars
<1>2. ASSUME NEW t \in Threads, Made(t)
      PROVE  Making' /\ Calls'
  BY <1>2 DEF Made, wireVars
<1>3. ASSUME NEW t \in Threads, Lock(t) \/ Send(t) \/ Receive(t) \/ Throw(t)
      PROVE  Making' /\ Calls'
  BY <1>3 DEF Lock, Send, Receive, Throw, wireVars
<1>4. ASSUME NEW t \in Threads, Return(t)
      PROVE  Making' /\ Calls'
  BY <1>4 DEF Return, wireVars
<1>5. CASE Serve \/ Break \/ (\E k \in Keys : Expire(k)) \/ UNCHANGED vars
  BY <1>5 DEF Serve, Break, Expire, vars, threadVars, wireVars
<1> QED
  BY <1>1, <1>2, <1>3, <1>4, <1>5 DEF Next, Step

\* Every step keeps the stream to the thread that waits for a reply: the mutex
\* lets nobody else write on it or read from it.
LEMMA NextStream ==
  ASSUME TypeOK, Making, Calls, Stream, [Next]_vars
  PROVE  Stream'
<1> USE NoneAssumption DEF Stream, Goto
<1>1. \A t, p \in Threads :
        at[t] \in {"send", "receive"} /\ at[p] \in {"send", "receive"} => t = p
  BY DEF TypeOK
<1>2. at \in [Threads -> {"idle", "instance", "connect", "lock", "send", "receive", "done",
                          "failed"}]
  BY DEF TypeOK
<1>3. wire \in Seq(Commands) /\ replies \in Seq(Replies)
  BY DEF TypeOK
<1>4. ASSUME NEW t \in Threads,
             \/ \E c \in Commands : Enter(t, c)
             \/ Instance(t) \/ Make(t) \/ MakeThrows(t) \/ Lock(t) \/ Return(t)
      PROVE  Stream'
  <2>1. UNCHANGED <<link, wire, replies>>
    BY <1>4 DEF Enter, Instance, Make, MakeThrows, Lock, Return, wireVars
  <2>2. /\ at[t] # "receive" /\ at'[t] # "receive"
        /\ \A p \in Threads : p # t => at'[p] = at[p] /\ cmd'[p] = cmd[p]
    BY <1>2, <1>4 DEF Enter, Instance, Make, MakeThrows, Lock, Return, TypeOK
  <2> QED
    BY <2>1, <2>2
<1>5. ASSUME NEW t \in Threads, Made(t)
      PROVE  Stream'
  BY <1>2, <1>5 DEF Made, Making, wireVars
<1>6. ASSUME NEW t \in Threads, Send(t)
      PROVE  Stream'
  <2>1. wire = <<>> /\ replies = <<>>
    BY <1>1, <1>6 DEF Send
  <2>2. cmd[t] \in Commands
    BY <1>6 DEF Send, Calls
  <2>3. Len(wire') = 1 /\ wire'[1] = cmd[t] /\ replies' = <<>> /\ link' = "open"
    BY <1>3, <1>6, <2>1, <2>2, QueueSteps DEF Send
  <2>4. at'[t] = "receive" /\ cmd' = cmd
    BY <1>2, <1>6 DEF Send
  <2> QED
    BY <1>6, <2>1, <2>2, <2>3, <2>4, <1>3, QueueSteps DEF Send
<1>7. ASSUME NEW t \in Threads, Receive(t)
      PROVE  Stream'
  <2>1. wire = <<>> /\ Len(replies) = 1
    BY <1>7 DEF Receive
  <2>2. wire' = <<>> /\ replies' = <<>>
    BY <1>3, <1>7, <2>1, QueueSteps DEF Receive
  <2>3. \A p \in Threads : at'[p] # "receive"
    BY <1>1, <1>2, <1>7 DEF Receive
  <2> QED
    BY <2>2, <2>3
<1>8. ASSUME NEW t \in Threads, Throw(t)
      PROVE  Stream'
  <2>1. link' = "broken" /\ UNCHANGED <<wire, replies>>
    BY <1>8 DEF Throw, wireVars
  <2>2. replies = <<>>
    BY <1>1, <1>8 DEF Throw
  <2> QED
    BY <2>1, <2>2
<1>9. CASE Serve
  <2>1. Len(wire) = 1 /\ wire # <<>> /\ replies = <<>> /\ wire' = <<>>
    BY <1>3, <1>9, QueueSteps DEF Serve
  <2>2. CASE link = "open"
    <3>1. replies' # <<>> /\ Len(replies') = 1
      <4>1. Head(wire) \in Commands
        BY <1>3, <2>1, QueueSteps
      <4>2. Atomic!ReplyTo(Head(wire), store) \in Replies
        BY <4>1, RedisTypes DEF TypeOK
      <4> QED
        BY <1>3, <1>9, <2>1, <2>2, <4>2, QueueSteps DEF Serve
    <3> QED
      BY <1>9, <2>1, <2>2, <3>1 DEF Serve, threadVars
  <2>3. CASE link # "open"
    BY <1>9, <2>1, <2>3 DEF Serve, threadVars
  <2> QED
    BY <2>2, <2>3
<1>10. CASE Break
  BY <1>10 DEF Break, threadVars
<1>11. CASE (\E k \in Keys : Expire(k)) \/ UNCHANGED vars
  BY <1>11 DEF Expire, vars, threadVars, wireVars
<1> QED
  BY <1>4, <1>5, <1>6, <1>7, <1>8, <1>9, <1>10, <1>11 DEF Next, Step

\* Inv is inductive.
LEMMA InvStep == Inv /\ [Next]_vars => Inv'
  BY NextTypeOK, NextCalls, NextStream DEF Inv

\* In every reachable state the invariant holds.
LEMMA Invariance == Spec => []Inv
  BY InitInv, InvStep, PTL DEF Spec

-----------------------------------------------------------------------------
(***************************************************************************)
(* AtomicCache is implemented                                              *)
(***************************************************************************)
SeenCalls == [cmd : Commands, at : {"called", "effected", "failed"}, result : Replies]

\* What AtomicCache sees of a thread in a call is a call.
LEMMA SeenType ==
  ASSUME Inv, NEW t \in Threads
  PROVE  /\ at[t] = "idle" => CallSeen(t) = None
         /\ at[t] # "idle" => CallSeen(t) \in SeenCalls /\ CallSeen(t) # None
<1> USE NoneAssumption DEF SeenCalls, CallSeen
<1>1. at[t] # "idle" => cmd[t] \in Commands /\ result[t] \in Replies /\ None \in Replies
  BY DEF Inv, Calls, TypeOK, Replies
<1>2. replies # <<>> => Head(replies) \in Replies
  BY QueueSteps DEF Inv, TypeOK
<1>3. at[t] # "idle" => CallSeen(t) \in SeenCalls
  BY <1>1, <1>2
<1> QED
  BY <1>3

\* The cases of CallSeen.
LEMMA SeenCases ==
  ASSUME NEW t \in Threads
  PROVE  /\ at[t] = "done" =>
              CallSeen(t) = [cmd |-> cmd[t], at |-> "effected", result |-> result[t]]
         /\ at[t] = "failed" =>
              CallSeen(t) = [cmd |-> cmd[t], at |-> "failed", result |-> result[t]]
         /\ at[t] = "receive" /\ replies # <<>> =>
              CallSeen(t) = [cmd |-> cmd[t], at |-> "effected", result |-> Head(replies)]
         /\ at[t] = "receive" /\ replies = <<>> /\ link = "broken" =>
              CallSeen(t) = [cmd |-> cmd[t], at |-> "failed", result |-> None]
         /\ \/ at[t] = "receive" /\ replies = <<>> /\ link # "broken"
            \/ at[t] \in {"instance", "connect", "lock", "send"}
            => CallSeen(t) = [cmd |-> cmd[t], at |-> "called", result |-> None]
  BY DEF CallSeen

\* A thread that is not concerned by a step is seen as before it.
LEMMA SeenStays ==
  ASSUME NEW t \in Threads,
         at'[t] = at[t], cmd'[t] = cmd[t], result'[t] = result[t],
         at[t] = "receive" => replies' = replies /\ link' = link
  PROVE  CallSeen(t)' = CallSeen(t)
  BY DEF CallSeen

\* When one call changes, AtomicCache sees an EXCEPT.
LEMMA OneCall ==
  ASSUME NEW t \in Threads, \A p \in Threads : p # t => CallSeen(p)' = CallSeen(p)
  PROVE  CallsSeen' = [CallsSeen EXCEPT ![t] = CallSeen(t)']
  BY DEF CallsSeen

\* When none changes, it sees the same calls.
LEMMA NoCall ==
  ASSUME \A p \in Threads : CallSeen(p)' = CallSeen(p)
  PROVE  CallsSeen' = CallsSeen
  BY DEF CallsSeen

\* The initial states are initial states of AtomicCache.
LEMMA InitSimulates == Init => Atomic!Init
  BY DEF Init, Atomic!Init, CallsSeen, CallSeen, LateSeen

\* A step of a thread is a step of its call, or none.
LEMMA ThreadSimulates ==
  ASSUME Inv, Inv', NEW t \in Threads, Step(t) \/ \E c \in Commands : Enter(t, c)
  PROVE  Atomic!Next \/ UNCHANGED Atomic!vars
<1> USE DEF Goto
<1>a. at \in [Threads -> {"idle", "instance", "connect", "lock", "send", "receive", "done",
                          "failed"}]
      /\ cmd \in [Threads -> Commands \cup {None}] /\ result \in [Threads -> Replies]
  BY DEF Inv, TypeOK
<1>b. \A p \in Threads : at[t] \in {"send", "receive"} /\ p # t => at[p] # "receive"
  BY NoneAssumption DEF Inv, TypeOK
<1>c. CallsSeen[t] = CallSeen(t)
  BY DEF CallsSeen
<1>1. ASSUME NEW c \in Commands, Enter(t, c)
      PROVE  Atomic!Invoke(t, c)
  <2>1. \A p \in Threads : p # t => CallSeen(p)' = CallSeen(p)
    BY <1>a, <1>1, SeenStays DEF Enter, wireVars
  <2>2. CallSeen(t)' = [cmd |-> c, at |-> "called", result |-> None]
    BY <1>a, <1>1 DEF Enter, CallSeen
  <2>3. CallSeen(t) = None
    BY <1>1, SeenType DEF Enter
  <2>4. UNCHANGED LateSeen
    BY <1>1 DEF Enter, LateSeen, wireVars
  <2> QED
    BY <1>1, <1>c, <2>1, <2>2, <2>3, <2>4, OneCall DEF Atomic!Invoke, Atomic!Call, Enter
<1>2. CASE Instance(t) \/ Make(t) \/ Lock(t)
  <2>1. \A p \in Threads : p # t => CallSeen(p)' = CallSeen(p)
    BY <1>a, <1>2, SeenStays DEF Instance, Make, Lock, wireVars
  <2>2. CallSeen(t)' = CallSeen(t)
    BY <1>a, <1>2 DEF Instance, Make, Lock, CallSeen
  <2>3. UNCHANGED <<store, link, LateSeen>>
    BY <1>2 DEF Instance, Make, Lock, LateSeen, wireVars
  <2> QED
    BY <2>1, <2>2, <2>3, NoCall DEF Atomic!vars
<1>3. CASE Made(t)
  <2>1. link = "none" /\ wire' = <<>>
    BY <1>3 DEF Made, Inv, Making, wireVars
  <2>2. \A p \in Threads : at[p] # "receive"
    BY <2>1 DEF Inv, Making
  <2>3. \A p \in Threads : p # t => CallSeen(p)' = CallSeen(p)
    BY <1>a, <1>3, <2>2, SeenStays DEF Made, wireVars
  <2>4. CallSeen(t)' = CallSeen(t)
    BY <1>a, <1>3 DEF Made, CallSeen
  <2>5. UNCHANGED LateSeen
    BY <2>1 DEF LateSeen
  <2>6. Atomic!Connect
    BY <1>3, <2>1, <2>3, <2>4, <2>5, NoCall DEF Atomic!Connect, Made
  <2> QED
    BY <2>6 DEF Atomic!Next
<1>4. ASSUME link # "open", CallSeen(t).at = "called", at[t] # "idle", at'[t] = "failed",
             UNCHANGED <<store, link, cmd, result, wire, replies>>,
             \A p \in Threads : p # t => at'[p] = at[p], at[t] # "done"
      PROVE  Atomic!Fail(t)
  <2>1. \A p \in Threads : p # t => CallSeen(p)' = CallSeen(p)
    BY <1>4, SeenStays
  <2>2. CallSeen(t).cmd = cmd[t] /\ CallSeen(t) # None
    BY <1>4, SeenType DEF CallSeen
  <2>3. CallSeen(t)' = [cmd |-> cmd[t], at |-> "failed", result |-> None]
    <3>1. result[t] = None
      BY <1>4 DEF Inv, Calls
    <3> QED
      BY <1>4, <3>1 DEF CallSeen
  <2>4. UNCHANGED LateSeen
    BY <1>4 DEF LateSeen
  <2> QED
    BY <1>4, <1>c, <2>1, <2>2, <2>3, <2>4, OneCall
    DEF Atomic!Fail, Atomic!Failed, Atomic!Call
<1>5. CASE MakeThrows(t)
  <2>1. link = "none"
    BY <1>5 DEF MakeThrows, Inv, Making
  <2>2. CallSeen(t).at = "called"
    BY <1>5 DEF MakeThrows, CallSeen
  <2>3. Atomic!Fail(t)
    BY <1>a, <1>4, <1>5, <2>1, <2>2 DEF MakeThrows, wireVars
  <2> QED
    BY <2>3 DEF Atomic!Next
<1>6. CASE Send(t)
  <2>1. replies = <<>> /\ link = "open"
    BY <1>6, <1>b DEF Send, Inv, Stream
  <2>2. \A p \in Threads : p # t => CallSeen(p)' = CallSeen(p)
    BY <1>a, <1>6, SeenStays DEF Send
  <2>3. CallSeen(t)' = CallSeen(t)
    BY <1>a, <1>6, <2>1 DEF Send, CallSeen
  <2>4. UNCHANGED <<store, link, LateSeen>>
    BY <1>6, <2>1 DEF Send, LateSeen
  <2> QED
    BY <2>2, <2>3, <2>4, NoCall DEF Atomic!vars
<1>7. CASE Receive(t)
  <2>1. \A p \in Threads : p # t => CallSeen(p)' = CallSeen(p)
    BY <1>a, <1>b, <1>7, SeenStays DEF Receive
  <2>2. CallSeen(t)' = CallSeen(t)
    BY <1>a, <1>7 DEF Receive, CallSeen
  <2>3. UNCHANGED <<store, link, LateSeen>>
    BY <1>7 DEF Receive, LateSeen
  <2> QED
    BY <2>1, <2>2, <2>3, NoCall DEF Atomic!vars
<1>8. CASE Throw(t)
  <2>1. CASE at[t] = "send"
    <3>1. CallSeen(t).at = "called"
      BY <2>1 DEF CallSeen
    <3>2. Atomic!Fail(t)
      BY <1>a, <1>4, <1>8, <2>1, <3>1 DEF Throw, wireVars
    <3> QED
      BY <3>2 DEF Atomic!Next
  <2>2. CASE at[t] = "receive"
    <3>1. \A p \in Threads : p # t => CallSeen(p)' = CallSeen(p)
      BY <1>a, <1>8, <2>2, SeenStays DEF Throw, wireVars
    <3>2. CallSeen(t)' = CallSeen(t)
      <4>1. result'[t] = None /\ at'[t] = "failed" /\ cmd' = cmd
        BY <1>a, <1>8, <2>2 DEF Throw, Inv, Calls
      <4>2. replies = <<>> /\ link = "broken"
        BY <1>8, <2>2 DEF Throw
      <4> QED
        BY <2>2, <4>1, <4>2 DEF CallSeen
    <3>3. UNCHANGED <<store, link, LateSeen>>
      BY <1>8 DEF Throw, LateSeen, wireVars
    <3> QED
      BY <3>1, <3>2, <3>3, NoCall DEF Atomic!vars
  <2> QED
    BY <1>8, <2>1, <2>2 DEF Throw
<1>9. CASE Return(t)
  <2>1. \A p \in Threads : p # t => CallSeen(p)' = CallSeen(p)
    BY <1>a, <1>9, SeenStays DEF Return, wireVars
  <2>2. CallSeen(t)' = None
    BY <1>a, <1>9 DEF Return, CallSeen
  <2>3. CallSeen(t) # None /\ CallSeen(t).at \in {"effected", "failed"}
    <3>1. CallSeen(t) # None
      BY <1>9, SeenType DEF Return
    <3>2. CallSeen(t).at \in {"effected", "failed"}
      BY <1>9, SeenCases DEF Return
    <3> QED
      BY <3>1, <3>2
  <2>4. UNCHANGED <<store, link, LateSeen>>
    BY <1>9 DEF Return, LateSeen, wireVars
  <2>5. Atomic!Return(t)
    BY <1>c, <2>1, <2>2, <2>3, <2>4, OneCall DEF Atomic!Return
  <2> QED
    BY <2>5 DEF Atomic!Next
<1>10. Commands = Atomic!Commands
  BY DEF Commands
<1> QED
  BY <1>1, <1>2, <1>3, <1>5, <1>6, <1>7, <1>8, <1>9, <1>10 DEF Step, Atomic!Next

\* What is on the stream before Redis serves a command or it breaks.
LEMMA OnStream ==
  ASSUME Inv, wire # <<>>
  PROVE  /\ Head(wire) = wire[1] /\ Head(wire) \in Commands /\ Tail(wire) = <<>>
         /\ replies = <<>>
<1>1. wire \in Seq(Commands) /\ Len(wire) = 1 /\ replies = <<>>
  BY DEF Inv, TypeOK, Stream
<1> QED
  BY <1>1, QueueSteps

\* A command that Redis serves is the effect of the call that waits for it, or
\* the late effect of one that has failed.
LEMMA ServeSimulates ==
  ASSUME Inv, Serve
  PROVE  Atomic!Next
<1>1. wire # <<>> /\ wire' = <<>>
  BY OnStream DEF Serve
<1>2. UNCHANGED <<link, at, cmd, result>>
  BY DEF Serve, threadVars
<1>3. store' = Atomic!After(Head(wire), store)
  BY DEF Serve
<1>4. replies = <<>>
  BY <1>1, OnStream
<1>5. CASE link = "open"
  <2>1. PICK t \in Threads : at[t] = "receive" /\ cmd[t] = wire[1]
    BY <1>1, <1>5 DEF Inv, Stream
  <2>2. Head(wire) = cmd[t] /\ cmd[t] \in Commands
    BY <1>1, <2>1, OnStream
  <2>3. \A p \in Threads : p # t => at[p] # "receive"
    BY <2>1, NoneAssumption DEF Inv, TypeOK
  <2>4. \A p \in Threads : p # t => CallSeen(p)' = CallSeen(p)
    BY <1>2, <2>3, SeenStays
  <2>5. replies' # <<>> /\ Head(replies') = Atomic!ReplyTo(cmd[t], store)
    <3>1. Atomic!ReplyTo(cmd[t], store) \in Replies
      BY <2>2, RedisTypes DEF Inv, TypeOK
    <3>2. replies' = Append(replies, Atomic!ReplyTo(cmd[t], store))
      BY <1>5, <2>2 DEF Serve
    <3> QED
      BY <1>4, <3>1, <3>2, QueueSteps DEF Inv, TypeOK
  <2>6. CallSeen(t) = [cmd |-> cmd[t], at |-> "called", result |-> None]
    BY <1>4, <1>5, <2>1 DEF CallSeen
  <2>7. CallSeen(t)' = [cmd |-> cmd[t], at |-> "effected",
                        result |-> Atomic!ReplyTo(cmd[t], store)]
    BY <1>2, <2>1, <2>5 DEF CallSeen
  <2>8. CallSeen(t) # None
    BY <2>1, SeenType
  <2>9. UNCHANGED LateSeen
    BY <1>2, <1>5 DEF LateSeen
  <2>10. CallsSeen[t] = CallSeen(t)
    BY DEF CallsSeen
  <2>11. Atomic!Effect(t)
    BY <1>2, <1>3, <1>5, <2>2, <2>4, <2>6, <2>7, <2>8, <2>9, <2>10, OneCall
    DEF Atomic!Effect, Atomic!Call
  <2> QED
    BY <2>11 DEF Atomic!Next
<1>6. CASE link = "broken"
  <2>1. LateSeen = Head(wire) /\ LateSeen # None /\ LateSeen' = None
    BY <1>1, <1>2, <1>6, OnStream, NoneAssumption DEF LateSeen
  <2>2. replies' = replies
    BY <1>6 DEF Serve
  <2>3. CallsSeen' = CallsSeen
    BY <1>2, <2>2, SeenStays, NoCall
  <2>4. Atomic!LateEffect
    BY <1>2, <1>3, <2>1, <2>3 DEF Atomic!LateEffect
  <2> QED
    BY <2>4 DEF Atomic!Next
<1>7. link # "none"
  BY <1>1 DEF Inv, Making
<1> QED
  BY <1>5, <1>6, <1>7 DEF Inv, TypeOK

\* When the stream breaks, the one call on it fails, and its put, if Redis has
\* not served it, may be late.
LEMMA BreakSimulates ==
  ASSUME Inv, Inv', Break
  PROVE  Atomic!Next
<1>1. link = "open" /\ link' = "broken" /\ UNCHANGED <<store, at, cmd, result>>
  BY DEF Break, threadVars
<1>2. LateSeen = None
  BY <1>1 DEF LateSeen
<1>3. CASE wire = <<>> /\ replies = <<>>
  <2>1. wire' = <<>> /\ replies' = <<>>
    BY <1>3 DEF Break
  <2>2. \A p \in Threads : at[p] # "receive"
    BY <1>1, <1>3 DEF Inv, Stream
  <2>3. CallsSeen' = CallsSeen
    BY <1>1, <2>2, SeenStays, NoCall
  <2>4. LateSeen' = None
    BY <2>1 DEF LateSeen
  <2>5. Atomic!Break
    BY <1>1, <1>2, <2>3, <2>4 DEF Atomic!Break
  <2> QED
    BY <2>5 DEF Atomic!Next
<1>4. CASE wire # <<>> \/ replies # <<>>
  <2>1. PICK t \in Threads : at[t] = "receive" /\ (wire # <<>> => cmd[t] = wire[1])
    BY <1>1, <1>4 DEF Inv, Stream
  <2>2. \A p \in Threads : p # t => CallSeen(p)' = CallSeen(p)
    <3>1. \A p \in Threads : p # t => at[p] # "receive"
      BY <2>1, NoneAssumption DEF Inv, TypeOK
    <3> QED
      BY <1>1, <3>1, SeenStays
  <2>3. CallsSeen[t] = CallSeen(t) /\ CallSeen(t) # None /\ CallSeen(t).cmd = cmd[t]
    BY <2>1, SeenType, SeenCases DEF CallsSeen
  <2>4. CASE replies' # <<>>
    <3>1. replies' = replies /\ replies # <<>> /\ wire' = <<>>
      BY <2>4 DEF Break, Inv, Stream
    <3>2. CallSeen(t)' = CallSeen(t)
      BY <1>1, <2>1, <3>1 DEF CallSeen
    <3>3. LateSeen' = None
      BY <3>1 DEF LateSeen
    <3>4. CallsSeen' = CallsSeen
      BY <2>2, <3>2, NoCall
    <3>5. Atomic!Break
      BY <1>1, <1>2, <3>3, <3>4 DEF Atomic!Break
    <3> QED
      BY <3>5 DEF Atomic!Next
  <2>5. CASE replies' = <<>>
    <3>1. CallSeen(t)' = [cmd |-> cmd[t], at |-> "failed", result |-> None]
      BY <1>1, <2>1, <2>5 DEF CallSeen
    <3>2. CallSeen(t).at = IF replies # <<>> THEN "effected" ELSE "called"
      BY <1>1, <2>1 DEF CallSeen
    <3>3. LateSeen' \in {None, IF replies # <<>> THEN None ELSE cmd[t]}
      <4>1. CASE wire' = <<>>
        BY <4>1 DEF LateSeen
      <4>2. CASE wire' # <<>>
        <5>1. wire' = wire /\ wire # <<>> /\ replies = <<>>
          BY <4>2, OnStream DEF Break
        <5>2. LateSeen' = cmd[t]
          BY <1>1, <2>1, <5>1, OnStream DEF LateSeen
        <5> QED
          BY <5>1, <5>2
      <4> QED
        BY <4>1, <4>2
    <3>4. Atomic!Break
      BY <1>1, <2>2, <2>3, <3>1, <3>2, <3>3, OneCall
      DEF Atomic!Break, Atomic!Failed, Atomic!Call
    <3> QED
      BY <3>4 DEF Atomic!Next
  <2> QED
    BY <2>4, <2>5
<1> QED
  BY <1>3, <1>4

\* Every step is a step of AtomicCache, or changes nothing it sees.
LEMMA StepSimulates ==
  Inv /\ Inv' /\ [Next]_vars => [Atomic!Next]_(Atomic!vars)
<1> SUFFICES ASSUME Inv, Inv', [Next]_vars
             PROVE  Atomic!Next \/ UNCHANGED Atomic!vars
  OBVIOUS
<1>1. ASSUME NEW k \in Keys, Expire(k)
      PROVE  Atomic!Next
  <2>1. CallsSeen' = CallsSeen
    BY <1>1, SeenStays, NoCall DEF Expire, threadVars, wireVars
  <2>2. Atomic!Expire(k)
    BY <1>1, <2>1 DEF Expire, Atomic!Expire, LateSeen, threadVars, wireVars
  <2> QED
    BY <2>2 DEF Atomic!Next
<1>2. CASE UNCHANGED vars
  <2>1. CallsSeen' = CallsSeen
    BY <1>2, SeenStays, NoCall DEF vars, threadVars, wireVars
  <2> QED
    BY <1>2, <2>1 DEF Atomic!vars, LateSeen, vars, threadVars, wireVars
<1> QED
  BY <1>1, <1>2, ThreadSimulates, ServeSimulates, BreakSimulates DEF Next

-----------------------------------------------------------------------------
(***************************************************************************)
(* The properties                                                          *)
(***************************************************************************)

\* Every variable always has its type, the mutex is held by the one thread in
\* execute, and the object made by one thread at a time.
THEOREM TypeCorrect == Spec => []TypeOK
<1>1. Inv => TypeOK
  BY DEF Inv
<1> QED
  BY <1>1, Invariance, PTL

\* For any number of threads: on an open stream there is nothing but the
\* receiving thread's own command or the reply to it.
THEOREM RepliesAreOwn == Spec => []OnlyMyCommand
<1>1. Inv => OnlyMyCommand
  <2> SUFFICES ASSUME Inv, NEW t \in Threads, at[t] = "receive", link = "open"
               PROVE  \/ wire = <<cmd[t]>> /\ replies = <<>>
                      \/ wire = <<>> /\ Len(replies) = 1
    BY DEF OnlyMyCommand
  <2>1. CASE wire # <<>>
    <3>1. wire[1] = cmd[t] /\ Len(wire) = 1 /\ replies = <<>>
      BY <2>1, NoneAssumption DEF Inv, TypeOK, Stream
    <3>2. wire \in Seq(Commands)
      BY DEF Inv, TypeOK
    <3> QED
      BY <3>1, <3>2
  <2>2. CASE wire = <<>>
    BY <2>2 DEF Inv, Stream
  <2> QED
    BY <2>1, <2>2
<1> QED
  BY <1>1, Invariance, PTL

\* For any number of threads, keys and values: Cache::get and Cache::put, with
\* their mutex and a stream that may break at any moment, are a cache whose
\* calls take effect at one moment or fail.
THEOREM CacheIsAtomic == Spec => ImplementsAtomicCache
<1>1. Init => Atomic!Init
  BY InitSimulates
<1>2. Inv /\ Inv' /\ [Next]_vars => [Atomic!Next]_(Atomic!vars)
  BY StepSimulates
<1> QED
  BY <1>1, <1>2, Invariance, PTL DEF Spec, Atomic!Spec, ImplementsAtomicCache
=============================================================================
