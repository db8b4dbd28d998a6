------------------------- MODULE RegistrationProofs -------------------------
(***************************************************************************)
(* Theorems about Registration for every set of profiles, shards and       *)
(* threads, every routing function and every bound.                        *)
(*                                                                         *)
(* The inductive invariant is Inv. Its parts, in the order they are proved:*)
(*   TypeOK, Positions  types, and where the writer stands in the log;     *)
(*   Genuine            every copy of a profile, from the handler to the   *)
(*                      row, was checked and posted;                       *)
(*   Covered            everything behind the writer is stored or skipped; *)
(*   Traced             every profile that was answered 200 is somewhere.  *)
(***************************************************************************)
EXTENDS Registration, TLAPS

Busy == {"insert", "select", "commit"}

\* A running writer is inside the log and not behind what it has committed.
Positions ==
  /\ committed <= Len(log)
  /\ wpc # "down" => committed <= pos /\ pos <= Len(log)
  /\ wpc \in Busy => pos >= 1

Checked(u) == u \in Valid /\ posted[u] > 0

Genuine ==
  /\ \A h \in Handlers : hreq[h] # None => Checked(hreq[h])
  /\ \A m \in buffer : Checked(m.user)
  /\ \A o \in 1..Len(log) : Checked(log[o].user)
  /\ RowsAreRegistrations

Done(o) == o \in skipped \/ StoredOffset(o)

Covered ==
  /\ AtLeastOnce
  /\ wpc \in {"poll", "select", "commit"} => \A o \in 1..pos : Done(o)
  /\ wpc = "insert" => \A o \in 1..(pos - 1) : Done(o)
  /\ NoHoles

Somewhere(u) ==
  \/ u \in lost
  \/ \E m \in buffer : m.user = u
  \/ \E o \in 1..Len(log) : log[o].user = u

Traced ==
  /\ \A u \in Users : Told(u, 200) => Somewhere(u)
  /\ \A h \in Handlers : hpc[h] = "reply" => Somewhere(hreq[h])

Inv == TypeOK /\ Positions /\ Genuine /\ Covered /\ Traced

-----------------------------------------------------------------------------
(***************************************************************************)
(* Types and positions                                                     *)
(***************************************************************************)

\* Appending to the log leaves what is in it alone: the fact about sequences
\* behind Deliver and AckLost.
LEMMA AppendLog ==
  ASSUME NEW S, NEW s \in Seq(S), NEW e \in S
  PROVE  /\ Append(s, e) \in Seq(S)
         /\ Len(s) \in Nat
         /\ Len(Append(s, e)) = Len(s) + 1
         /\ \A o \in 1..Len(s) : Append(s, e)[o] = s[o]
         /\ Append(s, e)[Len(s) + 1] = e
         /\ \A o \in 1..Len(s) : s[o] \in S
  OBVIOUS

\* In the initial state every variable has its type and the writer's positions
\* are consistent.
LEMMA InitTypeOK == Init => TypeOK /\ Positions
<1> SUFFICES ASSUME Init PROVE TypeOK /\ Positions
  OBVIOUS
<1> USE UserAssumption, ShardAssumption, QueueAssumption, BoundAssumption
<1>1. TypeOK
  BY DEF Init, TypeOK, HandlerSteps, WriterSteps, Statuses, NoOffset
<1>2. Positions
  BY DEF Init, Positions, NoOffset, Busy
<1> QED
  BY <1>1, <1>2

\* Every step keeps the types and the positions.
LEMMA NextTypeOK == TypeOK /\ Positions /\ [Next]_vars => TypeOK' /\ Positions'
<1> SUFFICES ASSUME TypeOK, Positions, [Next]_vars
             PROVE  TypeOK' /\ Positions'
  OBVIOUS
<1> USE UserAssumption, ShardAssumption, QueueAssumption, BoundAssumption
<1>a. ASSUME NEW h \in Handlers, NEW u \in Users, Reject(h, u)
      PROVE  TypeOK' /\ Positions'
  <2>1. TypeOK'
    BY <1>a DEF Reject, Arrives, TypeOK, handlerVars, queueVars, writerVars,
       tableVars, Statuses
  <2>2. Positions'
    BY <1>a DEF Reject, Positions, queueVars, writerVars
  <2> QED BY <2>1, <2>2
<1>b. ASSUME NEW h \in Handlers, NEW u \in Users, Accept(h, u)
      PROVE  TypeOK' /\ Positions'
  <2>1. TypeOK'
    BY <1>b DEF Accept, Arrives, TypeOK, queueVars, writerVars, tableVars,
       HandlerSteps
  <2>2. Positions'
    BY <1>b DEF Accept, Positions, queueVars, writerVars
  <2> QED BY <2>1, <2>2
<1>c. ASSUME NEW h \in Handlers, Lock(h)
      PROVE  TypeOK' /\ Positions'
  <2>1. TypeOK'
    BY <1>c DEF Lock, TypeOK, queueVars, writerVars, tableVars, HandlerSteps
  <2>2. Positions'
    BY <1>c DEF Lock, Positions, queueVars, writerVars
  <2> QED BY <2>1, <2>2
<1>d. ASSUME NEW h \in Handlers, Produce(h)
      PROVE  TypeOK' /\ Positions'
  <2>1. [key |-> messageKey, user |-> hreq[h]] \in Message
    BY <1>d DEF Produce, TypeOK, Message
  <2>2. TypeOK'
    BY <1>d, <2>1 DEF Produce, TypeOK, writerVars, tableVars, HandlerSteps
  <2>3. Positions'
    BY <1>d DEF Produce, Positions, writerVars
  <2> QED BY <2>2, <2>3
<1>e. ASSUME NEW h \in Handlers, Reply(h)
      PROVE  TypeOK' /\ Positions'
  <2>1. TypeOK'
    BY <1>e DEF Reply, TypeOK, queueVars, writerVars, tableVars, HandlerSteps,
       Statuses
  <2>2. Positions'
    BY <1>e DEF Reply, Positions, queueVars, writerVars
  <2> QED BY <2>1, <2>2
<1>f. CASE AuthCrash
  <2>1. TypeOK'
    BY <1>f DEF AuthCrash, Fault, TypeOK, writerVars, tableVars, HandlerSteps,
       Message
  <2>2. Positions'
    BY <1>f DEF AuthCrash, Positions, writerVars
  <2> QED BY <2>1, <2>2
<1>g. ASSUME NEW m \in buffer, Deliver(m)
      PROVE  TypeOK' /\ Positions'
  <2>1. m \in Message /\ log \in Seq(Message)
    BY DEF TypeOK
  <2>2. log' \in Seq(Message) /\ Len(log) \in Nat /\ Len(log') = Len(log) + 1
    BY <1>g, <2>1, AppendLog DEF Deliver
  <2>3. TypeOK'
    BY <1>g, <2>2 DEF Deliver, TypeOK, handlerVars, writerVars, tableVars
  <2>4. Positions'
    BY <1>g, <2>2 DEF Deliver, Positions, writerVars, TypeOK, NoOffset
  <2> QED BY <2>3, <2>4
<1>h. ASSUME NEW m \in buffer, AckLost(m)
      PROVE  TypeOK' /\ Positions'
  <2>1. m \in Message /\ log \in Seq(Message)
    BY DEF TypeOK
  <2>2. log' \in Seq(Message) /\ Len(log) \in Nat /\ Len(log') = Len(log) + 1
    BY <1>h, <2>1, AppendLog DEF AckLost
  <2>3. TypeOK'
    BY <1>h, <2>2 DEF AckLost, Fault, TypeOK, handlerVars, writerVars, tableVars
  <2>4. Positions'
    BY <1>h, <2>2 DEF AckLost, Positions, writerVars, TypeOK, NoOffset
  <2> QED BY <2>3, <2>4
<1>i. ASSUME NEW m \in buffer, Expire(m)
      PROVE  TypeOK' /\ Positions'
  <2>1. TypeOK'
    BY <1>i DEF Expire, Fault, TypeOK, handlerVars, writerVars, tableVars, Message
  <2>2. Positions'
    BY <1>i DEF Expire, Positions, writerVars
  <2> QED BY <2>1, <2>2
<1>j. CASE Start
  <2>1. Len(log) \in Nat /\ 1..Len(log) \subseteq Nat
    BY DEF TypeOK
  <2>2. committed # NoOffset => committed \in Nat
    BY DEF TypeOK
  <2>3. pos' \in Nat /\ skipped' \subseteq Nat
    BY <1>j, <2>1, <2>2 DEF Start, TypeOK
  <2>4. TypeOK'
    BY <1>j, <2>3 DEF Start, TypeOK, handlerVars, queueVars, tableVars,
       WriterSteps
  <2>5. Positions'
    BY <1>j, <2>1 DEF Start, Positions, queueVars, TypeOK, NoOffset, Busy
  <2> QED BY <2>4, <2>5
<1>k. CASE Stop
  <2>1. TypeOK'
    BY <1>k DEF Stop, TypeOK, handlerVars, queueVars, tableVars, WriterSteps
  <2>2. Positions'
    BY <1>k DEF Stop, Positions, queueVars, TypeOK, NoOffset, Busy
  <2> QED BY <2>1, <2>2
<1>l. CASE Poll
  <2>1. TypeOK'
    BY <1>l DEF Poll, TypeOK, handlerVars, queueVars, tableVars, WriterSteps
  <2>2. Positions'
    BY <1>l DEF Poll, Positions, queueVars, TypeOK, NoOffset, Busy
  <2> QED BY <2>1, <2>2
<1>n. CASE InsertRefused
  <2>1. TypeOK'
    BY <1>n DEF InsertRefused, TypeOK, handlerVars, queueVars, tableVars, WriterSteps
  <2>2. Positions'
    BY <1>n DEF InsertRefused, Positions, queueVars, TypeOK, NoOffset, Busy
  <2> QED BY <2>1, <2>2
<1>o. CASE SelectId
  <2>1. TypeOK'
    BY <1>o DEF SelectId, TypeOK, handlerVars, queueVars, tableVars, WriterSteps
  <2>2. Positions'
    BY <1>o DEF SelectId, Positions, queueVars, TypeOK, NoOffset, Busy
  <2> QED BY <2>1, <2>2
<1>p. CASE Commit
  <2>1. TypeOK'
    BY <1>p DEF Commit, TypeOK, handlerVars, queueVars, tableVars, WriterSteps
  <2>2. Positions'
    BY <1>p DEF Commit, Positions, queueVars, TypeOK, NoOffset, Busy
  <2> QED BY <2>1, <2>2
<1>q. CASE CommitUnanswered
  <2>1. TypeOK'
    BY <1>q DEF CommitUnanswered, Fault, TypeOK, handlerVars, queueVars, tableVars, WriterSteps
  <2>2. Positions'
    BY <1>q DEF CommitUnanswered, Positions, queueVars, TypeOK, NoOffset, Busy
  <2> QED BY <2>1, <2>2
<1>r. CASE WriterDies
  <2>1. TypeOK'
    BY <1>r DEF WriterDies, Fault, TypeOK, handlerVars, queueVars, tableVars, WriterSteps
  <2>2. Positions'
    BY <1>r DEF WriterDies, Positions, queueVars, TypeOK, NoOffset, Busy
  <2> QED BY <2>1, <2>2
<1>s. CASE Insert
  <2>1. wpc = "insert" /\ StoreRow
    BY <1>s DEF Insert
  <2>2. log[pos] \in Message
    BY <2>1 DEF Positions, TypeOK, Busy
  <2>3. rows' \subseteq Row /\ lastId' \in [Shards -> Nat]
    BY <2>1, <2>2 DEF StoreRow, TypeOK, Row, Message
  <2>4. TypeOK'
    BY <1>s, <2>3 DEF Insert, TypeOK, handlerVars, queueVars, WriterSteps
  <2>5. Positions'
    BY <1>s DEF Insert, Positions, queueVars, Busy
  <2> QED BY <2>4, <2>5
<1>t. CASE InsertUnanswered
  <2>1. wpc = "insert" /\ StoreRow
    BY <1>t DEF InsertUnanswered
  <2>2. log[pos] \in Message
    BY <2>1 DEF Positions, TypeOK, Busy
  <2>3. rows' \subseteq Row /\ lastId' \in [Shards -> Nat]
    BY <2>1, <2>2 DEF StoreRow, TypeOK, Row, Message
  <2>4. TypeOK'
    BY <1>t, <2>3 DEF InsertUnanswered, Fault, TypeOK, handlerVars, queueVars, WriterSteps
  <2>5. Positions'
    BY <1>t DEF InsertUnanswered, Positions, queueVars, Busy
  <2> QED BY <2>4, <2>5
<1>m. CASE UNCHANGED vars
  BY <1>m DEF vars, TypeOK, Positions, handlerVars, queueVars, writerVars,
     tableVars
<1> QED
  BY <1>a, <1>b, <1>c, <1>d, <1>e, <1>f, <1>g, <1>h, <1>i, <1>j, <1>k, <1>l,
     <1>m, <1>n, <1>o, <1>p, <1>q, <1>r, <1>s, <1>t DEF Next, Client, Handler, Broker, Writer

\* Every variable of every reachable state has its type; a thread has a
\* request exactly while it works on one.
THEOREM TypeCorrect == Spec => []TypeOK
<1>1. Spec => [](TypeOK /\ Positions)
  BY InitTypeOK, NextTypeOK, PTL DEF Spec
<1> QED
  BY <1>1, PTL

-----------------------------------------------------------------------------
(***************************************************************************)
(* Which part of the state an actor leaves alone                           *)
(***************************************************************************)

WriterStays    == UNCHANGED <<committed, skipped, rows, wpc, pos>>
ProfilesStay   == UNCHANGED <<hreq, posted, buffer, log, rows>>
PromisesStay   == UNCHANGED <<answers, lost, buffer, log, hpc, hreq>>

\* Handlers, producer and broker do not touch what the writer owns.
LEMMA OthersLeaveWriter ==
  Client \/ (\E h \in Handlers : Handler(h)) \/ AuthCrash \/ Broker
    => WriterStays
  BY DEF Client, Handler, Broker, Reject, Accept, Arrives, Lock, Produce, Reply,
     AuthCrash, Deliver, AckLost, Expire, WriterStays, writerVars, tableVars

\* The writer touches no message and no answer.
LEMMA WriterLeavesPromises == Writer => PromisesStay
  BY DEF Writer, Start, Stop, Poll, Insert, InsertRefused, InsertUnanswered,
     SelectId, Commit, CommitUnanswered, WriterDies, PromisesStay, handlerVars,
     queueVars

\* The writer's steps either leave all profiles alone or insert a row.
LEMMA WriterLeavesProfiles ==
  Writer => ProfilesStay \/ Insert \/ InsertUnanswered
  BY DEF Writer, Start, Stop, Poll, InsertRefused, SelectId, Commit,
     CommitUnanswered, WriterDies, ProfilesStay, handlerVars, queueVars, tableVars

\* Messages stay where they are in the log.
LEMMA LogGrows ==
  ASSUME TypeOK, NEW m \in buffer, Deliver(m) \/ AckLost(m)
  PROVE  /\ Len(log) \in Nat
         /\ Len(log') = Len(log) + 1
         /\ \A o \in 1..Len(log) : log'[o] = log[o]
         /\ log'[Len(log) + 1] = m
<1>1. m \in Message /\ log \in Seq(Message)
  BY DEF TypeOK
<1>2. log' = Append(log, m)
  BY DEF Deliver, AckLost
<1> QED
  BY <1>1, <1>2, AppendLog

-----------------------------------------------------------------------------
(***************************************************************************)
(* Every copy of a profile is genuine                                      *)
(***************************************************************************)

\* posted only grows: a checked profile stays checked.
LEMMA CheckedStays ==
  ASSUME TypeOK, [Next]_vars, NEW u \in Users, Checked(u)
  PROVE  Checked(u)'
<1>1. posted'[u] \in Nat /\ posted'[u] >= posted[u]
  <2>1. CASE posted' = posted
    BY <2>1 DEF TypeOK
  <2>2. ASSUME NEW h \in Handlers, NEW w \in Users, Arrives(h, w)
        PROVE  posted'[u] \in Nat /\ posted'[u] >= posted[u]
    BY <2>2 DEF Arrives, TypeOK
  <2> QED
    BY <2>1, <2>2 DEF Next, vars, Client, Reject, Accept, Handler, Lock, Produce,
       Reply, AuthCrash, Broker, Deliver, AckLost, Expire, Writer, Start, Stop,
       Poll, Insert, InsertRefused, InsertUnanswered, SelectId, Commit,
       CommitUnanswered, WriterDies
<1> QED
  BY <1>1 DEF Checked, TypeOK

\* A new row is made from the message at the writer's position.
LEMMA NewRow ==
  ASSUME TypeOK, Positions, wpc = "insert", StoreRow
  PROVE  /\ pos \in 1..Len(log)
         /\ log[pos] \in Message
         /\ \E r : /\ rows' = rows \cup {r}
                  /\ r.offset = pos
                  /\ r.user = log[pos].user
                  /\ r.shard = ShardOf[r.user]
<1>1. pos \in 1..Len(log) /\ log[pos] \in Message
  BY DEF TypeOK, Positions, Busy
<1> DEFINE u == log[pos].user
           r == [shard |-> ShardOf[u], id |-> lastId[ShardOf[u]] + 1,
                 user |-> u, offset |-> pos]
<1>2. rows' = rows \cup {r}
  BY DEF StoreRow
<1>3. r.offset = pos /\ r.user = log[pos].user /\ r.shard = ShardOf[r.user]
  OBVIOUS
<1> HIDE DEF r
<1> QED
  BY <1>1, <1>2, <1>3

\* Every step keeps every copy of a profile genuine: request, local queue, log
\* and row all hold a profile that was posted and passed the checks.
LEMMA NextGenuine ==
  TypeOK /\ Positions /\ Genuine /\ [Next]_vars => Genuine'
<1> SUFFICES ASSUME TypeOK, Positions, Genuine, [Next]_vars PROVE Genuine'
  OBVIOUS
<1> USE UserAssumption
<1> DEFINE Handled  == \A h \in Handlers : hreq[h] # None => Checked(hreq[h])
           Buffered == \A m \in buffer : Checked(m.user)
           Logged   == \A o \in 1..Len(log) : Checked(log[o].user)
<1>t. /\ \A h \in Handlers : hreq[h] # None => hreq[h] \in Users
      /\ \A m \in buffer : m.user \in Users
      /\ Len(log) \in Nat
      /\ \A o \in 1..Len(log) : log[o].user \in Users
      /\ \A r \in rows : r.user \in Users
  <2>1. \A o \in 1..Len(log) : log[o] \in Message
    BY DEF TypeOK
  <2>2. Len(log) \in Nat /\ \A o \in 1..Len(log) : log[o].user \in Users
    BY <2>1 DEF TypeOK, Message
  <2> QED
    BY <2>2 DEF TypeOK, Message, Row
<1>s. \A u \in Users : Checked(u) => Checked(u)'
  BY CheckedStays
<1>g. Handled /\ Buffered /\ Logged /\ RowsAreRegistrations
  BY DEF Genuine
<1>r. /\ \A r \in rows : r.offset \in 1..Len(log) /\ r.user = log[r.offset].user
      /\ \A r \in rows : Checked(r.user) /\ r.shard = ShardOf[r.user]
  BY <1>g DEF RowsAreRegistrations, Checked
<1>1. ASSUME UNCHANGED <<hreq, buffer, log, rows>> PROVE Genuine'
  BY <1>1, <1>t, <1>s, <1>g, <1>r DEF Genuine, RowsAreRegistrations, Checked
<1>2. ASSUME NEW h \in Handlers, NEW u \in Users, Accept(h, u)
      PROVE  Genuine'
  <2>1. u \in Valid /\ posted'[u] = posted[u] + 1 /\ posted[u] \in Nat
    BY <1>2 DEF Accept, Arrives, TypeOK
  <2>2. Checked(u)'
    BY <2>1 DEF Checked
  <2>3. hreq' = [hreq EXCEPT ![h] = u] /\ UNCHANGED <<buffer, log, rows>>
    BY <1>2 DEF Accept, queueVars, tableVars
  <2>4. Handled'
    BY <2>2, <2>3, <1>t, <1>s, <1>g DEF TypeOK
  <2> QED
    BY <2>3, <2>4, <1>t, <1>s, <1>g, <1>r DEF Genuine, RowsAreRegistrations, Checked
<1>3. ASSUME NEW h \in Handlers, Produce(h)
      PROVE  Genuine'
  <2>1. hreq[h] # None
    BY <1>3 DEF Produce, TypeOK
  <2>2. /\ buffer' = buffer \cup {[key |-> messageKey, user |-> hreq[h]]}
        /\ UNCHANGED <<hreq, log, rows>>
    BY <1>3 DEF Produce, tableVars
  <2>3. Buffered'
    BY <2>1, <2>2, <1>t, <1>s, <1>g
  <2> QED
    BY <2>2, <2>3, <1>t, <1>s, <1>g, <1>r DEF Genuine, RowsAreRegistrations, Checked
<1>4. ASSUME NEW h \in Handlers, Reply(h)
      PROVE  Genuine'
  <2>1. hreq' = [hreq EXCEPT ![h] = None] /\ UNCHANGED <<buffer, log, rows>>
    BY <1>4 DEF Reply, queueVars, tableVars
  <2>2. Handled'
    BY <2>1, <1>t, <1>s, <1>g DEF TypeOK
  <2> QED
    BY <2>1, <2>2, <1>t, <1>s, <1>g, <1>r DEF Genuine, RowsAreRegistrations, Checked
<1>5. ASSUME AuthCrash PROVE Genuine'
  <2>1. /\ hreq' = [h \in Handlers |-> None] /\ buffer' = {}
        /\ UNCHANGED <<log, rows>>
    BY <1>5 DEF AuthCrash, tableVars
  <2> QED
    BY <2>1, <1>t, <1>s, <1>g, <1>r DEF Genuine, RowsAreRegistrations, Checked
<1>6. ASSUME NEW m \in buffer, Deliver(m) \/ AckLost(m)
      PROVE  Genuine'
  <2>1. buffer' \subseteq buffer /\ UNCHANGED <<hreq, rows>>
    BY <1>6 DEF Deliver, AckLost, handlerVars, tableVars
  <2>2. Logged'
    BY <1>6, LogGrows, <1>t, <1>s, <1>g
  <2>3. \A r \in rows : /\ r.offset \in 1..Len(log')
                        /\ r.user = log'[r.offset].user
    BY <1>6, LogGrows, <1>r
  <2> QED
    BY <2>1, <2>2, <2>3, <1>t, <1>s, <1>g, <1>r
    DEF Genuine, RowsAreRegistrations, Checked
<1>7. ASSUME NEW m \in buffer, Expire(m)
      PROVE  Genuine'
  <2>1. buffer' \subseteq buffer /\ UNCHANGED <<hreq, log, rows>>
    BY <1>7 DEF Expire, handlerVars, tableVars
  <2> QED
    BY <2>1, <1>t, <1>s, <1>g, <1>r DEF Genuine, RowsAreRegistrations, Checked
<1>8. ASSUME Insert \/ InsertUnanswered PROVE Genuine'
  <2>1. /\ wpc = "insert" /\ StoreRow
        /\ UNCHANGED <<hreq, buffer, log>>
    BY <1>8 DEF Insert, InsertUnanswered, handlerVars, queueVars
  <2>2. PICK r : /\ rows' = rows \cup {r}
                 /\ r.offset = pos
                 /\ r.user = log[pos].user
                 /\ r.shard = ShardOf[r.user]
    BY <2>1, NewRow
  <2>3. pos \in 1..Len(log)
    BY <2>1, NewRow
  <2>4. Checked(r.user)'
    BY <2>2, <2>3, <1>g, <1>t, <1>s
  <2> QED
    BY <2>1, <2>2, <2>3, <2>4, <1>t, <1>s, <1>g, <1>r
    DEF Genuine, RowsAreRegistrations, Checked
<1>9. \/ UNCHANGED <<hreq, buffer, log, rows>>
      \/ \E h \in Handlers, u \in Users : Accept(h, u)
      \/ \E h \in Handlers : Produce(h) \/ Reply(h)
      \/ AuthCrash
      \/ \E m \in buffer : Deliver(m) \/ AckLost(m) \/ Expire(m)
      \/ Insert \/ InsertUnanswered
  <2>1. CASE Writer
    BY <2>1, WriterLeavesProfiles DEF ProfilesStay
  <2> QED
    BY <2>1 DEF Next, vars, handlerVars, queueVars, tableVars, Client, Reject,
       Handler, Lock, Broker
<1> QED
  BY <1>1, <1>2, <1>3, <1>4, <1>5, <1>6, <1>7, <1>8, <1>9

-----------------------------------------------------------------------------
(***************************************************************************)
(* Everything behind the writer is stored                                  *)
(***************************************************************************)

\* Every step keeps what lies behind the writer's position stored or jumped
\* over: the position moves on one message at a time, and only after its row.
LEMMA NextCovered ==
  TypeOK /\ Positions /\ Genuine /\ Covered /\ [Next]_vars => Covered'
<1> SUFFICES ASSUME TypeOK, Positions, Genuine, Covered, [Next]_vars
             PROVE  Covered'
  OBVIOUS
<1>t. Len(log) \in Nat /\ pos \in Nat /\ committed \in Int
  BY DEF TypeOK, NoOffset
<1>a. committed # NoOffset => \A o \in 1..committed : Done(o)
  BY DEF Covered, AtLeastOnce, Done
<1>n. \A r \in rows : \A o \in 1..r.offset : Done(o)
  BY DEF Covered, NoHoles, Done
<1>c. SUFFICES /\ committed' # NoOffset => \A o \in 1..committed' : Done(o)'
               /\ wpc' \in {"poll", "select", "commit"} => \A o \in 1..pos' : Done(o)'
               /\ wpc' = "insert" => \A o \in 1..(pos' - 1) : Done(o)'
               /\ \A r \in rows' : \A o \in 1..r.offset : Done(o)'
  BY DEF Covered, AtLeastOnce, NoHoles, Done
<1>1. CASE WriterStays
  BY <1>1, <1>a, <1>n DEF WriterStays, Covered, Done, StoredOffset
<1>2. CASE Start
  <2>1. rows' = rows /\ committed' = committed /\ wpc' = "poll"
    BY <1>2 DEF Start, tableVars
  <2>2. skipped \subseteq skipped'
    BY <1>2 DEF Start
  <2>3. \A o : Done(o) => Done(o)'
    BY <2>1, <2>2 DEF Done, StoredOffset
  <2>4. \A o \in 1..pos' : Done(o)'
    <3>1. CASE committed = NoOffset
      BY <1>2, <3>1 DEF Start, Done
    <3>2. CASE committed # NoOffset
      BY <1>2, <3>2, <1>a, <2>3 DEF Start
    <3> QED BY <3>1, <3>2
  <2> QED
    BY <2>1, <2>3, <2>4, <1>a, <1>n
<1>3. CASE Stop \/ InsertRefused \/ WriterDies
  <2>1. wpc' = "down" /\ UNCHANGED <<rows, skipped, committed>>
    BY <1>3 DEF Stop, InsertRefused, WriterDies, tableVars
  <2> QED
    BY <2>1, <1>a, <1>n DEF Done, StoredOffset
<1>4. CASE Poll
  <2>1. /\ wpc = "poll" /\ wpc' = "insert" /\ pos' - 1 = pos
        /\ UNCHANGED <<rows, skipped, committed>>
    BY <1>4, <1>t DEF Poll, tableVars
  <2> QED
    BY <2>1, <1>a, <1>n DEF Covered, Done, StoredOffset
<1>5. CASE SelectId
  <2>1. /\ wpc = "select" /\ wpc' = "commit"
        /\ UNCHANGED <<rows, skipped, committed, pos>>
    BY <1>5 DEF SelectId, tableVars
  <2> QED
    BY <2>1, <1>a, <1>n DEF Covered, Done, StoredOffset
<1>6. CASE Commit \/ CommitUnanswered
  <2>1. /\ wpc = "commit" /\ wpc' \in {"poll", "down"} /\ committed' = pos
        /\ UNCHANGED <<rows, skipped, pos>>
    BY <1>6 DEF Commit, CommitUnanswered, tableVars
  <2> QED
    BY <2>1, <1>n DEF Covered, Done, StoredOffset
<1>7. CASE Insert \/ InsertUnanswered
  <2>1. /\ wpc = "insert" /\ StoreRow /\ wpc' \in {"select", "down"}
        /\ UNCHANGED <<skipped, committed, pos>>
    BY <1>7 DEF Insert, InsertUnanswered
  <2>2. PICK r : rows' = rows \cup {r} /\ r.offset = pos
    BY <2>1, NewRow
  <2>3. \A o : Done(o) => Done(o)'
    BY <2>1, <2>2 DEF Done, StoredOffset
  <2>4. Done(pos)'
    BY <2>1, <2>2 DEF Done, StoredOffset
  <2>5. \A o \in 1..pos : o = pos \/ o \in 1..(pos - 1)
    BY <1>t
  <2>6. \A o \in 1..pos : Done(o)'
    BY <2>1, <2>3, <2>4, <2>5 DEF Covered
  <2> QED
    BY <2>1, <2>2, <2>3, <2>6, <1>a, <1>n
<1>8. CASE UNCHANGED vars
  BY <1>8, <1>1 DEF vars, writerVars, tableVars, WriterStays
<1> QED
  BY <1>1, <1>2, <1>3, <1>4, <1>5, <1>6, <1>7, <1>8, OthersLeaveWriter
  DEF Next, Writer

-----------------------------------------------------------------------------
(***************************************************************************)
(* Every promise can be traced                                             *)
(***************************************************************************)

\* Every step keeps every profile answered 200, or about to be, traceable: in the
\* local queue, in the log, or dropped by the producer.
LEMMA NextTraced == TypeOK /\ Traced /\ [Next]_vars => Traced'
<1> SUFFICES ASSUME TypeOK, Traced, [Next]_vars PROVE Traced'
  OBVIOUS
<1>t. /\ \A u \in Users : Told(u, 200) => Somewhere(u)
      /\ \A h \in Handlers : hpc[h] = "reply" => Somewhere(hreq[h])
  BY DEF Traced
<1>1. CASE PromisesStay
  BY <1>1, <1>t DEF PromisesStay, Traced, Told, Somewhere
<1>2. ASSUME NEW h \in Handlers, NEW u \in Users, Reject(h, u)
      PROVE  Traced'
  <2>1. \A w \in Users : Told(w, 200)' => Told(w, 200)
    BY <1>2 DEF Reject, Told
  <2> QED
    BY <1>2, <2>1, <1>t DEF Reject, Traced, Somewhere, handlerVars, queueVars
<1>3. ASSUME NEW h \in Handlers, NEW u \in Users, Accept(h, u)
      PROVE  Traced'
  <2>1. /\ UNCHANGED <<answers, lost, buffer, log>>
        /\ \A g \in Handlers : hpc'[g] = "reply" => hpc[g] = "reply" /\ hreq'[g] = hreq[g]
    BY <1>3 DEF Accept, queueVars, TypeOK
  <2> QED
    BY <2>1, <1>t DEF Traced, Told, Somewhere
<1>4. ASSUME NEW h \in Handlers, Lock(h)
      PROVE  Traced'
  <2>1. /\ UNCHANGED <<answers, lost, buffer, log, hreq>>
        /\ \A g \in Handlers : hpc'[g] = "reply" => hpc[g] = "reply"
    BY <1>4 DEF Lock, queueVars, TypeOK
  <2> QED
    BY <2>1, <1>t DEF Traced, Told, Somewhere
<1>5. ASSUME NEW h \in Handlers, Produce(h)
      PROVE  Traced'
  <2>1. /\ buffer' = buffer \cup {[key |-> messageKey, user |-> hreq[h]]}
        /\ UNCHANGED <<answers, lost, log, hreq>>
    BY <1>5 DEF Produce
  <2>2. \A w : Somewhere(w) => Somewhere(w)'
    BY <2>1 DEF Somewhere
  <2>3. Somewhere(hreq[h])'
    <3> DEFINE m == [key |-> messageKey, user |-> hreq[h]]
    <3>1. m \in buffer' /\ m.user = hreq'[h]
      BY <2>1
    <3> HIDE DEF m
    <3> QED BY <3>1 DEF Somewhere
  <2>4. \A g \in Handlers : hpc'[g] = "reply" => g = h \/ hpc[g] = "reply"
    BY <1>5 DEF Produce, TypeOK
  <2> QED
    BY <2>1, <2>2, <2>3, <2>4, <1>t DEF Traced, Told
<1>6. ASSUME NEW h \in Handlers, Reply(h)
      PROVE  Traced'
  <2>1. /\ hpc[h] = "reply" /\ answers' = answers \cup {<<hreq[h], 200>>}
        /\ UNCHANGED <<lost, buffer, log>>
        /\ \A g \in Handlers : hpc'[g] = "reply" => hpc[g] = "reply" /\ hreq'[g] = hreq[g]
    BY <1>6 DEF Reply, queueVars, TypeOK
  <2>2. \A w \in Users : Told(w, 200)' => Told(w, 200) \/ w = hreq[h]
    BY <2>1 DEF Told
  <2> QED
    BY <2>1, <2>2, <1>t DEF Traced, Somewhere
<1>7. ASSUME AuthCrash PROVE Traced'
  <2>1. /\ lost' = lost \cup {m.user : m \in buffer}
        /\ UNCHANGED <<answers, log>>
        /\ \A g \in Handlers : hpc'[g] = "idle"
    BY <1>7 DEF AuthCrash
  <2>2. \A w : Somewhere(w) => Somewhere(w)'
    BY <2>1 DEF Somewhere
  <2> QED
    BY <2>1, <2>2, <1>t DEF Traced, Told
<1>8. ASSUME NEW m \in buffer, Deliver(m) \/ AckLost(m)
      PROVE  Traced'
  <2>1. buffer \ {m} \subseteq buffer' /\ UNCHANGED <<answers, lost, hpc, hreq>>
    BY <1>8 DEF Deliver, AckLost, handlerVars
  <2>2. \A o \in 1..Len(log) : o \in 1..Len(log') /\ log'[o] = log[o]
    BY <1>8, LogGrows
  <2>3. Len(log) + 1 \in 1..Len(log') /\ log'[Len(log) + 1] = m
    BY <1>8, LogGrows
  <2>4. \A w : Somewhere(w) => Somewhere(w)'
    BY <2>1, <2>2, <2>3 DEF Somewhere
  <2> QED
    BY <2>1, <2>4, <1>t DEF Traced, Told
<1>9. ASSUME NEW m \in buffer, Expire(m)
      PROVE  Traced'
  <2>1. /\ buffer' = buffer \ {m} /\ lost' = lost \cup {m.user}
        /\ UNCHANGED <<answers, log, hpc, hreq>>
    BY <1>9 DEF Expire, handlerVars
  <2>2. \A w : Somewhere(w) => Somewhere(w)'
    BY <2>1 DEF Somewhere
  <2> QED
    BY <2>1, <2>2, <1>t DEF Traced, Told
<1>10. CASE UNCHANGED vars
  BY <1>10, <1>1 DEF vars, handlerVars, queueVars, PromisesStay
<1> QED
  BY <1>1, <1>2, <1>3, <1>4, <1>5, <1>6, <1>7, <1>8, <1>9, <1>10,
     WriterLeavesPromises DEF Next, Client, Handler, Broker

-----------------------------------------------------------------------------
(***************************************************************************)
(* The theorems                                                            *)
(***************************************************************************)

\* The initial state satisfies the inductive invariant.
LEMMA InitInv == Init => Inv
<1> SUFFICES ASSUME Init PROVE Inv
  OBVIOUS
<1>1. TypeOK /\ Positions
  BY InitTypeOK
<1>2. Genuine
  BY DEF Init, Genuine, RowsAreRegistrations
<1>3. Covered
  BY DEF Init, Covered, AtLeastOnce, NoHoles
<1>4. Traced
  BY DEF Init, Traced, Told
<1> QED
  BY <1>1, <1>2, <1>3, <1>4 DEF Inv

\* Inv is inductive, so every reachable state of handlers, queue, writer and
\* tables satisfies it; the theorems below draw the properties from it.
THEOREM Invariance == Spec => []Inv
<1>1. Inv /\ [Next]_vars => Inv'
  BY NextTypeOK, NextGenuine, NextCovered, NextTraced DEF Inv
<1> QED
  BY InitInv, <1>1, PTL DEF Spec

\* The writer's contract with Kafka: what the committed offset covers is
\* stored, or was jumped over by a start without committed offset.
THEOREM CommittedIsStored == Spec => []AtLeastOnce
<1>1. Inv => AtLeastOnce
  BY DEF Inv, Covered
<1> QED
  BY <1>1, Invariance, PTL

\* The rows are a prefix of the log, up to what a first start jumped over: a
\* message that cannot be stored stops everything behind it.
THEOREM RowsHaveNoHoles == Spec => []NoHoles
<1>1. Inv => NoHoles
  BY DEF Inv, Covered
<1> QED
  BY <1>1, Invariance, PTL

\* Every row is a checked, posted profile in the shard auth will look in.
THEOREM RowsAreGenuine == Spec => []RowsAreRegistrations
<1>1. Inv => RowsAreRegistrations
  BY DEF Inv, Genuine
<1> QED
  BY <1>1, Invariance, PTL

\* With queue and writer at rest a profile answered 200 is a row, or left in
\* one of the two ways registrations get lost.
THEOREM PromisesAreKept == Spec => []QuietMeansStored
<1>1. Inv => QuietMeansStored
  <2> SUFFICES ASSUME Inv, buffer = {}, wpc = "poll", pos = Len(log),
                      NEW u \in Users, Told(u, 200), u \notin lost
               PROVE  StoredUser(u) \/ \E o \in skipped : log[o].user = u
    BY DEF QuietMeansStored
  <2>1. PICK o \in 1..Len(log) : log[o].user = u
    BY DEF Inv, Traced, Somewhere
  <2>2. Done(o)
    BY DEF Inv, Covered
  <2> QED
    BY <2>1, <2>2 DEF Done, StoredOffset, StoredUser, Inv, Genuine,
       RowsAreRegistrations
<1> QED
  BY <1>1, Invariance, PTL

\* No restart, redelivery or failed commit moves the committed offset back.
THEOREM OffsetsNeverGoBack == Spec => CommitsOnlyForward
<1>1. Inv /\ [Next]_vars => [committed' >= committed]_committed
  <2> SUFFICES ASSUME Inv, [Next]_vars, committed' # committed
               PROVE  committed' >= committed
    OBVIOUS
  <2>1. Commit \/ CommitUnanswered
    BY OthersLeaveWriter DEF Next, WriterStays, vars, writerVars, Writer, Start,
       Stop, Poll, Insert, InsertRefused, InsertUnanswered, SelectId, WriterDies
  <2>2. wpc = "commit" /\ committed' = pos
    BY <2>1 DEF Commit, CommitUnanswered
  <2> QED
    BY <2>2 DEF Inv, Positions, TypeOK, NoOffset
<1> QED
  BY <1>1, Invariance, PTL DEF Spec, CommitsOnlyForward
=============================================================================
