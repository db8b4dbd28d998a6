----------------------- MODULE RegistrationRefinement -----------------------
(***************************************************************************)
(* Registration implements RegistrationPromise and UserTables, for every   *)
(* set of profiles and shards, every finite set of threads and every bound;*)
(* and the bound on duplicates, which is an invariant of the promise.      *)
(*                                                                         *)
(* To the inductive invariant of RegistrationProofs the steps of the       *)
(* promise add Account, whose parts are                                    *)
(*   Turn      whose turn it is in send_to_queue, and that the keys in the *)
(*             local queue are those of earlier turns: a new message is    *)
(*             not there yet;                                              *)
(*   Caught    the writer has committed exactly what lies behind it, unless*)
(*             nothing is committed and it has jumped over just that: a    *)
(*             restart repeats one message at most, and skips none;        *)
(*   Numbered  the rows of a shard are numbered from 1 without gaps;       *)
(*   Countable the local queue and the tables are finite.                  *)
(* Two consequences, AheadIs and Counted, say what the refinement mapping  *)
(* makes of such a state. Then there is one lemma for each action: which   *)
(* step of the promise it is, or that the promise does not see it.         *)
(***************************************************************************)
EXTENDS RegistrationProofs, FiniteSetTheorems

Turn ==
  /\ \A h \in Handlers : hpc[h] = "produce" <=> mtx = h
  /\ \A m \in buffer : m.key <= messageKey
  /\ mtx # None => \A m \in buffer : m.key < messageKey

\* How many messages a running writer is done with, its commit aside.
Behind == IF wpc \in Busy THEN pos - 1 ELSE pos

Caught ==
  /\ skipped \subseteq 1..Len(log)
  /\ committed # NoOffset => skipped \subseteq 1..committed
  /\ wpc # "down" => IF committed = NoOffset THEN skipped = 1..Behind
                                             ELSE committed = Behind

Numbered ==
  /\ \A r \in rows : r.id \in 1..lastId[r.shard]
  /\ \A s \in Shards : \A i \in 1..lastId[s] : \E r \in rows : r.shard = s /\ r.id = i
  /\ \A q, r \in rows : q.shard = r.shard /\ q.id = r.id => q = r

Countable == IsFiniteSet(buffer) /\ IsFiniteSet(rows)

Account == Turn /\ Caught /\ Numbered /\ Countable

\* What the promise keeps within its bound.
Bounded ==
  \A u \in Users : /\ PendingSeen[u] \in Nat /\ OwedSeen[u] \in Nat /\ StoredSeen[u] \in Nat
                   /\ PendingSeen[u] + OwedSeen[u] + StoredSeen[u] <= posted[u] + faults

-----------------------------------------------------------------------------
(***************************************************************************)
(* Account is inductive                                                    *)
(***************************************************************************)

\* What steps leave alone, by what they are.
LEMMA TurnStays ==
  ASSUME Turn, UNCHANGED <<hpc, mtx, messageKey>>, buffer' \subseteq buffer
  PROVE  Turn'
  BY DEF Turn

\* Lock gives a turn, Produce ends it and uses its key, a crash forgets all keys.
LEMMA NextTurn ==
  ASSUME TypeOK, Turn, [Next]_vars
  PROVE  Turn'
<1> USE UserAssumption
<1>1. ASSUME NEW h \in Handlers, NEW u \in Users, Reject(h, u) \/ Accept(h, u)
      PROVE  Turn'
  BY <1>1 DEF Reject, Accept, Arrives, handlerVars, queueVars, Turn, TypeOK
<1>2. ASSUME NEW h \in Handlers, Lock(h)
      PROVE  Turn'
  <2>1. \A m \in buffer : m.key \in Nat
    BY DEF TypeOK, Message
  <2> QED
    BY <1>2, <2>1 DEF Lock, queueVars, Turn, TypeOK
<1>3. ASSUME NEW h \in Handlers, Produce(h)
      PROVE  Turn'
  <2>1. \A g \in Handlers : hpc'[g] = "produce" <=> mtx' = g
    BY <1>3 DEF Produce, Turn, TypeOK
  <2>2. \A m \in buffer' : m.key <= messageKey'
    BY <1>3 DEF Produce, Turn, TypeOK
  <2> QED
    BY <1>3, <2>1, <2>2 DEF Produce, Turn
<1>4. ASSUME NEW h \in Handlers, Reply(h)
      PROVE  Turn'
  BY <1>4 DEF Reply, queueVars, Turn, TypeOK
<1>5. CASE AuthCrash
  BY <1>5 DEF AuthCrash, Turn
<1>6. ASSUME NEW m \in buffer, Deliver(m) \/ AckLost(m) \/ Expire(m)
      PROVE  Turn'
  BY <1>6, TurnStays DEF Deliver, AckLost, Expire, handlerVars
<1>7. CASE Writer
  BY <1>7, TurnStays DEF Writer, Start, Stop, Poll, Insert, InsertRefused,
     InsertUnanswered, SelectId, Commit, CommitUnanswered, WriterDies, handlerVars,
     queueVars
<1>8. CASE UNCHANGED vars
  BY <1>8, TurnStays DEF vars, handlerVars, queueVars
<1> QED
  BY <1>1, <1>2, <1>3, <1>4, <1>5, <1>6, <1>7, <1>8 DEF Next, Client, Handler, Broker

\* The log as a number of messages.
LEMMA LogLength ==
  ASSUME TypeOK, Positions
  PROVE  /\ Len(log) \in Nat /\ pos \in Nat /\ committed \in Int /\ NoOffset = -1
         /\ committed # NoOffset => committed \in Nat
         /\ wpc \in Busy => pos \in 1..Len(log)
         /\ wpc # "down" => pos <= Len(log) /\ Behind \in Nat /\ Behind <= Len(log)
  BY DEF TypeOK, Positions, NoOffset, Busy, Behind

\* Each way a writer starts, goes on and goes down keeps Caught.
LEMMA NextCaught ==
  ASSUME TypeOK, Positions, Caught, [Next]_vars
  PROVE  Caught'
<1>a. /\ Len(log) \in Nat /\ pos \in Nat /\ committed \in Int /\ NoOffset = -1
      /\ committed # NoOffset => committed \in Nat
      /\ wpc # "down" => Behind \in Nat /\ Behind <= Len(log)
  BY LogLength
<1>1. ASSUME UNCHANGED <<skipped, committed, wpc, pos>>,
             Len(log') \in Nat, Len(log) <= Len(log')
      PROVE  Caught'
  BY <1>a, <1>1 DEF Caught, Behind
<1>2. CASE Client \/ (\E h \in Handlers : Handler(h)) \/ AuthCrash \/ Broker
  <2>1. UNCHANGED <<skipped, committed, wpc, pos>>
    BY <1>2, OthersLeaveWriter DEF WriterStays
  <2>2. Len(log') \in Nat /\ Len(log) <= Len(log')
    <3>1. ASSUME NEW m \in buffer, Deliver(m) \/ AckLost(m)
          PROVE  Len(log') \in Nat /\ Len(log) <= Len(log')
      BY <3>1, LogGrows, <1>a
    <3>2. ASSUME log' = log
          PROVE  Len(log') \in Nat /\ Len(log) <= Len(log')
      BY <3>2, <1>a
    <3> QED
      BY <1>2, <3>1, <3>2 DEF Client, Handler, Broker, Reject, Accept, Lock, Produce,
         Reply, AuthCrash, Expire, queueVars
  <2> QED
    BY <1>1, <2>1, <2>2
<1>3. CASE Start
  <2>1. wpc' = "poll" /\ log' = log /\ committed' = committed /\ Behind' = pos'
    BY <1>3 DEF Start, queueVars, Behind, Busy
  <2>2. CASE committed = NoOffset
    BY <1>3, <1>a, <2>1, <2>2 DEF Start, Caught
  <2>3. CASE committed # NoOffset
    BY <1>3, <1>a, <2>1, <2>3 DEF Start, Caught
  <2> QED
    BY <2>2, <2>3
<1>4. CASE Poll
  <2>1. /\ wpc = "poll" /\ wpc' = "insert" /\ pos' = pos + 1
        /\ UNCHANGED <<log, committed, skipped>>
    BY <1>4 DEF Poll, queueVars
  <2>2. Behind = pos /\ Behind' = pos
    BY <1>a, <2>1 DEF Behind, Busy
  <2> QED
    BY <1>a, <2>1, <2>2 DEF Caught
<1>5. CASE Insert \/ SelectId
  <2>1. /\ wpc \in Busy /\ wpc' \in Busy
        /\ UNCHANGED <<log, committed, skipped, pos>>
    BY <1>5 DEF Insert, SelectId, queueVars, Busy
  <2> QED
    BY <1>a, <2>1 DEF Caught, Behind, Busy
<1>6. CASE Stop \/ InsertRefused \/ InsertUnanswered \/ WriterDies
  <2>1. wpc' = "down" /\ UNCHANGED <<log, committed, skipped>>
    BY <1>6 DEF Stop, InsertRefused, InsertUnanswered, WriterDies, queueVars
  <2> QED
    BY <1>a, <2>1 DEF Caught
<1>7. CASE Commit \/ CommitUnanswered
  <2>1. /\ wpc = "commit" /\ wpc' \in {"poll", "down"} /\ committed' = pos
        /\ UNCHANGED <<log, skipped, pos>>
    BY <1>7 DEF Commit, CommitUnanswered, queueVars
  <2>2. Behind = pos - 1 /\ Behind' = pos
    BY <2>1 DEF Behind, Busy
  <2>3. skipped \subseteq 1..pos
    BY <1>a, <2>1, <2>2 DEF Caught
  <2> QED
    BY <1>a, <2>1, <2>2, <2>3 DEF Caught
<1>8. CASE UNCHANGED vars
  BY <1>1, <1>8, <1>a DEF vars, writerVars, queueVars
<1> QED
  BY <1>2, <1>3, <1>4, <1>5, <1>6, <1>7, <1>8 DEF Next, Writer

\* The row that is inserted next.
NextRow ==
  [shard |-> ShardOf[log[pos].user], id |-> lastId[ShardOf[log[pos].user]] + 1,
   user |-> log[pos].user, offset |-> pos]

\* The row an INSERT makes is none of those there, and it is the message's.
LEMMA RowIsNew ==
  ASSUME TypeOK, Positions, Numbered, wpc = "insert", StoreRow
  PROVE  /\ pos \in 1..Len(log) /\ log[pos].user \in Users
         /\ NextRow \notin rows /\ rows' = rows \cup {NextRow}
         /\ NextRow.user = log[pos].user /\ NextRow.shard = ShardOf[log[pos].user]
         /\ NextRow.shard \in Shards
         /\ lastId[NextRow.shard] \in Nat
         /\ NextRow.id = lastId[NextRow.shard] + 1
         /\ lastId' = [lastId EXCEPT ![NextRow.shard] = @ + 1]
<1>1. pos \in 1..Len(log) /\ log[pos] \in Message
  BY NewRow
<1>2. log[pos].user \in Users /\ ShardOf[log[pos].user] \in Shards
  BY <1>1, ShardAssumption DEF Message
<1>3. lastId[NextRow.shard] \in Nat
  BY <1>2 DEF NextRow, TypeOK
<1>4. NextRow \notin rows
  BY <1>3 DEF NextRow, Numbered
<1> QED
  BY <1>1, <1>2, <1>3, <1>4 DEF NextRow, StoreRow

\* An INSERT takes the next id, and nothing else touches rows and ids.
LEMMA NextNumbered ==
  ASSUME TypeOK, Positions, Numbered, [Next]_vars
  PROVE  Numbered'
<1>1. CASE UNCHANGED <<rows, lastId>>
  BY <1>1 DEF Numbered
<1>2. ASSUME wpc = "insert", StoreRow PROVE Numbered'
  <2> DEFINE x == NextRow
  <2>1. /\ x \notin rows /\ rows' = rows \cup {x} /\ x.shard \in Shards
        /\ lastId[x.shard] \in Nat /\ x.id = lastId[x.shard] + 1
        /\ lastId' = [lastId EXCEPT ![x.shard] = @ + 1]
    BY <1>2, RowIsNew
  <2>2. \A s \in Shards : /\ lastId[s] \in Nat
                          /\ lastId'[s] = IF s = x.shard THEN lastId[s] + 1 ELSE lastId[s]
    BY <2>1 DEF TypeOK
  <2>3. \A r \in rows : r.shard \in Shards /\ r.id \in 1..lastId[r.shard]
    BY DEF TypeOK, Row, Numbered
  <2> HIDE DEF x
  <2>4. \A r \in rows' : r.id \in 1..lastId'[r.shard]
    BY <2>1, <2>2, <2>3
  <2>5. ASSUME NEW s \in Shards, NEW i \in 1..lastId'[s]
        PROVE  \E r \in rows' : r.shard = s /\ r.id = i
    <3>1. CASE i \in 1..lastId[s]
      BY <2>1, <3>1 DEF Numbered
    <3>2. CASE i \notin 1..lastId[s]
      BY <2>1, <2>2, <3>2
    <3> QED
      BY <3>1, <3>2
  <2>6. ASSUME NEW q \in rows', NEW r \in rows', q.shard = r.shard, q.id = r.id
        PROVE  q = r
    BY <2>1, <2>2, <2>3, <2>6 DEF Numbered
  <2> QED
    BY <2>4, <2>5, <2>6 DEF Numbered
<1>3. \/ UNCHANGED <<rows, lastId>>
      \/ wpc = "insert" /\ StoreRow
  BY DEF Next, vars, Client, Reject, Accept, Handler, Lock, Produce,
     Reply, AuthCrash, Broker, Deliver, AckLost, Expire, Writer, Start, Stop,
     Poll, Insert, InsertRefused, InsertUnanswered, SelectId, Commit,
     CommitUnanswered, WriterDies, tableVars
<1> QED
  BY <1>1, <1>2, <1>3

\* A step adds one message or one row at most.
LEMMA NextCountable ==
  ASSUME TypeOK, Positions, Countable, [Next]_vars
  PROVE  Countable'
<1>1. IsFiniteSet(buffer')
  <2>1. CASE buffer' \subseteq buffer
    BY <2>1, FS_Subset DEF Countable
  <2>2. ASSUME NEW h \in Handlers, Produce(h) PROVE IsFiniteSet(buffer')
    BY <2>2, FS_AddElement DEF Produce, Countable
  <2> QED
    BY <2>1, <2>2 DEF Next, vars, Client, Reject, Accept, Handler, Lock,
       Reply, AuthCrash, Broker, Deliver, AckLost, Expire, Writer, Start, Stop,
       Poll, Insert, InsertRefused, InsertUnanswered, SelectId, Commit,
       CommitUnanswered, WriterDies, queueVars
<1>2. IsFiniteSet(rows')
  <2>1. CASE rows' = rows
    BY <2>1 DEF Countable
  <2>2. ASSUME wpc = "insert", StoreRow PROVE IsFiniteSet(rows')
    BY <2>2, NewRow, FS_AddElement DEF Countable
  <2> QED
    BY <2>1, <2>2 DEF Next, vars, Client, Reject, Accept, Handler, Lock, Produce,
       Reply, AuthCrash, Broker, Deliver, AckLost, Expire, Writer, Start, Stop,
       Poll, Insert, InsertRefused, InsertUnanswered, SelectId, Commit,
       CommitUnanswered, WriterDies, tableVars
<1> QED
  BY <1>1, <1>2 DEF Countable

\* Account is inductive on top of Inv.
LEMMA AccountInvariance == Spec => [](Inv /\ Account)
<1>1. Init => Inv /\ Account
  <2> SUFFICES ASSUME Init PROVE Account
    BY InitInv
  <2>1. Turn
    BY UserAssumption DEF Init, Turn
  <2>2. Caught
    BY DEF Init, Caught
  <2>3. Numbered
    BY DEF Init, Numbered
  <2>4. Countable
    BY FS_EmptySet DEF Init, Countable
  <2> QED
    BY <2>1, <2>2, <2>3, <2>4 DEF Account
<1>2. Inv /\ Account /\ [Next]_vars => Inv' /\ Account'
  <2>1. Inv /\ [Next]_vars => Inv'
    BY NextTypeOK, NextGenuine, NextCovered, NextTraced DEF Inv
  <2>2. Inv /\ Account /\ [Next]_vars => Account'
    BY NextTurn, NextCaught, NextNumbered, NextCountable DEF Inv, Account
  <2> QED
    BY <2>1, <2>2
<1> QED
  BY <1>1, <1>2, PTL DEF Spec

-----------------------------------------------------------------------------
(***************************************************************************)
(* UserTables                                                              *)
(***************************************************************************)

\* An id names one row.
LEMMA RowFound ==
  ASSUME Numbered, NEW s \in Shards, NEW i \in 1..lastId[s]
  PROVE  /\ RowOf(s, i) \in rows
         /\ RowOf(s, i).shard = s /\ RowOf(s, i).id = i
         /\ \A r \in rows : r.shard = s /\ r.id = i => r = RowOf(s, i)
<1>1. \E r \in rows : r.shard = s /\ r.id = i
  BY DEF Numbered
<1>2. /\ RowOf(s, i) \in rows
      /\ RowOf(s, i).shard = s /\ RowOf(s, i).id = i
  BY <1>1 DEF RowOf
<1> QED
  BY <1>2 DEF Numbered

\* What appending to a table written as a function of the ids makes of it.
LEMMA TableGrows ==
  ASSUME NEW S, NEW n \in Nat, NEW f \in [1..n -> S], NEW g \in [1..(n + 1) -> S],
         \A i \in 1..n : g[i] = f[i]
  PROVE  g = Append(f, g[n + 1])
<1>1. f \in Seq(S) /\ Len(f) = n
  OBVIOUS
<1>2. g \in Seq(S) /\ Len(g) = n + 1
  OBVIOUS
<1>3. g[n + 1] \in S
  OBVIOUS
<1>4. /\ Append(f, g[n + 1]) \in Seq(S) /\ Len(Append(f, g[n + 1])) = n + 1
      /\ \A i \in 1..n : Append(f, g[n + 1])[i] = f[i]
      /\ Append(f, g[n + 1])[n + 1] = g[n + 1]
  BY <1>1, <1>3, AppendLog
<1>5. PICK a : a = Append(f, g[n + 1])
  OBVIOUS
<1>6. /\ a \in Seq(S) /\ Len(a) = n + 1
      /\ \A i \in 1..n : a[i] = f[i]
      /\ a[n + 1] = g[n + 1]
  BY <1>4, <1>5
<1>7. a \in [1..(n + 1) -> S]
  BY <1>6
<1>8. ASSUME NEW i \in 1..(n + 1) PROVE a[i] = g[i]
  <2>1. CASE i \in 1..n
    BY <2>1, <1>6
  <2>2. CASE i \notin 1..n
    <3>1. i = n + 1
      BY <2>2
    <3> QED
      BY <3>1, <1>6
  <2> QED
    BY <2>1, <2>2
<1> QED
  BY <1>5, <1>7, <1>8

\* An INSERT appends the profile to the table of its shard.
LEMMA InsertRegisters ==
  ASSUME TypeOK, Positions, Numbered, Numbered', wpc = "insert", StoreRow
  PROVE  Tables!Register(log[pos].user)
<1>1. PICK x : x = NextRow
  OBVIOUS
<1>a. PICK u : u = log[pos].user
  OBVIOUS
<1>b. PICK z : z = x.shard
  OBVIOUS
<1>c. /\ u \in Users /\ x \notin rows /\ rows' = rows \cup {x}
      /\ x.user = u /\ x.shard = z /\ z = ShardOf[u] /\ z \in Shards
      /\ lastId[z] \in Nat /\ x.id = lastId[z] + 1
      /\ lastId' = [lastId EXCEPT ![z] = @ + 1]
  BY <1>1, <1>a, <1>b, RowIsNew
<1>2. \A s \in Shards : /\ lastId[s] \in Nat
                        /\ lastId'[s] = IF s = z THEN lastId[s] + 1 ELSE lastId[s]
  BY <1>c DEF TypeOK
<1>3. ASSUME NEW s \in Shards, NEW i \in 1..lastId[s]
      PROVE  RowOf(s, i)' = RowOf(s, i)
  <2>1. /\ RowOf(s, i) \in rows' /\ RowOf(s, i).shard = s /\ RowOf(s, i).id = i
    BY RowFound, <1>c
  <2>2. \E r \in rows' : r.shard = s /\ r.id = i
    BY <2>1
  <2>3. RowOf(s, i)' \in rows' /\ RowOf(s, i)'.shard = s /\ RowOf(s, i)'.id = i
    BY <2>2 DEF RowOf
  <2> QED
    BY <2>1, <2>3 DEF Numbered
<1>4. ASSUME NEW i, i = x.id
      PROVE  RowOf(z, i)' = x
  <2>1. \E r \in rows' : r.shard = z /\ r.id = i
    BY <1>c, <1>4
  <2>2. RowOf(z, i)' \in rows' /\ RowOf(z, i)'.shard = z /\ RowOf(z, i)'.id = i
    BY <2>1 DEF RowOf
  <2> QED
    BY <1>c, <1>4, <2>2 DEF Numbered
<1>5. \A s \in Shards : \A i \in 1..lastId[s] : RowOf(s, i).user \in Users
  BY RowFound DEF TypeOK, Row
<1>6. ASSUME NEW s \in Shards, s # z
      PROVE  TableSeen(s)' = TableSeen(s)
  BY <1>2, <1>3, <1>6 DEF TableSeen
<1>7. TableSeen(z)' = Append(TableSeen(z), u)
  <2>1. PICK n \in Nat : n = lastId[z]
    BY <1>c
  <2>2. PICK f : f = TableSeen(z)
    OBVIOUS
  <2>3. PICK g : g = TableSeen(z)'
    OBVIOUS
  <2>4. lastId'[z] = n + 1
    BY <1>2, <1>c, <2>1
  <2>5. f = [i \in 1..n |-> RowOf(z, i).user]
    BY <2>1, <2>2 DEF TableSeen
  <2>6. g = [i \in 1..(n + 1) |-> RowOf(z, i)'.user]
    BY <2>3, <2>4 DEF TableSeen
  <2>7. \A i \in 1..n : RowOf(z, i)' = RowOf(z, i) /\ RowOf(z, i).user \in Users
    BY <1>3, <1>5, <1>c, <2>1
  <2>8. n + 1 \in 1..(n + 1) /\ RowOf(z, n + 1)' = x
    BY <1>4, <1>c, <2>1
  <2>9. f \in [1..n -> Users] /\ \A i \in 1..n : g[i] = f[i]
    BY <2>5, <2>6, <2>7
  <2>10. g[n + 1] = u
    BY <1>c, <2>6, <2>8
  <2>11. g \in [1..(n + 1) -> Users]
    <3>1. ASSUME NEW i \in 1..(n + 1) PROVE g[i] \in Users
      BY <1>c, <2>9, <2>10
    <3>2. g = [i \in 1..(n + 1) |-> g[i]]
      BY <2>6
    <3> QED
      BY <3>1, <3>2
  <2>12. g = Append(f, g[n + 1])
    BY <2>9, <2>11, TableGrows
  <2> QED
    BY <2>2, <2>3, <2>10, <2>12
<1>8. TablesSeen' = [TablesSeen EXCEPT ![z] = Append(@, u)]
  BY <1>6, <1>7, <1>c DEF TablesSeen
<1> QED
  BY <1>8, <1>a, <1>c DEF Tables!Register

\* The rows of every shard are the sequence of its registrations, across every
\* crash and redelivery: nothing the writer does but an INSERT that the server
\* executes changes a table, and that appends one row where it belongs.
THEOREM WriterAppends == Spec => ImplementsTables
<1>1. Init => Tables!Init
  <2> SUFFICES ASSUME Init PROVE TablesSeen = [s \in Shards |-> <<>>]
    BY DEF Tables!Init
  <2>1. \A s \in Shards : TableSeen(s) = <<>>
    BY DEF TableSeen, Init
  <2> QED
    BY <2>1 DEF TablesSeen
<1>2. (Inv /\ Account) /\ (Inv /\ Account)' /\ [Next]_vars => [Tables!Next]_TablesSeen
  <2> SUFFICES ASSUME Inv, Account, Account', [Next]_vars
               PROVE  Tables!Next \/ TablesSeen' = TablesSeen
    OBVIOUS
  <2>1. CASE UNCHANGED <<rows, lastId>>
    BY <2>1 DEF TablesSeen, TableSeen, RowOf
  <2>2. ASSUME wpc = "insert", StoreRow PROVE Tables!Next
    <3>1. log[pos].user \in Users
      BY <2>2, RowIsNew DEF Inv, Account
    <3> QED
      BY <2>2, <3>1, InsertRegisters DEF Inv, Account, Tables!Next
  <2>3. \/ UNCHANGED <<rows, lastId>>
        \/ wpc = "insert" /\ StoreRow
    BY DEF Next, vars, Client, Reject, Accept, Handler, Lock, Produce,
       Reply, AuthCrash, Broker, Deliver, AckLost, Expire, Writer, Start, Stop,
       Poll, Insert, InsertRefused, InsertUnanswered, SelectId, Commit,
       CommitUnanswered, WriterDies, tableVars
  <2> QED
    BY <2>1, <2>2, <2>3
<1> QED
  BY <1>1, <1>2, AccountInvariance, PTL DEF Spec, Tables!Spec, ImplementsTables

-----------------------------------------------------------------------------
(***************************************************************************)
(* What the promise sees                                                   *)
(***************************************************************************)

\* One element more, or less.
LEMMA OneMore ==
  ASSUME NEW S, IsFiniteSet(S), NEW x, x \notin S
  PROVE  Cardinality(S \cup {x}) = Cardinality(S) + 1
  BY FS_AddElement

\* A finite set without one of its elements.
LEMMA OneLess ==
  ASSUME NEW S, IsFiniteSet(S), NEW x \in S
  PROVE  /\ Cardinality(S) \in Nat /\ Cardinality(S) > 0
         /\ Cardinality(S \ {x}) = Cardinality(S) - 1
<1>1. Cardinality(S \ {x}) = Cardinality(S) - 1
  BY FS_RemoveElement
<1>2. Cardinality(S) \in Nat
  BY FS_CardinalityType
<1>3. Cardinality(S) # 0
  BY FS_EmptySet
<1> QED
  BY <1>1, <1>2, <1>3

\* A function changed at one place.
LEMMA ChangedAt ==
  ASSUME NEW S, NEW f, NEW g, f = [w \in S |-> f[w]], g = [w \in S |-> g[w]],
         NEW u \in S, \A w \in S : w # u => g[w] = f[w]
  PROVE  g = [f EXCEPT ![u] = g[u]]
  OBVIOUS

\* All that is counted is finite.
Counted ==
  \A u \in Users :
    /\ IsFiniteSet(Pending(u)) /\ Cardinality(Pending(u)) \in Nat
    /\ IsFiniteSet(Queued(u)) /\ Cardinality(Queued(u)) \in Nat
    /\ IsFiniteSet(Ahead(u)) /\ Cardinality(Ahead(u)) \in Nat
    /\ IsFiniteSet(RowsOf(u)) /\ Cardinality(RowsOf(u)) \in Nat

\* The numbers the promise is told are numbers.
LEMMA Counts == TypeOK /\ Countable => Counted
<1> SUFFICES ASSUME TypeOK, Countable, NEW u \in Users
             PROVE  /\ IsFiniteSet(Pending(u)) /\ IsFiniteSet(Queued(u))
                    /\ IsFiniteSet(Ahead(u)) /\ IsFiniteSet(RowsOf(u))
  BY FS_CardinalityType DEF Counted
<1>1. IsFiniteSet(Pending(u))
  BY HandlerAssumption, FS_Subset DEF Pending
<1>2. IsFiniteSet(Queued(u)) /\ IsFiniteSet(RowsOf(u))
  BY FS_Subset DEF Queued, RowsOf, Countable
<1>3. IsFiniteSet(Ahead(u))
  <2>1. Len(log) \in Nat
    BY DEF TypeOK
  <2>2. IsFiniteSet(1..Len(log))
    BY <2>1, FS_Interval
  <2>3. Ahead(u) \in SUBSET (1..Len(log))
    BY DEF Ahead
  <2> QED
    BY <2>2, <2>3, FS_Subset
<1> QED
  BY <1>1, <1>2, <1>3

\* What is seen of a profile, before and after a step.
LEMMA Seen ==
  /\ PendingSeen = [u \in Users |-> PendingSeen[u]]
  /\ OwedSeen = [u \in Users |-> OwedSeen[u]]
  /\ StoredSeen = [u \in Users |-> StoredSeen[u]]
  /\ \A u \in Users : /\ PendingSeen[u] = Cardinality(Pending(u))
                      /\ OwedSeen[u] = Cardinality(Queued(u)) + Cardinality(Ahead(u))
                      /\ StoredSeen[u] = Cardinality(RowsOf(u))
  BY DEF PendingSeen, OwedSeen, StoredSeen

\* What the promise sees of the next state, by its definition.
LEMMA SeenNext ==
  /\ PendingSeen' = [u \in Users |-> PendingSeen'[u]]
  /\ OwedSeen' = [u \in Users |-> OwedSeen'[u]]
  /\ StoredSeen' = [u \in Users |-> StoredSeen'[u]]
  /\ \A u \in Users : /\ PendingSeen'[u] = Cardinality(Pending(u)')
                      /\ OwedSeen'[u] = Cardinality(Queued(u)') + Cardinality(Ahead(u)')
                      /\ StoredSeen'[u] = Cardinality(RowsOf(u)')
  BY DEF PendingSeen, OwedSeen, StoredSeen

\* The messages that a restart would read: all that are ahead, and the one
\* whose row has been inserted while its offset is not committed.
Restart == IF committed = NoOffset THEN 0 ELSE committed

Uncommitted(u) == {o \in 1..Len(log) \ skipped : o > Restart /\ log[o].user = u}

AheadIs ==
  \A u \in Users :
    /\ wpc \notin {"select", "commit"} => Ahead(u) = Uncommitted(u)
    /\ wpc \in {"select", "commit"} => Ahead(u) = Uncommitted(u) \ {pos}
    /\ wpc \in Busy /\ log[pos].user = u => pos \in Uncommitted(u)

\* What is ahead of the writer, by where the writer is.
LEMMA AheadOf == TypeOK /\ Positions /\ Caught => AheadIs
<1> SUFFICES ASSUME TypeOK, Positions, Caught, NEW u \in Users
             PROVE  /\ wpc \notin {"select", "commit"} => Ahead(u) = Uncommitted(u)
                    /\ wpc \in {"select", "commit"} => Ahead(u) = Uncommitted(u) \ {pos}
                    /\ wpc \in Busy /\ log[pos].user = u => pos \in Uncommitted(u)
  BY DEF AheadIs
<1>a. /\ Len(log) \in Nat /\ pos \in Nat /\ committed \in Int /\ NoOffset = -1
      /\ committed # NoOffset => committed \in Nat
      /\ wpc \in Busy => pos \in 1..Len(log)
  BY LogLength
<1>b. wpc # "down" => IF committed = NoOffset THEN skipped = 1..Behind
                                              ELSE committed = Behind
  BY DEF Caught
<1>c. committed # NoOffset => skipped \subseteq 1..committed
  BY DEF Caught
<1>d. wpc \in Busy /\ log[pos].user = u => pos \in Uncommitted(u)
  <2>1. wpc \in Busy => Behind = pos - 1 /\ wpc # "down" /\ pos \in 1..Len(log)
    BY <1>a DEF Behind, Busy
  <2> QED
    BY <1>a, <1>b, <1>c, <2>1 DEF Uncommitted, Restart
<1>1. CASE wpc = "down"
  BY <1>1, <1>d DEF Ahead, Uncommitted, Position, Restart
<1>2. CASE wpc = "poll"
  <2>1. Position = pos /\ Behind = pos
    BY <1>2 DEF Position, Behind, Busy
  <2> QED
    BY <1>a, <1>b, <1>d, <1>2, <2>1 DEF Ahead, Uncommitted, Restart
<1>3. CASE wpc = "insert"
  <2>1. Position = pos - 1 /\ Behind = pos - 1
    BY <1>3 DEF Position, Behind, Busy
  <2>2. Ahead(u) = Uncommitted(u)
    BY <1>a, <1>b, <1>3, <2>1 DEF Ahead, Uncommitted, Restart, Busy
  <2> QED
    BY <1>d, <1>3, <2>2
<1>4. CASE wpc \in {"select", "commit"}
  <2>1. Position = pos /\ Behind = pos - 1 /\ pos \in 1..Len(log)
    BY <1>a, <1>4 DEF Position, Behind, Busy
  <2>2. Ahead(u) = Uncommitted(u) \ {pos}
    BY <1>a, <1>b, <1>4, <2>1 DEF Ahead, Uncommitted, Restart
  <2> QED
    BY <1>d, <1>4, <2>2
<1> QED
  BY <1>1, <1>2, <1>3, <1>4 DEF TypeOK, WriterSteps

\* All that is known of a state before and after a step.
Sound == Inv /\ Account /\ AheadIs /\ Counted

\* All of this holds in every reachable state.
LEMMA Soundness == Spec => []Sound
<1>1. Inv /\ Account => Sound
  BY AheadOf, Counts DEF Inv, Account, Sound
<1> QED
  BY <1>1, AccountInvariance, PTL

\* Requests that a step leaves alone look the same afterwards; so do
LEMMA HandlersLookSame ==
  UNCHANGED <<hpc, hreq>> => PendingSeen' = PendingSeen
  BY DEF PendingSeen, Pending

\* the rows,
LEMMA TablesLookSame ==
  UNCHANGED rows => StoredSeen' = StoredSeen
  BY DEF StoredSeen, RowsOf

\* the answers,
LEMMA AnswersLookSame ==
  UNCHANGED answers => ToldSeen' = ToldSeen
  BY DEF ToldSeen

\* what is lost,
LEMMA LossesLookSame ==
  UNCHANGED <<lost, log, skipped>> => LostSeen' = LostSeen
  BY DEF LostSeen

\* what is ahead of the writer,
LEMMA LogLooksSame ==
  UNCHANGED <<log, skipped, committed, wpc, pos>> =>
    \A u \in Users : Ahead(u)' = Ahead(u)
  BY DEF Ahead, Position

\* and what is owed.
LEMMA OwedLooksSame ==
  UNCHANGED buffer /\ (\A u \in Users : Ahead(u)' = Ahead(u)) => OwedSeen' = OwedSeen
  BY DEF OwedSeen, Queued

\* Counting one up or down, in what is seen of all profiles.
LEMMA CountUp ==
  ASSUME NEW S, NEW f, NEW g, f = [w \in S |-> f[w]], g = [w \in S |-> g[w]],
         NEW u \in S, \A w \in S : w # u => g[w] = f[w], g[u] = f[u] + 1
  PROVE  g = [f EXCEPT ![u] = @ + 1]
  OBVIOUS

\* Counting down.
LEMMA CountDown ==
  ASSUME NEW S, NEW f, NEW g, f = [w \in S |-> f[w]], g = [w \in S |-> g[w]],
         NEW u \in S, \A w \in S : w # u => g[w] = f[w], g[u] = f[u] - 1
  PROVE  g = [f EXCEPT ![u] = @ - 1]
  OBVIOUS

-----------------------------------------------------------------------------
(***************************************************************************)
(* RegistrationPromise, action by action                                   *)
(***************************************************************************)

\* A profile that fails a check is refused.
LEMMA RejectRefuses ==
  ASSUME Sound, NEW h \in Handlers, NEW u \in Users, Reject(h, u)
  PROVE  Promise!Refuse(u)
<1>1. UNCHANGED <<hpc, hreq, rows, lost, log, skipped, committed, wpc, pos, buffer, faults>>
  BY DEF Reject, handlerVars, queueVars, writerVars, tableVars
<1>2. /\ PendingSeen' = PendingSeen /\ OwedSeen' = OwedSeen
      /\ StoredSeen' = StoredSeen /\ LostSeen' = LostSeen
  BY <1>1, HandlersLookSame, TablesLookSame, LossesLookSame, LogLooksSame, OwedLooksSame
<1>3. ToldSeen' = ToldSeen
  BY DEF Reject, ToldSeen
<1> QED
  BY <1>1, <1>2, <1>3 DEF Reject, Arrives, Promise!Refuse

\* A checked profile is one request more that is worked on.
LEMMA AcceptAccepts ==
  ASSUME Sound, NEW h \in Handlers, NEW u \in Users, Accept(h, u)
  PROVE  Promise!Accept(u)
<1>1. UNCHANGED <<answers, rows, lost, log, skipped, committed, wpc, pos, buffer, faults>>
  BY DEF Accept, queueVars, writerVars, tableVars
<1>2. /\ ToldSeen' = ToldSeen /\ OwedSeen' = OwedSeen
      /\ StoredSeen' = StoredSeen /\ LostSeen' = LostSeen
  BY <1>1, AnswersLookSame, TablesLookSame, LossesLookSame, LogLooksSame, OwedLooksSame
<1>3. PendingSeen' = [PendingSeen EXCEPT ![u] = @ + 1]
  <2>1. /\ h \notin Pending(u) /\ Pending(u)' = Pending(u) \cup {h}
        /\ \A w \in Users : w # u => Pending(w)' = Pending(w)
    BY UserAssumption DEF Accept, Arrives, Pending, Sound, Inv, TypeOK
  <2>2. \A w \in Users : w # u => PendingSeen'[w] = PendingSeen[w]
    BY <2>1, Seen, SeenNext
  <2>3. PICK P : P = Pending(u)
    OBVIOUS
  <2>4. PendingSeen'[u] = PendingSeen[u] + 1
    BY <2>1, <2>3, Seen, SeenNext, OneMore DEF Sound, Counted
  <2> QED
    BY <2>2, <2>4, Seen, SeenNext, CountUp
<1> QED
  BY <1>1, <1>2, <1>3 DEF Accept, Arrives, Promise!Accept

\* The promise knows no mutex.
LEMMA LockIsUnseen ==
  ASSUME Sound, NEW h \in Handlers, Lock(h)
  PROVE  UNCHANGED Promise!vars
<1>1. UNCHANGED <<answers, rows, lost, log, skipped, committed, wpc, pos, buffer, faults, posted>>
  BY DEF Lock, queueVars, writerVars, tableVars
<1>2. /\ ToldSeen' = ToldSeen /\ OwedSeen' = OwedSeen
      /\ StoredSeen' = StoredSeen /\ LostSeen' = LostSeen
  BY <1>1, AnswersLookSame, TablesLookSame, LossesLookSame, LogLooksSame, OwedLooksSame
<1>3. \A u \in Users : Pending(u)' = Pending(u)
  BY DEF Lock, Pending, Sound, Inv, TypeOK
<1>4. PendingSeen' = PendingSeen
  BY <1>3 DEF PendingSeen
<1> QED
  BY <1>1, <1>2, <1>4 DEF Promise!vars

\* The request becomes a copy in the local queue; its key makes it a new one.
LEMMA ProduceQueues ==
  ASSUME Sound, NEW h \in Handlers, Produce(h)
  PROVE  hreq[h] \in Users /\ Promise!Queue(hreq[h])
<1>1. UNCHANGED <<answers, rows, lost, log, skipped, committed, wpc, pos, faults, posted>>
  BY DEF Produce, writerVars, tableVars
<1>2. /\ ToldSeen' = ToldSeen /\ StoredSeen' = StoredSeen /\ LostSeen' = LostSeen
      /\ \A w \in Users : Ahead(w)' = Ahead(w)
  BY <1>1, AnswersLookSame, TablesLookSame, LossesLookSame, LogLooksSame
<1>3. PICK u : u = hreq[h]
  OBVIOUS
<1>4. u \in Users
  BY <1>3 DEF Produce, Sound, Inv, TypeOK
<1>5. /\ h \in Pending(u) /\ Pending(u)' = Pending(u) \ {h}
      /\ \A w \in Users : w # u => Pending(w)' = Pending(w)
  BY <1>3 DEF Produce, Pending, Sound, Inv, TypeOK
<1>6. /\ \A w \in Users : w # u => PendingSeen'[w] = PendingSeen[w]
      /\ PendingSeen[u] > 0 /\ PendingSeen'[u] = PendingSeen[u] - 1
  <2>1. PICK P : P = Pending(u)
    OBVIOUS
  <2> QED
    BY <1>4, <1>5, <2>1, Seen, SeenNext, OneLess DEF Sound, Counted
<1>7. PendingSeen' = [PendingSeen EXCEPT ![u] = @ - 1]
  BY <1>4, <1>6, Seen, SeenNext, CountDown
<1>8. OwedSeen' = [OwedSeen EXCEPT ![u] = @ + 1]
  <2>1. PICK m : m = [key |-> messageKey, user |-> u]
    OBVIOUS
  <2>2. m \notin buffer /\ m.user = u
    BY <2>1, UserAssumption DEF Produce, Sound, Account, Turn, Inv, TypeOK, Message
  <2>3. buffer' = buffer \cup {m}
    BY <1>3, <2>1 DEF Produce
  <2>4. /\ m \notin Queued(u) /\ Queued(u)' = Queued(u) \cup {m}
        /\ \A w \in Users : w # u => Queued(w)' = Queued(w)
    BY <2>2, <2>3 DEF Queued
  <2>5. PICK Q : Q = Queued(u)
    OBVIOUS
  <2>6. Cardinality(Queued(u)') = Cardinality(Queued(u)) + 1
    BY <1>4, <2>4, <2>5, OneMore DEF Sound, Counted
  <2>7. \A w \in Users : w # u => OwedSeen'[w] = OwedSeen[w]
    BY <1>2, <2>4, Seen, SeenNext
  <2>8. Cardinality(Ahead(u)') = Cardinality(Ahead(u))
    BY <1>2, <1>4
  <2>9. Cardinality(Queued(u)) \in Nat /\ Cardinality(Ahead(u)) \in Nat
    BY <1>4 DEF Sound, Counted
  <2>10. OwedSeen'[u] = OwedSeen[u] + 1
    BY <1>4, <2>6, <2>8, <2>9, Seen, SeenNext
  <2> QED
    BY <1>4, <2>7, <2>10, Seen, SeenNext, CountUp
<1>9. Promise!Queue(u)
  BY <1>1, <1>2, <1>6, <1>7, <1>8 DEF Promise!Queue
<1> QED
  BY <1>3, <1>4, <1>9

\* Where a profile is that is somewhere: the writer has stored, skipped or not
\* yet reached its message.
LEMMA SomewhereIsKept ==
  ASSUME Sound, NEW u \in Users, Somewhere(u)
  PROVE  Promise!Kept(u)
<1>a. Len(log) \in Nat /\ committed \in Nat \cup {-1} /\ pos \in Nat /\ NoOffset = -1
  BY DEF Sound, Inv, TypeOK, NoOffset
<1>b. /\ Cardinality(Queued(u)) \in Nat /\ IsFiniteSet(Queued(u))
      /\ Cardinality(Ahead(u)) \in Nat /\ IsFiniteSet(Ahead(u))
      /\ Cardinality(RowsOf(u)) \in Nat /\ IsFiniteSet(RowsOf(u))
  BY DEF Sound, Counted
<1>1. CASE u \in lost
  BY <1>1 DEF Promise!Kept, LostSeen
<1>2. ASSUME NEW m \in buffer, m.user = u
      PROVE  Promise!Kept(u)
  <2>1. m \in Queued(u)
    BY <1>2 DEF Queued
  <2>2. Cardinality(Queued(u)) > 0
    BY <1>b, <2>1, OneLess
  <2>3. OwedSeen[u] > 0
    BY <1>b, <2>2, Seen
  <2> QED
    BY <2>3 DEF Promise!Kept
<1>3. ASSUME NEW o \in 1..Len(log), log[o].user = u
      PROVE  Promise!Kept(u)
  <2>1. CASE o \in skipped
    BY <1>3, <2>1 DEF Promise!Kept, LostSeen
  <2>2. CASE o \notin skipped /\ o > Position
    <3>1. o \in Ahead(u)
      BY <1>3, <2>2 DEF Ahead
    <3>2. Cardinality(Ahead(u)) > 0
      BY <1>b, <3>1, OneLess
    <3>3. OwedSeen[u] > 0
      BY <1>b, <3>2, Seen
    <3> QED
      BY <3>3 DEF Promise!Kept
  <2>3. CASE o \notin skipped /\ ~(o > Position)
    <3>1. StoredOffset(o)
      <4>1. CASE wpc = "insert"
        BY <1>a, <2>3, <4>1 DEF Position, Sound, Inv, Covered, Done
      <4>2. CASE wpc = "down"
        BY <1>a, <2>3, <4>2 DEF Position, Sound, Inv, Covered, AtLeastOnce
      <4>3. CASE wpc \in {"poll", "select", "commit"}
        <5>1. Position = pos
          BY <4>3 DEF Position
        <5> QED
          BY <1>a, <2>3, <4>3, <5>1 DEF Sound, Inv, Covered, Done
      <4> QED
        BY <4>1, <4>2, <4>3 DEF Sound, Inv, TypeOK, WriterSteps
    <3>2. PICK r \in rows : r.offset = o
      BY <3>1 DEF StoredOffset
    <3>3. r \in RowsOf(u)
      BY <1>3, <3>2 DEF RowsOf, Sound, Inv, Genuine, RowsAreRegistrations
    <3>4. Cardinality(RowsOf(u)) > 0
      BY <1>b, <3>3, OneLess
    <3>5. StoredSeen[u] > 0
      BY <3>4, Seen
    <3> QED
      BY <3>5 DEF Promise!Kept
  <2> QED
    BY <2>1, <2>2, <2>3
<1> QED
  BY <1>1, <1>2, <1>3 DEF Somewhere

\* The 200 comes when a copy is owed, stored or lost: Traced says so.
LEMMA ReplyTells ==
  ASSUME Sound, NEW h \in Handlers, Reply(h)
  PROVE  hreq[h] \in Users /\ Promise!Tell(hreq[h])
<1>1. UNCHANGED <<rows, lost, log, skipped, committed, wpc, pos, buffer, faults, posted>>
  BY DEF Reply, queueVars, writerVars, tableVars
<1>2. /\ OwedSeen' = OwedSeen /\ StoredSeen' = StoredSeen /\ LostSeen' = LostSeen
  BY <1>1, TablesLookSame, LossesLookSame, LogLooksSame, OwedLooksSame
<1>3. PICK u : u = hreq[h]
  OBVIOUS
<1>4. u \in Users
  BY <1>3 DEF Reply, Sound, Inv, TypeOK
<1>5. \A w \in Users : Pending(w)' = Pending(w)
  BY UserAssumption DEF Reply, Pending, Sound, Inv, TypeOK
<1>6. PendingSeen' = PendingSeen
  BY <1>5 DEF PendingSeen
<1>7. Promise!Kept(u)
  BY <1>3, <1>4, SomewhereIsKept DEF Reply, Sound, Inv, Traced
<1>8. ToldSeen' = ToldSeen \cup {u}
  BY <1>3, <1>4 DEF Reply, ToldSeen
<1>9. Promise!Tell(u)
  BY <1>1, <1>2, <1>6, <1>7, <1>8 DEF Promise!Tell
<1> QED
  BY <1>3, <1>4, <1>9

\* What is lost when only the local queue loses messages.
LEMMA QueueLoses ==
  ASSUME Sound, Sound', buffer' \subseteq buffer,
         lost' = lost \cup {m.user : m \in buffer \ buffer'},
         UNCHANGED <<log, skipped, committed, wpc, pos, rows, answers, posted>>
  PROVE  Promise!Lose
<1>1. ToldSeen' = ToldSeen /\ StoredSeen' = StoredSeen
  BY AnswersLookSame, TablesLookSame
<1>2. ASSUME NEW u \in Users
      PROVE  /\ OwedSeen'[u] <= OwedSeen[u]
             /\ OwedSeen'[u] < OwedSeen[u] <=> \E m \in buffer \ buffer' : m.user = u
  <2>1. PICK a : a = Cardinality(Ahead(u))
    OBVIOUS
  <2>2. Ahead(u)' = Ahead(u)
    BY LogLooksSame
  <2>3. Cardinality(Ahead(u)') = a /\ a \in Nat
    BY <2>1, <2>2 DEF Sound, Counted
  <2>4. PICK Q : Q = Queued(u)
    OBVIOUS
  <2>5. PICK R : R = Queued(u)'
    OBVIOUS
  <2>6. /\ R \subseteq Q /\ IsFiniteSet(Q) /\ Cardinality(Q) \in Nat
        /\ Cardinality(R) \in Nat
    BY <2>4, <2>5 DEF Queued, Sound, Counted
  <2>7. Cardinality(R) <= Cardinality(Q) /\ (Cardinality(R) = Cardinality(Q) => R = Q)
    BY <2>6, FS_Subset
  <2>8. R # Q <=> \E m \in buffer \ buffer' : m.user = u
    BY <2>4, <2>5 DEF Queued
  <2>9. OwedSeen[u] = Cardinality(Q) + a /\ OwedSeen'[u] = Cardinality(R) + a
    BY <2>1, <2>3, <2>4, <2>5, Seen, SeenNext
  <2> QED
    BY <2>3, <2>6, <2>7, <2>8, <2>9
<1>3. \A m \in buffer : m.user \in Users
  BY DEF Sound, Inv, TypeOK, Message
<1>4. {m.user : m \in buffer \ buffer'} = {u \in Users : OwedSeen'[u] < OwedSeen[u]}
  BY <1>2, <1>3
<1>5. LostSeen' = LostSeen \cup {m.user : m \in buffer \ buffer'}
  BY DEF LostSeen
<1> QED
  BY <1>1, <1>2, <1>4, <1>5 DEF Promise!Lose

\* With auth_service go its requests and its local queue.
LEMMA AuthCrashBreaks ==
  ASSUME Sound, Sound', AuthCrash
  PROVE  Promise!Break
<1>1. Promise!Lose
  BY QueueLoses DEF AuthCrash, writerVars, tableVars
<1>2. ASSUME NEW u \in Users PROVE PendingSeen'[u] <= PendingSeen[u]
  <2>1. Pending(u)' = {}
    BY DEF AuthCrash, Pending
  <2>2. PendingSeen'[u] = 0
    BY <2>1, SeenNext, FS_EmptySet
  <2>3. PendingSeen[u] \in Nat
    BY Seen DEF Sound, Counted
  <2> QED
    BY <2>2, <2>3
<1> QED
  BY <1>1, <1>2 DEF AuthCrash, Fault, Promise!Break

\* A message that expires loses the copy that is owed.
LEMMA ExpireBreaks ==
  ASSUME Sound, Sound', NEW m \in buffer, Expire(m)
  PROVE  Promise!Break
<1>1. buffer \ buffer' = {m}
  BY DEF Expire
<1>2. Promise!Lose
  BY <1>1, QueueLoses DEF Expire, handlerVars, writerVars, tableVars
<1>3. PendingSeen' = PendingSeen
  BY HandlersLookSame DEF Expire, handlerVars
<1>4. \A u \in Users : PendingSeen[u] \in Nat
  BY Seen DEF Sound, Counted
<1> QED
  BY <1>2, <1>3, <1>4 DEF Expire, Fault, Promise!Break

\* A message that reaches the log is ahead of the writer, and new there.
LEMMA ReachesLog ==
  ASSUME Sound, NEW m \in buffer, Deliver(m) \/ AckLost(m)
  PROVE  /\ m.user \in Users /\ m \in Queued(m.user)
         /\ \A w \in Users : w # m.user => Ahead(w)' = Ahead(w)
         /\ \E o : o \notin Ahead(m.user) /\ Ahead(m.user)' = Ahead(m.user) \cup {o}
         /\ LostSeen' = LostSeen
<1>a. /\ Len(log) \in Nat /\ Len(log') = Len(log) + 1
      /\ \A o \in 1..Len(log) : log'[o] = log[o]
      /\ log'[Len(log) + 1] = m
  BY LogGrows DEF Sound, Inv
<1>b. UNCHANGED <<skipped, committed, wpc, pos, lost>>
  BY DEF Deliver, AckLost, writerVars
<1>c. skipped \subseteq 1..Len(log)
  BY DEF Sound, Account, Caught
<1>d. /\ pos \in Nat /\ committed \in Nat \cup {-1} /\ NoOffset = -1 /\ wpc \in WriterSteps
      /\ committed <= Len(log)
      /\ wpc # "down" => pos <= Len(log)
  BY DEF Sound, Inv, TypeOK, Positions, NoOffset
<1>1. m.user \in Users /\ m \in Queued(m.user)
  BY DEF Sound, Inv, TypeOK, Message, Queued
<1>2. PICK p : p = Position
  OBVIOUS
<1>3. Position' = p /\ p \in Int /\ p <= Len(log)
  <2>1. Position' = Position
    BY <1>b DEF Position
  <2>2. Position \in {pos, pos - 1, committed, 0}
    BY DEF Position
  <2>3. wpc \in {"poll", "select", "commit"} => Position = pos
    BY DEF Position
  <2>4. wpc = "insert" => Position = pos - 1
    BY DEF Position
  <2>5. wpc = "down" => Position \in {0, committed}
    BY DEF Position
  <2> QED
    BY <1>a, <1>d, <1>2, <2>1, <2>2, <2>3, <2>4, <2>5 DEF WriterSteps
<1>4. PICK n \in Nat : n = Len(log)
  BY <1>a
<1>5. ASSUME NEW w \in Users
      PROVE  /\ Ahead(w) = {o \in 1..n \ skipped : o > p /\ log[o].user = w}
             /\ Ahead(w)' = {o \in 1..(n + 1) \ skipped : o > p /\ log'[o].user = w}
  BY <1>a, <1>b, <1>2, <1>3, <1>4 DEF Ahead
<1>6. ASSUME NEW w \in Users, w # m.user PROVE Ahead(w)' = Ahead(w)
  <2>1. \A o \in 1..(n + 1) : log'[o].user = w <=> o \in 1..n /\ log[o].user = w
    BY <1>a, <1>4, <1>6
  <2>2. Ahead(w)' \subseteq Ahead(w)
    BY <1>5, <2>1
  <2>3. Ahead(w) \subseteq Ahead(w)'
    BY <1>5, <2>1
  <2> QED
    BY <2>2, <2>3
<1>7. n + 1 \notin Ahead(m.user) /\ Ahead(m.user)' = Ahead(m.user) \cup {n + 1}
  BY <1>1, <1>a, <1>c, <1>3, <1>4, <1>5
<1>8. LostSeen' = LostSeen
  <2>1. \A o \in skipped : log'[o] = log[o]
    BY <1>a, <1>c
  <2> QED
    BY <1>b, <2>1 DEF LostSeen
<1> QED
  BY <1>1, <1>6, <1>7, <1>8

\* A message leaves the queue and is in the log: it is owed as before.
LEMMA DeliverIsUnseen ==
  ASSUME Sound, NEW m \in buffer, Deliver(m)
  PROVE  UNCHANGED Promise!vars
<1>1. UNCHANGED <<hpc, hreq, answers, rows, faults, posted>>
  BY DEF Deliver, handlerVars, tableVars
<1>2. /\ PendingSeen' = PendingSeen /\ ToldSeen' = ToldSeen
      /\ StoredSeen' = StoredSeen /\ LostSeen' = LostSeen
  BY <1>1, HandlersLookSame, AnswersLookSame, TablesLookSame, ReachesLog
<1>3. PICK u : u = m.user
  OBVIOUS
<1>4. /\ u \in Users /\ m \in Queued(u)
      /\ \A w \in Users : w # u => Ahead(w)' = Ahead(w)
      /\ \E o : o \notin Ahead(u) /\ Ahead(u)' = Ahead(u) \cup {o}
  BY <1>3, ReachesLog
<1>5. /\ Queued(u)' = Queued(u) \ {m}
      /\ \A w \in Users : w # u => Queued(w)' = Queued(w)
  BY <1>3 DEF Deliver, Queued
<1>6. /\ Cardinality(Queued(u)) \in Nat
      /\ Cardinality(Queued(u)') = Cardinality(Queued(u)) - 1
  <2>1. PICK Q : Q = Queued(u)
    OBVIOUS
  <2> QED
    BY <1>4, <1>5, <2>1, OneLess DEF Sound, Counted
<1>7. /\ Cardinality(Ahead(u)) \in Nat
      /\ Cardinality(Ahead(u)') = Cardinality(Ahead(u)) + 1
  <2>1. PICK A : A = Ahead(u)
    OBVIOUS
  <2> QED
    BY <1>4, <2>1, OneMore DEF Sound, Counted
<1>8. OwedSeen'[u] = OwedSeen[u]
  <2>1. /\ OwedSeen[u] = Cardinality(Queued(u)) + Cardinality(Ahead(u))
        /\ OwedSeen'[u] = Cardinality(Queued(u)') + Cardinality(Ahead(u)')
    BY <1>4, Seen, SeenNext
  <2> QED
    BY <1>6, <1>7, <2>1
<1>9. \A w \in Users : w # u => OwedSeen'[w] = OwedSeen[w]
  BY <1>4, <1>5, Seen, SeenNext
<1>10. OwedSeen' = OwedSeen
  BY <1>8, <1>9, Seen, SeenNext
<1> QED
  BY <1>1, <1>2, <1>10 DEF Promise!vars

\* It is in the log and still in the queue: one copy more.
LEMMA AckLostRepeats ==
  ASSUME Sound, NEW m \in buffer, AckLost(m)
  PROVE  m.user \in Users /\ Promise!Repeat(m.user)
<1>1. UNCHANGED <<hpc, hreq, answers, rows, buffer, posted>> /\ faults' = faults + 1
  BY DEF AckLost, Fault, handlerVars, tableVars
<1>2. /\ PendingSeen' = PendingSeen /\ ToldSeen' = ToldSeen
      /\ StoredSeen' = StoredSeen /\ LostSeen' = LostSeen
  BY <1>1, HandlersLookSame, AnswersLookSame, TablesLookSame, ReachesLog
<1>3. PICK u : u = m.user
  OBVIOUS
<1>4. /\ u \in Users /\ m \in Queued(u)
      /\ \A w \in Users : w # u => Ahead(w)' = Ahead(w)
      /\ \E o : o \notin Ahead(u) /\ Ahead(u)' = Ahead(u) \cup {o}
  BY <1>3, ReachesLog
<1>5. \A w \in Users : Queued(w)' = Queued(w)
  BY <1>1 DEF Queued
<1>6. Cardinality(Queued(u)) \in Nat /\ Cardinality(Queued(u)) > 0
  BY <1>4, OneLess DEF Sound, Counted
<1>7. /\ Cardinality(Ahead(u)) \in Nat
      /\ Cardinality(Ahead(u)') = Cardinality(Ahead(u)) + 1
  <2>1. PICK A : A = Ahead(u)
    OBVIOUS
  <2> QED
    BY <1>4, <2>1, OneMore DEF Sound, Counted
<1>8. Cardinality(Queued(u)') = Cardinality(Queued(u))
  BY <1>4, <1>5
<1>9. OwedSeen[u] > 0 /\ OwedSeen'[u] = OwedSeen[u] + 1
  BY <1>4, <1>6, <1>7, <1>8, Seen, SeenNext
<1>10. \A w \in Users : w # u => OwedSeen'[w] = OwedSeen[w]
  BY <1>4, <1>5, Seen, SeenNext
<1>11. OwedSeen' = [OwedSeen EXCEPT ![u] = @ + 1]
  BY <1>4, <1>9, <1>10, Seen, SeenNext, CountUp
<1>12. Promise!Repeat(u)
  BY <1>1, <1>2, <1>9, <1>11 DEF Promise!Repeat
<1> QED
  BY <1>3, <1>4, <1>12

\* Without a step of a handler or a message nothing of theirs looks different.
LEMMA PromisesLookSame ==
  Writer => /\ UNCHANGED <<buffer, log, lost, posted>>
            /\ PendingSeen' = PendingSeen /\ ToldSeen' = ToldSeen
            /\ \A u \in Users : Queued(u)' = Queued(u)
  BY DEF Writer, Start, Stop, Poll, Insert, InsertRefused, InsertUnanswered,
     SelectId, Commit, CommitUnanswered, WriterDies, handlerVars, queueVars,
     PendingSeen, Pending, ToldSeen, Queued

\* A writer that neither has an uncommitted row nor gets or forgets one still has
\* the same messages ahead, whether it goes up or down.
LEMMA AheadStays ==
  ASSUME Sound, Sound', UNCHANGED <<log, skipped, committed>>,
         wpc \notin {"select", "commit"}, wpc' \notin {"select", "commit"}
  PROVE  \A u \in Users : Ahead(u)' = Ahead(u)
<1>1. \A u \in Users : Ahead(u)' = Uncommitted(u)' /\ Ahead(u) = Uncommitted(u)
  BY DEF Sound, AheadIs
<1>2. \A u \in Users : Uncommitted(u)' = Uncommitted(u)
  BY DEF Uncommitted, Restart
<1> QED
  BY <1>1, <1>2

\* A start goes on where the commit was, or, without one, jumps over the log.
LEMMA StartSkips ==
  ASSUME Sound, Sound', Start
  PROVE  UNCHANGED Promise!vars \/ Promise!Skip
<1>1. /\ UNCHANGED <<buffer, log, lost, posted, rows, faults, committed>>
      /\ wpc = "down" /\ wpc' = "poll"
      /\ PendingSeen' = PendingSeen /\ ToldSeen' = ToldSeen /\ StoredSeen' = StoredSeen
      /\ \A u \in Users : Queued(u)' = Queued(u)
  BY PromisesLookSame, TablesLookSame DEF Start, Writer, tableVars
<1>2. CASE committed # NoOffset
  <2>1. UNCHANGED skipped
    BY <1>2 DEF Start
  <2>2. \A u \in Users : Ahead(u)' = Ahead(u)
    BY <1>1, <2>1, AheadStays
  <2>3. OwedSeen' = OwedSeen /\ LostSeen' = LostSeen
    BY <1>1, <2>1, <2>2, OwedLooksSame, LossesLookSame
  <2> QED
    BY <1>1, <2>3 DEF Promise!vars
<1>3. CASE committed = NoOffset
  <2>1. skipped' = 1..Len(log) /\ skipped \subseteq 1..Len(log) /\ Len(log) \in Nat
    BY <1>3 DEF Start, Sound, Inv, TypeOK, Account, Caught, NoOffset
  <2>2. ASSUME NEW u \in Users
        PROVE  /\ OwedSeen'[u] <= OwedSeen[u]
               /\ OwedSeen'[u] < OwedSeen[u]
                    <=> \E o \in 1..Len(log) \ skipped : log[o].user = u
    <3>1. Ahead(u) = {o \in 1..Len(log) \ skipped : log[o].user = u}
      BY <1>1, <1>3, <2>1 DEF Ahead, Position
    <3>2. Ahead(u)' = {}
      BY <1>1, <2>1 DEF Ahead
    <3>3. PICK A : A = Ahead(u)
      OBVIOUS
    <3>4. IsFiniteSet(A) /\ Cardinality(A) \in Nat
      BY <3>3 DEF Sound, Counted
    <3>5. Cardinality(A) > 0 <=> A # {}
      BY <3>4, OneLess, FS_EmptySet
    <3>6. PICK n \in Nat : n = Cardinality(Queued(u))
      BY DEF Sound, Counted
    <3>7. Cardinality(Queued(u)') = n /\ Cardinality(Ahead(u)') = 0
      BY <1>1, <3>2, <3>6, FS_EmptySet
    <3>8. OwedSeen[u] = n + Cardinality(A) /\ OwedSeen'[u] = n + 0
      BY <3>3, <3>6, <3>7, Seen, SeenNext
    <3> QED
      BY <3>1, <3>3, <3>4, <3>5, <3>8
  <2>3. \A o \in 1..Len(log) : log[o].user \in Users
    <3>1. log \in Seq(Message)
      BY DEF Sound, Inv, TypeOK
    <3>2. \A o \in 1..Len(log) : log[o] \in Message
      BY <3>1
    <3> QED
      BY <3>2 DEF Message
  <2>4. LostSeen' = LostSeen \cup {log[o].user : o \in 1..Len(log) \ skipped}
    BY <1>1, <2>1 DEF LostSeen
  <2>5. {log[o].user : o \in 1..Len(log) \ skipped}
          = {u \in Users : OwedSeen'[u] < OwedSeen[u]}
    BY <2>2, <2>3
  <2>6. Promise!Lose
    BY <1>1, <2>2, <2>4, <2>5 DEF Promise!Lose
  <2> QED
    BY <1>1, <2>6 DEF Promise!Skip
<1> QED
  BY <1>2, <1>3

\* Steps of the writer that neither store a row nor forget one.
LEMMA WriterIsUnseen ==
  ASSUME Sound, Sound', Stop \/ Poll \/ InsertRefused \/ SelectId \/ Commit
  PROVE  UNCHANGED Promise!vars
<1>1. /\ UNCHANGED <<buffer, log, lost, posted, rows, faults, skipped>>
      /\ PendingSeen' = PendingSeen /\ ToldSeen' = ToldSeen /\ StoredSeen' = StoredSeen
      /\ \A u \in Users : Queued(u)' = Queued(u)
  BY PromisesLookSame, TablesLookSame
     DEF Stop, Poll, InsertRefused, SelectId, Commit, Writer, tableVars
<1>2. \A u \in Users : Ahead(u)' = Ahead(u)
  <2>1. CASE Stop \/ Poll \/ InsertRefused
    <3>1. /\ wpc \notin {"select", "commit"} /\ wpc' \notin {"select", "commit"}
          /\ committed' = committed
      BY <2>1 DEF Stop, Poll, InsertRefused
    <3> QED
      BY <1>1, <3>1, AheadStays
  <2>2. CASE SelectId
    BY <2>2 DEF SelectId, Ahead, Position, queueVars
  <2>3. CASE Commit
    BY <2>3 DEF Commit, Ahead, Position, queueVars
  <2> QED
    BY <2>1, <2>2, <2>3
<1>3. OwedSeen' = OwedSeen /\ LostSeen' = LostSeen
  BY <1>1, <1>2, OwedLooksSame, LossesLookSame
<1> QED
  BY <1>1, <1>3 DEF Promise!vars

\* A row is inserted for a message that is ahead of the writer.
LEMMA RowIsSeen ==
  ASSUME Sound, Sound', wpc = "insert", StoreRow
  PROVE  /\ log[pos].user \in Users
         /\ OwedSeen[log[pos].user] > 0
         /\ StoredSeen' = [StoredSeen EXCEPT ![log[pos].user] = @ + 1]
         /\ Ahead(log[pos].user) = Uncommitted(log[pos].user)
         /\ pos \in Ahead(log[pos].user)
<1>1. PICK x : x = NextRow
  OBVIOUS
<1>2. PICK u : u = log[pos].user
  OBVIOUS
<1>3. u \in Users /\ x \notin rows /\ rows' = rows \cup {x} /\ x.user = u
  BY <1>1, <1>2, RowIsNew DEF Sound, Inv, Account
<1>4. Ahead(u) = Uncommitted(u) /\ pos \in Ahead(u)
  BY <1>2, <1>3 DEF Sound, AheadIs, Busy
<1>5. OwedSeen[u] > 0
  <2>1. PICK A : A = Ahead(u)
    OBVIOUS
  <2>2. Cardinality(Ahead(u)) > 0 /\ Cardinality(Ahead(u)) \in Nat
    BY <1>3, <1>4, <2>1, OneLess DEF Sound, Counted
  <2>3. Cardinality(Queued(u)) \in Nat
    BY <1>3 DEF Sound, Counted
  <2> QED
    BY <1>3, <2>2, <2>3, Seen
<1>6. StoredSeen' = [StoredSeen EXCEPT ![u] = @ + 1]
  <2>1. /\ x \notin RowsOf(u) /\ RowsOf(u)' = RowsOf(u) \cup {x}
        /\ \A w \in Users : w # u => RowsOf(w)' = RowsOf(w)
    BY <1>3 DEF RowsOf
  <2>2. PICK R : R = RowsOf(u)
    OBVIOUS
  <2>3. StoredSeen'[u] = StoredSeen[u] + 1
    BY <1>3, <2>1, <2>2, OneMore, Seen, SeenNext DEF Sound, Counted
  <2>4. \A w \in Users : w # u => StoredSeen'[w] = StoredSeen[w]
    BY <2>1, Seen, SeenNext
  <2> QED
    BY <1>3, <2>3, <2>4, Seen, SeenNext, CountUp
<1> QED
  BY <1>2, <1>3, <1>4, <1>5, <1>6

\* The row takes the place of the message it was made of.
LEMMA InsertStores ==
  ASSUME Sound, Sound', Insert
  PROVE  log[pos].user \in Users /\ Promise!Store(log[pos].user)
<1>1. /\ UNCHANGED <<buffer, log, lost, posted, faults, skipped, committed, pos>>
      /\ wpc = "insert" /\ wpc' = "select"
      /\ PendingSeen' = PendingSeen /\ ToldSeen' = ToldSeen
      /\ \A u \in Users : Queued(u)' = Queued(u)
  BY PromisesLookSame DEF Insert, Writer
<1>2. LostSeen' = LostSeen
  BY <1>1, LossesLookSame
<1>3. PICK u : u = log[pos].user
  OBVIOUS
<1>4. /\ u \in Users /\ OwedSeen[u] > 0
      /\ StoredSeen' = [StoredSeen EXCEPT ![u] = @ + 1]
      /\ pos \in Ahead(u)
  BY <1>1, <1>3, RowIsSeen DEF Insert
<1>5. \A w \in Users : Ahead(w)' = Ahead(w) \ {pos}
  BY <1>1 DEF Sound, AheadIs, Uncommitted, Restart
<1>6. \A w \in Users : w # u => pos \notin Ahead(w)
  BY <1>3 DEF Ahead
<1>7. /\ Cardinality(Ahead(u)') = Cardinality(Ahead(u)) - 1
      /\ Cardinality(Ahead(u)) \in Nat
  <2>1. PICK A : A = Ahead(u)
    OBVIOUS
  <2> QED
    BY <1>4, <1>5, <2>1, OneLess DEF Sound, Counted
<1>8. OwedSeen'[u] = OwedSeen[u] - 1
  <2>1. PICK n \in Nat : n = Cardinality(Queued(u))
    BY <1>4 DEF Sound, Counted
  <2>2. Cardinality(Queued(u)') = n
    BY <1>1, <1>4, <2>1
  <2>3. /\ OwedSeen[u] = Cardinality(Queued(u)) + Cardinality(Ahead(u))
        /\ OwedSeen'[u] = Cardinality(Queued(u)') + Cardinality(Ahead(u)')
    BY <1>4, Seen, SeenNext
  <2> QED
    BY <1>7, <2>1, <2>2, <2>3
<1>9. \A w \in Users : w # u => OwedSeen'[w] = OwedSeen[w]
  <2>1. \A w \in Users : w # u => Ahead(w)' = Ahead(w)
    BY <1>5, <1>6
  <2> QED
    BY <1>1, <2>1, Seen, SeenNext
<1>10. OwedSeen' = [OwedSeen EXCEPT ![u] = @ - 1]
  BY <1>4, <1>8, <1>9, Seen, SeenNext, CountDown
<1>11. Promise!Store(u)
  BY <1>1, <1>2, <1>4, <1>10 DEF Promise!Store
<1> QED
  BY <1>3, <1>4, <1>11

\* The row is there, and the message will be read again.
LEMMA InsertUnansweredStores ==
  ASSUME Sound, Sound', InsertUnanswered
  PROVE  log[pos].user \in Users /\ Promise!StoreUnnoticed(log[pos].user)
<1>1. /\ UNCHANGED <<buffer, log, lost, posted, skipped, committed, pos>>
      /\ wpc = "insert" /\ wpc' = "down" /\ faults' = faults + 1
      /\ PendingSeen' = PendingSeen /\ ToldSeen' = ToldSeen
  BY PromisesLookSame DEF InsertUnanswered, Writer, Fault
<1>2. \A w \in Users : Ahead(w)' = Ahead(w)
  BY <1>1, AheadStays
<1>3. LostSeen' = LostSeen /\ OwedSeen' = OwedSeen
  BY <1>1, <1>2, LossesLookSame, OwedLooksSame
<1>4. /\ log[pos].user \in Users /\ OwedSeen[log[pos].user] > 0
      /\ StoredSeen' = [StoredSeen EXCEPT ![log[pos].user] = @ + 1]
  BY <1>1, RowIsSeen DEF InsertUnanswered
<1> QED
  BY <1>1, <1>3, <1>4 DEF Promise!StoreUnnoticed

\* A fault after which everything looks as before.
LEMMA NothingLost ==
  ASSUME Sound, faults' = faults + 1, posted' = posted, PendingSeen' = PendingSeen,
         ToldSeen' = ToldSeen, StoredSeen' = StoredSeen, OwedSeen' = OwedSeen,
         LostSeen' = LostSeen
  PROVE  Promise!Break
<1>1. \A u \in Users : PendingSeen[u] \in Nat /\ OwedSeen[u] \in Nat
  BY Seen DEF Sound, Counted
<1>2. {u \in Users : OwedSeen'[u] < OwedSeen[u]} = {}
  BY <1>1
<1> QED
  BY <1>1, <1>2 DEF Promise!Break, Promise!Lose

\* Its commit has taken effect: the writer goes down and forgets nothing.
LEMMA CommitUnansweredBreaks ==
  ASSUME Sound, Sound', CommitUnanswered
  PROVE  Promise!Break
<1>1. /\ UNCHANGED <<buffer, log, lost, posted, rows, skipped>> /\ faults' = faults + 1
      /\ PendingSeen' = PendingSeen /\ ToldSeen' = ToldSeen /\ StoredSeen' = StoredSeen
  BY PromisesLookSame, TablesLookSame DEF CommitUnanswered, Writer, Fault, tableVars
<1>2. Position = pos /\ Position' = pos
  BY DEF CommitUnanswered, Position, Sound, Inv, TypeOK, NoOffset
<1>3. \A u \in Users : Ahead(u)' = Ahead(u)
  BY <1>1, <1>2 DEF Ahead
<1>4. OwedSeen' = OwedSeen /\ LostSeen' = LostSeen
  BY <1>1, <1>3, OwedLooksSame, LossesLookSame
<1> QED
  BY <1>1, <1>4, NothingLost

\* The writer dies: a row whose offset is not committed will be stored again.
LEMMA WriterDiesRepeats ==
  ASSUME Sound, Sound', WriterDies
  PROVE  Promise!Break \/ \E u \in Users : Promise!Repeat(u)
<1>1. /\ UNCHANGED <<buffer, log, lost, posted, rows, skipped, committed, pos>>
      /\ faults' = faults + 1 /\ wpc' = "down"
      /\ PendingSeen' = PendingSeen /\ ToldSeen' = ToldSeen /\ StoredSeen' = StoredSeen
      /\ \A u \in Users : Queued(u)' = Queued(u)
  BY PromisesLookSame, TablesLookSame DEF WriterDies, Writer, Fault, tableVars
<1>2. LostSeen' = LostSeen
  BY <1>1, LossesLookSame
<1>3. CASE wpc \notin {"select", "commit"}
  <2>1. OwedSeen' = OwedSeen
    BY <1>1, <1>3, AheadStays, OwedLooksSame
  <2> QED
    BY <1>1, <1>2, <2>1, NothingLost
<1>4. CASE wpc \in {"select", "commit"}
  <2>1. PICK u : u = log[pos].user
    OBVIOUS
  <2>2. pos \in 1..Len(log) /\ log[pos] \in Message
    <3>1. log \in Seq(Message) /\ pos \in Nat /\ Len(log) \in Nat
      BY DEF Sound, Inv, TypeOK
    <3>2. pos >= 1 /\ pos <= Len(log)
      BY <1>4, <3>1 DEF Sound, Inv, Positions, Busy
    <3> QED
      BY <3>1, <3>2
  <2>3. u \in Users
    BY <2>1, <2>2 DEF Message
  <2>4. pos \in Uncommitted(u)
    BY <1>4, <2>1, <2>3 DEF Sound, AheadIs, Busy
  <2>5. StoredSeen[u] > 0
    <3>1. Done(pos) /\ pos \notin skipped
      BY <1>4, <2>2, <2>4 DEF Sound, Inv, Covered, Uncommitted
    <3>2. PICK r \in rows : r.offset = pos
      BY <3>1 DEF Done, StoredOffset
    <3>3. r \in RowsOf(u)
      BY <2>1, <3>2 DEF RowsOf, Sound, Inv, Genuine, RowsAreRegistrations
    <3>4. Cardinality(RowsOf(u)) > 0
      BY <2>3, <3>3, OneLess DEF Sound, Counted
    <3> QED
      BY <2>3, <3>4, Seen
  <2>6. \A w \in Users : Ahead(w) = Uncommitted(w) \ {pos} /\ Ahead(w)' = Uncommitted(w)
    <3>1. \A w \in Users : Ahead(w)' = Uncommitted(w)'
      BY <1>1 DEF Sound, AheadIs
    <3>2. \A w \in Users : Uncommitted(w)' = Uncommitted(w)
      BY <1>1 DEF Uncommitted, Restart
    <3>3. \A w \in Users : Ahead(w) = Uncommitted(w) \ {pos}
      BY <1>4 DEF Sound, AheadIs
    <3> QED
      BY <3>1, <3>2, <3>3
  <2>7. \A w \in Users : w # u => pos \notin Uncommitted(w)
    BY <2>1 DEF Uncommitted
  <2>8. /\ Cardinality(Ahead(u)') = Cardinality(Ahead(u)) + 1
        /\ Cardinality(Ahead(u)) \in Nat
    <3>1. PICK A : A = Ahead(u)
      OBVIOUS
    <3>2. pos \notin A /\ Ahead(u)' = A \cup {pos}
      BY <2>3, <2>4, <2>6, <3>1
    <3> QED
      BY <2>3, <3>1, <3>2, OneMore DEF Sound, Counted
  <2>9. OwedSeen'[u] = OwedSeen[u] + 1
    <3>1. PICK n \in Nat : n = Cardinality(Queued(u))
      BY <2>3 DEF Sound, Counted
    <3>2. Cardinality(Queued(u)') = n
      BY <1>1, <2>3, <3>1
    <3>3. /\ OwedSeen[u] = Cardinality(Queued(u)) + Cardinality(Ahead(u))
          /\ OwedSeen'[u] = Cardinality(Queued(u)') + Cardinality(Ahead(u)')
      BY <2>3, Seen, SeenNext
    <3> QED
      BY <2>8, <3>1, <3>2, <3>3
  <2>10. \A w \in Users : w # u => OwedSeen'[w] = OwedSeen[w]
    <3>1. \A w \in Users : w # u => Ahead(w)' = Ahead(w)
      BY <2>6, <2>7
    <3> QED
      BY <1>1, <3>1, Seen, SeenNext
  <2>11. OwedSeen' = [OwedSeen EXCEPT ![u] = @ + 1]
    BY <2>3, <2>9, <2>10, Seen, SeenNext, CountUp
  <2>12. Promise!Repeat(u)
    BY <1>1, <1>2, <2>5, <2>11 DEF Promise!Repeat
  <2> QED
    BY <2>3, <2>12
<1> QED
  BY <1>3, <1>4

-----------------------------------------------------------------------------
(***************************************************************************)
(* The promise is kept                                                     *)
(***************************************************************************)

\* Every step of the threads, the producer, the broker and the writer is a
\* step of the promise, or none at all.
LEMMA StepKeepsPromise ==
  Sound /\ Sound' /\ [Next]_vars => [Promise!Next]_(Promise!vars)
<1> SUFFICES ASSUME Sound, Sound', [Next]_vars
             PROVE  Promise!Next \/ UNCHANGED Promise!vars
  OBVIOUS
<1>1. ASSUME NEW h \in Handlers, NEW u \in Users, Reject(h, u) \/ Accept(h, u)
      PROVE  Promise!Next
  BY <1>1, RejectRefuses, AcceptAccepts DEF Promise!Next
<1>2. ASSUME NEW h \in Handlers, Handler(h)
      PROVE  Promise!Next \/ UNCHANGED Promise!vars
  BY <1>2, LockIsUnseen, ProduceQueues, ReplyTells DEF Handler, Promise!Next
<1>3. CASE AuthCrash
  BY <1>3, AuthCrashBreaks DEF Promise!Next
<1>4. ASSUME NEW m \in buffer, Deliver(m) \/ AckLost(m) \/ Expire(m)
      PROVE  Promise!Next \/ UNCHANGED Promise!vars
  BY <1>4, DeliverIsUnseen, AckLostRepeats, ExpireBreaks DEF Promise!Next
<1>5. CASE Writer
  <2>1. CASE Start
    BY <2>1, StartSkips DEF Promise!Next
  <2>2. CASE Stop \/ Poll \/ InsertRefused \/ SelectId \/ Commit
    BY <2>2, WriterIsUnseen
  <2>3. CASE Insert \/ InsertUnanswered
    BY <2>3, InsertStores, InsertUnansweredStores DEF Promise!Next
  <2>4. CASE CommitUnanswered \/ WriterDies
    BY <2>4, CommitUnansweredBreaks, WriterDiesRepeats DEF Promise!Next
  <2> QED
    BY <1>5, <2>1, <2>2, <2>3, <2>4 DEF Writer
<1>6. CASE UNCHANGED vars
  <2>1. UNCHANGED <<hpc, hreq, rows, answers, lost, log, skipped, committed, wpc, pos,
                    buffer, posted, faults>>
    BY <1>6 DEF vars, handlerVars, queueVars, writerVars, tableVars
  <2> QED
    BY <2>1, HandlersLookSame, TablesLookSame, AnswersLookSame, LossesLookSame,
       LogLooksSame, OwedLooksSame DEF Promise!vars
<1> QED
  BY <1>1, <1>2, <1>3, <1>4, <1>5, <1>6 DEF Next, Client, Broker

\* Initially nothing is pending, owed or stored.
LEMMA StartsAsPromised == Init => Promise!Init
<1> SUFFICES ASSUME Init PROVE Promise!Init
  OBVIOUS
<1>1. \A u \in Users : /\ Pending(u) = {} /\ Queued(u) = {} /\ Ahead(u) = {}
                       /\ RowsOf(u) = {}
  BY DEF Init, Pending, Queued, Ahead, RowsOf
<1>2. \A u \in Users : /\ PendingSeen[u] = 0 /\ OwedSeen[u] = 0 /\ StoredSeen[u] = 0
  <2>1. Cardinality({}) = 0 /\ 0 + 0 = 0
    BY FS_EmptySet
  <2> QED
    BY <1>1, <2>1, Seen
<1>3. /\ PendingSeen = [u \in Users |-> 0] /\ OwedSeen = [u \in Users |-> 0]
      /\ StoredSeen = [u \in Users |-> 0]
  BY <1>2, Seen
<1>4. ToldSeen = {} /\ LostSeen = {}
  BY DEF Init, ToldSeen, LostSeen
<1> QED
  BY <1>3, <1>4 DEF Init, Promise!Init, Promise!Zero

\* Mutex, local queue, log, offsets, crashes and restarts together implement
\* the promise of POST /user: an accepted profile is owed one row, is repeated
\* by a fault only, and is stored or lost in public.
THEOREM RegistrationKeepsPromise == Spec => ImplementsPromise
  BY StartsAsPromised, StepKeepsPromise, Soundness, PTL
     DEF Spec, ImplementsPromise, Promise!Spec

\* Each step of the promise keeps its bound.
LEMMA PromiseIsBounded ==
  ASSUME Sound, Sound', Bounded, [Promise!Next]_(Promise!vars)
  PROVE  Bounded'
<1> SUFFICES ASSUME NEW u \in Users
             PROVE  PendingSeen'[u] + OwedSeen'[u] + StoredSeen'[u] <= posted'[u] + faults'
  BY SeenNext DEF Bounded, Sound, Counted
<1>a. /\ PendingSeen[u] \in Nat /\ OwedSeen[u] \in Nat /\ StoredSeen[u] \in Nat
      /\ PendingSeen'[u] \in Nat /\ OwedSeen'[u] \in Nat /\ StoredSeen'[u] \in Nat
      /\ PendingSeen[u] + OwedSeen[u] + StoredSeen[u] <= posted[u] + faults
  BY Seen, SeenNext DEF Bounded, Sound, Counted
<1>b. posted[u] \in Nat /\ faults \in Nat
  BY DEF Sound, Inv, TypeOK
<1>c. \A w \in Users : posted[w] \in Nat /\ posted = [v \in Users |-> posted[v]]
  BY DEF Sound, Inv, TypeOK
<1>1. ASSUME NEW w \in Users, Promise!Accept(w) \/ Promise!Refuse(w)
      PROVE  PendingSeen'[u] + OwedSeen'[u] + StoredSeen'[u] <= posted'[u] + faults'
  BY <1>1, <1>a, <1>b, <1>c, Seen DEF Promise!Accept, Promise!Refuse
<1>2. ASSUME NEW w \in Users, Promise!Queue(w) \/ Promise!Store(w)
      PROVE  PendingSeen'[u] + OwedSeen'[u] + StoredSeen'[u] <= posted'[u] + faults'
  BY <1>2, <1>a, <1>b, Seen DEF Promise!Queue, Promise!Store
<1>3. ASSUME NEW w \in Users, Promise!StoreUnnoticed(w) \/ Promise!Repeat(w)
      PROVE  PendingSeen'[u] + OwedSeen'[u] + StoredSeen'[u] <= posted'[u] + faults'
  BY <1>3, <1>a, <1>b, Seen DEF Promise!StoreUnnoticed, Promise!Repeat
<1>4. CASE Promise!Break \/ Promise!Skip
  BY <1>4, <1>a, <1>b, Seen DEF Promise!Break, Promise!Skip, Promise!Lose
<1>5. CASE UNCHANGED Promise!vars \/ \E w \in Users : Promise!Tell(w)
  BY <1>5, <1>a, <1>b DEF Promise!vars, Promise!Tell
<1> QED
  BY <1>1, <1>2, <1>3, <1>4, <1>5 DEF Promise!Next

\* However requests, faults and restarts interleave, a profile has at most one
\* row for each time it was posted and one more for each fault.
THEOREM DuplicatesAreBounded == Spec => []DuplicatesBounded
<1>1. Init => Bounded
  <2> SUFFICES ASSUME Init PROVE Bounded
    OBVIOUS
  <2>1. Promise!Init
    BY StartsAsPromised
  <2> QED
    BY <2>1 DEF Promise!Init, Promise!Zero, Bounded
<1>2. Sound /\ Sound' /\ Bounded /\ [Next]_vars => Bounded'
  BY StepKeepsPromise, PromiseIsBounded
<1>3. Spec => []Bounded
  BY <1>1, <1>2, Soundness, PTL DEF Spec
<1>4. Sound /\ Bounded => DuplicatesBounded
  <2> SUFFICES ASSUME Sound, Bounded, NEW u \in Users
               PROVE  Cardinality(RowsOf(u)) <= posted[u] + faults
    BY DEF DuplicatesBounded, RowsOf
  <2>1. posted[u] \in Nat /\ faults \in Nat
    BY DEF Sound, Inv, TypeOK
  <2> QED
    BY <2>1, Seen DEF Bounded
<1> QED
  BY <1>3, <1>4, Soundness, PTL
=============================================================================
