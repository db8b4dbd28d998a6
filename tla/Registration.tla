---------------------------- MODULE Registration ----------------------------
(***************************************************************************)
(* How a POST /user request becomes a row of a User table.                  *)
(*                                                                         *)
(*   UserHandler (auth_service, many threads)  checks the profile and calls *)
(*   User::send_to_queue                       which, under a static mutex, *)
(*   cppkafka::Producer                        puts it in a local queue and *)
(*   one Kafka partition                       keeps it until               *)
(*   auth_writer (auth_kafka_service)          polls it, inserts it with    *)
(*   User::save_to_mysql, one of the shards,   and commits its offset.      *)
(*                                                                         *)
(* The broker and the client library are external: they are modelled from   *)
(* the configuration the code gives them ("acks" = "all" and nothing else   *)
(* for the producer; "enable.auto.commit" = false and no                    *)
(* "auto.offset.reset" for the consumer).                                   *)
(***************************************************************************)
EXTENDS Integers, Sequences, FiniteSets

CONSTANTS
  Users,       \* the profiles clients POST (a profile may be posted again)
  None,        \* no profile
  Valid,       \* the profiles check_name and check_email let through
  Sendable,    \* the profiles whose message the Kafka client ever takes
  Storable,    \* the profiles whose fields fit the columns of table User
  Shards,      \* the database nodes behind ProxySQL
  ShardOf,     \* get_sharding_hint: the shard of a profile's login + password
  Handlers,    \* the threads of auth_service's HTTPServer
  QueueLimit,  \* capacity of the producer's local queue
  MaxPosts,    \* bound: how often one profile is posted
  MaxFaults,   \* bound: crashes, lost acknowledgements, expired messages
  MaxStops     \* bound: how often SIGINT stops the writer

NoOffset == -1   \* the consumer group has no committed offset

ASSUME UserAssumption == /\ None \notin Users \cup Handlers
                         /\ Valid \subseteq Users
                         /\ Sendable \subseteq Users
                         /\ Storable \subseteq Users
ASSUME ShardAssumption == ShardOf \in [Users -> Shards]
ASSUME HandlerAssumption == IsFiniteSet(Handlers)   \* the server has a thread pool
ASSUME QueueAssumption == QueueLimit \in Nat \ {0}
ASSUME BoundAssumption == /\ MaxPosts \in Nat
                          /\ MaxFaults \in Nat
                          /\ MaxStops \in Nat

VARIABLES
  hpc,        \* hpc[h]: where handler thread h is in handleRequest
  hreq,       \* hreq[h]: the profile of the request it serves
  mtx,        \* the thread holding send_to_queue's mutex, or None
  messageKey, \* send_to_queue's static message_key
  buffer,     \* the producer's local queue, a set of keyed messages
  answers,    \* what clients were told: pairs of a profile and a status
  posted,     \* posted[u]: how often profile u was posted
  log,        \* the topic's only partition
  committed,  \* the group's committed offset: how many messages are done
  wpc,        \* where auth_writer is in its loop
  pos,        \* how many messages the consumer has moved past
  skipped,    \* history: offsets a start without committed offset jumped over
  lost,       \* history: profiles that left the local queue undelivered
  rows,       \* the User tables of all shards
  lastId,     \* lastId[s]: the last AUTO_INCREMENT value shard s handed out
  faults,     \* how many faults have happened
  stops       \* how often the writer was stopped by SIGINT

handlerVars == <<hpc, hreq, mtx, messageKey>>
queueVars   == <<buffer, log, lost>>
writerVars  == <<wpc, pos, committed, skipped>>
tableVars   == <<rows, lastId>>
vars == <<handlerVars, queueVars, writerVars, tableVars,
          answers, posted, faults, stops>>

HandlerSteps == {"idle", "lock", "produce", "reply"}
WriterSteps  == {"down", "poll", "insert", "select", "commit"}
Statuses     == {200, 404}

Message == [key : Nat, user : Users]

\* A row of a User table. `offset` is history: the message it was made from.
Row == [shard : Shards, id : Nat, user : Users, offset : Nat]

TypeOK ==
  /\ hpc \in [Handlers -> HandlerSteps]
  /\ hreq \in [Handlers -> Users \cup {None}]
  /\ \A h \in Handlers : hpc[h] = "idle" <=> hreq[h] = None
  /\ mtx \in Handlers \cup {None}
  /\ messageKey \in Nat
  /\ buffer \subseteq Message
  /\ answers \subseteq Users \X Statuses
  /\ posted \in [Users -> Nat]
  /\ log \in Seq(Message)
  /\ committed \in Nat \cup {NoOffset}
  /\ wpc \in WriterSteps
  /\ pos \in Nat
  /\ skipped \subseteq Nat
  /\ lost \subseteq Users
  /\ rows \subseteq Row
  /\ lastId \in [Shards -> Nat]
  /\ faults \in 0..MaxFaults
  /\ stops \in 0..MaxStops

Init ==
  /\ hpc = [h \in Handlers |-> "idle"]
  /\ hreq = [h \in Handlers |-> None]
  /\ mtx = None
  /\ messageKey = 0
  /\ buffer = {}
  /\ answers = {}
  /\ posted = [u \in Users |-> 0]
  /\ log = <<>>
  /\ committed = NoOffset
  /\ wpc = "down"
  /\ pos = 0
  /\ skipped = {}
  /\ lost = {}
  /\ rows = {}
  /\ lastId = [s \in Shards |-> 0]
  /\ faults = 0
  /\ stops = 0

Fault == faults < MaxFaults /\ faults' = faults + 1

-----------------------------------------------------------------------------
(***************************************************************************)
(* Variants with a plausible bug. None is part of the specification: each  *)
(* shows that one of the properties below can fail.                        *)
(***************************************************************************)

\* The next request of a thread still sees the last one's profile.
ReplyKeepsRequest(h) ==
  /\ hpc[h] = "reply"
  /\ answers' = answers \cup {<<hreq[h], 200>>}
  /\ hpc' = [hpc EXCEPT ![h] = "idle"]
  /\ UNCHANGED <<hreq, mtx, messageKey, queueVars, writerVars, tableVars,
                 posted, faults, stops>>

\* produce is tried once, and its exception swallowed.
ProduceOnce(h) ==
  /\ hpc[h] = "produce"
  /\ buffer' = IF hreq[h] \in Sendable /\ Cardinality(buffer) < QueueLimit
               THEN buffer \cup {[key |-> messageKey, user |-> hreq[h]]}
               ELSE buffer
  /\ mtx' = None
  /\ hpc' = [hpc EXCEPT ![h] = "reply"]
  /\ UNCHANGED <<hreq, messageKey, log, lost, writerVars, tableVars, answers,
                 posted, faults, stops>>

\* mtx.lock() without a guard: nobody unlocks.
ProduceKeepsMutex(h) ==
  /\ hpc[h] = "produce"
  /\ hreq[h] \in Sendable
  /\ Cardinality(buffer) < QueueLimit
  /\ buffer' = buffer \cup {[key |-> messageKey, user |-> hreq[h]]}
  /\ hpc' = [hpc EXCEPT ![h] = "reply"]
  /\ UNCHANGED <<hreq, mtx, messageKey, log, lost, writerVars, tableVars,
                 answers, posted, faults, stops>>

\* The writer always starts at the beginning of the log.
StartFromBeginning ==
  /\ wpc = "down"
  /\ wpc' = "poll"
  /\ pos' = 0
  /\ UNCHANGED <<handlerVars, queueVars, committed, skipped, tableVars,
                 answers, posted, faults, stops>>

\* "enable.auto.commit": the offset is committed when the message is polled.
PollCommits ==
  /\ wpc = "poll"
  /\ pos < Len(log)
  /\ pos' = pos + 1
  /\ committed' = pos + 1
  /\ wpc' = "insert"
  /\ UNCHANGED <<handlerVars, queueVars, skipped, tableVars, answers, posted,
                 faults, stops>>

\* The exception of a refused INSERT is caught inside the loop.
InsertRefusedSkips ==
  /\ wpc = "insert"
  /\ log[pos].user \notin Storable
  /\ wpc' = "poll"
  /\ UNCHANGED <<handlerVars, queueVars, pos, committed, skipped, tableVars,
                 answers, posted, faults, stops>>

\* A refused INSERT is tried again, for ever.
InsertRefusedRetries ==
  /\ wpc = "insert"
  /\ log[pos].user \notin Storable
  /\ UNCHANGED vars

\* The committed offset is that of the message, not of the next one.
CommitOffByOne ==
  /\ wpc = "commit"
  /\ committed' = pos - 1
  /\ wpc' = "poll"
  /\ UNCHANGED <<handlerVars, queueVars, pos, skipped, tableVars, answers,
                 posted, faults, stops>>

\* The checks of the profile are left out.
AcceptUnchecked(h, u) ==
  /\ hpc[h] = "idle"
  /\ posted[u] < MaxPosts
  /\ posted' = [posted EXCEPT ![u] = @ + 1]
  /\ hpc' = [hpc EXCEPT ![h] = "lock"]
  /\ hreq' = [hreq EXCEPT ![h] = u]
  /\ UNCHANGED <<mtx, messageKey, queueVars, writerVars, tableVars, answers,
                 faults, stops>>

-----------------------------------------------------------------------------
(***************************************************************************)
(* auth_service                                                            *)
(***************************************************************************)

Arrives(h, u) ==
  /\ hpc[h] = "idle"
  /\ posted[u] < MaxPosts
  /\ posted' = [posted EXCEPT ![u] = @ + 1]

\* A request without all six fields, or whose names or e-mail address fail
\* their check, is answered 404 and goes no further.
Reject(h, u) ==
  /\ u \notin Valid
  /\ Arrives(h, u)
  /\ answers' = answers \cup {<<u, 404>>}
  /\ UNCHANGED <<handlerVars, queueVars, writerVars, tableVars, faults, stops>>

Accept(h, u) ==
  /\ u \in Valid
  /\ Arrives(h, u)
  /\ hpc' = [hpc EXCEPT ![h] = "lock"]
  /\ hreq' = [hreq EXCEPT ![h] = u]
  /\ UNCHANGED <<mtx, messageKey, queueVars, writerVars, tableVars, answers,
                 faults, stops>>

\* send_to_queue takes the mutex; the key of the message is fixed under it.
Lock(h) ==
  /\ hpc[h] = "lock"
  /\ mtx = None
  /\ mtx' = h
  /\ messageKey' = messageKey + 1
  /\ hpc' = [hpc EXCEPT ![h] = "produce"]
  /\ UNCHANGED <<hreq, queueVars, writerVars, tableVars, answers, posted,
                 faults, stops>>

\* What produce throws is swallowed, whatever it is, and the call repeated with
\* the mutex held until it does not throw. It throws while the local queue is
\* full, and always for a message the client never takes: one longer than its
\* message.max.bytes (1,000,000), which no check of the handler keeps out. A
\* thread with such a profile stays here, holding the mutex, for good.
Produce(h) ==
  /\ hpc[h] = "produce"
  /\ hreq[h] \in Sendable
  /\ Cardinality(buffer) < QueueLimit
  /\ buffer' = buffer \cup {[key |-> messageKey, user |-> hreq[h]]}
  /\ mtx' = None
  /\ hpc' = [hpc EXCEPT ![h] = "reply"]
  /\ UNCHANGED <<hreq, messageKey, log, lost, writerVars, tableVars, answers, posted,
                 faults, stops>>

\* The client is told 200: the profile is in the local queue.
Reply(h) ==
  /\ hpc[h] = "reply"
  /\ answers' = answers \cup {<<hreq[h], 200>>}
  /\ hpc' = [hpc EXCEPT ![h] = "idle"]
  /\ hreq' = [hreq EXCEPT ![h] = None]
  /\ UNCHANGED <<mtx, messageKey, queueVars, writerVars, tableVars, posted,
                 faults, stops>>

\* The process dies and is started again: nothing flushes the local queue,
\* and the statics of send_to_queue start over.
AuthCrash ==
  /\ Fault
  /\ hpc' = [h \in Handlers |-> "idle"]
  /\ hreq' = [h \in Handlers |-> None]
  /\ mtx' = None
  /\ messageKey' = 0
  /\ buffer' = {}
  /\ lost' = lost \cup {m.user : m \in buffer}
  /\ UNCHANGED <<log, writerVars, tableVars, answers, posted, stops>>

-----------------------------------------------------------------------------
(***************************************************************************)
(* The producer's background thread and the broker (external)              *)
(***************************************************************************)

\* Several requests may be in flight, so messages may reach the log in any
\* order.
Deliver(m) ==
  /\ log' = Append(log, m)
  /\ buffer' = buffer \ {m}
  /\ UNCHANGED <<handlerVars, lost, writerVars, tableVars, answers, posted,
                 faults, stops>>

\* The broker appends the message but its acknowledgement is lost: the
\* producer, which is not idempotent, will send the message again.
AckLost(m) ==
  /\ Fault
  /\ log' = Append(log, m)
  /\ UNCHANGED <<handlerVars, buffer, lost, writerVars, tableVars, answers,
                 posted, stops>>

\* The message is not delivered within message.timeout.ms: it is dropped, and
\* no delivery callback is set that could tell.
Expire(m) ==
  /\ Fault
  /\ buffer' = buffer \ {m}
  /\ lost' = lost \cup {m.user}
  /\ UNCHANGED <<handlerVars, log, writerVars, tableVars, answers, posted,
                 stops>>

-----------------------------------------------------------------------------
(***************************************************************************)
(* auth_writer                                                             *)
(***************************************************************************)

\* The writer starts and gets the partition assigned. Without a committed
\* offset librdkafka's default auto.offset.reset puts it at the log's end.
Start ==
  /\ wpc = "down"
  /\ wpc' = "poll"
  /\ \/ /\ committed = NoOffset
        /\ pos' = Len(log)
        /\ skipped' = skipped \cup 1..Len(log)
     \/ /\ committed # NoOffset
        /\ pos' = committed
        /\ UNCHANGED skipped
  /\ UNCHANGED <<handlerVars, queueVars, committed, tableVars, answers, posted,
                 faults, stops>>

\* SIGINT clears `running`, which the loop looks at between two messages.
Stop ==
  /\ wpc = "poll"
  /\ stops < MaxStops
  /\ stops' = stops + 1
  /\ wpc' = "down"
  /\ UNCHANGED <<handlerVars, queueVars, pos, committed, skipped, tableVars,
                 answers, posted, faults>>

Poll ==
  /\ wpc = "poll"
  /\ pos < Len(log)
  /\ pos' = pos + 1
  /\ wpc' = "insert"
  /\ UNCHANGED <<handlerVars, queueVars, committed, skipped, tableVars,
                 answers, posted, faults, stops>>

\* Variant with a plausible bug: the hint is computed once, for the first profile.
StoreRowFirstHint ==
  LET u == log[pos].user
      s == ShardOf[log[1].user]
  IN  /\ u \in Storable
      /\ lastId' = [lastId EXCEPT ![s] = @ + 1]
      /\ rows' = rows \cup {[shard |-> s, id |-> lastId[s] + 1,
                             user |-> u, offset |-> pos]}

\* The INSERT of save_to_mysql, sent with the hint of the profile's shard.
StoreRow ==
  LET u == log[pos].user
      s == ShardOf[u]
  IN  /\ u \in Storable
      /\ lastId' = [lastId EXCEPT ![s] = @ + 1]
      /\ rows' = rows \cup {[shard |-> s, id |-> lastId[s] + 1,
                             user |-> u, offset |-> pos]}

Insert ==
  /\ wpc = "insert"
  /\ StoreRow
  /\ wpc' = "select"
  /\ UNCHANGED <<handlerVars, queueVars, pos, committed, skipped, answers,
                 posted, faults, stops>>

\* The server refuses a row that does not fit (STRICT_TRANS_TABLES): the
\* StatementException leaves the loop and ends main.
InsertRefused ==
  /\ wpc = "insert"
  /\ log[pos].user \notin Storable
  /\ wpc' = "down"
  /\ UNCHANGED <<handlerVars, queueVars, pos, committed, skipped, tableVars,
                 answers, posted, faults, stops>>

\* The row is inserted but the connection breaks before the reply.
InsertUnanswered ==
  /\ wpc = "insert"
  /\ Fault
  /\ StoreRow
  /\ wpc' = "down"
  /\ UNCHANGED <<handlerVars, queueVars, pos, committed, skipped, answers,
                 posted, stops>>

\* SELECT LAST_INSERT_ID(): its result is only printed.
SelectId ==
  /\ wpc = "select"
  /\ wpc' = "commit"
  /\ UNCHANGED <<handlerVars, queueVars, pos, committed, skipped, tableVars,
                 answers, posted, faults, stops>>

Commit ==
  /\ wpc = "commit"
  /\ committed' = pos
  /\ wpc' = "poll"
  /\ UNCHANGED <<handlerVars, queueVars, pos, skipped, tableVars, answers,
                 posted, faults, stops>>

\* The broker stores the offset but the commit call throws.
CommitUnanswered ==
  /\ wpc = "commit"
  /\ Fault
  /\ committed' = pos
  /\ wpc' = "down"
  /\ UNCHANGED <<handlerVars, queueVars, pos, skipped, tableVars, answers,
                 posted, stops>>

\* The writer is killed, or the call it is in throws before having an effect:
\* main catches every exception outside the loop and returns.
WriterDies ==
  /\ wpc # "down"
  /\ Fault
  /\ wpc' = "down"
  /\ UNCHANGED <<handlerVars, queueVars, pos, committed, skipped, tableVars,
                 answers, posted, stops>>

-----------------------------------------------------------------------------
Handler(h) == Lock(h) \/ Produce(h) \/ Reply(h)

Client == \E h \in Handlers, u \in Users : Reject(h, u) \/ Accept(h, u)

Broker == \E m \in buffer : Deliver(m) \/ AckLost(m) \/ Expire(m)

Writer ==
  \/ Start \/ Stop \/ Poll
  \/ Insert \/ InsertRefused \/ InsertUnanswered
  \/ SelectId
  \/ Commit \/ CommitUnanswered
  \/ WriterDies

Next ==
  \/ Client
  \/ \E h \in Handlers : Handler(h)
  \/ AuthCrash
  \/ Broker
  \/ Writer

Spec == Init /\ [][Next]_vars

(***************************************************************************)
(* Fairness: a running thread takes its next step (the mutex is free        *)
(* whenever nobody holds it), the producer's thread drains the local queue, *)
(* and a running writer runs. Clients, crashes, SIGINT and a restart of the *)
(* writer, for which docker-compose.yml has no policy, are never forced.    *)
(***************************************************************************)
Drain == \E m \in buffer : Deliver(m)

WriterRuns == Poll \/ Insert \/ InsertRefused \/ SelectId \/ Commit

Fairness ==
  /\ \A h \in Handlers : WF_vars(Handler(h))
  /\ WF_vars(Drain)
  /\ WF_vars(WriterRuns)

FairSpec == Spec /\ Fairness

\* The writer container is started once, with the others: for runs in which
\* it never dies.
StartedSpec == FairSpec /\ WF_vars(Start)
-----------------------------------------------------------------------------
(***************************************************************************)
(* Correctness                                                             *)
(***************************************************************************)
Told(u, status) == <<u, status>> \in answers

StoredUser(u)   == \E r \in rows : r.user = u
StoredOffset(o) == \E r \in rows : r.offset = o

\* Commit only after the insert: whatever the committed offset covers is a row
\* in some shard, across every crash, lost reply and restart of the writer.
\* Only what a start without a committed offset jumped over is excepted.
AtLeastOnce ==
  committed # NoOffset => \A o \in 1..committed : o \in skipped \/ StoredOffset(o)

\* The writer never passes over a message it failed to store (a refused
\* INSERT ends main instead of moving on): when a message is a row, so is every
\* earlier one of the log.
NoHoles ==
  \A r \in rows : \A o \in 1..r.offset : o \in skipped \/ StoredOffset(o)

\* Queue, crashes and redelivery never corrupt a registration: every row holds
\* a profile that passed the handler's checks, as its message says, and sits in
\* the shard in which User::auth will look for that login and password.
RowsAreRegistrations ==
  \A r \in rows :
    /\ r.offset \in 1..Len(log)
    /\ r.user = log[r.offset].user
    /\ r.user \in Valid
    /\ posted[r.user] > 0
    /\ r.shard = ShardOf[r.user]

\* A profile has at most one row for each time it was posted and one more for
\* each fault: a stop by SIGINT and an ordinary restart duplicate nothing.
DuplicatesBounded ==
  \A u \in Users : Cardinality({r \in rows : r.user = u}) <= posted[u] + faults

\* What a client was told 200 for is, once queue and writer are at rest, a row,
\* or was lost in one of the two ways that exist: dropped from the local queue
\* or jumped over by the writer's first start.
QuietMeansStored ==
  (buffer = {} /\ wpc = "poll" /\ pos = Len(log)) =>
    \A u \in Users : Told(u, 200) =>
      \/ StoredUser(u)
      \/ u \in lost
      \/ \E o \in skipped : log[o].user = u

\* The committed offset never moves back, whatever the writer rereads.
CommitsOnlyForward == [][committed' >= committed]_committed

\* A thread spins around produce with a profile the client never takes.
Jammed == \E h \in Handlers : hpc[h] = "produce" /\ hreq[h] \notin Sendable

\* Although the loop around produce spins with the mutex held, every accepted
\* request is answered (or the process dies), except for one case: a profile
\* whose message the client never takes. Its thread spins for ever, and every
\* thread with a request, then or later, waits for the mutex it holds: from
\* then on no POST is answered until auth_service is killed.
EveryPostAnswered ==
  \A h \in Handlers : hpc[h] # "idle" ~> (hpc[h] = "idle" \/ Jammed)

\* A message ahead of a running writer is stored, or the writer goes down.
MessageOffsets == 1..(MaxPosts * Cardinality(Valid \cap Sendable) + MaxFaults)

WriterProgress ==
  \A o \in MessageOffsets :
    (wpc # "down" /\ pos < o /\ o <= Len(log)) ~> (StoredOffset(o) \/ wpc = "down")

-----------------------------------------------------------------------------
(***************************************************************************)
(* What the service promises, apart from how it is done                    *)
(***************************************************************************)

\* How many messages of the log the writer is done with, or will be taken to
\* be done with when it starts again.
Position ==
  CASE wpc = "insert" -> pos - 1
    [] wpc = "down"   -> IF committed = NoOffset THEN 0 ELSE committed
    [] OTHER          -> pos

Pending(u) == {h \in Handlers : hpc[h] \in {"lock", "produce"} /\ hreq[h] = u}
Queued(u)  == {m \in buffer : m.user = u}
Ahead(u)   == {o \in 1..Len(log) \ skipped : o > Position /\ log[o].user = u}
RowsOf(u)  == {r \in rows : r.user = u}

PendingSeen == [u \in Users |-> Cardinality(Pending(u))]
OwedSeen    == [u \in Users |-> Cardinality(Queued(u)) + Cardinality(Ahead(u))]
StoredSeen  == [u \in Users |-> Cardinality(RowsOf(u))]
ToldSeen    == {u \in Users : <<u, 200>> \in answers}
LostSeen    == lost \cup {log[o].user : o \in skipped}

Promise == INSTANCE RegistrationPromise WITH
  pending <- PendingSeen, owed <- OwedSeen, stored <- StoredSeen,
  told <- ToldSeen, lost <- LostSeen

RowOf(s, i)  == CHOOSE r \in rows : r.shard = s /\ r.id = i
TableSeen(s) == [i \in 1..lastId[s] |-> RowOf(s, i).user]
TablesSeen   == [s \in Shards |-> TableSeen(s)]

Tables == INSTANCE UserTables WITH table <- TablesSeen

\* Threads, mutex, local queue, log, offsets and restarts together do no more
\* and no less than the promise: an accepted profile is owed one row, a copy
\* appears by a fault only, and what is no longer owed is a row or a known loss.
ImplementsPromise == Promise!Spec

\* The writer, whatever it repeats, only ever appends rows, numbered without
\* gaps, to the table where the profile belongs: what readers rely on.
ImplementsTables == Tables!Spec

-----------------------------------------------------------------------------
(***************************************************************************)
(* What the API description promises and the code does not keep             *)
(***************************************************************************)

\* docs/apis/auth.yaml: POST /user adds a new user. Without any fault, a
\* profile answered 200 is sooner or later a row.
AcceptedIsStored == \A u \in Users : Told(u, 200) ~> StoredUser(u)
=============================================================================
