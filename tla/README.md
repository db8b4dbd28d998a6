# A TLA+ development of hl-mai

hl-mai is a small messenger: users register, find each other, make chats and
write messages. It is built from HTTP services in C++ (Poco), a Kafka topic, a
Redis cache and MariaDB shards behind ProxySQL. This directory models the part
of it in which several processes, threads and failures meet. It contains TLA+
modules, TLC configurations that check them on small instances, and proofs that
TLAPS checks for every instance. `PROJECT.json` lists the runs, the mutants of
the properties, the source lines each definition stands for, the hazards, and
where the code and its API description disagree.

## 1. The system

    client --HTTP--> auth_service ----produce----> Kafka (1 partition)
      |                 |    |                        |
      |                 |    +--get/put--> Redis      | poll, commit
      |                 |                             v
      |                 +--SELECT--> ProxySQL <--INSERT-- auth_writer
      |                                 |
      |                       3 shards, "-- sharding:N"
      |                                 ^
      +------HTTP--> messenger_service --+   (messenger_service asks
                                              auth_service who a request is from)

### Components

| component | source | state | operations | what makes it correct |
|---|---|---|---|---|
| **Registration** (`POST /user`) | `user_handler.h`, `User::send_to_queue` | one static producer and its local queue, a static mutex, a static message key; threads of the HTTP server | check the profile; lock; produce until it does not throw; answer 200 | what was answered 200 becomes a row; the spinning loop blocks nobody for ever (but see section 5) |
| **auth_writer** | `auth_kafka_service/main.cpp`, `User::save_to_mysql` | position in the partition, committed offset (in Kafka), `running` | poll, insert, read the id, commit; ends on any exception and on SIGINT | at least once, no holes, bounded duplicates, commits never go back |
| **Reading users** (`GET /user`, `/auth`, `/search`) | `user_handler.h`, `User::read_by_id`, `auth`, `search` | per request: where the loop over the shards is | look into the cache, then shard after shard, fill the cache; one SELECT in the profile's shard; one statement over all shards | answers are rows; "not found" is true; one identity per user |
| **Redis cache** | `cache.cpp` | one object with one connection per process, made on first use; a global mutex around it; entries that live 60 s | get, put: one command and its reply with the mutex held | a call is atomic or fails; nobody reads another's reply; the cache agrees with the database in the end |
| **Credentials and sharding** | `helper.h`, `database.cpp`, `proxysql.cnf`, `basemod.py` | none | take login and password apart and put them together; hash, shard number, rule to host group | writer, `auth` and generator choose the same shard; both services see the same login and password, as far as they fit one line of Base64 |
| **Chats and members** | `chat_handler.h`, `chat.cpp`, `user_to_chat.cpp` | tables Chat and UserToChat | create (two transactions), addMember, searchByUserId, searchByChatId | the creator is a member; ids are the client's own; reads see what was confirmed |
| **Messages** | `message_handler.h`, `message.cpp` | table Message | post, list | as above |
| **Authentication of the messenger** | `authRequest`, `do_get` of both handlers | a connection per call; the threads and the backlog of `auth_service` | HTTP GET to `auth_service`, with a timeout | a request passes as the user whose credentials `auth_service` reads in it, and as nobody else; every call ends |
| **Answering** | `helper.h`, the handlers, the factories | whether a response was sent | choice of handler and branch; `createReponse` (200 .. 500); exceptions | every request is answered; the answer tells what was written |
| Servers, Config | `http_*.h`, `config.cpp` | none after the start | - | - |
| Data generator | `mariadb/data_generator` | none | fills the tables once | rows lie in the shard their hash says |
| Service, Order | `service.cpp`, `order.cpp` | - | not compiled (`CMakeLists.txt` names neither) | - |

The system has no tests. `docs/apis/auth.yaml`, `docs/apis/chats.yaml` and
`diagrams/db.md` say what is promised.

### What is hard here

* **Order of effects in different systems.** A registration crosses a local
  queue, a broker and a database. The row is inserted before the offset is
  committed, and both can succeed without the caller learning it.
* **Crashes and restarts.** `auth_service` loses its local queue when it dies;
  the writer rereads what it has not committed. Its container has no restart
  policy.
* **Unreliable delivery.** The producer is configured with `acks = all` and
  nothing else: it is not idempotent, it may reorder and duplicate, it drops what
  it cannot deliver in time, and no delivery report would tell.
* **A retry without an end.** The loop around `produce` retries after every
  exception, with the mutex held: for a while when the local queue is full, for
  ever when the client does not take the message at all, as one longer than
  `message.max.bytes` (1,000,000 bytes). No handler checks a length from above.
* **Reads that see every shard at another moment**, and a cache that is never
  told of an insert.
* **Ids that are unique in one shard only** and are used as identities.
* **Two transactions for one request** (a chat and its first member), and an id
  read back by a statement of its own.
* **Credentials that are cut.** `do_get` encodes `login:password` with a
  `Base64Encoder` that breaks its lines after 72 characters, and puts the result
  into a header: `auth_service` reads the first 54 bytes.
* **Exceptions** that one path swallows and another one does not, and a response
  that can be sent once and is sent twice.
* **One stream to Redis for all threads**, with replies that name no request, and
  without a timeout.
* **Two services with a pool of threads each**: threads of `auth_service` that
  spin in `POST /user` are missing for `/auth`, and an answer may come after its
  caller has given up.

The list with lines is under "hazards" of `PROJECT.json`.

## 2. The modules

| module | models | composed of |
|---|---|---|
| `Registration` | `POST /user`, producer, partition, `auth_writer`, the User tables | implements `RegistrationPromise` and `UserTables` |
| `RegistrationPromise` | abstract: what is owed to an accepted profile | - |
| `UserTables` | abstract: what readers may take the User tables for | - |
| `RegistrationProofs` | its inductive invariant and its safety | extends `Registration` |
| `RegistrationRefinement` | that it implements the promise and the tables, and bounds duplicates | extends `RegistrationProofs` |
| `UserDirectory` | `GET /user`, `/auth`, `/search` with a cache | takes its tables' steps from `UserTables`, and its cache as `AtomicCache` allows |
| `CacheConnection` | the Cache object, its stream and mutex, the wire to Redis | implements `AtomicCache` |
| `AtomicCache` | abstract: what a call of the cache does | - |
| `AuthCalls` | `authRequest` and `do_get` of the messenger against the threads of `auth_service` | between `UserDirectory` and `Messenger` |
| `Credentials` | hashes, shards, `login:password` | what `ShardOf` is elsewhere |
| `Answering` | branches, answers and exceptions of all three handlers | - |
| `Messenger` | both handlers of `messenger_service` and its three tables | - |
| `UserDirectoryProofs`, `CacheConnectionProofs`, `AuthCallsProofs`, `CredentialsProofs`, `AnsweringProofs`, `MessengerProofs` | theorems about the module they are named for | extend that module |
| `MC...` | instances for TLC | extend the module they instantiate |

How they fit together. `Registration` is shown to change the User tables as
`UserTables` says and in no other way, and `UserDirectory` reads tables that
change by `UserTables!Register` at any moment; so what holds there holds whatever
the queue, the writer and redelivery do. `CacheConnection` is shown to be an
`AtomicCache`; `UserDirectory` has its calls as single steps (`ReadCache`, `Put`)
that fail from the moment the connection breaks. The one behaviour of
`AtomicCache` it leaves out is the put that was under way when the connection
broke and takes effect later: afterwards every read of the cache fails until a
restart, so a late put can only matter to a restarted service, for at most 60
seconds, as any other entry. `AuthCalls` shows that `authRequest` comes to the id
of the user whose login and password `auth_service` reads in the very call, to
401 or to 500; it takes from `UserDirectory` that `auth` finds a user's one id,
and from `Credentials` that what is read is what the client sent, or the first
line of it. `Messenger` is served any user id and needs no more of `auth_service`
than that.

### Registration

| variable | in the code |
|---|---|
| `hpc`, `hreq` | a thread of the HTTP server in `handleRequest` / `send_to_queue`, and the `User` it works on |
| `mtx`, `messageKey` | the statics of `send_to_queue` (user.cpp:261, 268) |
| `buffer` | the local queue of the static producer, a set because its messages may be delivered in any order |
| `log`, `committed` | the topic's only partition and the offset of the consumer group. Offsets count from 1, so `committed` is the number of messages done with; `NoOffset` means that nothing was ever committed |
| `wpc`, `pos` | where `main` of the writer is, and how many messages it has moved past |
| `rows`, `lastId` | the User tables and their AUTO_INCREMENT counters |
| `answers`, `posted`, `lost`, `skipped` | history: what clients did and were told, what left the local queue undelivered, what a start without a committed offset jumped over |

One action stands for what happens between two points at which another process
can interfere: the checks of a profile (`Reject`, `Accept`), taking the mutex
(`Lock`), the successful call of `produce` with the release of the mutex
(`Produce`), the answer (`Reply`). A call of `produce` that throws changes nothing
and is retried, whatever it throws: while the local queue is full `Produce` is
not enabled, and for a profile outside `Sendable`, whose message the client never
takes, it never is. `Jammed` says that a thread is in the loop with such a profile. In the writer: `Start`, `Poll`, `Insert`, `SelectId`, `Commit`. Every
call that crosses the network may also fail before its effect (`WriterDies`),
after it (`InsertUnanswered`, `CommitUnanswered`), or because the server refuses
it (`InsertRefused`). `AuthCrash` loses the local queue.

The broker and librdkafka are not in the repository. `Deliver`, `AckLost` and
`Expire` are what the configuration in the code lets them do. `Start` takes
librdkafka's default `auto.offset.reset = largest`, because the code sets none
(main.cpp:21-26).

### UserDirectory

Rows are never changed or deleted, so `table[s]` is a sequence and an id is a
position. `cache` is Redis, `linked` is the connection that the first
`Cache::get()` of a process makes: none yet, open, or broken for good. A thread
looks into the cache (`ReadCache`), reads one shard per step (`Scan`), puts the
row into the cache (`Fill`; `FillFails` is the exception that makes 404 of a row
that was found) and answers. `CheckIdentity` is the SELECT of `auth`
in the shard of the login and password. `SearchShard` is one round of `search`'s
loop; `drained` is the state of the only `Statement`, which that loop shares over
all shards. `before` and `failed` are history: what the tables held when the
request came in, and whether an outage hit it.

### Messenger

All three tables are in the first shard. Each SQL statement is an action. A
create request is `InsertChat`, `SelectChatId`, `InsertMember`; other requests
and other threads run between them. `session` is what `LAST_INSERT_ID()` returns
in the session a save holds. A statement may fail without effect
(`StatementFails`) or after its effect (`InsertUnanswered`), and the service may
be killed (`Crash`). `FailureAnswer` is what each path answers then. Reads
swallow the exception, writes rethrow it. `known` and `confirmed` are history:
what had been confirmed to any client when a request came in, and by now: chats
(by their creation), memberships (by a creation or `addMember`) and messages.
`ReadChats` sends an uninitialized `creator_id`: any value, `Garbage` stands for
those that are no user's id.

### RegistrationPromise and UserTables

`RegistrationPromise` counts, for each profile, requests being worked on
(`pending`), copies on their way (`owed`) and rows (`stored`). It knows nothing of
threads, offsets and shards. In `Registration` a copy on its way is a message of
the local queue, or one of the log that the writer is not done with; for a writer
that is down, `Position` is where it would start again. So a lost commit shows as
`StoreUnnoticed` or `Break`, a retry of the producer as `Repeat`, a first start
that jumps ahead as `Skip`. `UserTables` has the rows of a shard in the order of
their ids. What each variable of the two is to `Registration` has a name there
(`PendingSeen`, `OwedSeen`, `StoredSeen`, `ToldSeen`, `LostSeen`, `TablesSeen`), which
the proofs refer to.

### CacheConnection

| variable | in the code |
|---|---|
| `link`, `maker` | `_stream`, and the thread inside the constructor of `static Cache instance` |
| `mtx` | `_mtx` |
| `at`, `cmd`, `result` | a thread in `Cache::get` or `put`, its command, what `execute` returned |
| `wire`, `replies` | both directions of the connection (external) |
| `store` | Redis |

`Send` and `Receive` are the two halves of `rediscpp::execute`, `Throw` its
exception, after which the guard unlocks. The constructor may throw (`MakeThrows`),
and then the next call makes the object. `CallsSeen` and `LateSeen` say what
`AtomicCache` sees of all this.

### AuthCalls

`at`, `calls`, `cred`, `reply`, `closed`, `verdict` are those of a thread of the
messenger in `authRequest`: every call has a connection of its own, named by the
caller and the number of the call. `queue` is the backlog of `auth_service`'s
server, `serving`, `doing`, `found` its threads, `full` whether the producer's local
queue is full, so that a thread in `POST /user` stays there. `Spin` is a thread
that never comes back from `send_to_queue` (a profile outside `Sendable` of
`Registration`), after which no `POST` ends (`Spinning`). `SeenAs` maps what a client
presents to what `auth_service` reads of it: the same, unless it is cut. `SendHead` and
`SendBody` write an answer in two pieces, between which the service may die.
`Timeout` gives up when every thread of `auth_service` is stuck, `Slow` for any
other reason (a fault). `hit` is history: something went wrong during the call.

### Credentials

A step is one round of the loops of both hashes, which run from the last character
to the first. `cpp` and `py` are their `roll`. `Remainder` has C++'s sign and `Wrap`
is what the conversion of a negative `long` to `size_t` adds modulo the number of
shards. `Token` and `Identity` are what the services do with `login:password`.
`Forwarded` is what `auth_service` gets of the text `do_get` encodes: Base64 as such
is undone at the other side, but the encoder ends a line after 72 characters with
CR LF, and there the header ends. `LineBytes` is 54 in the code, the bytes in 72
characters. (A client encodes its own text; what it sends is read whole.)

### Answering

One request at a time: `at` is the place in the handler, `sent` the status that was
sent. `Send(status, next, catch)` goes on at `next`, or, when something was sent
before, throws to `catch`. Each action stands for a branch with all the outcomes of
the calls in it. 501 and 500 of the server itself are Poco's.

## 3. The runs

Passing runs; the numbers are distinct states.

| run | instance | shows |
|---|---|---|
| `registration_safety` | 2 profiles posted up to twice, 2 threads, queue of 1, 2 faults, 1 SIGINT (1,949,118) | `AtLeastOnce`: a commit covers stored rows only. `DuplicatesBounded`: at most one extra row for each fault. `QuietMeansStored`: what was answered 200 is stored or lost in one of two known ways. `CommitsOnlyForward`. `ImplementsPromise`, `ImplementsTables`: the refinements. `TypeOK` |
| `registration_liveness` | 4 profiles: a good one, one the handler rejects, one the table refuses and one too long for a message; 2 threads, queue of 1, 1 fault, 1 SIGINT (45,372) | `NoHoles`, `RowsAreRegistrations`: the writer passes over nothing, and stores nothing but checked profiles, in the right shard. `EveryPostAnswered`, `WriterProgress`: under fairness requests end, unless a thread is jammed with the profile that is too long, and a running writer stores what is ahead of it or goes down |
| `directory_safety` | 2 users in 2 shards with colliding ids, 2 threads, 2 rows in a shard, 1 fault (2,308,937) | `RowsAreReal`, `FirstShardAnswers`, `AuthFindsRow`, `IdentityIsStable`, `TypeOK` |
| `directory_converges` | 3 shards, one of them empty, 2 threads, masks, 2 faults (602,920) | `SearchIsSound`: what a search does find. `CacheConverges`: a stale entry goes away for good |
| `messenger_chats` | 2 users, 2 threads, 2 chats, 1 fault (1,798,943) | `AnswersNameOwnRows`, `OrphansAreFaults`, `TypeOK`. `ReadsSeeConfirmed`: a list has every confirmed chat with a confirmed membership of the user, or the SELECT failed and it is empty |
| `messenger_messages` | 2 threads, 2 messages with 2 texts, a chat that need not exist, every refusal, 1 fault (273,561) | `AnswersNameOwnRows`, `ReadsSeeConfirmed` for messages: all that was confirmed, or nothing and a failed SELECT |
| `cache_connection` | 3 threads, 2 keys, 1 value (361,593) | `OnlyMyCommand`: nothing is on the stream but the command of the thread that holds the mutex. `ImplementsAtomicCache`: the refinement. `MutexIsFreed`. `TypeOK` |
| `auth_calls` | 2 threads of the messenger, 2 calls each, 2 threads of `auth_service`, 2 posts, a backlog of 1, 1 fault, 3 users: one with a row, one with a row whose credentials are cut to those of the first, one without a row (780,343) | `VerdictIsOwn`: a request passes only as the user who is read in what it forwards. `RefusedForReason`: whoever is recognised there is turned away only for something that went wrong in this very call, everybody else always. `EveryCallEnds` under fairness. `TypeOK` |
| `credentials` | 5 characters: `.`, `:`, `a`, `z` and a negative one; modulus 1009; up to 6 characters, a line of 5 (131,836) | `GeneratorAgrees`: exactly when the two hashes choose the same shard. `HintNamesShard`: what the conversion of a negative hash does. `LoginNeedsNoColon`. `ForwardingKeepsIdentity`: exactly which credentials reach `auth_service` whole. `TypeOK`: the hash stays between -M and M |
| `answering` | every method, path and set of parameters (8,527) | `AlwaysAnswered`; `AnswerTellsEffect`: 200 to a write means it was made, 400, 401, 404 and 501 that it was not; `GoodAnswersKeepConnection` |

Runs in which TLC finds a promise of the API description broken. The findings in
`PROJECT.json` quote both sides.

| run | what happens |
|---|---|
| `registration_first_start` | a profile answered 200 before the writer's first start is jumped over, without any fault |
| `directory_ids` | the id `/auth` answers for one user reads a user of an earlier shard |

Every property of a passing run has a mutant under "mutants": a variant of one
action with a plausible bug, such as a hint left out, `SELECT MAX(id)` instead of
`LAST_INSERT_ID()`, or an offset committed at the poll, under which the run fails.

### Bounds

| bound | limits | why it is enough |
|---|---|---|
| `QueueLimit` = 1 | the local queue | full after one message, so that the next thread spins with the mutex held and a third request waits |
| `MaxPosts` 1-2 | posts of one profile | two posts tell a duplicate of the client from one of redelivery |
| `MaxFaults` 1-2 | crashes, lost replies, outages | two faults can hit the same message twice, or the producer and then the writer |
| `MaxStops` 1 | SIGINT | one clean restart before or after any fault |
| `MaxShard` 2-3, `MaxRows` 1-2 | shards and rows | ids collide with two shards; the third one is passed while it is empty; two rows let a user be stored twice |
| `MaxChats`, `MaxMessages` 1-2 | rows | two rows of two threads can be confused with each other |
| `MaxQueued` 1, `MaxCalls` 2, `MaxPosts` 2 | the backlog of `auth_service`, calls, posts | a second connection is turned away; a late answer meets the next call of the same thread; two posts take both threads |
| `P` = 53, `M` = 1009, `MaxLen` 6 | the hash | TLC's integers have 32 bits, so that the code's modulus 61566613 overflows; the sum passes 1009 within a few characters, in both signs |
| `LineBytes` 5 | what of the forwarded text arrives | with up to 6 characters the line ends within the login, right after it, at the colon, within the password or not at all |
| `Refusals` | statuses answered without a statement | only in `messenger_messages`: they touch nothing |

Threads are interchangeable everywhere, so the safety runs declare them (and the
users of `Messenger`) symmetric. The runs that check a liveness property have no
symmetry. No property tells threads or users apart.

Deadlock is checked everywhere but in `Registration`, which stops when its bounded
posts and faults are used up, and in `Credentials`, where the text reaches its
greatest length.

### Fairness

* A thread of `auth_service` that can take a step takes it (`WF` of
  `Handler(h)`; a call of `produce` that throws is no step, so nothing makes a
  thread with a message that is never taken leave its loop): the operating system schedules it and `std::mutex` is free when
  nobody holds it. Weak fairness does not give a thread the mutex while others
  keep taking it. Posts are bounded here, so starvation by endless traffic is
  not excluded by `EveryPostAnswered`.
* The producer's background thread delivers (`WF` of `Drain`). When the broker is
  away, messages expire, which is a fault of the model, and so the queue drains
  in either case.
* A running writer runs (`WF` of `WriterRuns`).
* Redis drops an entry when its time is up (`WF` of `Expire(id)`).
* In `CacheConnection`, a thread that can take a step takes it, and connecting
  ends. Redis serves a command it was sent or the connection breaks
  (`WF` of `Serve \/ Break`): that is an assumption about Redis and TCP. The stream
  has no timeout, and with a Redis that is silent for ever `MutexIsFreed` fails.
* In `AuthCalls`, threads of both services that can take a step take it
  (`WF` of `CallerSteps(c)`, `WorkerSteps(w)`; the outcomes that are faults, and
  `Spin`, are not part of them). `Timeout` is enabled while `auth_service` is starved, because
  `HTTPClientSession` has a default timeout of 60 seconds. The broker need not come
  back and nobody has to start `auth_service` again.
* Nothing else is forced: no client, crash, SIGINT, or start of the writer.
  `registration_first_start` alone adds a start, because a property that fails
  only since the writer never runs would show nothing.

## 4. What is proved

Every invariant and every refinement that a run checks, and the one property of
steps, `CommitsOnlyForward`, is also a theorem: it holds for all sets of profiles,
users, threads, shards, keys, rows and texts, for every routing function, and for
all values of the bounds of section 3. TLC checked each inductive invariant on a
small instance before its proof was begun.

| module | theorem | states |
|---|---|---|
| `RegistrationProofs` | `TypeCorrect`, `Invariance` | `[]TypeOK`, `[]Inv` |
| | `CommittedIsStored` | `[]AtLeastOnce` |
| | `RowsHaveNoHoles` | `[]NoHoles` |
| | `RowsAreGenuine` | `[]RowsAreRegistrations` |
| | `PromisesAreKept` | `[]QuietMeansStored` |
| | `OffsetsNeverGoBack` | `CommitsOnlyForward` |
| `RegistrationRefinement` | `WriterAppends` | `ImplementsTables` |
| | `RegistrationKeepsPromise` | `ImplementsPromise` |
| | `DuplicatesAreBounded` | `[]DuplicatesBounded` |
| `CacheConnectionProofs` | `TypeCorrect` | `[]TypeOK` |
| | `RepliesAreOwn` | `[]OnlyMyCommand` |
| | `CacheIsAtomic` | `ImplementsAtomicCache` |
| `UserDirectoryProofs` | `TypeCorrect` | `[]TypeOK` |
| | `OnlyRealRows` | `[]RowsAreReal` |
| | `FirstShardWins` | `[]FirstShardAnswers` |
| | `AuthLooksWhereRowsAre` | `[]AuthFindsRow` |
| | `IdentityNeverChanges` | `[]IdentityIsStable` |
| | `SearchNeverLies` | `[]SearchIsSound` |
| `AuthCallsProofs` | `TypeCorrect` | `[]TypeOK` |
| | `LetThroughAsForwarded` | `[]VerdictIsOwn` |
| | `RefusedOnlyForReason` | `[]RefusedForReason` |
| `MessengerProofs` | `TypeCorrect` | `[]TypeOK` |
| | `IdsAreOwn` | `[]AnswersNameOwnRows` |
| | `OrphansComeFromFaults` | `[]OrphansAreFaults` |
| | `ReadsAreFresh` | `[]ReadsSeeConfirmed` |
| `AnsweringProofs` | `NobodyWaitsInVain` | `[]AlwaysAnswered` |
| | `AnswersAreTrue` | `[]AnswerTellsEffect` |
| | `GoodAnswersAreFinal` | `[]GoodAnswersKeepConnection` |
| `CredentialsProofs` | `TypeCorrect` | `[]TypeOK` |
| | `GeneratorIsOffByM` | `[]GeneratorAgrees` |
| | `EveryHashNamesAShard` | `[]HintNamesShard` |
| | `NoColonInLogins` | `[]LoginNeedsNoColon` |
| | `ForwardedWholeUpToALine` | `[]ForwardingKeepsIdentity` |

Hardly any of these properties is inductive. What each proof adds, and why:

**Registration, safety.**

* `Positions`: a running writer stands between what it has committed and the end
  of the log, and has a message while it works. Without it a start or a commit
  could reach past the log.
* `Genuine`: every copy of a profile (request, local queue, log, row) was checked
  and posted. `RowsAreRegistrations` speaks of the last copy only, and a row is
  made from the one before.
* `Covered`: what the writer has moved past is stored or jumped over, except the
  message it is inserting. A commit hands this fact on to `AtLeastOnce`, an insert
  to `NoHoles`, and a poll needs `wpc = "poll"` to have it for all positions.
* `Traced`: a profile answered 200, or about to be, is in the local queue, in the
  log, or lost. With an empty queue, `Covered` turns "in the log" into
  `QuietMeansStored`.

The proof goes part by part. Three lemmas say which variables a group of steps
leaves alone (`OthersLeaveWriter`, `WriterLeavesPromises`,
`WriterLeavesProfiles`), so each part looks only at the actions that can disturb
it.

**Registration, refinements.** A step of the promise counts copies, and a count
changes by one only if the message or row that comes or goes is a new one. So the
steps need `Account`:

* `Turn`: keys in the local queue are those of earlier turns, because
  `send_to_queue` counts `messageKey` up while it holds the mutex. Without it
  `Produce` might add a message that is there already, and nothing would be owed.
* `Caught`: the writer has committed exactly what lies behind it. A restart
  then repeats one message at most, which is `StoreUnnoticed`, and only a start
  without any commit skips messages.
* `Numbered`: ids of a shard go from 1 up without gaps or repetitions, so an
  insert makes a new row and `UserTables` sees a sequence.
* `Countable`: queue and tables are finite, so that they have a size.

`AheadIs` and `Counted` say what the refinement mapping makes of such a state, and
there is one lemma for each action of `Registration`: which step of the promise it
is, or that the promise does not see it. `DuplicatesBounded` is then proved of the
promise (`PromiseIsBounded`: pending, owed and stored together never exceed posts
and faults) and carried over. `WriterAppends` needs `Numbered` alone.

**CacheConnection.** `Stream` says that at most one command or reply is on the
stream and that it is the receiving thread's; `Calls` and `Making`, that no call has
a result before it is done and that nobody is past the constructor while there is no
stream. The step simulation finds the moment of effect in `Serve`, and in a stream
that breaks with a put on it the one call that may take effect later.

**UserDirectory.** A loop over the shards sees every shard at another moment;
`Underway` says what it has established so far, against the snapshot that the
request found (`Seen`). `Placed` (rows are where routing puts them) and `OldestIds`
(`auth` has only ever answered the oldest id) are what `AuthFindsRow` and
`IdentityIsStable` rest on: rows are only appended.

**AuthCalls.** `Past`: connections are numbered by calls, so none that is queued or
served belongs to a call still to come: a late answer cannot be taken by the next
call of the same thread. `Own`: what a thread of `auth_service` has found for a
connection that is still open was found for what is read of its caller's
credentials. `Heard`
carries that to what has arrived.

**Messenger.** `OwnRow`: the row a request made, and whose id its session holds or
its client was told, is there and is what was asked for; `OneEach`: no two requests
made the same row; `Backed`: what was confirmed is in the tables; `Earlier`: what a
request knows of had been confirmed. `Rooms` and `Fits` tie a thread's place to its
request, none of whose statements has failed while it goes on, and to the room in
the tables. `OrphansAreFaults` counts: only a fault makes
orphans, one for each thread at most.

**Answering.** `SoFar` lists the places that can be reached with something sent:
they are those where a second answer throws. `Whose`, `Undone` and `Shut` say which
request can be there, what may have been written, and that the connection is
open.

**Credentials.** `Congruent`: the generator's hash is that of the services or `M`
more. That is an invariant of the two loops, so the theorem about strings of every
length needs no induction over strings. That a text with a colon has a first one is
the least element of a set of numbers (`WellFoundedInduction`). For `HintNamesShard`,
2^64 modulo the number of shards is written with products of remainders
(`WrapIsRemainder`), because no number of TLC is that large. `CutComesApart` says
when a text that is cut after a line comes apart as before: when the line holds
all of it, or ends right behind a login that the password repeats.

### Assumptions

| assumption | of | why the code justifies it |
|---|---|---|
| `HandlerAssumption`, `ThreadsAssumption` | `Registration`, `Messenger` | the threads are finitely many: Poco's server has a thread pool |
| `ShardAssumption` | `Registration`, `UserDirectory` | a profile's hint names one of the shards; there is a shard |
| `QueueAssumption` | `Registration` | librdkafka's local queue takes at least one message |
| `CharAssumption` | `Credentials` | a `char` has 8 bits and a sign on the platform the images are built for |
| `HashAssumption` | `Credentials` | 53, 61566613 and 3 fulfil it: the modulus is above 127 and no multiple of the number of shards |
| `LineAssumption` | `Credentials` | a line of Base64 holds at least one byte; 54 in the code |
| `MaskAssumption` | `UserDirectory` | a mask of `search` selects users |
| `UserAssumption` | `Registration`, `AuthCalls` | names: profiles that pass the checks, fit a message or fit the table are profiles, users with a row are users; every one of those has an id; what is read of a login and password is one |
| `NoneAssumption`, `NamesAssumption`, `GarbageAssumption` | all | the values that stand for "nothing" and for uninitialized memory are no others |
| `BoundAssumption` | all | bounds are numbers |

### Only model-checked

* The liveness properties `EveryPostAnswered`, `WriterProgress`, `CacheConverges`,
  `MutexIsFreed` and `EveryCallEnds`: fairness and ENABLED are out of the prover's
  reach.
* The two runs in which a promise of the documents is broken: they are
  counterexamples.
* Nothing else that a run checks. What the models leave out (section 5) is left
  out of the theorems as well.

## 5. What is not modelled, and why

* **Connections that are kept alive.** A thread of `auth_service` that has answered
  may wait some seconds for another request on the same connection before it
  returns to the pool. `AuthCalls` lets it return at once: it only delays others.
* **A crash of the messenger** in the middle of `authRequest`: `Messenger` has it;
  to `auth_service` it looks like a caller that gave up.
* **Answers that cannot be written** because the client has gone.
* **A Redis that is silent for ever** (see the fairness of `CacheConnection`).
* **SQL details.** A collation that ignores case may let `auth` match another
  user of the same shard; strings and columns are abstracted to the sets `Valid`
  and `Storable`. An INSERT is atomic: the order in which InnoDB hands out ids
  and commits inside one INSERT is not visible.
* **Rebalancing.** There is one writer and one partition.
* **Code without callers**: `User::read_all`, `Message::read_by_id`, `Service`,
  `Order`.
* **Data generator rows.** The tables start empty. The generator's entry script
  runs a file that does not exist, and two of its scripts name another host.
* Request parsing and JSON, `Config`, command line options and the statements that
  create the tables: no behaviour of their own.

Seen while reading, and visible in the models, without a run of their own:

* A profile whose message is longer than `message.max.bytes` makes `produce` throw
  for ever (user.cpp:278-285): its thread spins with the mutex held, and no `POST`
  is answered any more until `auth_service` is killed. `EveryPostAnswered` has the
  exception (`Jammed`), `Spin` of `AuthCalls` shows what it takes from `/auth`.
* The messenger forwards only the first 54 bytes of `login:password`
  (chat_handler.h:105, message_handler.h:103), although the table has room for 256
  characters of each. A user with longer credentials is refused by the messenger,
  and texts that agree in the first 54 bytes pass for each other: `SeenAs`,
  `VerdictIsOwn` and `RefusedForReason` speak of what arrives.
* `POST /user` answers 200, without a body, when the profile is in the local queue
  (`Tell` of `RegistrationPromise` needs `owed`, not `stored`); `docs/apis/auth.yaml`
  promises the new user's identifier.
* An outage of a shard, or of Redis while a row is put there (`FillFails`), makes
  `GET /user` answer 404 for a user who exists; `docs/apis/auth.yaml` has 500 for
  errors.
* `User::search` shares one `Statement` over all shards, which is done after the
  first (user.cpp:192): users of the other shards are not found. `SearchIsSound`
  says what is left.
* `UserToChat::read_chats_by_user_id` does not select `creator_id` and sends what
  was in memory (`Garbage`).
* A rejected profile and a `searchByChatId` without `chatId` are answered, and then
  answered again; the second attempt throws and the server closes the connection.
  `GoodAnswersKeepConnection` says that this befalls no answer 200.
* A request without credentials gets 404 from `/auth` and 500 from the messenger,
  because `getCredentials` throws; the documents have 401.
* Reads of `Messenger` answer a failed SELECT with 200 and an empty list
  (message.cpp:216) although `docs/apis/chats.yaml` has 500 for errors; `addMember`
  accepts a chat that does not exist, although `diagrams/db.md:37` calls `chat_id` a
  foreign key; `/search` answers 200 with an empty list where `docs/apis/auth.yaml`
  has 404.

## 6. Plan

Done: all modules above, the refinements of `Registration` and `CacheConnection`,
and a proof of everything the runs check but the liveness properties.

1. `Registration`, `UserDirectory` and `Messenger` over the same tables, for what it
   means to a chat that two users share an id.
2. The safety half of the liveness arguments as theorems: for `WriterProgress` that
   the distance to the end of the log never grows by a step of the writer, for
   `MutexIsFreed` that a thread with the mutex moves towards its release.

## 7. Running it

    tlc -config Registration_safety.cfg MCRegistration
    tlapm RegistrationProofs.tla
    tlapm RegistrationRefinement.tla

and likewise for the other configurations and `...Proofs` modules; `PROJECT.json`
names the module of each run and of each theorem.
