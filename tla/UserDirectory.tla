--------------------------- MODULE UserDirectory ---------------------------
(***************************************************************************)
(* How auth_service reads users: GET /user?id=, GET /auth and GET /search,  *)
(* over User tables spread over shards and a Redis cache.                   *)
(*                                                                         *)
(* An id is drawn from the AUTO_INCREMENT counter of its own shard, and the *)
(* writer adds rows while requests are being served: a request sees each   *)
(* shard at a different moment, and the cache sees none of it.             *)
(*                                                                         *)
(* Rows are never changed or deleted, so a table is the sequence of the     *)
(* profiles in it and an id is a position.                                 *)
(***************************************************************************)
EXTENDS Integers, Sequences, FiniteSets

CONSTANTS
  Users,      \* profiles; what makes one is its login and password
  None,       \* no job, no row, no answer
  MaxShard,   \* get_max_shard
  ShardOf,    \* get_sharding_hint of a profile's login + password
  Masks,      \* the sets of profiles a first_name and last_name mask match
  Threads,    \* the threads of auth_service's HTTPServer
  MaxRows,    \* bound: rows in one shard
  MaxFaults   \* bound: outages and restarts

Shards == 0..(MaxShard - 1)
Ids    == 1..MaxRows   \* the ids clients ask for

ASSUME ShardAssumption == /\ MaxShard \in Nat \ {0}
                          /\ ShardOf \in [Users -> Shards]
ASSUME MaskAssumption == Masks \subseteq SUBSET Users
ASSUME NoneAssumption == None \notin Users
ASSUME BoundAssumption == MaxRows \in Nat /\ MaxFaults \in Nat

VARIABLES
  table,     \* table[s]: the profiles in shard s, in the order of their ids
  cache,     \* cache[id]: the row Redis holds under key id, or None
  linked,    \* the one connection to Redis: none yet, open or broken
  at,        \* at[t]: where thread t is in its request
  job,       \* job[t]: the request it serves or has served last
  shard,     \* shard[t]: the hint its loop over the shards has reached
  found,     \* found[t]: the row read_by_id has read
  drained,   \* drained[t]: search's only Statement is done
  results,   \* results[t]: the profiles search has collected
  answer,    \* answer[t]: the answer to the last request
  before,    \* history: the length of each table when the request came in
  failed,    \* history: an outage hit the request
  identity,  \* history: identity[u]: the ids auth has ever answered for u
  faults     \* how many faults have happened

localVars  == <<shard, found, drained, results>>
threadVars == <<at, job, localVars, answer, before, failed>>
vars == <<table, cache, linked, threadVars, identity, faults>>

\* A row of a User table and the shard it is in.
Row == [shard : Shards, id : Ids, user : Users]

Jobs == [op : {"get"}, id : Ids, useCache : BOOLEAN]
          \cup [op : {"auth"}, user : Users]
          \cup [op : {"search"}, mask : Masks]

\* 200 carries the row, the id or the list of profiles asked for.
Answers == [status : {200}, row : Row, hit : BOOLEAN]
             \cup [status : {200}, id : Ids]
             \cup [status : {200}, list : SUBSET Users]
             \cup [status : {401, 404}]

TypeOK ==
  /\ table \in [Shards -> Seq(Users)]
  /\ \A s \in Shards : Len(table[s]) <= MaxRows
  /\ cache \in [Ids -> Row \cup {None}]
  /\ linked \in {"none", "open", "broken"}
  /\ at \in [Threads -> {"idle", "cache", "scan", "fill", "auth", "search"}]
  /\ job \in [Threads -> Jobs \cup {None}]
  /\ shard \in [Threads -> Shards]
  /\ found \in [Threads -> Row \cup {None}]
  /\ drained \in [Threads -> BOOLEAN]
  /\ results \in [Threads -> SUBSET Users]
  /\ answer \in [Threads -> Answers \cup {None}]
  /\ before \in [Threads -> [Shards -> 0..MaxRows]]
  /\ failed \in [Threads -> BOOLEAN]
  /\ identity \in [Users -> SUBSET Ids]
  /\ faults \in 0..MaxFaults

Init ==
  /\ table = [s \in Shards |-> <<>>]
  /\ cache = [id \in Ids |-> None]
  /\ linked = "none"
  /\ at = [t \in Threads |-> "idle"]
  /\ job = [t \in Threads |-> None]
  /\ shard = [t \in Threads |-> 0]
  /\ found = [t \in Threads |-> None]
  /\ drained = [t \in Threads |-> FALSE]
  /\ results = [t \in Threads |-> {}]
  /\ answer = [t \in Threads |-> None]
  /\ before = [t \in Threads |-> [s \in Shards |-> 0]]
  /\ failed = [t \in Threads |-> FALSE]
  /\ identity = [u \in Users |-> {}]
  /\ faults = 0

Fault == faults < MaxFaults /\ faults' = faults + 1

-----------------------------------------------------------------------------
(***************************************************************************)
(* The writer and Redis (external to the service)                          *)
(***************************************************************************)

\* The tables change as UserTables says, which Registration implements:
\* auth_writer adds a profile, perhaps once more than it was posted.
Tables == INSTANCE UserTables

Register(u) ==
  /\ Len(table[ShardOf[u]]) < MaxRows
  /\ Tables!Register(u)
  /\ UNCHANGED <<cache, linked, threadVars, identity, faults>>

\* Variant with a plausible bug: put does not say "ex".
ExpireNever(id) == FALSE /\ cache[id] # None /\ UNCHANGED vars

\* "ex" "60": an entry lives for 60 seconds after it was put.
Expire(id) ==
  /\ cache[id] # None
  /\ cache' = [cache EXCEPT ![id] = None]
  /\ UNCHANGED <<table, linked, threadVars, identity, faults>>

\* The stream to Redis breaks. It is made once and never made again.
CacheBreaks ==
  /\ linked = "open"
  /\ Fault
  /\ linked' = "broken"
  /\ UNCHANGED <<table, cache, threadVars, identity>>

\* auth_service is started again: its requests are cut off unanswered.
Restart ==
  /\ Fault
  /\ linked' = "none"
  /\ at' = [t \in Threads |-> "idle"]
  /\ job' = [t \in Threads |-> None]
  /\ shard' = [t \in Threads |-> 0]
  /\ found' = [t \in Threads |-> None]
  /\ drained' = [t \in Threads |-> FALSE]
  /\ results' = [t \in Threads |-> {}]
  /\ answer' = [t \in Threads |-> None]
  /\ before' = [t \in Threads |-> [s \in Shards |-> 0]]
  /\ failed' = [t \in Threads |-> FALSE]
  /\ UNCHANGED <<table, cache, identity>>

-----------------------------------------------------------------------------
(***************************************************************************)
(* Requests                                                                *)
(***************************************************************************)

\* handleRequest dispatches the job j to its first step.
Receive(t, j, first) ==
  /\ at[t] = "idle"
  /\ at' = [at EXCEPT ![t] = first]
  /\ job' = [job EXCEPT ![t] = j]
  /\ answer' = [answer EXCEPT ![t] = None]
  /\ before' = [before EXCEPT ![t] = [s \in Shards |-> Len(table[s])]]
  /\ failed' = [failed EXCEPT ![t] = FALSE]
  /\ UNCHANGED <<table, cache, linked, localVars, identity, faults>>

\* The answer a is sent; what was local to the call is gone.
Send(t, a) ==
  /\ at' = [at EXCEPT ![t] = "idle"]
  /\ answer' = [answer EXCEPT ![t] = a]
  /\ shard' = [shard EXCEPT ![t] = 0]
  /\ found' = [found EXCEPT ![t] = None]
  /\ drained' = [drained EXCEPT ![t] = FALSE]
  /\ results' = [results EXCEPT ![t] = {}]

\* GET /user?id=... has a cached and, with no_cache, an uncached form.
Get(t, id, useCache) ==
  Receive(t, [op |-> "get", id |-> id, useCache |-> useCache],
          IF useCache THEN "cache" ELSE "scan")

\* Cache::get() makes the one stream when it is first called.
Reachable == linked # "broken" /\ linked' = "open" /\ UNCHANGED faults

\* A first call that cannot connect throws, and the next one is a first call
\* again, or it leaves a stream that will never work.
Unreachable ==
  \/ linked = "broken" /\ UNCHANGED <<linked, faults>>
  \/ linked = "none" /\ Fault /\ linked' \in {"none", "broken"}

\* read_from_cache_by_id: a hit is the answer; a miss, and any exception,
\* which is swallowed, lead to the database.
ReadCache(t) ==
  LET row == cache[job[t].id] IN
  /\ at[t] = "cache"
  /\ \/ /\ Reachable
        /\ row # None
        /\ Send(t, [status |-> 200, row |-> row, hit |-> TRUE])
     \/ /\ Unreachable \/ (Reachable /\ row = None)
        /\ at' = [at EXCEPT ![t] = "scan"]
        /\ UNCHANGED <<localVars, answer>>
  /\ UNCHANGED <<table, cache, job, before, failed, identity>>

\* One round of read_by_id's loop, whose body is a SELECT by id with the hint
\* of shard s. The loop ends at the first row.
ReadShard(t, s, lastShard) ==
  LET id  == job[t].id
      row == [shard |-> s, id |-> id, user |-> table[s][id]]
  IN
  /\ at[t] = "scan"
  /\ \/ /\ id <= Len(table[s])
        /\ job[t].useCache
        /\ found' = [found EXCEPT ![t] = row]
        /\ at' = [at EXCEPT ![t] = "fill"]
        /\ UNCHANGED <<shard, drained, results, answer>>
     \/ /\ id <= Len(table[s])
        /\ ~job[t].useCache
        /\ Send(t, [status |-> 200, row |-> row, hit |-> FALSE])
     \/ /\ id > Len(table[s])
        /\ shard[t] # lastShard
        /\ shard' = [shard EXCEPT ![t] = @ + 1]
        /\ UNCHANGED <<at, found, drained, results, answer>>
     \/ /\ id > Len(table[s])
        /\ shard[t] = lastShard
        /\ Send(t, [status |-> 404])
  /\ UNCHANGED <<table, cache, linked, job, before, failed, identity, faults>>

\* Variants with a plausible bug: the loop runs past the last hint, or takes the
\* hints from the last to the first.
ScanTooFar(t)    == ReadShard(t, shard[t], MaxShard)
ScanBackwards(t) == ReadShard(t, MaxShard - 1 - shard[t], MaxShard - 1)

Scan(t) == ReadShard(t, shard[t], MaxShard - 1)

\* Variant with a plausible bug: the key is the shard's number.
FillByShard(t) ==
  /\ at[t] = "fill"
  /\ Reachable
  /\ cache' = [cache EXCEPT ![found[t].shard + 1] = found[t]]
  /\ Send(t, [status |-> 200, row |-> found[t], hit |-> FALSE])
  /\ UNCHANGED <<table, job, before, failed, identity>>

\* save_to_cache: put under the row's id.
Put(t) == cache' = [cache EXCEPT ![found[t].id] = found[t]]

Fill(t) ==
  /\ at[t] = "fill"
  /\ Reachable
  /\ Put(t)
  /\ Send(t, [status |-> 200, row |-> found[t], hit |-> FALSE])
  /\ UNCHANGED <<table, job, before, failed, identity>>

\* put throws, perhaps after it had its effect. Nobody below handleRequest
\* catches it, and the row that was found is answered 404.
FillFails(t) ==
  /\ at[t] = "fill"
  /\ \/ Unreachable /\ UNCHANGED cache
     \/ linked # "broken" /\ Fault /\ linked' = "broken" /\ Put(t)
  /\ Send(t, [status |-> 404])
  /\ failed' = [failed EXCEPT ![t] = TRUE]
  /\ UNCHANGED <<table, job, before, identity>>

Auth(t, u) == Receive(t, [op |-> "auth", user |-> u], "auth")

\* The ids of u's rows in shard s, more than one after a redelivery.
Matches(s, u) == {i \in 1..Len(table[s]) : table[s][i] = u}

\* The SELECT of auth, of whose result only one row is fetched: one of `ids`.
SelectIdentity(t, ids) ==
  LET u == job[t].user IN
  /\ at[t] = "auth"
  /\ \/ \E id \in ids :
          /\ Send(t, [status |-> 200, id |-> id])
          /\ identity' = [identity EXCEPT ![u] = @ \cup {id}]
     \/ /\ ids = {}
        /\ Send(t, [status |-> 401])
        /\ UNCHANGED identity
  /\ UNCHANGED <<table, cache, linked, job, before, failed, faults>>

\* Rows come in the order of the primary key.
FirstOf(ids) == {i \in ids : \A j \in ids : i <= j}

\* Variants with a plausible bug: the hint is left out; the newest row wins.
CheckWithoutHint(t) == SelectIdentity(t, FirstOf(Matches(0, job[t].user)))
CheckNewest(t) ==
  LET ids == Matches(ShardOf[job[t].user], job[t].user)
  IN  SelectIdentity(t, {i \in ids : \A j \in ids : i >= j})

\* auth asks the shard of the login and password.
CheckIdentity(t) ==
  SelectIdentity(t, FirstOf(Matches(ShardOf[job[t].user], job[t].user)))

Search(t, mask) == Receive(t, [op |-> "search", mask |-> mask], "search")

\* Variant with a plausible bug: the masks are not bound.
SelectedUnmasked(t, s) == {table[s][i] : i \in 1..Len(table[s])}

\* The profiles a SELECT of search with the hint of shard s returns.
Selected(t, s) == {table[s][i] : i \in 1..Len(table[s])} \cap job[t].mask

\* One round of search's loop. Every round appends its SELECT to the same
\* Statement, and a Statement that is done is not executed again.
SearchShard(t) ==
  LET s   == shard[t]
      all == results[t] \cup (IF drained[t] THEN {} ELSE Selected(t, s))
  IN
  /\ at[t] = "search"
  /\ \/ /\ s + 1 < MaxShard
        /\ results' = [results EXCEPT ![t] = all]
        /\ drained' = [drained EXCEPT ![t] = TRUE]
        /\ shard' = [shard EXCEPT ![t] = s + 1]
        /\ UNCHANGED <<at, found, answer>>
     \/ /\ s + 1 = MaxShard
        /\ Send(t, [status |-> 200, list |-> all])
  /\ UNCHANGED <<table, cache, linked, job, before, failed, identity, faults>>

\* A SELECT throws: read_by_id and auth return nothing, search rethrows to
\* handleRequest, whose catch (...) leads to its 404.
SelectFails(t) ==
  /\ at[t] \in {"scan", "auth", "search"}
  /\ Fault
  /\ Send(t, [status |-> IF at[t] = "auth" THEN 401 ELSE 404])
  /\ failed' = [failed EXCEPT ![t] = TRUE]
  /\ UNCHANGED <<table, cache, linked, job, before, identity>>

-----------------------------------------------------------------------------
Request(t) ==
  \/ \E id \in Ids, useCache \in BOOLEAN : Get(t, id, useCache)
  \/ \E u \in Users : Auth(t, u)
  \/ \E mask \in Masks : Search(t, mask)

Step(t) ==
  \/ ReadCache(t) \/ Scan(t) \/ Fill(t) \/ FillFails(t)
  \/ CheckIdentity(t)
  \/ SearchShard(t)
  \/ SelectFails(t)

Next ==
  \/ \E t \in Threads : Request(t) \/ Step(t)
  \/ \E u \in Users : Register(u)
  \/ \E id \in Ids : Expire(id)
  \/ CacheBreaks
  \/ Restart

Spec == Init /\ [][Next]_vars

\* Redis drops an entry when its time is up. Nothing else is forced: neither
\* clients nor the threads that serve them.
FairSpec == Spec /\ \A id \in Ids : WF_vars(Expire(id))

-----------------------------------------------------------------------------
(***************************************************************************)
(* Correctness                                                             *)
(***************************************************************************)
Exists(row) == row.id <= Len(table[row.shard]) /\ table[row.shard][row.id] = row.user

Answered(t, op, status) ==
  /\ at[t] = "idle"
  /\ job[t] # None
  /\ job[t].op = op
  /\ answer[t] # None
  /\ answer[t].status = status

\* Whatever thread filled the cache, however long ago: what is cached under an
\* id, and what a GET with that id is answered, is a row that has this id.
RowsAreReal ==
  /\ \A id \in Ids : cache[id] # None => cache[id].id = id /\ Exists(cache[id])
  /\ \A t \in Threads : Answered(t, "get", 200) =>
       answer[t].row.id = job[t].id /\ Exists(answer[t].row)

\* Although the shards are read one after the other while rows are added: a
\* user is not found only if, when the request came in, no shard had the id,
\* or an outage hit the request. When several shards have the id, an answer from
\* the database is the row of the first: a shard before it got the id during
\* the request or later.
FirstShardAnswers ==
  \A t \in Threads :
    /\ Answered(t, "get", 404) =>
         failed[t] \/ \A s \in Shards : job[t].id > before[t][s]
    /\ Answered(t, "get", 200) /\ ~answer[t].hit =>
         \A s \in 0..(answer[t].row.shard - 1) : job[t].id > before[t][s]

\* auth looks where the writer stores: a user who has a row when the request
\* comes in is not refused, except by an outage; and the id is a row of theirs.
AuthFindsRow ==
  \A t \in Threads :
    /\ Answered(t, "auth", 401) =>
         failed[t] \/ \A s \in Shards : \A i \in 1..before[t][s] :
                        table[s][i] # job[t].user
    /\ Answered(t, "auth", 200) =>
         \E s \in Shards : answer[t].id \in Matches(s, job[t].user)

\* A user's rows may be duplicated by redelivery, before and between requests;
\* auth answers the same id for ever.
IdentityIsStable == \A u \in Users : Cardinality(identity[u]) <= 1

\* The list of /search, read while rows are added, holds users with a matching
\* row, and at least those the first shard had when the request came in.
SearchIsSound ==
  \A t \in Threads : Answered(t, "search", 200) =>
    /\ \A u \in answer[t].list :
         u \in job[t].mask /\ \E s \in Shards : Matches(s, u) # {}
    /\ \A i \in 1..before[t][0] :
         table[0][i] \in job[t].mask => table[0][i] \in answer[t].list

\* A row may be cached, or on its way to the cache, when a lower shard gets its
\* id, and then contradict the database. Rows being finitely many, this ends:
\* from some time on the cache only holds what read_by_id would read.
FirstRow(id) ==
  LET having == {s \in Shards : id <= Len(table[s])}
      s == CHOOSE s \in having : \A r \in having : s <= r
  IN [shard |-> s, id |-> id, user |-> table[s][id]]

CacheConverges ==
  <>[](\A id \in Ids : cache[id] # None => cache[id] = FirstRow(id))

-----------------------------------------------------------------------------
(***************************************************************************)
(* What the API description promises and the code does not keep            *)
(***************************************************************************)

\* docs/apis/auth.yaml: user_id is the unique identifier of a user: GET /user
\* with the id /auth answered for a user reads that user.
IdReadsItsUser ==
  \A t1, t2 \in Threads :
    (Answered(t1, "auth", 200) /\ Answered(t2, "get", 200)
       /\ answer[t1].id = job[t2].id)
      => answer[t2].row.user = job[t1].user
=============================================================================
