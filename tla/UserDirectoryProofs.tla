------------------------ MODULE UserDirectoryProofs ------------------------
(***************************************************************************)
(* Theorems about UserDirectory for every set of profiles and threads,     *)
(* every number of shards, every routing function and every bound.         *)
(*                                                                         *)
(* The inductive invariant is Inv. Its parts:                              *)
(*   TypeOK, Fitting  types, and a thread's place agrees with its job;     *)
(*   Placed, Seen     rows are where routing puts them, and a request's    *)
(*                    snapshot of the tables is not ahead of them;         *)
(*   Underway         what a loop over the shards has established so far;  *)
(*   OldestIds        auth has only ever answered the oldest id of a user; *)
(*   and the four properties of answers themselves.                        *)
(***************************************************************************)
EXTENDS UserDirectory, FiniteSetTheorems, WellFoundedInduction, TLAPS

GetJobs    == [op : {"get"}, id : Ids, useCache : BOOLEAN]
AuthJobs   == [op : {"auth"}, user : Users]
SearchJobs == [op : {"search"}, mask : Masks]

\* A thread is at a step of the request it serves, and between requests its
\* locals are gone.
FittingAt(t) ==
  /\ at[t] \in {"cache", "scan", "fill"} => job[t] \in GetJobs
  /\ at[t] = "auth" => job[t] \in AuthJobs
  /\ at[t] = "search" => job[t] \in SearchJobs
  /\ at[t] \in {"idle", "cache", "auth"} =>
       shard[t] = 0 /\ ~drained[t] /\ results[t] = {}

Fitting == \A t \in Threads : FittingAt(t)

Placed == \A s \in Shards : \A i \in 1..Len(table[s]) : ShardOf[table[s][i]] = s

Seen == \A t \in Threads : \A s \in Shards : before[t][s] <= Len(table[s])

\* No shard before s had the id asked for when the request came in.
NoneBefore(t, s) == \A r \in 0..(s - 1) : job[t].id > before[t][r]

Stored(u) == \E s \in Shards : Matches(s, u) # {}

\* A list of search so far: matching users with rows, and everybody the first
\* shard had at the beginning.
Lists(t, set) ==
  /\ \A u \in set : u \in job[t].mask /\ Stored(u)
  /\ \A i \in 1..before[t][0] : table[0][i] \in job[t].mask => table[0][i] \in set

UnderwayAt(t) ==
  /\ at[t] = "scan" => NoneBefore(t, shard[t])
  /\ at[t] = "fill" =>
       /\ found[t] \in Row
       /\ found[t].id = job[t].id
       /\ Exists(found[t])
       /\ NoneBefore(t, found[t].shard)
  /\ at[t] = "search" =>
       IF drained[t] THEN Lists(t, results[t])
                     ELSE shard[t] = 0 /\ results[t] = {}

Underway == \A t \in Threads : UnderwayAt(t)

\* A GET that is answered 200 is answered a row.
RowsAnswered == \A t \in Threads : Answered(t, "get", 200) => answer[t].row \in Row

OldestIds == \A u \in Users : identity[u] \subseteq FirstOf(Matches(ShardOf[u], u))

Inv ==
  /\ TypeOK /\ Fitting /\ Placed /\ Seen /\ Underway /\ OldestIds
  /\ RowsAnswered /\ RowsAreReal /\ FirstShardAnswers /\ AuthFindsRow /\ SearchIsSound

-----------------------------------------------------------------------------
(***************************************************************************)
(* What a step does to the tables and to one thread                        *)
(***************************************************************************)
Grown ==
  \A s \in Shards :
    /\ Len(table[s]) <= Len(table'[s])
    /\ \A i \in 1..Len(table[s]) : table'[s][i] = table[s][i]

\* The thread t takes no part in the step.
Idles(t) ==
  /\ at'[t] = at[t] /\ job'[t] = job[t] /\ shard'[t] = shard[t]
  /\ found'[t] = found[t] /\ drained'[t] = drained[t] /\ results'[t] = results[t]
  /\ answer'[t] = answer[t] /\ before'[t] = before[t] /\ failed'[t] = failed[t]

\* The thread t is as it was when the service started.
Reset(t) ==
  /\ at'[t] = "idle" /\ job'[t] = None /\ shard'[t] = 0
  /\ found'[t] = None /\ ~drained'[t] /\ results'[t] = {}
  /\ answer'[t] = None /\ before'[t] = [s \in Shards |-> 0] /\ ~failed'[t]

\* The thread t takes a request.
Takes(t) ==
  /\ at[t] = "idle"
  /\ \/ at'[t] \in {"cache", "scan"} /\ job'[t] \in GetJobs
     \/ at'[t] = "auth" /\ job'[t] \in AuthJobs
     \/ at'[t] = "search" /\ job'[t] \in SearchJobs
  /\ shard'[t] = shard[t] /\ drained'[t] = drained[t] /\ results'[t] = results[t]
  /\ found'[t] = found[t] /\ answer'[t] = None
  /\ before'[t] = [s \in Shards |-> Len(table[s])] /\ ~failed'[t]

\* Rows are only added, at the end: the one place where rows are written is
\* the writer's INSERT.
LEMMA TablesGrow ==
  ASSUME TypeOK, [Next]_vars
  PROVE  /\ Grown
         /\ \A s \in Shards : \A i \in 1..Len(table'[s]) :
              i <= Len(table[s]) \/ (i = Len(table[s]) + 1 /\ s = ShardOf[table'[s][i]])
         /\ table' \in [Shards -> Seq(Users)]
         /\ \A s \in Shards : Len(table'[s]) <= MaxRows
<1> USE ShardAssumption, BoundAssumption
<1>1. ASSUME NEW u \in Users, Register(u)
      PROVE  /\ Grown
             /\ \A s \in Shards : \A i \in 1..Len(table'[s]) :
                  i <= Len(table[s]) \/ (i = Len(table[s]) + 1 /\ s = ShardOf[table'[s][i]])
             /\ table' \in [Shards -> Seq(Users)]
             /\ \A s \in Shards : Len(table'[s]) <= MaxRows
  <2>1. table \in [Shards -> Seq(Users)] /\ ShardOf[u] \in Shards
    BY DEF TypeOK
  <2>2. table' = [table EXCEPT ![ShardOf[u]] = Append(@, u)]
    BY <1>1 DEF Register, Tables!Register
  <2>3. \A s \in Shards : s # ShardOf[u] => table'[s] = table[s]
    BY <2>1, <2>2
  <2>4. table'[ShardOf[u]] = Append(table[ShardOf[u]], u)
    BY <2>1, <2>2
  <2>5. Len(table[ShardOf[u]]) < MaxRows
    BY <1>1 DEF Register
  <2> QED
    BY <2>1, <2>2, <2>3, <2>4, <2>5 DEF Grown, TypeOK
<1>2. CASE table' = table
  BY <1>2 DEF Grown, TypeOK
<1> QED
  BY <1>1, <1>2 DEF Next, vars, Request, Step, Get, Auth, Search, Receive, ReadCache,
     Scan, ReadShard, Fill, FillFails, CheckIdentity, SelectIdentity, SearchShard,
     SelectFails, Expire, CacheBreaks, Restart

\* Seen from one thread, every step is a step of its own, the arrival of a
\* request, a restart, or somebody else's.
LEMMA StepOfThread ==
  ASSUME TypeOK, [Next]_vars, NEW t \in Threads
  PROVE  Step(t) \/ Takes(t) \/ Idles(t) \/ Reset(t)
<1>1. ASSUME NEW p \in Threads, NEW id \in Ids, NEW useCache \in BOOLEAN, Get(p, id, useCache)
      PROVE  Takes(t) \/ Idles(t)
  BY <1>1 DEF Get, Receive, localVars, Takes, Idles, GetJobs, TypeOK
<1>2. ASSUME NEW p \in Threads, NEW u \in Users, Auth(p, u)
      PROVE  Takes(t) \/ Idles(t)
  BY <1>2 DEF Auth, Receive, localVars, Takes, Idles, AuthJobs, TypeOK
<1>3. ASSUME NEW p \in Threads, NEW mask \in Masks, Search(p, mask)
      PROVE  Takes(t) \/ Idles(t)
  BY <1>3 DEF Search, Receive, localVars, Takes, Idles, SearchJobs, TypeOK
<1>4. ASSUME NEW p \in Threads, Step(p), p # t
      PROVE  Idles(t)
  <2> USE DEF Send, localVars, Idles, TypeOK
  <2>1. CASE ReadCache(p)
    BY <1>4, <2>1 DEF ReadCache
  <2>2. CASE Scan(p)
    BY <1>4, <2>2 DEF Scan, ReadShard
  <2>3. CASE Fill(p)
    BY <1>4, <2>3 DEF Fill
  <2>4. CASE FillFails(p)
    BY <1>4, <2>4 DEF FillFails
  <2>5. CASE CheckIdentity(p)
    BY <1>4, <2>5 DEF CheckIdentity, SelectIdentity
  <2>6. CASE SearchShard(p)
    BY <1>4, <2>6 DEF SearchShard
  <2>7. CASE SelectFails(p)
    BY <1>4, <2>7 DEF SelectFails
  <2> QED
    BY <1>4, <2>1, <2>2, <2>3, <2>4, <2>5, <2>6, <2>7 DEF Step
<1>5. CASE Restart
  BY <1>5 DEF Restart, Reset
<1>6. CASE UNCHANGED threadVars
  BY <1>6 DEF threadVars, localVars, Idles
<1> QED
  BY <1>1, <1>2, <1>3, <1>4, <1>5, <1>6 DEF Next, Request, Register, Expire, CacheBreaks,
     vars

-----------------------------------------------------------------------------
(***************************************************************************)
(* Types                                                                   *)
(***************************************************************************)

\* Initially everything has its type, and nothing has been asked or answered.
LEMMA InitInv == Init => Inv
<1> SUFFICES ASSUME Init PROVE Inv
  OBVIOUS
<1> USE ShardAssumption, BoundAssumption DEF Init
<1>1. TypeOK
  BY DEF TypeOK, Shards
<1>2. Fitting /\ Placed /\ Seen
  BY DEF Fitting, FittingAt, Placed, Seen
<1>3. Underway /\ OldestIds
  BY DEF Underway, UnderwayAt, OldestIds
<1>4. RowsAnswered /\ RowsAreReal /\ FirstShardAnswers /\ AuthFindsRow /\ SearchIsSound
  BY DEF RowsAnswered, RowsAreReal, FirstShardAnswers, AuthFindsRow, SearchIsSound, Answered
<1> QED
  BY <1>1, <1>2, <1>3, <1>4 DEF Inv

\* The forms an answer takes.
LEMMA AnswerForms ==
  /\ \A row \in Row, hit \in BOOLEAN : [status |-> 200, row |-> row, hit |-> hit] \in Answers
  /\ \A id \in Ids : [status |-> 200, id |-> id] \in Answers
  /\ \A list \in SUBSET Users : [status |-> 200, list |-> list] \in Answers
  /\ \A code \in {401, 404} : [status |-> code] \in Answers
  BY DEF Answers

\* TypeOK in two parts: what Send assigns, and the rest.
SentOK ==
  /\ at \in [Threads -> {"idle", "cache", "scan", "fill", "auth", "search"}]
  /\ shard \in [Threads -> Shards]
  /\ found \in [Threads -> Row \cup {None}]
  /\ drained \in [Threads -> BOOLEAN]
  /\ results \in [Threads -> SUBSET Users]
  /\ answer \in [Threads -> Answers \cup {None}]

RestOK ==
  /\ table \in [Shards -> Seq(Users)]
  /\ \A s \in Shards : Len(table[s]) <= MaxRows
  /\ cache \in [Ids -> Row \cup {None}]
  /\ linked \in {"none", "open", "broken"}
  /\ job \in [Threads -> Jobs \cup {None}]
  /\ before \in [Threads -> [Shards -> 0..MaxRows]]
  /\ failed \in [Threads -> BOOLEAN]
  /\ identity \in [Users -> SUBSET Ids]
  /\ faults \in 0..MaxFaults

\* The two parts are all of TypeOK.
LEMMA TypeParts == TypeOK <=> SentOK /\ RestOK
  BY DEF TypeOK, SentOK, RestOK

\* Sending an answer keeps the types of what it assigns.
LEMMA SendTypes ==
  ASSUME SentOK, NEW t \in Threads, NEW a \in Answers, Send(t, a)
  PROVE  SentOK'
<1>1. 0 \in Shards
  BY ShardAssumption DEF Shards
<1> QED
  BY <1>1 DEF SentOK, Send

\* Every step keeps the types; that what is put and answered after a read is a
\* row is what Underway says of the thread.
LEMMA NextTypeOK ==
  ASSUME TypeOK, Fitting, Underway, [Next]_vars
  PROVE  TypeOK'
<1> USE ShardAssumption, BoundAssumption, MaskAssumption
<1>1. /\ table' \in [Shards -> Seq(Users)]
      /\ \A s \in Shards : Len(table'[s]) <= MaxRows
  BY TablesGrow
<1>2. ASSUME NEW t \in Threads, NEW j \in Jobs,
             NEW first \in {"cache", "scan", "auth", "search"}, Receive(t, j, first)
      PROVE  TypeOK'
  <2>1. [s \in Shards |-> Len(table[s])] \in [Shards -> 0..MaxRows]
    BY DEF TypeOK
  <2> QED
    BY <1>1, <1>2, <2>1 DEF TypeOK, Receive, localVars
<1>3. ASSUME NEW t \in Threads, Request(t)
      PROVE  TypeOK'
  <2>1. ASSUME NEW id \in Ids, NEW useCache \in BOOLEAN, Get(t, id, useCache)
        PROVE  TypeOK'
    BY <1>2, <2>1 DEF Get, Jobs
  <2>2. ASSUME NEW u \in Users, Auth(t, u)
        PROVE  TypeOK'
    BY <1>2, <2>2 DEF Auth, Jobs
  <2>3. ASSUME NEW mask \in Masks, Search(t, mask)
        PROVE  TypeOK'
    BY <1>2, <2>3 DEF Search, Jobs
  <2> QED
    BY <1>3, <2>1, <2>2, <2>3 DEF Request
<1>4. ASSUME NEW t \in Threads, Step(t)
      PROVE  TypeOK'
  <2> SUFFICES SentOK' /\ RestOK'
    BY TypeParts, PTL
  <2>a. SentOK /\ RestOK
    BY TypeParts
  <2>b. /\ shard[t] \in Nat
        /\ shard[t] + 1 < MaxShard \/ shard[t] # MaxShard - 1 => shard[t] + 1 \in Shards
    <3>1. shard[t] \in Shards
      BY <2>a DEF SentOK
    <3> QED
      BY <3>1 DEF Shards
  <2>1. CASE ReadCache(t)
    <3>1. cache[job[t].id] \in Row \cup {None}
      BY <2>1, <2>a DEF RestOK, ReadCache, Fitting, FittingAt, GetJobs
    <3>2. SentOK'
      BY <2>1, <2>a, <3>1, SendTypes, AnswerForms DEF SentOK, ReadCache, localVars
    <3>3. RestOK'
      BY <1>1, <2>1, <2>a DEF RestOK, ReadCache, Reachable, Unreachable, Fault
    <3> QED
      BY <3>2, <3>3
  <2>2. CASE Scan(t)
    <3>1. job[t].id \in Nat \ {0}
      BY <2>2 DEF Scan, ReadShard, Fitting, FittingAt, GetJobs, Ids
    <3>2. job[t].id <= Len(table[shard[t]]) =>
            [shard |-> shard[t], id |-> job[t].id, user |-> table[shard[t]][job[t].id]] \in Row
      BY <3>1, <2>2 DEF Scan, ReadShard, Fitting, FittingAt, GetJobs, TypeOK, Row
    <3>3. ASSUME NEW a \in Answers, Send(t, a)
          PROVE  SentOK'
      BY <2>a, <3>3, SendTypes
    <3>4. SentOK'
      <4>1. ASSUME found' = [found EXCEPT ![t] = [shard |-> shard[t], id |-> job[t].id,
                                                  user |-> table[shard[t]][job[t].id]]],
                   job[t].id <= Len(table[shard[t]]), at' = [at EXCEPT ![t] = "fill"],
                   UNCHANGED <<shard, drained, results, answer>>
            PROVE  SentOK'
        BY <2>a, <3>2, <4>1 DEF SentOK
      <4>2. ASSUME shard[t] # MaxShard - 1, shard' = [shard EXCEPT ![t] = @ + 1],
                   UNCHANGED <<at, found, drained, results, answer>>
            PROVE  SentOK'
        BY <2>a, <2>b, <4>2 DEF SentOK
      <4> QED
        BY <2>2, <3>2, <3>3, <4>1, <4>2, AnswerForms DEF Scan, ReadShard
    <3>5. RestOK'
      BY <1>1, <2>2, <2>a DEF RestOK, Scan, ReadShard
    <3> QED
      BY <3>4, <3>5
  <2>3. CASE Fill(t)
    <3>1. found[t] \in Row /\ found[t].id \in Ids
      BY <2>3 DEF Fill, Underway, UnderwayAt, Row
    <3>2. SentOK'
      BY <2>3, <2>a, <3>1, SendTypes, AnswerForms DEF Fill
    <3>3. RestOK'
      BY <1>1, <2>3, <2>a, <3>1 DEF RestOK, Fill, Put, Reachable
    <3> QED
      BY <3>2, <3>3
  <2>4. CASE FillFails(t)
    <3>1. found[t] \in Row /\ found[t].id \in Ids
      BY <2>4 DEF FillFails, Underway, UnderwayAt, Row
    <3>2. SentOK'
      BY <2>4, <2>a, SendTypes, AnswerForms DEF FillFails
    <3>3. RestOK'
      <4>1. cache' \in [Ids -> Row \cup {None}]
        BY <2>4, <2>a, <3>1 DEF RestOK, FillFails, Put
      <4>2. linked' \in {"none", "open", "broken"} /\ faults' \in 0..MaxFaults
        BY <2>4, <2>a DEF RestOK, FillFails, Unreachable, Fault
      <4> QED
        BY <1>1, <2>4, <2>a, <4>1, <4>2 DEF RestOK, FillFails
    <3> QED
      BY <3>2, <3>3
  <2>5. CASE CheckIdentity(t)
    <3>1. FirstOf(Matches(ShardOf[job[t].user], job[t].user)) \subseteq Ids
      BY <2>5 DEF CheckIdentity, SelectIdentity, Fitting, FittingAt, AuthJobs, TypeOK,
         FirstOf, Matches, Ids
    <3>2. SentOK'
      BY <2>5, <2>a, <3>1, SendTypes, AnswerForms DEF CheckIdentity, SelectIdentity
    <3>3. RestOK'
      <4>1. job[t].user \in Users
        BY <2>5 DEF CheckIdentity, SelectIdentity, Fitting, FittingAt, AuthJobs
      <4>2. identity' \in [Users -> SUBSET Ids]
        <5>1. identity \in [Users -> SUBSET Ids]
          BY <2>a DEF RestOK
        <5>2. \/ UNCHANGED identity
              \/ \E id \in Ids : identity' = [identity EXCEPT ![job[t].user] = @ \cup {id}]
          BY <2>5, <3>1 DEF CheckIdentity, SelectIdentity
        <5> QED
          BY <4>1, <5>1, <5>2
      <4> QED
        BY <1>1, <2>5, <2>a, <4>2 DEF RestOK, CheckIdentity, SelectIdentity
    <3> QED
      BY <3>2, <3>3
  <2>6. CASE SearchShard(t)
    <3>1. Selected(t, shard[t]) \subseteq Users /\ results[t] \subseteq Users
      BY <2>6 DEF SearchShard, Selected, TypeOK, Fitting, FittingAt, SearchJobs
    <3>2. results[t] \cup (IF drained[t] THEN {} ELSE Selected(t, shard[t])) \in SUBSET Users
      BY <3>1
    <3>3. SentOK'
      <4>1. CASE shard[t] + 1 < MaxShard
        <5> DEFINE all == results[t] \cup (IF drained[t] THEN {} ELSE Selected(t, shard[t]))
        <5>1. /\ results' = [results EXCEPT ![t] = all]
              /\ drained' = [drained EXCEPT ![t] = TRUE]
              /\ shard' = [shard EXCEPT ![t] = shard[t] + 1]
              /\ UNCHANGED <<at, found, answer>>
          BY <2>6, <2>b, <4>1 DEF SearchShard
        <5>2. all \in SUBSET Users
          BY <3>2
        <5> HIDE DEF all
        <5> QED
          BY <2>a, <2>b, <4>1, <5>1, <5>2 DEF SentOK
      <4>2. CASE shard[t] + 1 = MaxShard
        BY <2>6, <2>a, <3>2, <4>2, SendTypes, AnswerForms DEF SearchShard
      <4> QED
        BY <2>6, <4>1, <4>2 DEF SearchShard
    <3>4. RestOK'
      BY <1>1, <2>6, <2>a DEF RestOK, SearchShard
    <3> QED
      BY <3>3, <3>4
  <2>7. CASE SelectFails(t)
    <3>1. SentOK'
      BY <2>7, <2>a, SendTypes, AnswerForms DEF SelectFails
    <3>2. RestOK'
      BY <1>1, <2>7, <2>a DEF RestOK, SelectFails, Fault
    <3> QED
      BY <3>1, <3>2
  <2> QED
    BY <1>4, <2>1, <2>2, <2>3, <2>4, <2>5, <2>6, <2>7 DEF Step
<1>5. ASSUME NEW u \in Users, Register(u)
      PROVE  TypeOK'
  BY <1>1, <1>5 DEF TypeOK, Register, threadVars, localVars
<1>6. ASSUME NEW id \in Ids, Expire(id)
      PROVE  TypeOK'
  BY <1>1, <1>6 DEF TypeOK, Expire, threadVars, localVars
<1>7. CASE CacheBreaks
  BY <1>1, <1>7 DEF TypeOK, CacheBreaks, Fault, threadVars, localVars
<1>8. CASE Restart
  BY <1>1, <1>8 DEF TypeOK, Restart, Fault, Shards
<1>9. CASE UNCHANGED vars
  BY <1>9 DEF TypeOK, vars, threadVars, localVars
<1> QED
  BY <1>3, <1>4, <1>5, <1>6, <1>7, <1>8, <1>9 DEF Next

-----------------------------------------------------------------------------
(***************************************************************************)
(* Rows, requests and loops                                                *)
(***************************************************************************)

\* What Send leaves of the thread.
LEMMA SendEffect ==
  ASSUME TypeOK, NEW t \in Threads, NEW a, Send(t, a)
  PROVE  /\ at'[t] = "idle" /\ answer'[t] = a
         /\ shard'[t] = 0 /\ found'[t] = None /\ ~drained'[t] /\ results'[t] = {}
  BY DEF TypeOK, Send

\* A thread's own steps read the tables, its job and its snapshot, and change
\* none of them.
LEMMA StepFrame ==
  ASSUME NEW t \in Threads, Step(t)
  PROVE  table' = table /\ job' = job /\ before' = before
  BY DEF Step, ReadCache, Scan, ReadShard, Fill, FillFails, CheckIdentity, SelectIdentity,
     SearchShard, SelectFails

\* Every step keeps rows where routing puts them.
LEMMA NextPlaced ==
  ASSUME TypeOK, Placed, [Next]_vars
  PROVE  Placed'
  BY TablesGrow DEF Placed, Grown, TypeOK

\* Every step keeps the snapshots behind the tables.
LEMMA NextSeen ==
  ASSUME TypeOK, Seen, [Next]_vars
  PROVE  Seen'
<1> SUFFICES ASSUME NEW t \in Threads, NEW s \in Shards
             PROVE  before'[t][s] <= Len(table'[s])
  BY DEF Seen
<1>1. /\ Len(table[s]) \in Nat /\ Len(table'[s]) \in Nat /\ before[t][s] \in Nat
      /\ Len(table[s]) <= Len(table'[s])
  BY TablesGrow, BoundAssumption DEF TypeOK, Grown
<1>2. CASE Step(t) \/ Idles(t)
  BY <1>1, <1>2, StepFrame DEF Seen, Idles
<1>3. CASE Takes(t) \/ Reset(t)
  BY <1>1, <1>3 DEF Takes, Reset
<1> QED
  BY <1>2, <1>3, StepOfThread

\* Every step keeps the place of each thread in agreement with its job.
LEMMA NextFitting ==
  ASSUME TypeOK, Fitting, [Next]_vars
  PROVE  Fitting'
<1> SUFFICES ASSUME NEW t \in Threads
             PROVE  FittingAt(t)'
  BY DEF Fitting
<1> USE DEF FittingAt
<1>1. FittingAt(t)
  BY DEF Fitting
<1>2. CASE Takes(t) \/ Idles(t) \/ Reset(t)
  BY <1>1, <1>2 DEF Takes, Idles, Reset
<1>3. CASE Step(t)
  <2>1. job' = job
    BY <1>3, StepFrame
  <2>2. ASSUME NEW a, Send(t, a)
        PROVE  FittingAt(t)'
    BY <2>2, SendEffect
  <2>3. CASE ReadCache(t)
    BY <1>1, <2>1, <2>2, <2>3 DEF ReadCache, TypeOK, localVars
  <2>4. CASE Scan(t)
    BY <1>1, <2>1, <2>2, <2>4 DEF Scan, ReadShard, TypeOK
  <2>5. CASE Fill(t) \/ FillFails(t) \/ CheckIdentity(t) \/ SelectFails(t)
    BY <2>2, <2>5 DEF Fill, FillFails, CheckIdentity, SelectIdentity, SelectFails
  <2>6. CASE SearchShard(t)
    BY <1>1, <2>1, <2>2, <2>6 DEF SearchShard, TypeOK
  <2> QED
    BY <1>3, <2>3, <2>4, <2>5, <2>6 DEF Step
<1> QED
  BY <1>2, <1>3, StepOfThread

\* A row that exists goes on existing, and so does a user.
LEMMA RowsStay ==
  ASSUME TypeOK, [Next]_vars
  PROVE  /\ \A row \in Row : Exists(row) => Exists(row)'
         /\ \A u \in Users : Stored(u) => Stored(u)'
<1>1. ASSUME NEW s \in Shards
      PROVE  /\ Len(table[s]) \in Nat /\ Len(table'[s]) \in Nat
             /\ Len(table[s]) <= Len(table'[s])
             /\ \A i \in 1..Len(table[s]) : table'[s][i] = table[s][i]
  BY TablesGrow DEF TypeOK, Grown
<1>2. ASSUME NEW row \in Row, Exists(row)
      PROVE  Exists(row)'
  <2>1. row.shard \in Shards /\ row.id \in Nat \ {0}
    BY DEF Row, Ids
  <2> QED
    BY <1>1, <1>2, <2>1 DEF Exists
<1>3. ASSUME NEW u \in Users, Stored(u)
      PROVE  Stored(u)'
  BY <1>1, <1>3 DEF Stored, Matches
<1> QED
  BY <1>2, <1>3

\* What a list of search holds when a round began stays true while rows are
\* added.
LEMMA ListsStay ==
  ASSUME TypeOK, Seen, [Next]_vars, NEW t \in Threads, NEW set \in SUBSET Users,
         job'[t] = job[t], before'[t] = before[t], Lists(t, set)
  PROVE  Lists(t, set)'
<1>1. 0 \in Shards
  BY ShardAssumption DEF Shards
<1>2. \A i \in 1..before[t][0] : table'[0][i] = table[0][i]
  BY <1>1, TablesGrow DEF Grown, Seen, TypeOK
<1>3. \A u \in set : u \in job[t].mask /\ Stored(u)'
  BY RowsStay DEF Lists
<1> QED
  BY <1>2, <1>3 DEF Lists

\* The first round of search collects the whole of the first shard, and later
\* rounds add nothing: the list is right after every round.
LEMMA RoundLists ==
  ASSUME TypeOK, Fitting, Seen, Underway, NEW t \in Threads, at[t] = "search"
  PROVE  LET all == results[t] \cup (IF drained[t] THEN {} ELSE Selected(t, shard[t]))
         IN  all \in SUBSET Users /\ Lists(t, all)
<1>1. 0 \in Shards /\ job[t].mask \in SUBSET Users
  BY ShardAssumption, MaskAssumption DEF Shards, Fitting, FittingAt, SearchJobs
<1>2. CASE drained[t]
  BY <1>2 DEF Underway, UnderwayAt, TypeOK
<1>3. CASE ~drained[t]
  <2>1. shard[t] = 0 /\ results[t] = {}
    BY <1>3 DEF Underway, UnderwayAt
  <2>2. Selected(t, 0) \in SUBSET Users
    BY <1>1 DEF Selected
  <2>3. \A u \in Selected(t, 0) : u \in job[t].mask /\ Stored(u)
    BY <1>1 DEF Selected, Stored, Matches
  <2>4. \A i \in 1..before[t][0] : table[0][i] \in job[t].mask => table[0][i] \in Selected(t, 0)
    BY <1>1 DEF Selected, Seen, TypeOK
  <2> QED
    BY <1>3, <2>1, <2>2, <2>3, <2>4 DEF Lists
<1> QED
  BY <1>2, <1>3

\* Every step keeps what the loops have established.
LEMMA NextUnderway ==
  ASSUME TypeOK, Fitting, Seen, Underway, [Next]_vars
  PROVE  Underway'
<1> SUFFICES ASSUME NEW t \in Threads
             PROVE  UnderwayAt(t)'
  BY DEF Underway
<1>1. FittingAt(t) /\ UnderwayAt(t)
  BY DEF Fitting, Underway
<1>2. CASE Idles(t)
  <2>1. /\ at'[t] = at[t] /\ job'[t] = job[t] /\ shard'[t] = shard[t] /\ before'[t] = before[t]
        /\ found'[t] = found[t] /\ drained'[t] = drained[t] /\ results'[t] = results[t]
    BY <1>2 DEF Idles
  <2>2. at[t] = "fill" => Exists(found[t])'
    BY <1>1, <2>1, RowsStay DEF UnderwayAt, Exists
  <2>3. ASSUME at[t] = "search", drained[t]
        PROVE  Lists(t, results[t])'
    BY <1>1, <2>1, <2>3, ListsStay DEF UnderwayAt, TypeOK
  <2> QED
    BY <1>1, <2>1, <2>2, <2>3 DEF UnderwayAt, NoneBefore, Exists, Lists
<1>3. CASE Takes(t) \/ Reset(t)
  BY <1>1, <1>3 DEF Takes, Reset, UnderwayAt, FittingAt, NoneBefore
<1>4. CASE Step(t)
  <2>1. table' = table /\ job' = job /\ before' = before
    BY <1>4, StepFrame
  <2>2. ASSUME NEW a, Send(t, a)
        PROVE  UnderwayAt(t)'
    BY <2>2, SendEffect DEF UnderwayAt
  <2>3. CASE ReadCache(t)
    <3>1. CASE at' = [at EXCEPT ![t] = "scan"] /\ UNCHANGED <<localVars, answer>>
      BY <1>1, <2>3, <3>1 DEF ReadCache, localVars, TypeOK, FittingAt, UnderwayAt, NoneBefore
    <3> QED
      BY <2>2, <2>3, <3>1 DEF ReadCache
  <2>4. CASE Scan(t)
    <3> DEFINE s == shard[t]
               row == [shard |-> s, id |-> job[t].id, user |-> table[s][job[t].id]]
    <3>1. /\ s \in Shards /\ s \in Nat /\ job[t].id \in Ids /\ job[t].id \in Nat \ {0}
          /\ Len(table[s]) \in Nat /\ before[t][s] \in Nat /\ before[t][s] <= Len(table[s])
          /\ NoneBefore(t, s)
      <4>1. job[t].id \in Ids /\ NoneBefore(t, s)
        BY <1>1, <2>4 DEF Scan, ReadShard, FittingAt, GetJobs, UnderwayAt
      <4>2. s \in Shards /\ s \in Nat
        <5>1. s \in Shards
          BY DEF TypeOK
        <5> QED
          BY <5>1 DEF Shards
      <4>3. Len(table[s]) \in Nat /\ before[t][s] \in Nat /\ before[t][s] <= Len(table[s])
        BY <4>2, BoundAssumption DEF TypeOK, Seen
      <4> QED
        BY <4>1, <4>2, <4>3 DEF Ids
    <3>2. CASE /\ job[t].id <= Len(table[s])
               /\ at' = [at EXCEPT ![t] = "fill"] /\ found' = [found EXCEPT ![t] = row]
      <4>1. row \in Row /\ Exists(row)
        BY <3>1, <3>2 DEF Row, Exists, TypeOK
      <4>2. at'[t] = "fill" /\ found'[t] = row
        BY <3>2 DEF TypeOK
      <4> QED
        BY <2>1, <3>1, <4>1, <4>2 DEF UnderwayAt, Exists, NoneBefore
    <3>3. CASE /\ job[t].id > Len(table[s])
               /\ shard' = [shard EXCEPT ![t] = @ + 1] /\ UNCHANGED at
      <4>1. at'[t] = "scan" /\ shard'[t] = s + 1
        BY <2>4, <3>3 DEF Scan, ReadShard, TypeOK
      <4>2. \A r \in 0..s : job[t].id > before[t][r]
        BY <3>1, <3>3 DEF NoneBefore
      <4> QED
        BY <2>1, <3>1, <4>1, <4>2 DEF UnderwayAt, NoneBefore
    <3> QED
      BY <2>2, <2>4, <3>2, <3>3 DEF Scan, ReadShard
  <2>5. CASE Fill(t) \/ FillFails(t) \/ CheckIdentity(t) \/ SelectFails(t)
    BY <2>2, <2>5 DEF Fill, FillFails, CheckIdentity, SelectIdentity, SelectFails
  <2>6. CASE SearchShard(t)
    <3> DEFINE all == results[t] \cup (IF drained[t] THEN {} ELSE Selected(t, shard[t]))
    <3>1. at[t] = "search" /\ all \in SUBSET Users /\ Lists(t, all)
      BY <2>6, RoundLists DEF SearchShard
    <3>3. CASE /\ results' = [results EXCEPT ![t] = all] /\ drained' = [drained EXCEPT ![t] = TRUE]
               /\ UNCHANGED at
      <4>1. at'[t] = "search" /\ drained'[t] /\ results'[t] = all
        BY <3>1, <3>3 DEF TypeOK
      <4> HIDE DEF all
      <4>2. Lists(t, results[t])'
        BY <2>1, <3>1, <4>1 DEF Lists, Stored, Matches
      <4> QED
        BY <4>1, <4>2 DEF UnderwayAt
    <3> QED
      BY <2>2, <2>6, <3>3 DEF SearchShard
  <2> QED
    BY <1>4, <2>3, <2>4, <2>5, <2>6 DEF Step
<1> QED
  BY <1>2, <1>3, <1>4, StepOfThread

-----------------------------------------------------------------------------
(***************************************************************************)
(* Answers                                                                 *)
(***************************************************************************)

\* After a step of a thread's own that leaves it idle, its request is answered
\* and the answer is one of these.
Outcome(t) ==
  \/ /\ job[t] \in GetJobs
     /\ \/ \E row \in Row, hit \in BOOLEAN :
             /\ answer'[t] = [status |-> 200, row |-> row, hit |-> hit]
             /\ row.id = job[t].id /\ Exists(row)
             /\ ~hit => NoneBefore(t, row.shard)
        \/ /\ answer'[t] = [status |-> 404]
           /\ failed'[t] \/ NoneBefore(t, MaxShard)
  \/ /\ job[t] \in AuthJobs
     /\ \/ \E id \in FirstOf(Matches(ShardOf[job[t].user], job[t].user)) :
             answer'[t] = [status |-> 200, id |-> id]
        \/ /\ answer'[t] = [status |-> 401]
           /\ failed'[t] \/ Matches(ShardOf[job[t].user], job[t].user) = {}
  \/ /\ job[t] \in SearchJobs
     /\ \/ \E list \in SUBSET Users :
             answer'[t] = [status |-> 200, list |-> list] /\ Lists(t, list)
        \/ answer'[t] = [status |-> 404]

\* A user with rows in a shard has an oldest one there, and only one.
LEMMA OldestExists ==
  ASSUME NEW n \in Nat, NEW ids \in SUBSET (1..n)
  PROVE  /\ ids # {} => FirstOf(ids) # {}
         /\ \A i, j \in FirstOf(ids) : i = j
<1>1. ASSUME ids # {}
      PROVE  \E i \in ids : \A j \in ids : i <= j
  <2>1. ids \subseteq Nat
    OBVIOUS
  <2>2. IsWellFoundedOn({p \in Nat \X Nat : p[1] < p[2]}, Nat)
    BY NatLessThanWellFounded, Zenon DEF OpToRel
  <2>3. PICK i \in ids : \A j \in ids : <<j, i>> \notin {p \in Nat \X Nat : p[1] < p[2]}
    BY <1>1, <2>1, <2>2, WFMin
  <2>4. ASSUME NEW j \in ids
        PROVE  i <= j
    <3>1. i \in Nat /\ j \in Nat /\ <<j, i>> \in Nat \X Nat
      BY <2>1
    <3>2. ~ (<<j, i>>[1] < <<j, i>>[2])
      BY <2>3, <3>1, Zenon
    <3> QED
      BY <3>1, <3>2
  <2> QED
    BY <2>4
<1> QED
  BY <1>1 DEF FirstOf

\* What the steps of a thread send, given what its reads have established.
LEMMA StepOutcome ==
  ASSUME TypeOK, Fitting, Seen, Underway, RowsAreReal, NEW t \in Threads, Step(t)
  PROVE  at'[t] # "idle" \/ Outcome(t)
<1>1. FittingAt(t) /\ UnderwayAt(t)
  BY DEF Fitting, Underway
<1>2. CASE ReadCache(t)
  <2>1. at[t] = "cache" /\ job[t] \in GetJobs /\ job[t].id \in Ids
    BY <1>1, <1>2 DEF ReadCache, FittingAt, GetJobs
  <2>2. CASE at' = [at EXCEPT ![t] = "scan"]
    BY <2>2 DEF TypeOK
  <2>3. CASE /\ cache[job[t].id] # None
             /\ Send(t, [status |-> 200, row |-> cache[job[t].id], hit |-> TRUE])
    <3>1. /\ cache[job[t].id] \in Row /\ cache[job[t].id].id = job[t].id
          /\ Exists(cache[job[t].id])
      BY <2>1, <2>3 DEF RowsAreReal, TypeOK
    <3>2. answer'[t] = [status |-> 200, row |-> cache[job[t].id], hit |-> TRUE]
      BY <2>3, SendEffect
    <3> QED
      BY <2>1, <3>1, <3>2 DEF Outcome
  <2> QED
    BY <1>2, <2>2, <2>3 DEF ReadCache
<1>3. CASE Scan(t)
  <2> DEFINE s == shard[t]
             row == [shard |-> s, id |-> job[t].id, user |-> table[s][job[t].id]]
  <2>1. at[t] = "scan" /\ job[t] \in GetJobs /\ job[t].id \in Ids /\ NoneBefore(t, s)
    BY <1>1, <1>3 DEF Scan, ReadShard, FittingAt, GetJobs, UnderwayAt
  <2>2. s \in Shards /\ s \in Nat
    <3>1. s \in Shards
      BY DEF TypeOK
    <3> QED
      BY <3>1 DEF Shards
  <2>3. Len(table[s]) \in Nat /\ before[t][s] \in Nat /\ before[t][s] <= Len(table[s])
    BY <2>2, BoundAssumption DEF TypeOK, Seen
  <2>4. CASE at' = [at EXCEPT ![t] = "fill"] \/ UNCHANGED at
    BY <2>1, <2>4 DEF TypeOK
  <2>5. CASE job[t].id <= Len(table[s]) /\ Send(t, [status |-> 200, row |-> row, hit |-> FALSE])
    <3>1. row \in Row /\ Exists(row)
      BY <2>1, <2>2, <2>3, <2>5 DEF Row, Exists, TypeOK, Ids
    <3>2. answer'[t] = [status |-> 200, row |-> row, hit |-> FALSE]
      BY <2>5, SendEffect
    <3> QED
      BY <2>1, <3>1, <3>2 DEF Outcome
  <2>6. CASE job[t].id > Len(table[s]) /\ s = MaxShard - 1 /\ Send(t, [status |-> 404])
    <3>1. NoneBefore(t, MaxShard)
      BY <2>1, <2>2, <2>3, <2>6, ShardAssumption DEF NoneBefore, Ids
    <3>2. answer'[t] = [status |-> 404]
      BY <2>6, SendEffect
    <3> QED
      BY <2>1, <3>1, <3>2 DEF Outcome
  <2> QED
    BY <1>3, <2>4, <2>5, <2>6 DEF Scan, ReadShard
<1>4. CASE Fill(t)
  <2>1. /\ job[t] \in GetJobs /\ found[t] \in Row /\ found[t].id = job[t].id
        /\ Exists(found[t]) /\ NoneBefore(t, found[t].shard)
    BY <1>1, <1>4 DEF Fill, FittingAt, UnderwayAt
  <2>2. answer'[t] = [status |-> 200, row |-> found[t], hit |-> FALSE]
    BY <1>4, SendEffect DEF Fill
  <2> QED
    BY <2>1, <2>2 DEF Outcome
<1>5. CASE FillFails(t)
  <2>1. job[t] \in GetJobs
    BY <1>1, <1>5 DEF FillFails, FittingAt
  <2>2. answer'[t] = [status |-> 404] /\ failed'[t]
    BY <1>5, SendEffect DEF FillFails, TypeOK
  <2> QED
    BY <2>1, <2>2 DEF Outcome
<1>6. CASE CheckIdentity(t)
  <2>1. job[t] \in AuthJobs
    BY <1>1, <1>6 DEF CheckIdentity, SelectIdentity, FittingAt
  <2> DEFINE rows == Matches(ShardOf[job[t].user], job[t].user)
  <2>2. CASE \E id \in FirstOf(rows) : Send(t, [status |-> 200, id |-> id])
    <3>1. \E id \in FirstOf(rows) : answer'[t] = [status |-> 200, id |-> id]
      BY <2>2, SendEffect
    <3> QED
      BY <2>1, <3>1 DEF Outcome
  <2>3. CASE FirstOf(rows) = {} /\ Send(t, [status |-> 401])
    <3>1. answer'[t] = [status |-> 401]
      BY <2>3, SendEffect
    <3>2. rows = {}
      <4> DEFINE n == Len(table[ShardOf[job[t].user]])
      <4>1. n \in Nat /\ rows \in SUBSET (1..n)
        BY <2>1, ShardAssumption DEF Matches, AuthJobs, TypeOK
      <4> HIDE DEF rows, n
      <4> QED
        BY <2>3, <4>1, OldestExists
    <3> QED
      BY <2>1, <3>1, <3>2 DEF Outcome
  <2> QED
    BY <1>6, <2>2, <2>3 DEF CheckIdentity, SelectIdentity
<1>7. CASE SearchShard(t)
  <2> DEFINE all == results[t] \cup (IF drained[t] THEN {} ELSE Selected(t, shard[t]))
  <2>1. at[t] = "search" /\ job[t] \in SearchJobs
    BY <1>1, <1>7 DEF SearchShard, FittingAt
  <2>2. all \in SUBSET Users /\ Lists(t, all)
    BY <2>1, RoundLists
  <2>3. CASE UNCHANGED at
    BY <2>1, <2>3
  <2>4. CASE Send(t, [status |-> 200, list |-> all])
    <3>1. answer'[t] = [status |-> 200, list |-> all]
      BY <2>4, SendEffect
    <3> HIDE DEF all
    <3> QED
      BY <2>1, <2>2, <3>1 DEF Outcome
  <2> QED
    BY <1>7, <2>3, <2>4 DEF SearchShard
<1>8. CASE SelectFails(t)
  <2>1. answer'[t] = [status |-> IF at[t] = "auth" THEN 401 ELSE 404] /\ failed'[t]
    BY <1>8, SendEffect DEF SelectFails, TypeOK
  <2>2. \/ at[t] = "scan" /\ job[t] \in GetJobs
        \/ at[t] = "auth" /\ job[t] \in AuthJobs
        \/ at[t] = "search" /\ job[t] \in SearchJobs
    BY <1>1, <1>8 DEF SelectFails, FittingAt
  <2> QED
    BY <2>1, <2>2 DEF Outcome
<1> QED
  BY <1>2, <1>3, <1>4, <1>5, <1>6, <1>7, <1>8 DEF Step

\* A thread that is idle after a step either was not concerned, or has nothing
\* to show, or has just answered.
LEMMA WhatIsAnswered ==
  ASSUME TypeOK, Fitting, Seen, Underway, RowsAreReal, [Next]_vars, NEW t \in Threads
  PROVE  \/ Idles(t)
         \/ at'[t] # "idle" \/ job'[t] = None
         \/ table' = table /\ job' = job /\ before' = before /\ Outcome(t)
<1>1. CASE Step(t)
  BY <1>1, StepFrame, StepOutcome
<1>2. CASE Takes(t) \/ Reset(t)
  BY <1>2 DEF Takes, Reset
<1> QED
  BY <1>1, <1>2, StepOfThread

\* Every step keeps the cache and the answers of GET to rows that exist.
LEMMA NextRowsAreReal ==
  ASSUME TypeOK, Fitting, Seen, Underway, RowsAnswered, RowsAreReal, [Next]_vars
  PROVE  RowsAnswered' /\ RowsAreReal'
<1>1. \A row \in Row : Exists(row) => Exists(row)'
  BY RowsStay
<1>2. ASSUME NEW id \in Ids, cache'[id] # None
      PROVE  cache'[id].id = id /\ Exists(cache[id])'
  <2>1. ASSUME NEW t \in Threads, at[t] = "fill", Put(t)
        PROVE  /\ cache'[id] \in Row \cup {None}
               /\ cache'[id] # None => cache'[id].id = id /\ Exists(cache'[id])
    <3>1. found[t] \in Row /\ Exists(found[t])
      BY <2>1 DEF Underway, UnderwayAt
    <3>2. cache[id] \in Row \cup {None}
      BY DEF TypeOK
    <3>3. cache[id] # None => cache[id].id = id /\ Exists(cache[id])
      BY DEF RowsAreReal
    <3> QED
      BY <2>1, <3>1, <3>2, <3>3 DEF Put, TypeOK
  <2>2. CASE \E t \in Threads : Fill(t) \/ (FillFails(t) /\ cache' # cache)
    BY <1>1, <1>2, <2>1, <2>2 DEF Fill, FillFails, Exists
  <2>3. CASE UNCHANGED cache \/ \E i \in Ids : Expire(i)
    <3>1. cache'[id] = cache[id]
      BY <1>2, <2>3 DEF Expire, TypeOK
    <3>2. cache[id] \in Row /\ cache[id].id = id /\ Exists(cache[id])
      BY <1>2, <3>1 DEF RowsAreReal, TypeOK
    <3> QED
      BY <1>1, <3>1, <3>2 DEF Exists
  <2> QED
    BY <2>2, <2>3 DEF Next, vars, Request, Step, Get, Auth, Search, Receive, ReadCache, Scan,
       ReadShard, FillFails, CheckIdentity, SelectIdentity, SearchShard, SelectFails, Register,
       CacheBreaks, Restart
<1>3. ASSUME NEW t \in Threads, Answered(t, "get", 200)'
      PROVE  answer'[t].row \in Row /\ answer'[t].row.id = job'[t].id /\ Exists(answer[t].row)'
  <2>1. CASE Idles(t)
    <3>1. Answered(t, "get", 200) /\ answer'[t] = answer[t] /\ job'[t] = job[t]
      BY <1>3, <2>1 DEF Answered, Idles
    <3>2. answer[t].row \in Row
      BY <3>1 DEF RowsAnswered
    <3> QED
      BY <1>1, <3>1, <3>2 DEF RowsAreReal, Exists
  <2>2. CASE table' = table /\ job' = job /\ Outcome(t)
    <3>1. job[t] \in GetJobs /\ answer'[t].status = 200
      BY <1>3, <2>2 DEF Outcome, Answered, AuthJobs, SearchJobs
    <3>2. PICK row \in Row, hit \in BOOLEAN :
            /\ answer'[t] = [status |-> 200, row |-> row, hit |-> hit]
            /\ row.id = job[t].id /\ Exists(row)
      BY <2>2, <3>1 DEF Outcome, GetJobs, AuthJobs, SearchJobs
    <3> QED
      BY <2>2, <3>2 DEF Exists
  <2> QED
    BY <1>3, <2>1, <2>2, WhatIsAnswered DEF Answered
<1> QED
  BY <1>2, <1>3 DEF RowsAnswered, RowsAreReal

\* Every step keeps what a 404 and a row from the database say of the shards.
LEMMA NextFirstShardAnswers ==
  ASSUME TypeOK, Fitting, Seen, Underway, RowsAreReal, FirstShardAnswers, [Next]_vars
  PROVE  FirstShardAnswers'
<1> SUFFICES ASSUME NEW t \in Threads
             PROVE  /\ Answered(t, "get", 404)' =>
                         failed'[t] \/ \A s \in Shards : job'[t].id > before'[t][s]
                    /\ Answered(t, "get", 200)' /\ ~answer'[t].hit =>
                         \A s \in 0..(answer'[t].row.shard - 1) : job'[t].id > before'[t][s]
  BY DEF FirstShardAnswers
<1>1. CASE Idles(t)
  BY <1>1 DEF FirstShardAnswers, Answered, Idles
<1>2. CASE job' = job /\ before' = before /\ Outcome(t)
  <2>1. SUFFICES ASSUME Answered(t, "get", 404)' \/ Answered(t, "get", 200)'
                 PROVE  /\ Answered(t, "get", 404)' =>
                             failed'[t] \/ \A s \in Shards : job'[t].id > before'[t][s]
                        /\ Answered(t, "get", 200)' /\ ~answer'[t].hit =>
                             \A s \in 0..(answer'[t].row.shard - 1) :
                               job'[t].id > before'[t][s]
    OBVIOUS
  <2>2. job[t].op = "get" /\ job[t] \in GetJobs
    BY <1>2, <2>1 DEF Outcome, Answered, AuthJobs, SearchJobs
  <2>3. CASE \E row \in Row, hit \in BOOLEAN :
               /\ answer'[t] = [status |-> 200, row |-> row, hit |-> hit]
               /\ ~hit => NoneBefore(t, row.shard)
    BY <1>2, <2>3 DEF Answered, NoneBefore
  <2>4. CASE answer'[t] = [status |-> 404] /\ (failed'[t] \/ NoneBefore(t, MaxShard))
    BY <1>2, <2>4 DEF Answered, NoneBefore, Shards
  <2> QED
    BY <1>2, <2>2, <2>3, <2>4 DEF Outcome, AuthJobs, SearchJobs
<1> QED
  BY <1>1, <1>2, WhatIsAnswered DEF Answered

\* Every step keeps what a refusal and an id say of a user's rows.
LEMMA NextAuthFindsRow ==
  ASSUME TypeOK, Fitting, Placed, Seen, Underway, RowsAreReal, AuthFindsRow, [Next]_vars
  PROVE  AuthFindsRow'
<1> SUFFICES ASSUME NEW t \in Threads
             PROVE  /\ Answered(t, "auth", 401)' =>
                         failed'[t] \/ \A s \in Shards : \A i \in 1..before'[t][s] :
                                         table'[s][i] # job'[t].user
                    /\ Answered(t, "auth", 200)' =>
                         \E s \in Shards : answer'[t].id \in Matches(s, job[t].user)'
  BY DEF AuthFindsRow
<1>1. ASSUME NEW s \in Shards
      PROVE  /\ Len(table[s]) \in Nat /\ Len(table'[s]) \in Nat
             /\ before[t][s] \in Nat /\ before[t][s] <= Len(table[s])
             /\ Len(table[s]) <= Len(table'[s])
             /\ \A i \in 1..Len(table[s]) : table'[s][i] = table[s][i]
  BY TablesGrow, BoundAssumption DEF TypeOK, Grown, Seen
<1>2. CASE Idles(t)
  <2>1. ASSUME Answered(t, "auth", 401)'
        PROVE  failed'[t] \/ \A s \in Shards : \A i \in 1..before'[t][s] :
                               table'[s][i] # job'[t].user
    <3>1. failed[t] \/ \A s \in Shards : \A i \in 1..before[t][s] : table[s][i] # job[t].user
      <4>1. Answered(t, "auth", 401)
        BY <1>2, <2>1 DEF Answered, Idles
      <4> QED
        BY <4>1 DEF AuthFindsRow
    <3> QED
      BY <1>1, <1>2, <3>1 DEF Idles
  <2>2. ASSUME Answered(t, "auth", 200)'
        PROVE  \E s \in Shards : answer'[t].id \in Matches(s, job[t].user)'
    <3>1. \E s \in Shards : answer[t].id \in Matches(s, job[t].user)
      BY <1>2, <2>2 DEF AuthFindsRow, Answered, Idles
    <3> QED
      BY <1>1, <1>2, <3>1 DEF Idles, Matches
  <2> QED
    BY <2>1, <2>2
<1>3. CASE table' = table /\ job' = job /\ before' = before /\ Outcome(t)
  <2> DEFINE u == job[t].user
  <2>1. SUFFICES ASSUME Answered(t, "auth", 401)' \/ Answered(t, "auth", 200)'
                 PROVE  /\ Answered(t, "auth", 401)' =>
                             failed'[t] \/ \A s \in Shards : \A i \in 1..before'[t][s] :
                                             table'[s][i] # job'[t].user
                        /\ Answered(t, "auth", 200)' =>
                             \E s \in Shards : answer'[t].id \in Matches(s, job[t].user)'
    OBVIOUS
  <2>2. job[t].op = "auth" /\ job[t] \in AuthJobs
    BY <1>3, <2>1 DEF Outcome, Answered, GetJobs, SearchJobs
  <2>3. u \in Users /\ ShardOf[u] \in Shards
    BY <2>2, ShardAssumption DEF AuthJobs
  <2>4. CASE \E id \in FirstOf(Matches(ShardOf[u], u)) :
               answer'[t] = [status |-> 200, id |-> id]
    BY <1>3, <2>3, <2>4 DEF Answered, FirstOf, Matches
  <2>5. CASE answer'[t] = [status |-> 401] /\ failed'[t]
    BY <2>5 DEF Answered
  <2>6. CASE answer'[t] = [status |-> 401] /\ Matches(ShardOf[u], u) = {}
    <3>1. \A s \in Shards : \A i \in 1..Len(table[s]) : table[s][i] # u
      BY <2>3, <2>6 DEF Placed, Matches
    <3> QED
      BY <1>1, <1>3, <2>6, <3>1 DEF Answered
  <2> QED
    BY <1>3, <2>2, <2>4, <2>5, <2>6 DEF Outcome, GetJobs, SearchJobs
<1> QED
  BY <1>2, <1>3, WhatIsAnswered DEF Answered

\* Every step keeps the lists that were answered sound.
LEMMA NextSearchIsSound ==
  ASSUME TypeOK, Fitting, Seen, Underway, RowsAreReal, SearchIsSound, [Next]_vars
  PROVE  SearchIsSound'
<1>1. ASSUME NEW t \in Threads, Answered(t, "search", 200),
             job[t].mask \in SUBSET Users
      PROVE  answer[t].list \in SUBSET Users /\ Lists(t, answer[t].list)
  BY <1>1 DEF SearchIsSound, Lists, Stored
<1>2. ASSUME NEW t \in Threads, Answered(t, "search", 200)'
      PROVE  Lists(t, answer[t].list)'
  <2>1. CASE Idles(t)
    <3>1. /\ Answered(t, "search", 200) /\ answer'[t] = answer[t]
          /\ job'[t] = job[t] /\ before'[t] = before[t]
      BY <1>2, <2>1 DEF Answered, Idles
    <3>2. job[t].mask \in SUBSET Users
      <4>1. job[t] \in Jobs /\ job[t].op = "search"
        BY <3>1 DEF Answered, TypeOK
      <4> QED
        BY <4>1, MaskAssumption DEF Jobs
    <3>3. PICK list \in SUBSET Users : list = answer[t].list /\ Lists(t, list)
      BY <1>1, <3>1, <3>2
    <3>4. Lists(t, list)'
      BY <3>1, <3>3, ListsStay
    <3> QED
      BY <3>1, <3>3, <3>4 DEF Lists
  <2>2. CASE table' = table /\ job' = job /\ before' = before /\ Outcome(t)
    <3>1. job[t] \in SearchJobs /\ answer'[t].status = 200
      BY <1>2, <2>2 DEF Outcome, Answered, GetJobs, AuthJobs
    <3>2. PICK list \in SUBSET Users :
            answer'[t] = [status |-> 200, list |-> list] /\ Lists(t, list)
      <4>1. job[t] \notin GetJobs /\ job[t] \notin AuthJobs
        BY <3>1 DEF GetJobs, AuthJobs, SearchJobs
      <4>2. answer'[t] # [status |-> 404]
        BY <3>1
      <4> QED
        BY <2>2, <4>1, <4>2, Zenon DEF Outcome
    <3> QED
      BY <2>2, <3>2 DEF Lists, Stored, Matches
  <2> QED
    BY <1>2, <2>1, <2>2, WhatIsAnswered DEF Answered
<1> QED
  BY <1>2 DEF SearchIsSound, Lists, Stored

\* Every step keeps the ids auth has answered the oldest of their user: a row
\* that is added comes after those that are there.
LEMMA NextOldestIds ==
  ASSUME TypeOK, Fitting, OldestIds, [Next]_vars
  PROVE  OldestIds'
<1> SUFFICES ASSUME NEW u \in Users, NEW id \in identity'[u]
             PROVE  id \in FirstOf(Matches(ShardOf[u], u))'
  BY DEF OldestIds
<1>1. ShardOf[u] \in Shards
  BY ShardAssumption
<1>2. id \in FirstOf(Matches(ShardOf[u], u))
  <2>1. CASE id \in identity[u]
    BY <2>1 DEF OldestIds
  <2>2. ASSUME NEW t \in Threads, CheckIdentity(t), id \notin identity[u]
        PROVE  id \in FirstOf(Matches(ShardOf[u], u))
    <3>1. job[t].user \in Users
      BY <2>2 DEF CheckIdentity, SelectIdentity, Fitting, FittingAt, AuthJobs
    <3>2. \/ UNCHANGED identity
          \/ \E i \in FirstOf(Matches(ShardOf[job[t].user], job[t].user)) :
               identity' = [identity EXCEPT ![job[t].user] = @ \cup {i}]
      BY <2>2 DEF CheckIdentity, SelectIdentity
    <3>3. identity \in [Users -> SUBSET Ids]
      BY DEF TypeOK
    <3>4. PICK i \in FirstOf(Matches(ShardOf[job[t].user], job[t].user)) :
            identity' = [identity EXCEPT ![job[t].user] = @ \cup {i}]
      BY <2>2, <3>2
    <3>5. job[t].user = u /\ id = i
      BY <2>2, <3>1, <3>3, <3>4
    <3> QED
      BY <3>5
  <2>3. UNCHANGED identity \/ \E t \in Threads : CheckIdentity(t)
    BY DEF Next, vars, Request, Step, Get, Auth, Search, Receive, ReadCache, Scan,
       ReadShard, Fill, FillFails, SearchShard, SelectFails, Register, Expire, CacheBreaks,
       Restart
  <2> QED
    BY <2>1, <2>2, <2>3
<1>3. /\ Len(table[ShardOf[u]]) \in Nat /\ Len(table'[ShardOf[u]]) \in Nat
      /\ Len(table[ShardOf[u]]) <= Len(table'[ShardOf[u]])
      /\ \A i \in 1..Len(table[ShardOf[u]]) : table'[ShardOf[u]][i] = table[ShardOf[u]][i]
  BY <1>1, TablesGrow DEF Grown, TypeOK
<1> QED
  BY <1>2, <1>3 DEF FirstOf, Matches

\* Inv is inductive.
LEMMA InvStep == Inv /\ [Next]_vars => Inv'
  BY NextTypeOK, NextFitting, NextPlaced, NextSeen, NextUnderway, NextOldestIds,
     NextRowsAreReal, NextFirstShardAnswers, NextAuthFindsRow, NextSearchIsSound DEF Inv

\* In every reachable state the invariant holds.
LEMMA Invariance == Spec => []Inv
  BY InitInv, InvStep, PTL DEF Spec

-----------------------------------------------------------------------------
(***************************************************************************)
(* The properties                                                          *)
(***************************************************************************)

\* Every variable always has its type.
THEOREM TypeCorrect == Spec => []TypeOK
<1>1. Inv => TypeOK
  BY DEF Inv
<1> QED
  BY <1>1, Invariance, PTL

\* Whatever thread filled the cache, and however long ago: what Redis holds
\* under an id, and what a GET with that id is answered, is a row with this id.
THEOREM OnlyRealRows == Spec => []RowsAreReal
<1>1. Inv => RowsAreReal
  BY DEF Inv
<1> QED
  BY <1>1, Invariance, PTL

\* For any number of shards, growing while they are read one after the other: a
\* 404 means that no shard had the id when the request came in, or an outage;
\* and no shard before that of the answered row had it then.
THEOREM FirstShardWins == Spec => []FirstShardAnswers
<1>1. Inv => FirstShardAnswers
  BY DEF Inv
<1> QED
  BY <1>1, Invariance, PTL

\* For every routing function: auth refuses nobody who had a row when the
\* request came in, outages apart, and answers an id of one of their rows.
THEOREM AuthLooksWhereRowsAre == Spec => []AuthFindsRow
<1>1. Inv => AuthFindsRow
  BY DEF Inv
<1> QED
  BY <1>1, Invariance, PTL

\* However often a user's row is duplicated: auth answers one id for ever.
THEOREM IdentityNeverChanges == Spec => []IdentityIsStable
<1>1. Inv => IdentityIsStable
  <2> SUFFICES ASSUME Inv, NEW u \in Users
               PROVE  Cardinality(identity[u]) <= 1
    BY DEF IdentityIsStable
  <2> DEFINE n == Len(table[ShardOf[u]])
             ids == Matches(ShardOf[u], u)
  <2>1. n \in Nat /\ ids \in SUBSET (1..n) /\ identity[u] \subseteq FirstOf(ids)
    <3>1. table \in [Shards -> Seq(Users)] /\ OldestIds
      BY DEF Inv, TypeOK
    <3> QED
      BY <3>1, ShardAssumption DEF OldestIds, Matches
  <2> HIDE DEF n, ids
  <2>2. \A i, j \in identity[u] : i = j
    BY <2>1, OldestExists
  <2>3. CASE identity[u] = {}
    BY <2>3, FS_EmptySet
  <2>4. CASE identity[u] # {}
    <3>1. PICK i \in identity[u] : TRUE
      BY <2>4
    <3>2. identity[u] = {i}
      BY <2>2, <3>1
    <3> QED
      <4>1. Cardinality({i}) = 1
        BY FS_Singleton
      <4> QED
        BY <3>2, <4>1
  <2> QED
    BY <2>3, <2>4
<1> QED
  BY <1>1, Invariance, PTL

\* The list of /search holds users with a row that the masks match, and at least
\* those the first shard had when the request came in.
THEOREM SearchNeverLies == Spec => []SearchIsSound
<1>1. Inv => SearchIsSound
  BY DEF Inv
<1> QED
  BY <1>1, Invariance, PTL
=============================================================================
