--------------------------- MODULE CacheConnection ---------------------------
(***************************************************************************)
(* Cache::get and Cache::put: one Cache object, made on first use, with one*)
(* stream to Redis, and one global mutex around every command and its reply.*)
(* There is no timeout: a thread waits for its reply with the mutex held.  *)
(*                                                                         *)
(* Redis serves the commands of the stream in their order and sends the    *)
(* replies back in that order: a reply says nothing of the command it       *)
(* answers. One run of auth_service is modelled.                           *)
(***************************************************************************)
EXTENDS Sequences

CONSTANTS
  Threads,  \* the threads of auth_service's HTTPServer
  Keys,     \* user ids
  Vals,     \* rows, as JSON
  None      \* no thread, no value, no command


VARIABLES
  store,    \* store[k]: the value Redis holds under key k, or None
  link,     \* the stream: "none" before it is made, "open" or "broken"
  maker,    \* the thread in the constructor of `static Cache instance`
  mtx,      \* the thread holding _mtx, or None
  at,       \* at[t]: where thread t is in its call
  cmd,      \* cmd[t]: the command of its call
  result,   \* result[t]: what execute returned to it
  wire,     \* commands on their way to Redis
  replies   \* replies on their way back

threadVars == <<at, cmd, result>>
wireVars   == <<wire, replies>>
vars == <<store, link, maker, mtx, threadVars, wireVars>>

\* The calls and the late put of AtomicCache, as this state shows them.
CallSeen(t) ==
  CASE at[t] = "idle" -> None
    [] at[t] \in {"done", "failed"} ->
         [cmd |-> cmd[t], at |-> IF at[t] = "done" THEN "effected" ELSE "failed",
          result |-> result[t]]
    [] at[t] = "receive" /\ replies # <<>> ->
         [cmd |-> cmd[t], at |-> "effected", result |-> Head(replies)]
    [] at[t] = "receive" /\ replies = <<>> /\ link = "broken" ->
         [cmd |-> cmd[t], at |-> "failed", result |-> None]
    [] OTHER -> [cmd |-> cmd[t], at |-> "called", result |-> None]

CallsSeen == [t \in Threads |-> CallSeen(t)]

LateSeen == IF link = "broken" /\ wire # <<>> THEN Head(wire) ELSE None

Atomic == INSTANCE AtomicCache WITH call <- CallsSeen, late <- LateSeen

Commands == Atomic!Commands
Replies  == Vals \cup {None, Atomic!OK}

ASSUME NoneAssumption ==
  /\ None \notin Threads \cup Vals \cup Commands
  /\ None \notin [cmd : Commands, at : {"called", "effected", "failed"}, result : Replies]

TypeOK ==
  /\ store \in [Keys -> Vals \cup {None}]
  /\ link \in {"none", "open", "broken"}
  /\ maker \in Threads \cup {None}
  /\ \A t \in Threads : maker = t <=> at[t] = "connect"
  /\ mtx \in Threads \cup {None}
  /\ \A t \in Threads : mtx = t <=> at[t] \in {"send", "receive"}
  /\ at \in [Threads -> {"idle", "instance", "connect", "lock", "send",
                         "receive", "done", "failed"}]
  /\ cmd \in [Threads -> Commands \cup {None}]
  /\ result \in [Threads -> Replies]
  /\ wire \in Seq(Commands)
  /\ replies \in Seq(Replies)

Init ==
  /\ store = [k \in Keys |-> None]
  /\ link = "none"
  /\ maker = None
  /\ mtx = None
  /\ at = [t \in Threads |-> "idle"]
  /\ cmd = [t \in Threads |-> None]
  /\ result = [t \in Threads |-> None]
  /\ wire = <<>>
  /\ replies = <<>>

Goto(t, from, to) == at[t] = from /\ at' = [at EXCEPT ![t] = to]

-----------------------------------------------------------------------------
(***************************************************************************)
(* Variants with a plausible bug, none of them part of the specification   *)
(***************************************************************************)

\* Two threads may make the stream: `instance` is an unguarded pointer.
MakeUnguarded(t) ==
  /\ Goto(t, "instance", "connect")
  /\ link = "none"
  /\ maker' = t
  /\ UNCHANGED <<store, link, mtx, cmd, result, wireVars>>

\* There is no mutex.
EnterUnlocked(t) ==
  /\ Goto(t, "lock", "send")
  /\ UNCHANGED <<store, link, maker, mtx, cmd, result, wireVars>>

\* The mutex is only held while the command is written.
SendUnlocks(t) ==
  /\ Goto(t, "send", "receive")
  /\ link = "open"
  /\ wire' = Append(wire, cmd[t])
  /\ mtx' = None
  /\ UNCHANGED <<store, link, maker, cmd, result, replies>>

\* mtx.lock() and unlock() without a guard: an exception leaves it locked.
ThrowLocked(t) ==
  /\ link = "broken"
  /\ \/ Goto(t, "send", "failed")
     \/ Goto(t, "receive", "failed") /\ replies = <<>>
  /\ UNCHANGED <<store, link, maker, mtx, cmd, result, wireVars>>

-----------------------------------------------------------------------------
(***************************************************************************)
(* A thread's call                                                         *)
(***************************************************************************)

\* Cache::get().get(id, val) or Cache::get().put(id, val)
Enter(t, c) ==
  /\ Goto(t, "idle", "instance")
  /\ cmd' = [cmd EXCEPT ![t] = c]
  /\ UNCHANGED <<store, link, maker, mtx, result, wireVars>>

\* The object is there: its copy is used, which shares the stream.
Instance(t) ==
  /\ Goto(t, "instance", "lock")
  /\ link # "none"
  /\ UNCHANGED <<store, link, maker, mtx, cmd, result, wireVars>>

\* The object is not there: one thread makes it, and the others wait for it.
Make(t) ==
  /\ Goto(t, "instance", "connect")
  /\ link = "none"
  /\ maker = None
  /\ maker' = t
  /\ UNCHANGED <<store, link, mtx, cmd, result, wireVars>>

\* make_stream connects, or leaves a stream that cannot be used.
Made(t) ==
  /\ Goto(t, "connect", "lock")
  /\ link' \in {"open", "broken"}
  /\ maker' = None
  /\ UNCHANGED <<store, mtx, cmd, result, wireVars>>

\* make_stream throws: there is no object, and the next call makes it.
MakeThrows(t) ==
  /\ Goto(t, "connect", "failed")
  /\ maker' = None
  /\ UNCHANGED <<store, link, mtx, cmd, result, wireVars>>

Lock(t) ==
  /\ Goto(t, "lock", "send")
  /\ mtx = None
  /\ mtx' = t
  /\ UNCHANGED <<store, link, maker, cmd, result, wireVars>>

\* execute writes the command ...
Send(t) ==
  /\ Goto(t, "send", "receive")
  /\ link = "open"
  /\ wire' = Append(wire, cmd[t])
  /\ UNCHANGED <<store, link, maker, mtx, cmd, result, replies>>

\* ... and reads a reply, the first there is.
Receive(t) ==
  /\ Goto(t, "receive", "done")
  /\ replies # <<>>
  /\ result' = [result EXCEPT ![t] = Head(replies)]
  /\ replies' = Tail(replies)
  /\ mtx' = None
  /\ UNCHANGED <<store, link, maker, cmd, wire>>

\* Without the stream execute throws; the guard unlocks.
Throw(t) ==
  /\ link = "broken"
  /\ \/ Goto(t, "send", "failed")
     \/ Goto(t, "receive", "failed") /\ replies = <<>>
  /\ mtx' = None
  /\ UNCHANGED <<store, link, maker, cmd, result, wireVars>>

Return(t) ==
  /\ at[t] \in {"done", "failed"}
  /\ at' = [at EXCEPT ![t] = "idle"]
  /\ cmd' = [cmd EXCEPT ![t] = None]
  /\ result' = [result EXCEPT ![t] = None]
  /\ UNCHANGED <<store, link, maker, mtx, wireVars>>

-----------------------------------------------------------------------------
(***************************************************************************)
(* Redis and the connection (external)                                     *)
(***************************************************************************)

\* The next command takes effect. After a break its reply goes nowhere.
Serve ==
  /\ wire # <<>>
  /\ store' = Atomic!After(Head(wire), store)
  /\ wire' = Tail(wire)
  /\ replies' = IF link = "open"
                THEN Append(replies, Atomic!ReplyTo(Head(wire), store))
                ELSE replies
  /\ UNCHANGED <<link, maker, mtx, threadVars>>

\* The connection breaks, for good. What was on it arrives or does not.
Break ==
  /\ link = "open"
  /\ link' = "broken"
  /\ wire' \in {wire, <<>>}
  /\ replies' \in {replies, <<>>}
  /\ UNCHANGED <<store, maker, mtx, threadVars>>

\* "ex" "60"; or Redis restarts without what it had not saved.
Expire(k) ==
  /\ store[k] # None
  /\ store' = [store EXCEPT ![k] = None]
  /\ UNCHANGED <<link, maker, mtx, threadVars, wireVars>>

-----------------------------------------------------------------------------
Step(t) ==
  \/ Instance(t) \/ Make(t) \/ Made(t) \/ MakeThrows(t)
  \/ Lock(t) \/ Send(t) \/ Receive(t) \/ Throw(t) \/ Return(t)

Next ==
  \/ \E t \in Threads : Step(t) \/ \E c \in Commands : Enter(t, c)
  \/ Serve \/ Break
  \/ \E k \in Keys : Expire(k)

Spec == Init /\ [][Next]_vars

\* Threads run, and connecting ends one way or the other. That Redis serves a
\* command it was sent, or the connection breaks, is an assumption: the stream
\* has no timeout that would make it true.
FairSpec ==
  Spec /\ (\A t \in Threads : WF_vars(Step(t))) /\ WF_vars(Serve \/ Break)

-----------------------------------------------------------------------------
(***************************************************************************)
(* Correctness                                                             *)
(***************************************************************************)

\* A reply carries no request's name. The mutex makes sure that the only thing
\* on the stream is the receiving thread's own command, or the reply to it.
OnlyMyCommand ==
  \A t \in Threads : (at[t] = "receive" /\ link = "open") =>
    \/ wire = <<cmd[t]>> /\ replies = <<>>
    \/ wire = <<>> /\ Len(replies) = 1

\* However the threads interleave, whenever the stream breaks: every call has
\* its effect at one moment while it runs and returns the reply to its own
\* command, or fails; only the one put under way in a break may come late.
ImplementsAtomicCache == Atomic!Spec

\* Neither a slow Redis, nor a broken stream, nor a constructor that throws
\* leaves the mutex or the construction of the object to one thread for ever.
MutexIsFreed ==
  \A t \in Threads : (mtx = t \/ maker = t) ~> (mtx # t /\ maker # t)
=============================================================================
