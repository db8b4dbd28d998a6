----------------------------- MODULE AtomicCache -----------------------------
(***************************************************************************)
(* What the threads of auth_service may believe of Redis: a call takes     *)
(* effect at one moment between its beginning and its end, or it fails. A  *)
(* failed put may still take effect, later and once. When the connection   *)
(* is broken every call fails.                                             *)
(*                                                                         *)
(* UserDirectory takes such a cache for granted; CacheConnection builds it.*)
(***************************************************************************)
CONSTANTS
  Threads,
  Keys,    \* user ids
  Vals,    \* rows, as JSON
  None     \* no value, no call

OK == "OK"   \* the reply to a put

Commands == [op : {"get"}, key : Keys] \cup [op : {"put"}, key : Keys, val : Vals]

VARIABLES
  store,   \* store[k]: the value Redis holds under key k, or None
  link,    \* the connection: none yet, open or broken
  call,    \* call[t]: thread t's call, or None
  late     \* a failed put that may still take effect, or None

vars == <<store, link, call, late>>

Call(c, at, result) == [cmd |-> c, at |-> at, result |-> result]

\* What Redis replies to command c, and the store that it leaves.
ReplyTo(c, s) == IF c.op = "get" THEN s[c.key] ELSE OK
After(c, s)   == IF c.op = "get" THEN s ELSE [s EXCEPT ![c.key] = c.val]

Init ==
  /\ store = [k \in Keys |-> None]
  /\ link = "none"
  /\ call = [t \in Threads |-> None]
  /\ late = None

Invoke(t, c) ==
  /\ call[t] = None
  /\ call' = [call EXCEPT ![t] = Call(c, "called", None)]
  /\ UNCHANGED <<store, link, late>>

Connect ==
  /\ link = "none"
  /\ link' \in {"open", "broken"}
  /\ UNCHANGED <<store, call, late>>

Effect(t) ==
  LET c == call[t].cmd IN
  /\ link = "open"
  /\ call[t] # None
  /\ call[t].at = "called"
  /\ store' = After(c, store)
  /\ call' = [call EXCEPT ![t] = Call(c, "effected", ReplyTo(c, store))]
  /\ UNCHANGED <<link, late>>

Failed(t) == call' = [call EXCEPT ![t] = Call(@.cmd, "failed", None)]

\* Without an open connection a call fails and has no effect.
Fail(t) ==
  /\ link # "open"
  /\ call[t] # None
  /\ call[t].at = "called"
  /\ Failed(t)
  /\ UNCHANGED <<store, link, late>>

\* The connection breaks, and with it at most one call, which nobody can tell
\* to have had its effect, to have it later, or never to have it.
Break ==
  /\ link = "open"
  /\ link' = "broken"
  /\ \/ UNCHANGED <<call, late>>
     \/ \E t \in Threads :
          /\ call[t] # None
          /\ call[t].at \in {"called", "effected"}
          /\ Failed(t)
          /\ late' \in {None, IF call[t].at = "called" THEN call[t].cmd ELSE None}
  /\ UNCHANGED store

LateEffect ==
  /\ late # None
  /\ store' = After(late, store)
  /\ late' = None
  /\ UNCHANGED <<link, call>>

Return(t) ==
  /\ call[t] # None
  /\ call[t].at \in {"effected", "failed"}
  /\ call' = [call EXCEPT ![t] = None]
  /\ UNCHANGED <<store, link, late>>

Expire(k) ==
  /\ store[k] # None
  /\ store' = [store EXCEPT ![k] = None]
  /\ UNCHANGED <<link, call, late>>

Next ==
  \/ \E t \in Threads : \/ \E c \in Commands : Invoke(t, c)
                        \/ Effect(t) \/ Fail(t) \/ Return(t)
  \/ Connect \/ Break \/ LateEffect
  \/ \E k \in Keys : Expire(k)

Spec == Init /\ [][Next]_vars
=============================================================================
