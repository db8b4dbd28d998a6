------------------------- MODULE RegistrationPromise -------------------------
(***************************************************************************)
(* What POST /user promises, without threads, queues, offsets and shards:  *)
(* an accepted profile is owed a row. What is owed is stored, repeated by  *)
(* a fault, or lost in public; a client is told 200 only when its profile  *)
(* is owed, stored or lost. Module Registration implements this.           *)
(*                                                                         *)
(* Storing at least once and the bound on duplicates are invariants here.  *)
(***************************************************************************)
EXTENDS Integers

CONSTANTS Users, Valid

VARIABLES
  pending,  \* pending[u]: requests for u a handler is working on
  owed,     \* owed[u]: copies of u on their way to a table
  stored,   \* stored[u]: rows of u
  told,     \* the profiles some client was told 200 for
  lost,     \* the profiles of which a copy was lost on its way
  posted,   \* posted[u]: how often u was posted
  faults    \* how many faults have happened

vars == <<pending, owed, stored, told, lost, posted, faults>>

Zero == [u \in Users |-> 0]

Init ==
  /\ pending = Zero
  /\ owed = Zero
  /\ stored = Zero
  /\ told = {}
  /\ lost = {}
  /\ posted = Zero
  /\ faults = 0

Accept(u) ==
  /\ u \in Valid
  /\ posted' = [posted EXCEPT ![u] = @ + 1]
  /\ pending' = [pending EXCEPT ![u] = @ + 1]
  /\ UNCHANGED <<owed, stored, told, lost, faults>>

Refuse(u) ==
  /\ u \notin Valid
  /\ posted' = [posted EXCEPT ![u] = @ + 1]
  /\ UNCHANGED <<pending, owed, stored, told, lost, faults>>

Queue(u) ==
  /\ pending[u] > 0
  /\ pending' = [pending EXCEPT ![u] = @ - 1]
  /\ owed' = [owed EXCEPT ![u] = @ + 1]
  /\ UNCHANGED <<stored, told, lost, posted, faults>>

Kept(u) == owed[u] > 0 \/ stored[u] > 0 \/ u \in lost

Tell(u) ==
  /\ Kept(u)
  /\ told' = told \cup {u}
  /\ UNCHANGED <<pending, owed, stored, lost, posted, faults>>

Store(u) ==
  /\ owed[u] > 0
  /\ owed' = [owed EXCEPT ![u] = @ - 1]
  /\ stored' = [stored EXCEPT ![u] = @ + 1]
  /\ UNCHANGED <<pending, told, lost, posted, faults>>

\* A row is stored and its copy is still owed: nobody noticed.
StoreUnnoticed(u) ==
  /\ owed[u] > 0
  /\ stored' = [stored EXCEPT ![u] = @ + 1]
  /\ faults' = faults + 1
  /\ UNCHANGED <<pending, owed, told, lost, posted>>

\* A copy is made of what is on its way or was stored.
Repeat(u) ==
  /\ owed[u] > 0 \/ stored[u] > 0
  /\ owed' = [owed EXCEPT ![u] = @ + 1]
  /\ faults' = faults + 1
  /\ UNCHANGED <<pending, stored, told, lost, posted>>

\* Copies are lost, and said to be.
Lose ==
  /\ \A u \in Users : owed'[u] <= owed[u]
  /\ lost' = lost \cup {u \in Users : owed'[u] < owed[u]}
  /\ UNCHANGED <<stored, told, posted>>

\* A fault loses what it loses, requests a handler was working on included.
Break ==
  /\ Lose
  /\ \A u \in Users : pending'[u] <= pending[u]
  /\ faults' = faults + 1

\* Without any fault, a first start may pass over what is owed.
Skip == Lose /\ UNCHANGED <<pending, faults>>

Next ==
  \/ \E u \in Users : \/ Accept(u) \/ Refuse(u) \/ Queue(u) \/ Tell(u)
                      \/ Store(u) \/ StoreUnnoticed(u) \/ Repeat(u)
  \/ Break
  \/ Skip

Spec == Init /\ [][Next]_vars
=============================================================================
