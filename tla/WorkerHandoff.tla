---------------------------- MODULE WorkerHandoff ----------------------------
(***************************************************************************)
(* What a pool of worker connections promises to the requests it serves:   *)
(* a connection is offered, waits in order, is handed to one request and   *)
(* is never offered again while a request has it.  A server that ends      *)
(* forgets everything.  Transports that pool workers implement it.         *)
(***************************************************************************)
EXTENDS Naturals, Sequences

CONSTANTS
  Conns,     \* connections that may be offered
  Requests,  \* requests that want one each
  Cap,       \* how many may wait
  None       \* no connection

VARIABLES
  pool,      \* offered connections, oldest first
  held       \* per request, the connection it was handed

vars == <<pool, held>>

InPool(c) == \E i \in 1..Len(pool) : pool[i] = c

Init ==
  /\ pool = <<>>
  /\ held = [r \in Requests |-> None]

Offer(c) ==
  /\ Len(pool) < Cap
  /\ ~InPool(c)
  /\ \A r \in Requests : held[r] # c
  /\ pool' = Append(pool, c)
  /\ UNCHANGED held

Match(r) ==
  /\ held[r] = None
  /\ pool # <<>>
  /\ held' = [held EXCEPT ![r] = Head(pool)]
  /\ pool' = Tail(pool)

Release(r) ==
  /\ held[r] # None
  /\ held' = [held EXCEPT ![r] = None]
  /\ UNCHANGED pool

Reset ==
  /\ pool' = <<>>
  /\ held' = [r \in Requests |-> None]

Next ==
  \/ \E c \in Conns : Offer(c)
  \/ \E r \in Requests : Match(r) \/ Release(r)
  \/ Reset

Spec == Init /\ [][Next]_vars

=============================================================================
