-------------------------- MODULE AnnouncedStream --------------------------
(***************************************************************************)
(* What a consumer of a drop-oldest queue is promised: envelopes arrive in *)
(* the order they were accepted; some may be lost when newer ones are      *)
(* accepted, but then a warning is owed, and nothing else is ever lost.    *)
(* The runtime's main queue and every gateway session implement this.      *)
(***************************************************************************)
EXTENDS Integers

CONSTANT Id          \* numbers of envelopes, in the order they are produced

VARIABLES
  pending,           \* accepted, neither delivered nor lost
  newest,            \* the last envelope accepted
  owed,              \* losses the consumer has not been warned of
  open               \* FALSE once nobody receives any more

svars == <<pending, newest, owed, open>>

Init == pending = {} /\ newest = 0 /\ owed = 0 /\ open = TRUE

\* Envelope n is accepted at the expense of older ones, lost: a run of them,
\* since only one already on its way out may survive among the oldest.
Accept(n, lost) ==
  /\ open
  /\ n > newest
  /\ \A x, y \in lost, z \in pending : x < z /\ z < y => z \in lost
  /\ pending' = (pending \ lost) \cup {n}
  /\ newest' = n
  /\ IF lost = {} THEN owed' >= owed ELSE owed' > owed
  /\ open' = open

\* The consumer gets the oldest one.
Deliver(n) ==
  /\ \A m \in pending : n <= m
  /\ pending' = pending \ {n}
  /\ UNCHANGED <<newest, owed, open>>

\* The consumer gets a warning.  Losses after it was issued stay owed.
Warn ==
  /\ 0 <= owed' /\ owed' < owed
  /\ UNCHANGED <<pending, newest, open>>

\* Nothing is promised from the step on that closes the stream.
Closed == ~open'

Next ==
  \/ \E n \in Id : \E lost \in SUBSET pending : Accept(n, lost)
  \/ \E n \in pending : Deliver(n)
  \/ Warn
  \/ Closed

Spec == Init /\ [][Next]_svars
=============================================================================
