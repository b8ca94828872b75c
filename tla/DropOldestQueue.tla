-------------------------- MODULE DropOldestQueue --------------------------
(***************************************************************************)
(* The bounded asyncio.Queue of envelopes and the way a producer that must *)
(* not block writes to it.  The runtime (_enqueue_with_drop_oldest, queue  *)
(* _envelopes) and the gateway (Registry.fan_out, one queue per session)   *)
(* contain the same loop, so it is modelled once.                          *)
(***************************************************************************)
EXTENDS Integers, Sequences

\* put_nowait: a full queue refuses the item (asyncio.QueueFull).
Offer(q, cap, x) == IF Len(q) < cap THEN Append(q, x) ELSE q

\* Faulty variant: only the oldest entry goes, there is room for one.
RoomForOne(cap) == cap - 1

\* How many entries of a full queue are kept, and which.
Room(cap) == IF cap > 2 THEN cap - 2 ELSE 0
Newest(q, n) == SubSeq(q, Len(q) - n + 1, Len(q))

Overflows(q, cap) == Len(q) >= cap
Dropped(q, cap) == IF Overflows(q, cap) THEN Len(q) - Room(cap) ELSE 0

\* Faulty variant: the oldest entries go, but no warning is queued.
PushSilently(q, cap, warning, x) ==
  IF Overflows(q, cap) THEN Offer(Newest(q, Room(cap)), cap, x) ELSE Append(q, x)

\* Append x.  On a full queue first make room for two and queue a warning.
\* With cap = 1 the warning takes the only place and x is refused.
Push(q, cap, warning, x) ==
  IF Overflows(q, cap)
    THEN Offer(Offer(Newest(q, Room(cap)), cap, warning), cap, x)
    ELSE Append(q, x)

\* The numbers of the envelopes in a sequence of items.
Envelopes(q) == {q[i].n : i \in {j \in DOMAIN q : q[j].kind = "env"}}
=============================================================================
