--------------------------- MODULE EnvelopeQueues ---------------------------
(***************************************************************************)
(* The two outbound queues of WorldRuntime (world/tick.py) and the         *)
(* coroutine that merges them: cognition and dialog envelopes go to a      *)
(* bounded drop-oldest queue, heartbeats to a slot of one that keeps the   *)
(* latest.  recv_envelope races one getter task per queue; what is         *)
(* interleaved with it are the producers, which run on the same event loop *)
(* between any two of its steps.                                           *)
(***************************************************************************)
EXTENDS DropOldestQueue

CONSTANTS
  MainCap,      \* maxsize of _envelopes (1024)
  MaxPuts,      \* bound: envelopes injected
  MaxBeats      \* bound: heartbeats emitted

ASSUME QueueAssumption ==
  MainCap \in Nat \ {0} /\ MaxPuts \in Nat /\ MaxBeats \in Nat

VARIABLES
  main,         \* _envelopes
  slot,         \* _heartbeat_envelopes (maxsize 1)
  drops,        \* _envelope_overflow_count
  puts,         \* number of the last envelope injected
  beats,        \* number of the last heartbeat emitted
  pc,           \* where the consumer is in recv_envelope
  getter,       \* state of the two Queue.get() tasks
  held,         \* what a finished getter has popped
  result,       \* what recv_envelope is about to return
  lastMain,     \* newest envelope returned to the consumer
  lastBeat,     \* newest heartbeat returned to the consumer
  heard         \* drop count in the last warning returned

produced == <<main, slot, drops, puts, beats>>
consumed == <<lastMain, lastBeat, heard>>
vars == <<main, slot, drops, puts, beats, pc, getter, held, result,
          lastMain, lastBeat, heard>>

Lane == {"main", "beat"}
Env(n) == [kind |-> "env", n |-> n]
Warning(n) == [kind |-> "warning", n |-> n]     \* n: the drops= figure
Beat(n) == [kind |-> "beat", n |-> n]

NoGetters == [q \in Lane |-> "none"]
NothingHeld == [q \in Lane |-> <<>>]

Init ==
  /\ main = <<>> /\ slot = <<>> /\ drops = 0 /\ puts = 0 /\ beats = 0
  /\ pc = "idle"
  /\ getter = NoGetters /\ held = NothingHeld /\ result = <<>>
  /\ lastMain = 0 /\ lastBeat = 0 /\ heard = 0

Queue(q) == IF q = "main" THEN main ELSE slot

\* Faulty variant: a parked getter is not woken.
WokenNever(g, q) == g

\* put_nowait wakes the getter parked on that queue; it pops later.
Woken(g, q) == [g EXCEPT ![q] = IF @ = "parked" THEN "woken" ELSE @]

-----------------------------------------------------------------------------
(* Producers *)

\* The overflow count once the put has made room.
DropsAfter(q) == drops + Dropped(q, MainCap)

InjectEnvelope ==
  /\ puts < MaxPuts
  /\ puts' = puts + 1
  /\ drops' = drops + Dropped(main, MainCap)
  /\ main' = Push(main, MainCap, Warning(DropsAfter(main)), Env(puts + 1))
  /\ getter' = Woken(getter, "main")
  /\ UNCHANGED <<slot, beats, pc, held, result, consumed>>

\* A heartbeat replaces the one nobody has taken.
LatestBeat(s, n) == <<Beat(n)>>

OnHeartbeatTick ==
  /\ beats < MaxBeats
  /\ beats' = beats + 1
  /\ slot' = LatestBeat(slot, beats + 1)
  /\ getter' = Woken(getter, "beat")
  /\ UNCHANGED <<main, drops, puts, pc, held, result, consumed>>

-----------------------------------------------------------------------------
(* recv_envelope *)

\* The call: both getter tasks take their first step, one after the other.
RecvEnvelope ==
  /\ pc = "idle"
  /\ pc' = "racing"
  /\ getter' = [q \in Lane |-> IF Queue(q) = <<>> THEN "parked" ELSE "done"]
  /\ held' = [q \in Lane |-> IF Queue(q) = <<>> THEN <<>> ELSE <<Head(Queue(q))>>]
  /\ main' = IF main = <<>> THEN <<>> ELSE Tail(main)
  /\ slot' = IF slot = <<>> THEN <<>> ELSE Tail(slot)
  /\ UNCHANGED <<drops, puts, beats, result, consumed>>

\* A woken getter resumes: it pops, or parks again if the queue is empty.
GetterRuns(q) ==
  /\ getter[q] = "woken"
  /\ IF Queue(q) = <<>>
       THEN /\ getter' = [getter EXCEPT ![q] = "parked"]
            /\ UNCHANGED <<main, slot, held>>
       ELSE /\ getter' = [getter EXCEPT ![q] = "done"]
            /\ held' = [held EXCEPT ![q] = <<Head(Queue(q))>>]
            /\ main' = IF q = "main" THEN Tail(main) ELSE main
            /\ slot' = IF q = "beat" THEN Tail(slot) ELSE slot
  /\ UNCHANGED <<drops, puts, beats, pc, result, consumed>>

Finished(q) == getter[q] = "done"

\* Faulty variant: the heartbeat goes back behind a newer one.
ReinjectedBehind(s, b) == s \o b

\* _reinject_heartbeat: the losing heartbeat returns unless a newer one is there.
Reinjected(s, b) == IF s = <<>> THEN b ELSE s

\* The main queue has priority.
Winner == IF Finished("main") THEN held["main"] ELSE held["beat"]

\* asyncio.wait returns.  A getter that has not popped is cancelled, which
\* takes nothing from its queue even if it had been woken.
WaitReturns ==
  /\ pc = "racing"
  /\ \E q \in Lane : Finished(q)
  /\ pc' = "settled"
  /\ result' = Winner
  /\ slot' = IF Finished("main") /\ Finished("beat")
               THEN Reinjected(slot, held["beat"]) ELSE slot
  /\ getter' = NoGetters
  /\ held' = NothingHeld
  /\ UNCHANGED <<main, drops, puts, beats, consumed>>

Consumes(x) ==
  /\ lastMain' = IF x.kind = "env" THEN x.n ELSE lastMain
  /\ heard' = IF x.kind = "warning" THEN x.n ELSE heard
  /\ lastBeat' = IF x.kind = "beat" THEN x.n ELSE lastBeat

\* recv_envelope hands its envelope to the caller, the broadcaster.
Return ==
  /\ pc = "settled"
  /\ pc' = "idle"
  /\ Consumes(result[1])
  /\ result' = <<>>
  /\ UNCHANGED <<produced, getter, held>>

\* The caller is cancelled (gateway shutdown): whatever a finished getter or
\* the coroutine itself holds goes with it.
RecvCancelled ==
  /\ pc \in {"racing", "settled"}
  /\ pc' = "cancelled"
  /\ getter' = NoGetters /\ held' = NothingHeld /\ result' = <<>>
  /\ UNCHANGED <<produced, consumed>>

Next ==
  \/ InjectEnvelope \/ OnHeartbeatTick
  \/ RecvEnvelope \/ \E q \in Lane : GetterRuns(q)
  \/ WaitReturns \/ Return \/ RecvCancelled

Spec == Init /\ [][Next]_vars

\* The event loop runs every callback that is ready; nothing forces the
\* producers to produce, or the application to shut down.
Fairness ==
  /\ WF_vars(RecvEnvelope) /\ WF_vars(WaitReturns) /\ WF_vars(Return)
  /\ \A q \in Lane : WF_vars(GetterRuns(q))

LiveSpec == Spec /\ Fairness

-----------------------------------------------------------------------------
(* What is claimed of the queues. *)

\* The envelopes on their way to the consumer, wherever they are.
OnTheWay == Envelopes(result) \cup Envelopes(held["main"]) \cup Envelopes(main)

\* The consumer never sees an older heartbeat after a newer one, although a
\* heartbeat that lost a race goes back to the slot.
BeatsNeverGoBack == [][lastBeat' >= lastBeat]_vars

\* The runtime's side of the stream, as its consumer sees it.
Stream == INSTANCE AnnouncedStream WITH
  Id <- 1..MaxPuts,
  pending <- OnTheWay,
  newest <- puts,
  owed <- drops - heard,
  open <- pc # "cancelled"

\* The main queue, its getter and the coroutine together implement the
\* ordered stream that announces its losses, unless the queue is too small
\* to hold the warning and the envelope.
ImplementsStream == Stream!Spec

\* Everything injected is delivered or overtaken by something newer, and the
\* newest heartbeat is delivered, if the consumer is not cancelled: no getter
\* keeps an item, no wake-up is missed, and neither lane blocks the other.
QueuesDrain ==
  <>(pc = "cancelled") \/ []<>(lastMain = puts /\ heard = drops /\ lastBeat = beats)
=============================================================================
