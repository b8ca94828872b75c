------------------------------ MODULE Gateway ------------------------------
(***************************************************************************)
(* The WebSocket gateway (integration/gateway.py): the registry of session *)
(* queues, the broadcaster's fan_out, and the handler ws_observe of every  *)
(* connection, split at its awaits.  A connection that ends is not reused: *)
(* every connection draws a fresh session id.                              *)
(***************************************************************************)
EXTENDS DropOldestQueue, FiniteSets, SequencesExt

CONSTANTS
  Session,        \* session ids, one per connection
  MaxSessions,    \* Registry._max_sessions
  Backlog,        \* MAX_ENVELOPE_BACKLOG, maxsize of a session's queue
  MaxEnvelopes,   \* bound: envelopes the runtime produces
  Targets,        \* envelope number -> agents it is scoped to, {} if global
  Subscriptions,  \* what ?subscribe= may ask for; {} is "everything"
  MaxFrames       \* bound: client frames, until one session has sent so many

ASSUME GatewayAssumption ==
  /\ IsFiniteSet(Session)
  /\ MaxSessions \in Nat /\ Backlog \in Nat \ {0}
  /\ MaxEnvelopes \in Nat /\ MaxFrames \in Nat

VARIABLES
  phase,        \* where each connection is in ws_observe
  registered,   \* sessions that have a queue in the registry
  queue,        \* their outbound queues
  subscribed,   \* their subscriptions
  sending,      \* what a session's _send_loop has popped and is writing
  wire,         \* frames written to a session's socket
  frames,       \* frames received by _recv_loop
  sent,         \* number of the last envelope fanned out
  joined,       \* value of sent when the session was registered
  lost          \* envelopes and warnings dropped from a session's queue

vars == <<phase, registered, queue, subscribed, sending, wire, frames, sent, joined, lost>>
others == <<subscribed, sent, joined, lost>>

Env(n) == [kind |-> "env", n |-> n]
\* n is not on the wire: it numbers the losses the warning stands for.
Warning(n) == [kind |-> "warning", n |-> n]
Frame(kind) == [kind |-> kind, n |-> 0]

Init ==
  /\ phase = [s \in Session |-> "connecting"]
  /\ registered = {}
  /\ queue = [s \in Session |-> <<>>]
  /\ subscribed = [s \in Session |-> {}]
  /\ sending = [s \in Session |-> <<>>]
  /\ wire = [s \in Session |-> <<>>]
  /\ frames = [s \in Session |-> 0]
  /\ sent = 0
  /\ joined = [s \in Session |-> 0]
  /\ lost = [s \in Session |-> 0]

Writes(s, frame) == wire' = [wire EXCEPT ![s] = Append(@, frame)]
Goes(s, next) == phase' = [phase EXCEPT ![s] = next]
\* _send_error: best effort, a failed write is swallowed.
Tells(s, code) == Writes(s, Frame(code)) \/ wire' = wire

-----------------------------------------------------------------------------
(* Registry *)

\* Faulty variant: one session too many.
CapReachedLate == Cardinality(registered) > MaxSessions

CapReached == Cardinality(registered) >= MaxSessions

\* A session without a subscription gets everything, a global envelope
\* reaches every session.
Wants(sub, n) == sub = {} \/ Targets[n] = {} \/ sub \cap Targets[n] # {}

\* fan_out: push to every registered queue whose subscription matches.
FanOut(n) ==
  LET to == {s \in registered : Wants(subscribed[s], n)}
      lostAfter(s) == lost[s] + Dropped(queue[s], Backlog) IN
  /\ queue' = [s \in Session |->
       IF s \in to THEN Push(queue[s], Backlog, Warning(lostAfter(s)), Env(n))
                   ELSE queue[s]]
  /\ lost' = [s \in Session |-> IF s \in to THEN lostAfter(s) ELSE lost[s]]

\* The broadcaster: the next envelope of the runtime goes to the sessions.
Broadcast ==
  /\ sent < MaxEnvelopes
  /\ sent' = sent + 1
  /\ FanOut(sent + 1)
  /\ UNCHANGED <<phase, registered, subscribed, sending, wire, frames, joined>>

-----------------------------------------------------------------------------
(* Connection: the gates before accept, then the handshake *)

\* Origin or token rejected: closed without an upgrade.
Reject(s) ==
  /\ phase[s] = "connecting"
  /\ Goes(s, "closed")
  /\ UNCHANGED <<registered, queue, sending, wire, frames, others>>

RejectFull(s) ==
  /\ phase[s] = "connecting"
  /\ CapReached
  /\ Goes(s, "closed")
  /\ UNCHANGED <<registered, queue, sending, wire, frames, others>>

\* A bad ?subscribe= is answered after an upgrade, so that it can be.
RejectSubscribe(s) ==
  /\ phase[s] = "connecting"
  /\ ~CapReached
  /\ Goes(s, "closing")
  /\ Tells(s, "invalid_subscribe")
  /\ UNCHANGED <<registered, queue, sending, frames, others>>

\* accept, then the server's handshake.
Accept(s, sub) ==
  /\ phase[s] = "connecting"
  /\ ~CapReached
  /\ Goes(s, "handshake")
  /\ Writes(s, Frame("handshake"))
  /\ subscribed' = [subscribed EXCEPT ![s] = sub]
  /\ UNCHANGED <<registered, queue, sending, frames, sent, joined, lost>>

\* No frame in time, a frame that is no handshake, a wrong schema version.
HandshakeRefused(s, code) ==
  /\ phase[s] = "handshake"
  /\ Goes(s, "closing")
  /\ Tells(s, code)
  /\ UNCHANGED <<registered, queue, sending, frames, others>>

AfterHandshake == "layout"

HandshakeOk(s) ==
  /\ phase[s] = "handshake"
  /\ Goes(s, AfterHandshake)
  /\ UNCHANGED <<registered, queue, sending, wire, frames, others>>

\* The snapshot, built in a thread, is there; or its timeout fires and the
\* empty one is used.  Either is written to the socket.
SendLayout(s) ==
  /\ phase[s] = "layout"
  /\ Goes(s, "joining")
  /\ Writes(s, Frame("layout"))
  /\ UNCHANGED <<registered, queue, sending, frames, others>>

FreshQueue(s) == <<>>

\* reserve_slot: check and insertion are one step of the event loop.
Reserve(s) ==
  /\ phase[s] = "joining"
  /\ ~CapReached
  /\ Goes(s, "active")
  /\ registered' = registered \cup {s}
  /\ queue' = [queue EXCEPT ![s] = FreshQueue(s)]
  /\ joined' = [joined EXCEPT ![s] = sent]
  /\ UNCHANGED <<subscribed, sending, wire, frames, sent, lost>>

\* Others joined since the first check: told so in band, closed 1013.
ReserveRaced(s) ==
  /\ phase[s] = "joining"
  /\ CapReached
  /\ Goes(s, "closed")
  /\ Tells(s, "session_cap_exceeded")
  /\ UNCHANGED <<registered, queue, sending, frames, others>>

\* The peer goes away, or something fails, before the session is active.
EndsEarly(s) ==
  /\ phase[s] \in {"handshake", "layout", "joining"}
  /\ Goes(s, "closing")
  /\ Tells(s, "internal_error")
  /\ UNCHANGED <<registered, queue, sending, frames, others>>

-----------------------------------------------------------------------------
(* The ACTIVE session: _recv_loop and _send_loop in one task group *)

\* Faulty variant: the send loop stops when the receive loop times out.
LiveOnlyActive(s) == phase[s] = "active"

Live(s) == phase[s] \in {"active", "expiring"}

\* A frame that parses is ignored, one that does not is answered once.
RecvFrame(s, ok) ==
  /\ phase[s] = "active"
  /\ \A t \in Session : frames[t] < MaxFrames
  /\ frames' = [frames EXCEPT ![s] = @ + 1]
  /\ IF ok THEN wire' = wire ELSE Tells(s, "invalid_envelope")
  /\ UNCHANGED <<phase, registered, queue, sending, others>>

\* _send_loop, first half: queue.get().
SendPop(s) ==
  /\ Live(s)
  /\ sending[s] = <<>> /\ queue[s] # <<>>
  /\ sending' = [sending EXCEPT ![s] = <<Head(queue[s])>>]
  /\ queue' = [queue EXCEPT ![s] = Tail(@)]
  /\ UNCHANGED <<phase, registered, wire, frames, others>>

\* Second half: the frame is written.
SendDone(s) ==
  /\ Live(s)
  /\ sending[s] # <<>>
  /\ Writes(s, sending[s][1])
  /\ sending' = [sending EXCEPT ![s] = <<>>]
  /\ UNCHANGED <<phase, registered, queue, frames, others>>

\* No client frame for too long: _recv_loop says so while _send_loop goes on.
IdleTimeout(s) ==
  /\ phase[s] = "active"
  /\ Goes(s, "expiring")
  /\ Tells(s, "idle_disconnect")
  /\ UNCHANGED <<registered, queue, sending, frames, others>>

\* One of the loops raises: the idle timeout, a disconnect, a failed write.
\* The other is cancelled, and what it was sending is gone.
LoopEnds(s) ==
  /\ Live(s)
  /\ Goes(s, "teardown")
  /\ sending' = [sending EXCEPT ![s] = <<>>]
  /\ UNCHANGED <<registered, queue, wire, frames, others>>

\* Faulty variant: the slot is not released.
WithoutKept(s) == registered

\* Registry.remove.
Without(s) == registered \ {s}

\* The task group is done: the finally releases the slot.  Until then the
\* session still counts and still collects envelopes.  An unexpected
\* exception of a loop is reported once the slot is free.
Release(s) ==
  /\ phase[s] = "teardown"
  /\ Goes(s, "closing")
  /\ registered' = Without(s)
  /\ queue' = [queue EXCEPT ![s] = <<>>]
  /\ Tells(s, "internal_error")
  /\ UNCHANGED <<sending, frames, others>>

\* The outer finally: ws.close().  Nothing is left of the session.
Close(s) ==
  /\ phase[s] = "closing"
  /\ Goes(s, "closed")
  /\ wire' = [wire EXCEPT ![s] = <<>>]
  /\ subscribed' = [subscribed EXCEPT ![s] = {}]
  /\ joined' = [joined EXCEPT ![s] = 0]
  /\ lost' = [lost EXCEPT ![s] = 0]
  /\ UNCHANGED <<registered, queue, sending, frames, sent>>

Connection(s) ==
  \/ Reject(s) \/ RejectFull(s) \/ RejectSubscribe(s)
  \/ \E sub \in Subscriptions : Accept(s, sub)
  \/ \E code \in {"handshake_timeout", "invalid_envelope", "schema_mismatch"} :
       HandshakeRefused(s, code)
  \/ HandshakeOk(s) \/ SendLayout(s) \/ Reserve(s) \/ ReserveRaced(s)
  \/ EndsEarly(s)

Active(s) ==
  \/ \E ok \in BOOLEAN : RecvFrame(s, ok)
  \/ SendPop(s) \/ SendDone(s)
  \/ IdleTimeout(s) \/ LoopEnds(s) \/ Release(s) \/ Close(s)

SessionStep(s) == Connection(s) \/ Active(s)

Next == Broadcast \/ \E s \in Session : SessionStep(s)

Spec == Init /\ [][Next]_vars

\* The event loop runs what is ready, the two timeouts bound the waits for
\* the client, and a write either succeeds or fails.  Whether and when a
\* client connects, or the runtime produces, is up to them.
Fairness ==
  \A s \in Session :
    /\ WF_vars(SendPop(s)) /\ WF_vars(SendDone(s) \/ LoopEnds(s))
    /\ WF_vars(phase[s] = "expiring" /\ LoopEnds(s))
    /\ WF_vars(Release(s)) /\ WF_vars(Close(s))
    /\ WF_vars(SendLayout(s)) /\ WF_vars(Reserve(s) \/ ReserveRaced(s))
    /\ WF_vars(HandshakeRefused(s, "handshake_timeout"))

LiveSpec == Spec /\ Fairness

-----------------------------------------------------------------------------
(* What is claimed of the gateway. *)

Phases == {"connecting", "handshake", "layout", "joining", "active",
           "expiring", "teardown", "closing", "closed"}
Codes == {"handshake_timeout", "invalid_envelope", "schema_mismatch",
          "invalid_subscribe", "session_cap_exceeded", "idle_disconnect",
          "internal_error"}
Outbound == [kind : {"env", "warning"}, n : Nat]
OnWire == Outbound \cup [kind : {"handshake", "layout"} \cup Codes, n : {0}]

\* The values of the variables; a session's queue never exceeds its backlog
\* bound, however slow its client (gateway.py:314-367).
TypeOK ==
  /\ phase \in [Session -> Phases]
  /\ registered \subseteq Session
  /\ queue \in [Session -> Seq(Outbound)]
  /\ \A s \in Session : Len(queue[s]) <= Backlog /\ Len(sending[s]) <= 1
  /\ sending \in [Session -> Seq(Outbound)]
  /\ subscribed \in [Session -> Subscriptions \cup {{}}]
  /\ wire \in [Session -> Seq(OnWire)]
  /\ frames \in [Session -> 0..MaxFrames]
  /\ sent \in 0..MaxEnvelopes
  /\ joined \in [Session -> 0..MaxEnvelopes]
  /\ lost \in [Session -> Nat]

-----------------------------------------------------------------------------
\* At most max_sessions sessions are registered, although the check before
\* accept is stale by the time the handshake is over (gateway.py:734-746,
\* 850-876).
CapHeld == Cardinality(registered) <= MaxSessions

\* A slot is held exactly while the task group of its session lives: no path
\* out of ws_observe leaks one, none frees one that is in use.
SlotsMatchSessions ==
  registered = {s \in Session : phase[s] \in {"active", "expiring", "teardown"}}

-----------------------------------------------------------------------------
\* What has been or will be written to a session's socket.
Flow(s) == wire[s] \o sending[s] \o queue[s]
Streamed(s) == Envelopes(wire[s]) \cup Envelopes(sending[s]) \cup Envelopes(queue[s])

\* What the docstrings of Registry and _envelope_target_agents promise it:
\* everything global, and what concerns an agent it asked for.
Due(s) ==
  {n \in joined[s] + 1 .. sent :
     subscribed[s] # {} /\ Targets[n] # {} => \E a \in subscribed[s] : a \in Targets[n]}

\* The figure in the last warning written to the socket.
Heard(s) ==
  LET at == {i \in DOMAIN wire[s] : wire[s][i].kind = "warning"} IN
  IF at = {} THEN 0 ELSE wire[s][Max(at)].n

\* A client is sent nothing it did not subscribe to and nothing older than
\* its registration; while its queue has never overflowed it is sent all of
\* the rest, once and in order, whenever the other sessions come and go.  Drops
\* it has not been told of are told by a warning still on its way: a warning
\* may itself be dropped, but only by a later overflow, which queues another
\* with a higher figure, and no figure exceeds the losses
\* (gateway.py:338-356).
ExactlyWhatIsDue ==
  \A s \in registered :
    /\ Streamed(s) \subseteq Due(s)
    /\ phase[s] # "teardown" /\ lost[s] = 0 => Streamed(s) = Due(s)
    /\ LET f == Flow(s) IN
         \A i, j \in DOMAIN f :
           /\ i < j /\ f[i].kind = f[j].kind /\ f[i].kind \in {"env", "warning"}
                => f[i].n < f[j].n
           /\ f[i].kind = "warning" => f[i].n <= lost[s]
    /\ phase[s] # "teardown" /\ lost[s] > Heard(s) =>
         Warning(lost[s]) \in ToSet(sending[s] \o queue[s])

NewestDue(s) == Max(Due(s) \cup {0})

\* A session's stream, as its client sees it.
Stream(s) == INSTANCE AnnouncedStream WITH
  Id <- 1..MaxEnvelopes,
  pending <- Envelopes(sending[s]) \cup Envelopes(queue[s]),
  newest <- IF s \in registered THEN NewestDue(s) ELSE 0,
  owed <- lost[s] - Heard(s),
  open <- phase[s] \notin {"teardown", "closing", "closed"}

\* Every session is an ordered stream: what is lost is lost to make room for
\* something newer and is counted as owed, and a client misses nothing in any
\* other way while it is connected.
SessionsAreStreams ==
  /\ \A s \in Session : Stream(s)!Init
  /\ [][\A s \in Session : Stream(s)!Next \/ UNCHANGED Stream(s)!svars]_vars

-----------------------------------------------------------------------------
\* A connection never waits for ever on the server: an unfinished handshake
\* times out, and a session that has begun to end comes to its end, whatever
\* its client reads; by SlotsMatchSessions its slot is free again before.
SlotsAreFreed ==
  \A s \in Session :
    phase[s] \notin {"connecting", "active", "closed"} ~> phase[s] \in {"active", "closed"}
=============================================================================
