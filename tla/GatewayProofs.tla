---------------------------- MODULE GatewayProofs ----------------------------
(***************************************************************************)
(* Proofs about the gateway, for any number of connections, any cap, any   *)
(* backlog and any traffic: registered sessions are exactly the live ones, *)
(* there are never more of them than the cap, no queue outgrows its bound, *)
(* and what a client is sent is what is due to it, in order, with every    *)
(* loss announced: an AnnouncedStream.                                     *)
(***************************************************************************)
EXTENDS Gateway, TLAPS, FiniteSetTheorems

-----------------------------------------------------------------------------
(* What a drop-oldest push returns, for every queue, bound and item. *)

\* A refused item leaves the queue within its bound (asyncio.Queue.put_nowait).
LEMMA OfferBounded ==
  ASSUME NEW S, NEW q \in Seq(S), NEW cap \in Nat, NEW x \in S, Len(q) <= cap
  PROVE  Offer(q, cap, x) \in Seq(S) /\ Len(Offer(q, cap, x)) <= cap
BY DEF Offer

\* What remains after the drop leaves room for two, if there are two places.
LEMMA NewestBounded ==
  ASSUME NEW S, NEW q \in Seq(S), NEW cap \in Nat \ {0}, Len(q) = cap
  PROVE  /\ Newest(q, Room(cap)) \in Seq(S)
         /\ Len(Newest(q, Room(cap))) = Room(cap)
         /\ Room(cap) <= cap
<1>1. Room(cap) \in Nat /\ Room(cap) <= cap
  BY DEF Room
<1>2. Newest(q, Room(cap)) \in Seq(S)
  BY <1>1 DEF Newest
<1>3. Len(Newest(q, Room(cap))) = Room(cap)
  BY <1>1 DEF Newest
<1> QED BY <1>1, <1>2, <1>3

\* A push never exceeds the bound, even if it cannot make room for both.
LEMMA PushBounded ==
  ASSUME NEW S, NEW q \in Seq(S), NEW cap \in Nat \ {0},
         NEW warning \in S, NEW x \in S, Len(q) <= cap
  PROVE  /\ Push(q, cap, warning, x) \in Seq(S)
         /\ Len(Push(q, cap, warning, x)) <= cap
         /\ Dropped(q, cap) \in Nat
<1>1. CASE Overflows(q, cap)
  <2>1. Len(q) = cap
    BY <1>1 DEF Overflows
  <2> DEFINE kept == Newest(q, Room(cap))
  <2>2. kept \in Seq(S) /\ Len(kept) <= cap
    BY <2>1, NewestBounded
  <2> HIDE DEF kept
  <2>3. Offer(kept, cap, warning) \in Seq(S) /\ Len(Offer(kept, cap, warning)) <= cap
    BY <2>2, OfferBounded
  <2>4. /\ Offer(Offer(kept, cap, warning), cap, x) \in Seq(S)
        /\ Len(Offer(Offer(kept, cap, warning), cap, x)) <= cap
    BY <2>3, OfferBounded
  <2>5. Dropped(q, cap) \in Nat
    BY <2>1 DEF Dropped, Room
  <2> QED BY <1>1, <2>4, <2>5 DEF Push, kept
<1>2. CASE ~Overflows(q, cap)
  BY <1>2 DEF Overflows, Push, Dropped
<1> QED BY <1>1, <1>2

-----------------------------------------------------------------------------
(* The gateway. *)

\* The cap alone is not inductive: that a session is not registered twice,
\* and that a slot is only freed once, comes from SlotsMatchSessions.
IInv == TypeOK /\ SlotsMatchSessions /\ CapHeld

\* A gateway without a session keeps all three.
LEMMA InitIInv == Init => IInv
<1> SUFFICES ASSUME Init PROVE IInv
  OBVIOUS
<1> USE GatewayAssumption DEF Init
<1>1. TypeOK
  BY DEF TypeOK, Phases
<1>2. SlotsMatchSessions
  BY DEF SlotsMatchSessions
<1>3. Cardinality({}) = 0
  BY FS_EmptySet
<1>4. CapHeld
  BY <1>3 DEF CapHeld
<1> QED BY <1>1, <1>2, <1>4 DEF IInv

\* A frame appended to one socket keeps the log of every socket typed.
LEMMA WritesTyped ==
  ASSUME wire \in [Session -> Seq(OnWire)], NEW s \in Session,
         NEW frame \in OnWire, Writes(s, frame)
  PROVE  wire' \in [Session -> Seq(OnWire)]
BY DEF Writes

\* A refusal or a goodbye is one of the frames.
LEMMA TellsTyped ==
  ASSUME wire \in [Session -> Seq(OnWire)], NEW s \in Session,
         NEW code \in Codes, Tells(s, code)
  PROVE  wire' \in [Session -> Seq(OnWire)]
<1>1. Frame(code) \in OnWire
  BY DEF Frame, OnWire
<1> QED BY <1>1, WritesTyped DEF Tells

\* Fanning an envelope out respects the bound of every queue.
LEMMA BroadcastKeeps ==
  ASSUME IInv, Broadcast
  PROVE  IInv'
<1> USE GatewayAssumption
<1>1. sent + 1 \in 1..MaxEnvelopes /\ sent' = sent + 1
  BY DEF Broadcast, IInv, TypeOK
<1>2. ASSUME NEW s \in Session
      PROVE  /\ queue'[s] \in Seq(Outbound) /\ Len(queue'[s]) <= Backlog
             /\ lost'[s] \in Nat
  <2> DEFINE after == lost[s] + Dropped(queue[s], Backlog)
             to == {t \in registered : Wants(subscribed[t], sent + 1)}
  <2>1. queue[s] \in Seq(Outbound) /\ Len(queue[s]) <= Backlog /\ lost[s] \in Nat
    BY DEF IInv, TypeOK
  <2>2. Env(sent + 1) \in Outbound
    BY <1>1 DEF Env, Outbound
  <2>3. Dropped(queue[s], Backlog) \in Nat
    BY <2>1, <2>2, PushBounded
  <2>4. after \in Nat /\ Warning(after) \in Outbound
    BY <2>1, <2>3 DEF Warning, Outbound
  <2>5. /\ queue'[s] = IF s \in to THEN Push(queue[s], Backlog, Warning(after), Env(sent + 1))
                                   ELSE queue[s]
        /\ lost'[s] = IF s \in to THEN after ELSE lost[s]
    BY DEF Broadcast, FanOut
  <2> HIDE DEF after, to
  <2>6. /\ Push(queue[s], Backlog, Warning(after), Env(sent + 1)) \in Seq(Outbound)
        /\ Len(Push(queue[s], Backlog, Warning(after), Env(sent + 1))) <= Backlog
    BY <2>1, <2>2, <2>4, PushBounded
  <2> QED BY <2>1, <2>4, <2>5, <2>6
<1>3. queue' \in [Session -> Seq(Outbound)] /\ lost' \in [Session -> Nat]
  BY <1>2 DEF Broadcast, FanOut
<1>4. TypeOK'
  BY <1>1, <1>2, <1>3 DEF IInv, TypeOK, Broadcast
<1> QED BY <1>4 DEF IInv, Broadcast, SlotsMatchSessions, CapHeld

\* Every step of a connection keeps the types.
LEMMA ConnectionTyped ==
  ASSUME IInv, NEW s \in Session, Connection(s)
  PROVE  TypeOK'
<1> USE GatewayAssumption
<1>1. CASE Reject(s) \/ RejectFull(s)
  BY <1>1 DEF Reject, RejectFull, Goes, others, IInv, TypeOK, Phases
<1>2. CASE RejectSubscribe(s)
  <2>1. wire' \in [Session -> Seq(OnWire)]
    BY <1>2, TellsTyped DEF RejectSubscribe, Codes, IInv, TypeOK
  <2> QED BY <1>2, <2>1 DEF RejectSubscribe, Goes, others, IInv, TypeOK, Phases
<1>3. ASSUME NEW sub \in Subscriptions, Accept(s, sub) PROVE TypeOK'
  <2>1. Frame("handshake") \in OnWire
    BY DEF Frame, OnWire
  <2>2. wire' \in [Session -> Seq(OnWire)]
    BY <1>3, <2>1, WritesTyped DEF Accept, IInv, TypeOK
  <2> QED BY <1>3, <2>2 DEF Accept, Goes, IInv, TypeOK, Phases
<1>4. ASSUME NEW code \in {"handshake_timeout", "invalid_envelope", "schema_mismatch"},
             HandshakeRefused(s, code)
      PROVE  TypeOK'
  <2>1. wire' \in [Session -> Seq(OnWire)]
    BY <1>4, TellsTyped DEF HandshakeRefused, Codes, IInv, TypeOK
  <2> QED BY <1>4, <2>1 DEF HandshakeRefused, Goes, others, IInv, TypeOK, Phases
<1>5. CASE HandshakeOk(s)
  BY <1>5 DEF HandshakeOk, AfterHandshake, Goes, others, IInv, TypeOK, Phases
<1>6. CASE SendLayout(s)
  <2>1. Frame("layout") \in OnWire
    BY DEF Frame, OnWire
  <2>2. wire' \in [Session -> Seq(OnWire)]
    BY <1>6, <2>1, WritesTyped DEF SendLayout, IInv, TypeOK
  <2> QED BY <1>6, <2>2 DEF SendLayout, Goes, others, IInv, TypeOK, Phases
<1>7. CASE Reserve(s)
  BY <1>7 DEF Reserve, Goes, FreshQueue, IInv, TypeOK, Phases
<1>8. CASE ReserveRaced(s)
  <2>1. wire' \in [Session -> Seq(OnWire)]
    BY <1>8, TellsTyped DEF ReserveRaced, Codes, IInv, TypeOK
  <2> QED BY <1>8, <2>1 DEF ReserveRaced, Goes, others, IInv, TypeOK, Phases
<1>9. CASE EndsEarly(s)
  <2>1. wire' \in [Session -> Seq(OnWire)]
    BY <1>9, TellsTyped DEF EndsEarly, Codes, IInv, TypeOK
  <2> QED BY <1>9, <2>1 DEF EndsEarly, Goes, others, IInv, TypeOK, Phases
<1> QED BY <1>1, <1>2, <1>3, <1>4, <1>5, <1>6, <1>7, <1>8, <1>9 DEF Connection

\* So does every step of an active session.
LEMMA ActiveTyped ==
  ASSUME IInv, NEW s \in Session, Active(s)
  PROVE  TypeOK'
<1> USE GatewayAssumption
<1>1. ASSUME NEW ok \in BOOLEAN, RecvFrame(s, ok) PROVE TypeOK'
  <2>1. wire' \in [Session -> Seq(OnWire)]
    BY <1>1, TellsTyped DEF RecvFrame, Codes, IInv, TypeOK
  <2>2. frames' \in [Session -> 0..MaxFrames]
    BY <1>1 DEF RecvFrame, IInv, TypeOK
  <2> QED BY <1>1, <2>1, <2>2 DEF RecvFrame, others, IInv, TypeOK, Phases
<1>2. CASE SendPop(s)
  <2>1. queue[s] \in Seq(Outbound) /\ queue[s] # <<>> /\ Len(queue[s]) <= Backlog
    BY <1>2 DEF SendPop, IInv, TypeOK
  <2>2. /\ Head(queue[s]) \in Outbound
        /\ Tail(queue[s]) \in Seq(Outbound) /\ Len(Tail(queue[s])) <= Backlog
    BY <2>1
  <2>3. /\ queue' \in [Session -> Seq(Outbound)]
        /\ \A t \in Session : Len(queue'[t]) <= Backlog
    BY <1>2, <2>2 DEF SendPop, IInv, TypeOK
  <2>4. <<Head(queue[s])>> \in Seq(Outbound) /\ Len(<<Head(queue[s])>>) = 1
    BY <2>2
  <2>5. /\ sending' \in [Session -> Seq(Outbound)]
        /\ \A t \in Session : Len(sending'[t]) <= 1
    BY <1>2, <2>4 DEF SendPop, IInv, TypeOK
  <2> QED BY <1>2, <2>3, <2>5 DEF SendPop, others, IInv, TypeOK
<1>3. CASE SendDone(s)
  <2>1. sending[s][1] \in OnWire
    BY <1>3 DEF SendDone, IInv, TypeOK, OnWire
  <2>2. wire' \in [Session -> Seq(OnWire)]
    BY <1>3, <2>1, WritesTyped DEF SendDone, IInv, TypeOK
  <2>3. <<>> \in Seq(Outbound) /\ Len(<<>>) = 0
    OBVIOUS
  <2>4. /\ sending' \in [Session -> Seq(Outbound)]
        /\ \A t \in Session : Len(sending'[t]) <= 1
    BY <1>3, <2>3 DEF SendDone, IInv, TypeOK
  <2> QED BY <1>3, <2>2, <2>4 DEF SendDone, others, IInv, TypeOK
<1>4. CASE IdleTimeout(s)
  <2>1. wire' \in [Session -> Seq(OnWire)]
    BY <1>4, TellsTyped DEF IdleTimeout, Codes, IInv, TypeOK
  <2> QED BY <1>4, <2>1 DEF IdleTimeout, Goes, others, IInv, TypeOK, Phases
<1>5. CASE LoopEnds(s)
  BY <1>5 DEF LoopEnds, Goes, others, IInv, TypeOK, Phases
<1>6. CASE Release(s)
  <2>1. wire' \in [Session -> Seq(OnWire)]
    BY <1>6, TellsTyped DEF Release, Codes, IInv, TypeOK
  <2>2. <<>> \in Seq(Outbound) /\ Len(<<>>) <= Backlog
    OBVIOUS
  <2>3. /\ queue' \in [Session -> Seq(Outbound)]
        /\ \A t \in Session : Len(queue'[t]) <= Backlog
    BY <1>6, <2>2 DEF Release, IInv, TypeOK
  <2> QED BY <1>6, <2>1, <2>3 DEF Release, Without, Goes, others, IInv, TypeOK, Phases
<1>7. CASE Close(s)
  <2>1. <<>> \in Seq(OnWire)
    OBVIOUS
  <2> QED BY <1>7, <2>1 DEF Close, Goes, IInv, TypeOK, Phases
<1> QED BY <1>1, <1>2, <1>3, <1>4, <1>5, <1>6, <1>7 DEF Active

\* Only Reserve enters the live phases and only Release leaves them.
LEMMA SlotsKept ==
  ASSUME IInv, NEW s \in Session, SessionStep(s)
  PROVE  SlotsMatchSessions'
<1> USE DEF IInv, TypeOK, SlotsMatchSessions, Goes
<1>1. CASE Connection(s)
  BY <1>1 DEF Connection, Reject, RejectFull, RejectSubscribe, Accept,
     HandshakeRefused, HandshakeOk, AfterHandshake, SendLayout, Reserve,
     ReserveRaced, EndsEarly
<1>2. CASE Active(s)
  BY <1>2 DEF Active, RecvFrame, SendPop, SendDone, IdleTimeout, LoopEnds,
     Release, Without, Close, Live
<1> QED BY <1>1, <1>2 DEF SessionStep

\* Only a reservation adds to the registry, and it looks at the size.
LEMMA CapKept ==
  ASSUME IInv, NEW s \in Session, SessionStep(s)
  PROVE  CapHeld'
<1> USE GatewayAssumption
<1>1. IsFiniteSet(registered) /\ Cardinality(registered) \in Nat
  BY FS_Subset, FS_CardinalityType DEF IInv, TypeOK
<1>2. CASE Reserve(s)
  <2>1. ~(Cardinality(registered) >= MaxSessions) /\ registered' = registered \cup {s}
    BY <1>2 DEF Reserve, CapReached
  <2> DEFINE R == registered
             more == registered \cup {s}
  <2> HIDE DEF R, more
  <2>a. IsFiniteSet(R) /\ Cardinality(R) \in Nat
    BY <1>1 DEF R
  <2>b. /\ IsFiniteSet(R \cup {s})
        /\ Cardinality(R \cup {s}) = IF s \in R THEN Cardinality(R) ELSE Cardinality(R) + 1
    BY <2>a, FS_AddElement
  <2>c. more = R \cup {s} /\ registered' = more
    BY <2>1 DEF more, R
  <2>2. Cardinality(registered') <= Cardinality(registered) + 1
    BY <2>a, <2>b, <2>c DEF R
  <2>3. Cardinality(registered') \in Nat
    BY <2>a, <2>b, <2>c
  <2> QED BY <1>1, <2>1, <2>2, <2>3 DEF CapHeld
<1>3. CASE Release(s)
  <2>1. registered' \subseteq registered
    BY <1>3 DEF Release, Without
  <2>2. Cardinality(registered') <= Cardinality(registered) /\ Cardinality(registered') \in Nat
    BY <1>1, <2>1, FS_Subset, FS_CardinalityType
  <2> QED BY <1>1, <2>2 DEF CapHeld, IInv
<1>4. CASE registered' = registered
  BY <1>4 DEF CapHeld, IInv
<1>5. Reserve(s) \/ Release(s) \/ registered' = registered
  BY DEF SessionStep, Connection, Reject, RejectFull, RejectSubscribe, Accept,
     HandshakeRefused, HandshakeOk, AfterHandshake, SendLayout, Reserve,
     ReserveRaced, EndsEarly,
     Active, RecvFrame, SendPop, SendDone, IdleTimeout, LoopEnds, Release, Close
<1> QED BY <1>2, <1>3, <1>4, <1>5

\* Every operation keeps the invariant.
LEMMA NextIInv == IInv /\ [Next]_vars => IInv'
<1> SUFFICES ASSUME IInv, [Next]_vars PROVE IInv'
  OBVIOUS
<1>1. CASE Broadcast
  BY <1>1, BroadcastKeeps
<1>2. ASSUME NEW s \in Session, SessionStep(s) PROVE IInv'
  <2>1. TypeOK'
    BY <1>2, ConnectionTyped, ActiveTyped DEF SessionStep
  <2> QED BY <1>2, <2>1, SlotsKept, CapKept DEF IInv
<1>3. CASE UNCHANGED vars
  BY <1>3 DEF vars, IInv, TypeOK, SlotsMatchSessions, CapHeld
<1> QED BY <1>1, <1>2, <1>3 DEF Next

\* The invariant holds in every state.
THEOREM InductiveInvariant == Spec => []IInv
<1> QED BY InitIInv, NextIInv, PTL DEF Spec

\* The variables keep their types and every queue its bound.
THEOREM BacklogBounded == Spec => []TypeOK
<1>1. IInv => TypeOK
  BY DEF IInv
<1> QED BY <1>1, InductiveInvariant, PTL

\* The cap holds although the check before accept is stale when the session
\* is registered (gateway.py:734-746, 850-876).
THEOREM CapAlwaysHeld == Spec => []CapHeld
<1>1. IInv => CapHeld
  BY DEF IInv
<1> QED BY <1>1, InductiveInvariant, PTL

\* A registered session is a live one, and conversely: no slot leaks.
THEOREM NoSlotLeaks == Spec => []SlotsMatchSessions
<1>1. IInv => SlotsMatchSessions
  BY DEF IInv
<1> QED BY <1>1, InductiveInvariant, PTL
-----------------------------------------------------------------------------
(* What a drop-oldest push does to the order of a queue.                   *)

\* The items a client counts: envelopes by their numbers, warnings by the
\* losses they tell of.
Counted(x) == x.kind \in {"env", "warning"}

\* Of two of one kind, the later has the higher number: within a sequence,
\* and from one to the one behind it.
Ascends(q) ==
  \A i, j \in 1..Len(q) : i < j /\ q[i].kind = q[j].kind /\ Counted(q[i]) => q[i].n < q[j].n
Before(q, r) ==
  \A i \in 1..Len(q), j \in 1..Len(r) :
    q[i].kind = r[j].kind /\ Counted(q[i]) => q[i].n < r[j].n

\* Every warning tells of losses, and only of those there were.
Truthful(q, losses) ==
  \A i \in 1..Len(q) : q[i].kind = "warning" => 1 <= q[i].n /\ q[i].n <= losses

\* The items of a queue, and of a log of frames.
LEMMA Items ==
  ASSUME NEW q
  PROVE  /\ q \in Seq(Outbound) =>
              \A i \in 1..Len(q) : q[i] \in Outbound /\ q[i].n \in Nat /\ Counted(q[i])
         /\ q \in Seq(OnWire) =>
              \A i \in 1..Len(q) : q[i] \in OnWire /\ q[i].n \in Nat
<1>1. \A x \in Outbound : x.n \in Nat /\ Counted(x)
  BY DEF Outbound, Counted
<1>2. \A x \in OnWire : x.n \in Nat
  BY DEF Outbound, OnWire
<1>3. q \in Seq(Outbound) => \A i \in 1..Len(q) : q[i] \in Outbound
  OBVIOUS
<1>4. q \in Seq(OnWire) => \A i \in 1..Len(q) : q[i] \in OnWire
  OBVIOUS
<1> QED BY <1>1, <1>2, <1>3, <1>4

\* A push keeps a run of the newest items; if it drops any, it appends the
\* warning; and it appends the item.
LEMMA PushShape ==
  ASSUME NEW S, NEW q \in Seq(S), NEW cap \in Nat, cap > 1, NEW warning \in S, NEW x \in S
  PROVE  /\ Dropped(q, cap) \in 0..Len(q)
         /\ Push(q, cap, warning, x) \in Seq(S)
         /\ Len(Push(q, cap, warning, x)) =
              Len(q) - Dropped(q, cap) + (IF Dropped(q, cap) = 0 THEN 1 ELSE 2)
         /\ \A i \in 1..(Len(q) - Dropped(q, cap)) :
              Push(q, cap, warning, x)[i] = q[i + Dropped(q, cap)]
         /\ Dropped(q, cap) # 0 =>
              Push(q, cap, warning, x)[Len(q) - Dropped(q, cap) + 1] = warning
         /\ Push(q, cap, warning, x)[Len(Push(q, cap, warning, x))] = x
<1> DEFINE d == Dropped(q, cap)
           kept == Newest(q, Room(cap))
<1>1. CASE Overflows(q, cap)
  <2>1. /\ Room(cap) \in Nat /\ Room(cap) <= cap - 2
        /\ d = Len(q) - Room(cap) /\ d \in 1..Len(q)
    BY <1>1 DEF Room, Dropped, Overflows
  <2>2. /\ kept \in Seq(S) /\ Len(kept) = Len(q) - d
        /\ \A i \in 1..(Len(q) - d) : kept[i] = q[i + d]
    BY <2>1 DEF Newest
  <2> HIDE DEF d, kept
  <2>3. Len(kept) <= cap - 2
    BY <2>1, <2>2
  <2>4. Push(q, cap, warning, x) = Append(Append(kept, warning), x)
    BY <1>1, <2>2, <2>3 DEF Push, Offer, kept
  <2> QED BY <2>1, <2>2, <2>4 DEF d
<1>2. CASE ~Overflows(q, cap)
  <2>1. d = 0 /\ Push(q, cap, warning, x) = Append(q, x)
    BY <1>2 DEF Dropped, Push
  <2> QED BY <2>1
<1> QED BY <1>1, <1>2

\* How a push moves the queue q of a client that has lost so many: what is
\* written, or being written, stays before it.
PushMoves(q, r, losses, more, n) ==
  /\ more >= losses
  /\ Ascends(r) /\ Truthful(r, more)
  /\ \A w \in Seq(OnWire) :
       Before(w, q) /\ Truthful(w, losses) /\ (\A m \in Envelopes(w) : m < n) => Before(w, r)
  /\ \E gone \in SUBSET Envelopes(q) :
       /\ \A m, k \in Envelopes(q) : k \in gone /\ m < k => m \in gone
       /\ Envelopes(r) = (Envelopes(q) \ gone) \cup {n}
       /\ gone # {} => more > losses
  /\ more > losses => \E i \in 1..Len(r) : r[i] = Warning(more)
  /\ \A i \in 1..Len(q) : more = losses => \E j \in 1..Len(r) : r[j] = q[i]

\* Every push with room for two does.
LEMMA PushInOrder ==
  ASSUME NEW q \in Seq(Outbound), NEW cap \in Nat, cap > 1, NEW losses \in Nat, NEW n \in Nat,
         Ascends(q), Truthful(q, losses), \A m \in Envelopes(q) : m < n
  PROVE  PushMoves(q, Push(q, cap, Warning(losses + Dropped(q, cap)), Env(n)),
                   losses, losses + Dropped(q, cap), n)
<1> DEFINE d == Dropped(q, cap)
           more == losses + d
           w == Warning(more)
           e == Env(n)
           r == Push(q, cap, w, e)
           k == Len(q) - d
<1>1. d \in 0..Len(q) /\ more \in Nat /\ w \in Outbound /\ e \in Outbound
  <2>1. d \in 0..Len(q)
    BY DEF Dropped, Room, Overflows
  <2> QED BY <2>1 DEF Warning, Env, Outbound
<1>2. w.kind = "warning" /\ w.n = more /\ e.kind = "env" /\ e.n = n
  BY DEF Warning, Env
<1> HIDE DEF w, e
<1>3. /\ r \in Seq(Outbound) /\ Len(r) = k + (IF d = 0 THEN 1 ELSE 2)
      /\ \A i \in 1..k : r[i] = q[i + d]
      /\ d # 0 => r[k + 1] = w
      /\ r[Len(r)] = e
  <2> HIDE DEF d, r
  <2> QED BY <1>1, PushShape DEF d, r
<1>4. k \in Nat /\ k + d = Len(q) /\ d \in Nat /\ Len(r) \in Nat \ {0} /\ Len(r) >= k + 1
  BY <1>1, <1>3
<1>5. more >= losses /\ (d # 0 => more > losses) /\ (d = 0 => more = losses)
  BY <1>1
<1> HIDE DEF d, more, r, k
<1>6. ASSUME NEW i \in 1..Len(r)
      PROVE  \/ i \in 1..k /\ i + d \in 1..Len(q) /\ r[i] = q[i + d]
             \/ i = k + 1 /\ d # 0 /\ r[i] = w
             \/ i = Len(r) /\ r[i] = e
  BY <1>3, <1>4
<1>7. Ascends(r)
  <2> SUFFICES ASSUME NEW i \in 1..Len(r), NEW j \in 1..Len(r), i < j, r[i].kind = r[j].kind
               PROVE  r[i].n < r[j].n
    BY DEF Ascends
  <2>1. i < Len(r)
    BY <1>4
  <2>2. CASE i = k + 1
    <3>1. d # 0 /\ r[i] = w /\ j = Len(r)
      BY <1>3, <1>4, <2>1, <2>2
    <3> QED BY <1>2, <1>3, <3>1
  <2>3. CASE i # k + 1
    <3>1. i \in 1..k /\ i + d \in 1..Len(q) /\ r[i] = q[i + d] /\ r[i].n \in Nat
          /\ Counted(r[i])
      BY <1>6, <2>1, <2>3, Items
    <3>2. CASE j \in 1..k
      <4>1. j + d \in 1..Len(q) /\ i + d < j + d /\ r[j] = q[j + d]
        <5>1. j + d \in 1..Len(q) /\ i + d < j + d
          BY <1>4, <3>2
        <5> QED BY <1>3, <3>2, <5>1
      <4> QED BY <3>1, <4>1 DEF Ascends
    <3>3. CASE j = k + 1 /\ r[j] = w /\ d # 0
      <4>1. r[i].n <= losses
        BY <1>2, <3>1, <3>3 DEF Truthful
      <4> QED BY <1>1, <1>2, <1>5, <3>1, <3>3, <4>1
    <3>4. CASE r[j] = e
      <4>1. r[i].n \in Envelopes(q)
        BY <1>2, <3>1, <3>4 DEF Envelopes
      <4> QED BY <1>2, <3>4, <4>1
    <3> QED BY <1>6, <3>2, <3>3, <3>4
  <2> QED BY <2>2, <2>3
<1>8. Truthful(r, more)
  <2> SUFFICES ASSUME NEW i \in 1..Len(r), r[i].kind = "warning"
               PROVE  1 <= r[i].n /\ r[i].n <= more
    BY DEF Truthful
  <2>1. CASE r[i] = w /\ d # 0
    BY <1>1, <1>2, <1>4, <1>5, <2>1
  <2>2. CASE i + d \in 1..Len(q) /\ r[i] = q[i + d]
    <3>1. 1 <= r[i].n /\ r[i].n <= losses /\ r[i].n \in Nat
      BY <2>2, Items DEF Truthful
    <3> QED BY <1>1, <1>5, <3>1
  <2> QED BY <1>2, <1>6, <2>1, <2>2
<1>9. ASSUME NEW l \in Seq(OnWire), Before(l, q), Truthful(l, losses),
             \A m \in Envelopes(l) : m < n
      PROVE  Before(l, r)
  <2> SUFFICES ASSUME NEW i \in 1..Len(l), NEW j \in 1..Len(r), l[i].kind = r[j].kind,
                      Counted(l[i])
               PROVE  l[i].n < r[j].n
    BY DEF Before
  <2>1. l[i].n \in Nat
    BY Items
  <2>2. CASE j + d \in 1..Len(q) /\ r[j] = q[j + d]
    BY <1>9, <2>2 DEF Before
  <2>3. CASE r[j] = w /\ d # 0
    <3>1. l[i].n <= losses
      BY <1>2, <1>9, <2>3 DEF Truthful
    <3> QED BY <1>1, <1>2, <1>5, <2>1, <2>3, <3>1
  <2>4. CASE r[j] = e
    <3>1. l[i].n \in Envelopes(l)
      BY <1>2, <2>4 DEF Envelopes
    <3> QED BY <1>2, <1>9, <2>4, <3>1
  <2> QED BY <1>6, <2>2, <2>3, <2>4
<1> DEFINE gone == {q[i].n : i \in {j \in 1..d : q[j].kind = "env"}}
<1>10. gone \in SUBSET Envelopes(q)
  BY <1>4 DEF Envelopes
<1>11. \A m, j \in Envelopes(q) : j \in gone /\ m < j => m \in gone
  <2> SUFFICES ASSUME NEW i \in 1..Len(q), NEW j \in 1..d, q[i].kind = "env", q[j].kind = "env",
                      q[i].n < q[j].n
               PROVE  i \in 1..d
    BY DEF Envelopes
  <2>1. j \in 1..Len(q) /\ q[i].n \in Nat /\ q[j].n \in Nat
    BY <1>4, Items
  <2>2. ~(j < i) /\ i # j
    BY <2>1 DEF Ascends, Counted
  <2> QED BY <1>4, <2>2
<1>12. Envelopes(r) = (Envelopes(q) \ gone) \cup {n}
  <2>1. ASSUME NEW m \in Envelopes(r) PROVE m \in (Envelopes(q) \ gone) \cup {n}
    <3>1. PICK i \in 1..Len(r) : r[i].kind = "env" /\ r[i].n = m
      BY <1>3 DEF Envelopes
    <3>2. CASE i \in 1..k /\ i + d \in 1..Len(q) /\ r[i] = q[i + d]
      <4>1. m \in Envelopes(q) /\ m \in Nat
        BY <3>1, <3>2, Items DEF Envelopes
      <4>2. ASSUME NEW j \in 1..d, q[j].kind = "env" PROVE q[j].n < m
        <5>1. j \in 1..Len(q) /\ j < i + d
          BY <1>4, <3>2
        <5> QED BY <3>1, <3>2, <4>2, <5>1 DEF Ascends, Counted
      <4> QED BY <4>1, <4>2
    <3> QED BY <1>2, <1>6, <3>1, <3>2
  <2>2. ASSUME NEW m \in Envelopes(q), m \notin gone PROVE m \in Envelopes(r)
    <3>1. PICK i \in 1..Len(q) : q[i].kind = "env" /\ q[i].n = m
      BY DEF Envelopes
    <3>2. i \notin 1..d
      BY <2>2, <3>1
    <3>3. i - d \in 1..k /\ i - d \in 1..Len(r) /\ (i - d) + d = i
      BY <1>4, <3>2
    <3>4. r[i - d] = q[i]
      BY <1>3, <3>3
    <3> QED BY <1>3, <3>1, <3>3, <3>4 DEF Envelopes
  <2>3. n \in Envelopes(r)
    BY <1>2, <1>3, <1>4 DEF Envelopes
  <2> QED BY <2>1, <2>2, <2>3
<1>13. gone # {} => more > losses
  BY <1>4, <1>5
<1> HIDE DEF gone
<1>14. more > losses => \E i \in 1..Len(r) : r[i] = w
  <2> SUFFICES ASSUME d # 0 PROVE \E i \in 1..Len(r) : r[i] = w
    BY <1>1, <1>5
  <2> QED BY <1>3, <1>4
<1>15. ASSUME NEW i \in 1..Len(q), more = losses PROVE \E j \in 1..Len(r) : r[j] = q[i]
  <2>1. d = 0 /\ i \in 1..k /\ i \in 1..Len(r)
    BY <1>1, <1>4, <1>5, <1>15
  <2> QED BY <1>3, <2>1
<1>16. PushMoves(q, r, losses, more, n)
  BY <1>5, <1>7, <1>8, <1>9, <1>10, <1>11, <1>12, <1>13, <1>14, <1>15 DEF PushMoves, w
<1> QED BY <1>16 DEF d, more, w, e, r

-----------------------------------------------------------------------------
(* Every session is an announced stream. *)

HasMax(S) == \E m \in S : \A x \in S : x <= m

\* The greatest of a set of numbers that has one.
LEMMA MaxIs ==
  ASSUME NEW S \in SUBSET Nat, NEW m \in S, \A x \in S : x <= m
  PROVE  Max(S) = m
<1>1. \E x \in S : \A y \in S : x >= y
  OBVIOUS
<1>2. Max(S) \in S /\ \A y \in S : Max(S) >= y
  BY <1>1 DEF Max
<1>3. Max(S) \in Nat /\ m \in Nat /\ Max(S) >= m /\ Max(S) <= m
  BY <1>2
<1> QED BY <1>3

\* Where the warnings of a log are, and the figure in the last one.
Warned(w) == {i \in 1..Len(w) : w[i].kind = "warning"}
LastFigure(w) == IF Warned(w) = {} THEN 0 ELSE w[Max(Warned(w))].n

\* What a client heard of the figure is its last warning.
LEMMA HeardIs ==
  ASSUME NEW s \in Session
  PROVE  /\ wire[s] \in Seq(OnWire) => Heard(s) = LastFigure(wire[s])
         /\ wire'[s] \in Seq(OnWire) => Heard(s)' = LastFigure(wire'[s])
<1>1. ASSUME NEW w \in Seq(OnWire)
      PROVE  {i \in DOMAIN w : w[i].kind = "warning"} = Warned(w)
  BY DEF Warned
<1> QED BY <1>1 DEF Heard, LastFigure

\* A frame appended to the log becomes the last one; only a warning changes
\* the figure.
LEMMA FigureFollows ==
  ASSUME NEW w \in Seq(OnWire), NEW x \in OnWire,
         Warned(w) = {} \/ HasMax(Warned(w))
  PROVE  LET a == Append(w, x)
         IN  /\ Warned(a) = {} \/ HasMax(Warned(a))
             /\ LastFigure(a) = IF x.kind = "warning" THEN x.n ELSE LastFigure(w)
             /\ LastFigure(w) = 0 \/ \E i \in Warned(w) : LastFigure(w) = w[i].n
<1> DEFINE a == Append(w, x)
<1>1. /\ a \in Seq(OnWire) /\ Len(a) = Len(w) + 1 /\ a[Len(w) + 1] = x
      /\ \A i \in 1..Len(w) : a[i] = w[i]
  OBVIOUS
<1> HIDE DEF a
<1>2. Warned(w) \in SUBSET Nat /\ Warned(a) \in SUBSET Nat
  BY DEF Warned
<1>3. ASSUME Warned(w) # {}
      PROVE  \E m \in Warned(w) : Max(Warned(w)) = m /\ \A i \in Warned(w) : i <= m
  BY <1>2, <1>3, MaxIs DEF HasMax
<1>4. CASE x.kind = "warning"
  <2>1. Len(w) + 1 \in Warned(a) /\ \A i \in Warned(a) : i <= Len(w) + 1
    BY <1>1, <1>4 DEF Warned
  <2>2. Max(Warned(a)) = Len(w) + 1
    BY <1>2, <2>1, MaxIs
  <2> QED BY <1>1, <1>3, <1>4, <2>1, <2>2 DEF HasMax, LastFigure, a
<1>5. CASE x.kind # "warning"
  <2>1. Warned(a) = Warned(w) /\ \A i \in Warned(w) : a[i] = w[i]
    BY <1>1, <1>5 DEF Warned
  <2> QED BY <1>3, <1>5, <2>1 DEF LastFigure, a
<1> QED BY <1>4, <1>5

\* What has been written, is being written and will be written is in order
\* and tells no more than the losses.
InOrder(w, b, q, losses) ==
  /\ Ascends(w) /\ Ascends(q)
  /\ Before(w, b) /\ Before(w, q) /\ Before(b, q)
  /\ Truthful(w, losses) /\ Truthful(b, losses) /\ Truthful(q, losses)

\* The envelopes of a longer log.
LEMMA EnvelopesGrow ==
  ASSUME NEW w \in Seq(OnWire), NEW x \in OnWire
  PROVE  Envelopes(Append(w, x)) = Envelopes(w) \cup (IF x.kind = "env" THEN {x.n} ELSE {})
<1> DEFINE a == Append(w, x)
<1>1. /\ a \in Seq(OnWire) /\ Len(a) = Len(w) + 1 /\ a[Len(w) + 1] = x
      /\ \A i \in 1..Len(w) : a[i] = w[i]
  OBVIOUS
<1> HIDE DEF a
<1>2. ASSUME NEW n
      PROVE  n \in Envelopes(a) <=> n \in Envelopes(w) \/ (x.kind = "env" /\ n = x.n)
  <2>1. n \in Envelopes(a) <=> \E i \in 1..Len(a) : a[i].kind = "env" /\ a[i].n = n
    BY <1>1 DEF Envelopes
  <2>2. n \in Envelopes(w) <=> \E i \in 1..Len(w) : w[i].kind = "env" /\ w[i].n = n
    BY DEF Envelopes
  <2>3. \A i \in 1..Len(a) : i \in 1..Len(w) \/ i = Len(w) + 1
    BY <1>1
  <2>4. Len(w) + 1 \in 1..Len(a) /\ \A i \in 1..Len(w) : i \in 1..Len(a)
    BY <1>1
  <2> QED BY <1>1, <2>1, <2>2, <2>3, <2>4
<1>3. Envelopes(a) = Envelopes(w) \cup {n \in {x.n} : x.kind = "env"}
  BY <1>2
<1>4. {n \in {x.n} : x.kind = "env"} = IF x.kind = "env" THEN {x.n} ELSE {}
  OBVIOUS
<1> QED BY <1>3, <1>4 DEF a

\* A frame that is not counted changes nothing of the order.
LEMMA OtherFrame ==
  ASSUME NEW w \in Seq(OnWire), NEW x \in OnWire, ~Counted(x), NEW losses,
         NEW b \in Seq(Outbound), NEW q \in Seq(Outbound), InOrder(w, b, q, losses)
  PROVE  InOrder(Append(w, x), b, q, losses)
<1> DEFINE a == Append(w, x)
<1>1. /\ a \in Seq(OnWire) /\ Len(a) = Len(w) + 1 /\ a[Len(w) + 1] = x
      /\ \A i \in 1..Len(w) : a[i] = w[i]
  OBVIOUS
<1>2. \A i \in 1..Len(a) : Counted(a[i]) => i \in 1..Len(w)
  BY <1>1
<1> HIDE DEF a
<1>3. Ascends(a) /\ Before(a, b) /\ Before(a, q)
  BY <1>1, <1>2 DEF InOrder, Ascends, Before, Counted
<1>4. Truthful(a, losses)
  BY <1>1, <1>2 DEF InOrder, Truthful, Counted
<1> QED BY <1>3, <1>4 DEF InOrder, a

\* The head of the queue is taken to be written.
LEMMA PopInOrder ==
  ASSUME NEW w \in Seq(OnWire), NEW q \in Seq(Outbound), q # <<>>, NEW losses,
         InOrder(w, <<>>, q, losses)
  PROVE  /\ InOrder(w, <<Head(q)>>, Tail(q), losses)
         /\ Envelopes(<<Head(q)>>) \cup Envelopes(Tail(q)) = Envelopes(q)
         /\ ToSet(<<Head(q)>>) \cup ToSet(Tail(q)) = ToSet(q)
<1> DEFINE b == <<Head(q)>>
           t == Tail(q)
<1>1. /\ Len(b) = 1 /\ b[1] = q[1] /\ 1 \in 1..Len(q)
      /\ t \in Seq(Outbound) /\ Len(t) = Len(q) - 1
      /\ \A i \in 1..Len(t) : t[i] = q[i + 1] /\ i + 1 \in 1..Len(q)
  OBVIOUS
<1>2. DOMAIN b = {1} /\ DOMAIN t = 1..Len(t) /\ DOMAIN q = 1..Len(q)
  BY <1>1
<1> HIDE DEF b, t
<1>3. \A i \in 1..Len(q) : i = 1 \/ (i - 1 \in 1..Len(t) /\ t[i - 1] = q[i])
  <2> SUFFICES ASSUME NEW i \in 1..Len(q), i # 1 PROVE i - 1 \in 1..Len(t) /\ t[i - 1] = q[i]
    OBVIOUS
  <2>1. i - 1 \in 1..Len(t) /\ (i - 1) + 1 = i
    BY <1>1
  <2> QED BY <1>1, <2>1
<1>4. Ascends(t)
  <2> SUFFICES ASSUME NEW i \in 1..Len(t), NEW j \in 1..Len(t), i < j, t[i].kind = t[j].kind,
                      Counted(t[i])
               PROVE  t[i].n < t[j].n
    BY DEF Ascends
  <2>1. i + 1 < j + 1 /\ i + 1 \in 1..Len(q) /\ j + 1 \in 1..Len(q)
    BY <1>1
  <2> QED BY <1>1, <2>1 DEF InOrder, Ascends
<1>5. Before(w, t) /\ Before(w, b)
  <2>1. Before(w, q)
    BY DEF InOrder
  <2>2. Before(w, t)
    <3> SUFFICES ASSUME NEW i \in 1..Len(w), NEW j \in 1..Len(t), w[i].kind = t[j].kind,
                        Counted(w[i])
                 PROVE  w[i].n < t[j].n
      BY DEF Before
    <3> QED BY <1>1, <2>1 DEF Before
  <2>3. Before(w, b)
    BY <1>1, <2>1 DEF Before
  <2> QED BY <2>2, <2>3
<1>9. Before(b, t)
  <2> SUFFICES ASSUME NEW i \in 1..Len(b), NEW j \in 1..Len(t), b[i].kind = t[j].kind,
                      Counted(b[i])
               PROVE  b[i].n < t[j].n
    BY DEF Before
  <2>1. 1 < j + 1 /\ j + 1 \in 1..Len(q) /\ b[i] = q[1]
    BY <1>1
  <2> QED BY <1>1, <2>1 DEF InOrder, Ascends
<1>6. Truthful(b, losses) /\ Truthful(t, losses)
  BY <1>1 DEF InOrder, Truthful
<1>7. Envelopes(b) \cup Envelopes(t) = Envelopes(q)
  <2>1. ASSUME NEW n \in Envelopes(b) \cup Envelopes(t) PROVE n \in Envelopes(q)
    <3>1. CASE n \in Envelopes(b)
      BY <1>1, <1>2, <3>1 DEF Envelopes
    <3>2. CASE n \in Envelopes(t)
      <4>1. PICK i \in 1..Len(t) : t[i].kind = "env" /\ t[i].n = n
        BY <1>2, <3>2 DEF Envelopes
      <4>2. i + 1 \in DOMAIN q /\ q[i + 1].kind = "env" /\ q[i + 1].n = n
        BY <1>1, <1>2, <4>1
      <4> QED BY <4>2 DEF Envelopes
    <3> QED BY <2>1, <3>1, <3>2
  <2>2. ASSUME NEW n \in Envelopes(q) PROVE n \in Envelopes(b) \cup Envelopes(t)
    <3>1. PICK i \in 1..Len(q) : q[i].kind = "env" /\ q[i].n = n
      BY <1>2 DEF Envelopes
    <3>2. CASE i = 1
      BY <1>1, <1>2, <3>1, <3>2 DEF Envelopes
    <3>3. CASE i # 1
      <4>1. i - 1 \in DOMAIN t /\ t[i - 1].kind = "env" /\ t[i - 1].n = n
        BY <1>2, <1>3, <3>1, <3>3
      <4> QED BY <4>1 DEF Envelopes
    <3> QED BY <3>2, <3>3
  <2> QED BY <2>1, <2>2
<1>8. ToSet(b) \cup ToSet(t) = ToSet(q)
  <2>1. ASSUME NEW x \in ToSet(b) \cup ToSet(t) PROVE x \in ToSet(q)
    <3>1. CASE x \in ToSet(b)
      BY <1>1, <1>2, <3>1 DEF ToSet
    <3>2. CASE x \in ToSet(t)
      <4>1. PICK i \in 1..Len(t) : t[i] = x
        BY <1>2, <3>2 DEF ToSet
      <4>2. i + 1 \in DOMAIN q /\ q[i + 1] = x
        BY <1>1, <1>2, <4>1
      <4> QED BY <4>2 DEF ToSet
    <3> QED BY <2>1, <3>1, <3>2
  <2>2. ASSUME NEW i \in 1..Len(q) PROVE q[i] \in ToSet(b) \cup ToSet(t)
    BY <1>1, <1>2, <1>3 DEF ToSet
  <2> QED BY <1>2, <2>1, <2>2 DEF ToSet
<1> QED BY <1>4, <1>5, <1>9, <1>6, <1>7, <1>8 DEF InOrder, b, t

\* What was being written is written.
LEMMA WriteInOrder ==
  ASSUME NEW w \in Seq(OnWire), NEW q \in Seq(Outbound), NEW x \in Outbound, NEW losses,
         InOrder(w, <<x>>, q, losses)
  PROVE  InOrder(Append(w, x), <<>>, q, losses)
<1> DEFINE a == Append(w, x)
           b == <<x>>
<1>1. /\ a \in Seq(OnWire) /\ Len(a) = Len(w) + 1 /\ a[Len(w) + 1] = x
      /\ \A i \in 1..Len(w) : a[i] = w[i]
  BY DEF OnWire
<1>2. Len(b) = 1 /\ b[1] = x /\ 1 \in 1..Len(b) /\ Len(<<>>) = 0
  OBVIOUS
<1> HIDE DEF a, b
<1>3. \A i \in 1..Len(a) : i \in 1..Len(w) \/ i = Len(w) + 1
  BY <1>1
<1>4. InOrder(w, b, q, losses)
  BY DEF b
<1>5. Ascends(a)
  BY <1>1, <1>2, <1>3, <1>4 DEF InOrder, Ascends, Before
<1>6. Before(a, <<>>) /\ Before(<<>>, q)
  BY <1>2 DEF Before
<1>8. Before(a, q)
  <2> SUFFICES ASSUME NEW i \in 1..Len(a), NEW j \in 1..Len(q), a[i].kind = q[j].kind,
                      Counted(a[i])
               PROVE  a[i].n < q[j].n
    BY DEF Before
  <2> QED BY <1>1, <1>2, <1>3, <1>4 DEF InOrder, Before
<1>7. Truthful(a, losses) /\ Truthful(<<>>, losses)
  BY <1>1, <1>2, <1>3, <1>4 DEF InOrder, Truthful
<1> QED BY <1>4, <1>5, <1>6, <1>7, <1>8 DEF InOrder, a

\* What was being written is dropped with the session.
LEMMA CancelInOrder ==
  ASSUME NEW w, NEW b, NEW q, NEW losses, InOrder(w, b, q, losses)
  PROVE  InOrder(w, <<>>, q, losses)
BY DEF InOrder, Before, Truthful

-----------------------------------------------------------------------------
Early == {"connecting", "handshake", "layout", "joining"}
Over(s) == phase[s] \in {"teardown", "closing", "closed"}

\* What a registered session has been given, and what it will be.
Flowing(s) ==
  /\ HasMax(Due(s) \cup {0})
  /\ InOrder(wire[s], sending[s], queue[s], lost[s])
  /\ Streamed(s) \subseteq Due(s)
  /\ phase[s] # "teardown" /\ lost[s] = 0 => Due(s) \subseteq Streamed(s)
  /\ phase[s] # "teardown" /\ lost[s] > LastFigure(wire[s]) =>
       Warning(lost[s]) \in ToSet(sending[s]) \cup ToSet(queue[s])

\* ExactlyWhatIsDue is about the socket and the queue as one sequence; to
\* keep it, one must know of every part of it that it is in order and before
\* the next, and of a session that is not registered yet that nothing counted
\* has been written to its socket.
FlowInv(s) ==
  /\ joined[s] <= sent
  /\ Warned(wire[s]) = {} \/ HasMax(Warned(wire[s]))
  /\ phase[s] \in Early =>
       /\ queue[s] = <<>> /\ sending[s] = <<>> /\ lost[s] = 0
       /\ \A i \in 1..Len(wire[s]) : ~Counted(wire[s][i])
  /\ s \in registered => Flowing(s)

\* A step keeps it, and is one of the session's stream or not seen by it.
Streams(s) == Stream(s)!Next \/ UNCHANGED Stream(s)!svars

\* At most one frame is written that the client does not count.
Adds(s) ==
  \/ wire'[s] = wire[s]
  \/ \E x \in OnWire : ~Counted(x) /\ wire'[s] = Append(wire[s], x)

\* The figure of the last warning is a number.
LEMMA FigureNat ==
  ASSUME NEW w \in Seq(OnWire), Warned(w) = {} \/ HasMax(Warned(w))
  PROVE  LastFigure(w) \in Nat
<1>1. Frame("layout") \in OnWire
  BY DEF Frame, OnWire
<1>2. LastFigure(w) = 0 \/ \E i \in Warned(w) : LastFigure(w) = w[i].n
  BY <1>1, FigureFollows
<1> QED BY <1>2, Items DEF Warned

\* So neither the figure nor the envelopes change.
LEMMA AddsNothing ==
  ASSUME NEW s \in Session, wire[s] \in Seq(OnWire), Adds(s),
         Warned(wire[s]) = {} \/ HasMax(Warned(wire[s]))
  PROVE  /\ wire'[s] \in Seq(OnWire)
         /\ Warned(wire'[s]) = {} \/ HasMax(Warned(wire'[s]))
         /\ LastFigure(wire'[s]) = LastFigure(wire[s])
         /\ Envelopes(wire'[s]) = Envelopes(wire[s])
         /\ (\A i \in 1..Len(wire[s]) : ~Counted(wire[s][i])) =>
              \A i \in 1..Len(wire'[s]) : ~Counted(wire'[s][i])
         /\ \A b, q \in Seq(Outbound) :
              InOrder(wire[s], b, q, lost[s]) => InOrder(wire'[s], b, q, lost[s])
<1>1. CASE wire'[s] = wire[s]
  BY <1>1
<1>2. ASSUME NEW x \in OnWire, ~Counted(x), wire'[s] = Append(wire[s], x)
      PROVE  /\ wire'[s] \in Seq(OnWire)
             /\ Warned(wire'[s]) = {} \/ HasMax(Warned(wire'[s]))
             /\ LastFigure(wire'[s]) = LastFigure(wire[s])
             /\ Envelopes(wire'[s]) = Envelopes(wire[s])
             /\ (\A i \in 1..Len(wire[s]) : ~Counted(wire[s][i])) =>
                  \A i \in 1..Len(wire'[s]) : ~Counted(wire'[s][i])
             /\ \A b, q \in Seq(Outbound) :
                  InOrder(wire[s], b, q, lost[s]) => InOrder(wire'[s], b, q, lost[s])
  <2>1. x.kind # "warning" /\ x.kind # "env"
    BY <1>2 DEF Counted
  <2>2. /\ Warned(wire'[s]) = {} \/ HasMax(Warned(wire'[s]))
        /\ LastFigure(wire'[s]) = LastFigure(wire[s])
    BY <1>2, <2>1, FigureFollows
  <2>3. Envelopes(wire'[s]) = Envelopes(wire[s])
    BY <1>2, <2>1, EnvelopesGrow
  <2>4. \A b, q \in Seq(Outbound) :
          InOrder(wire[s], b, q, lost[s]) => InOrder(wire'[s], b, q, lost[s])
    BY <1>2, OtherFrame
  <2> QED BY <1>2, <2>2, <2>3, <2>4
<1> QED BY <1>1, <1>2 DEF Adds

\* A step that leaves the session's queue alone, and of its frames at most
\* adds one that is not counted, is not seen by its stream.
LEMMA Unseen ==
  ASSUME IInv, NEW s \in Session, FlowInv(s), Adds(s), joined'[s] <= sent',
         queue'[s] = queue[s], sending'[s] = sending[s], lost'[s] = lost[s],
         s \in registered' <=> s \in registered,
         s \in registered => Due(s)' = Due(s),
         phase'[s] \in Early <=> phase[s] \in Early,
         phase'[s] = "teardown" <=> phase[s] = "teardown",
         Over(s)' <=> Over(s), wire' \in [Session -> Seq(OnWire)]
  PROVE  FlowInv(s)' /\ UNCHANGED Stream(s)!svars
<1>1. /\ wire[s] \in Seq(OnWire) /\ queue[s] \in Seq(Outbound) /\ sending[s] \in Seq(Outbound)
  BY DEF IInv, TypeOK
<1>2. /\ wire'[s] \in Seq(OnWire)
      /\ Warned(wire'[s]) = {} \/ HasMax(Warned(wire'[s]))
      /\ LastFigure(wire'[s]) = LastFigure(wire[s])
      /\ Envelopes(wire'[s]) = Envelopes(wire[s])
      /\ (\A i \in 1..Len(wire[s]) : ~Counted(wire[s][i])) =>
           \A i \in 1..Len(wire'[s]) : ~Counted(wire'[s][i])
      /\ InOrder(wire[s], sending[s], queue[s], lost[s]) =>
           InOrder(wire'[s], sending[s], queue[s], lost[s])
  BY <1>1, AddsNothing DEF FlowInv
<1>3. s \in registered => Flowing(s)'
  BY <1>2 DEF FlowInv, Flowing, Streamed
<1>4. FlowInv(s)'
  BY <1>2, <1>3 DEF FlowInv
<1>5. Heard(s)' = Heard(s)
  BY <1>1, <1>2, HeardIs
<1>6. s \in registered => NewestDue(s)' = NewestDue(s)
  BY DEF NewestDue
<1>7. UNCHANGED Stream(s)!svars
  BY <1>5, <1>6 DEF Stream!svars, Over
<1> QED BY <1>4, <1>7

\* A session that is no longer registered is closed to its stream.
LEMMA Leaves ==
  ASSUME IInv, NEW s \in Session, FlowInv(s), Adds(s) \/ wire'[s] = <<>>,
         joined'[s] <= sent', s \notin registered', phase'[s] \in {"closing", "closed"}
  PROVE  FlowInv(s)' /\ Stream(s)!Next
<1>1. Warned(wire'[s]) = {} \/ HasMax(Warned(wire'[s]))
  <2>1. CASE Adds(s)
    BY <2>1, AddsNothing DEF FlowInv, IInv, TypeOK
  <2>2. CASE wire'[s] = <<>>
    BY <2>2 DEF Warned
  <2> QED BY <2>1, <2>2
<1>2. FlowInv(s)'
  BY <1>1 DEF FlowInv, Early
<1>3. Stream(s)!Closed
  BY DEF Stream!Closed
<1> QED BY <1>2, <1>3 DEF Stream!Next

-----------------------------------------------------------------------------
(* The steps. *)

\* A frame that is not counted is told, or the client is not reached.
LEMMA TellsAdds ==
  ASSUME IInv, NEW s \in Session, NEW code \in Codes, Tells(s, code)
  PROVE  Adds(s) /\ wire' \in [Session -> Seq(OnWire)]
<1>1. Frame(code) \in OnWire /\ ~Counted(Frame(code))
  BY DEF Frame, OnWire, Codes, Counted
<1>2. Adds(s)
  BY <1>1 DEF Tells, Writes, Adds, IInv, TypeOK
<1> QED BY <1>1, <1>2, TellsTyped DEF IInv, TypeOK

\* So are the two frames the server sends of its own.
LEMMA WritesAdds ==
  ASSUME IInv, NEW s \in Session, NEW kind \in {"handshake", "layout"}, Writes(s, Frame(kind))
  PROVE  Adds(s) /\ wire' \in [Session -> Seq(OnWire)]
<1>1. Frame(kind) \in OnWire /\ ~Counted(Frame(kind))
  BY DEF Frame, OnWire, Codes, Counted
<1>2. Adds(s)
  BY <1>1 DEF Writes, Adds, IInv, TypeOK
<1> QED BY <1>1, <1>2, WritesTyped DEF IInv, TypeOK

\* Nothing is owed that was not produced while the session was registered.
LEMMA DueFrom ==
  ASSUME IInv, NEW s \in Session
  PROVE  Due(s) \in SUBSET (1..sent) /\ sent \in Nat
BY GatewayAssumption DEF Due, IInv, TypeOK

\* What is due with a new envelope.
LEMMA DueNext ==
  ASSUME IInv, NEW s \in Session, joined[s] <= sent, sent' = sent + 1,
         joined' = joined, subscribed' = subscribed
  PROVE  Due(s)' = IF Wants(subscribed[s], sent + 1) THEN Due(s) \cup {sent + 1} ELSE Due(s)
<1>1. joined[s] \in Nat /\ sent \in Nat
  BY GatewayAssumption DEF IInv, TypeOK
<1>2. \A n : n \in joined[s] + 1 .. sent + 1 <=> n \in joined[s] + 1 .. sent \/ n = sent + 1
  BY <1>1
<1>3. Wants(subscribed[s], sent + 1) <=>
        (subscribed[s] # {} /\ Targets[sent + 1] # {} =>
           \E a \in subscribed[s] : a \in Targets[sent + 1])
  BY DEF Wants
<1> QED BY <1>2, <1>3 DEF Due

\* The greatest number due, and 0 if none is.
LEMMA NewestIs ==
  ASSUME IInv, NEW s \in Session, HasMax(Due(s) \cup {0})
  PROVE  NewestDue(s) \in Nat /\ NewestDue(s) <= sent
<1>1. PICK m \in Due(s) \cup {0} : \A x \in Due(s) \cup {0} : x <= m
  BY DEF HasMax
<1>2. Due(s) \cup {0} \in SUBSET Nat /\ m <= sent /\ m \in Nat
  BY DueFrom
<1>3. Max(Due(s) \cup {0}) = m
  BY <1>1, <1>2, MaxIs
<1> QED BY <1>2, <1>3 DEF NewestDue

\* An envelope for a session, whether it overflows or not.
LEMMA BroadcastReaches ==
  ASSUME Backlog > 1, IInv, IInv', Broadcast, NEW s \in Session, FlowInv(s), s \in registered,
         Wants(subscribed[s], sent + 1)
  PROVE  FlowInv(s)' /\ Streams(s)
<1> USE GatewayAssumption
<1> DEFINE n == sent + 1
           more == lost[s] + Dropped(queue[s], Backlog)
<1>1. /\ sent' = n /\ n \in 1..MaxEnvelopes /\ sent \in Nat
      /\ queue'[s] = Push(queue[s], Backlog, Warning(more), Env(n)) /\ lost'[s] = more
      /\ joined' = joined /\ subscribed' = subscribed /\ phase' = phase
      /\ registered' = registered /\ sending' = sending /\ wire' = wire
  BY DEF Broadcast, FanOut, IInv, TypeOK
<1>2. /\ queue[s] \in Seq(Outbound) /\ sending[s] \in Seq(Outbound)
      /\ wire[s] \in Seq(OnWire) /\ sending[s] \in Seq(OnWire) /\ lost[s] \in Nat
      /\ lost'[s] \in Nat /\ queue'[s] \in Seq(Outbound)
  <2>1. Outbound \subseteq OnWire
    BY DEF OnWire
  <2> QED BY <2>1 DEF IInv, TypeOK
<1>3. /\ InOrder(wire[s], sending[s], queue[s], lost[s]) /\ HasMax(Due(s) \cup {0})
      /\ Streamed(s) \subseteq Due(s) /\ Due(s) \subseteq 1..sent
  BY DueFrom DEF FlowInv, Flowing
<1>4. \A m \in Streamed(s) : m \in Nat /\ m < n
  BY <1>1, <1>3
<1>5. PushMoves(queue[s], queue'[s], lost[s], lost'[s], n)
  BY <1>1, <1>2, <1>3, <1>4, PushInOrder DEF InOrder, Streamed
<1>6. Due(s)' = Due(s) \cup {n}
  BY <1>1, DueNext DEF FlowInv
<1> HIDE DEF n, more
<1>7. InOrder(wire[s], sending[s], queue'[s], lost'[s])
  <2>1. /\ Before(wire[s], queue'[s]) /\ Before(sending[s], queue'[s])
        /\ Ascends(queue'[s]) /\ Truthful(queue'[s], lost'[s])
    BY <1>2, <1>3, <1>4, <1>5 DEF PushMoves, InOrder, Streamed
  <2>2. Truthful(wire[s], lost'[s]) /\ Truthful(sending[s], lost'[s])
    <3>1. lost'[s] >= lost[s]
      BY <1>5 DEF PushMoves
    <3> QED BY <1>2, <1>3, <3>1, Items DEF InOrder, Truthful
  <2> QED BY <1>3, <2>1, <2>2 DEF InOrder
<1>8. PICK gone \in SUBSET Envelopes(queue[s]) :
        /\ \A m, k \in Envelopes(queue[s]) : k \in gone /\ m < k => m \in gone
        /\ Envelopes(queue'[s]) = (Envelopes(queue[s]) \ gone) \cup {n}
        /\ gone # {} => lost'[s] > lost[s]
  BY <1>5 DEF PushMoves
<1>9. Streamed(s)' = Envelopes(wire[s]) \cup Envelopes(sending[s])
                       \cup ((Envelopes(queue[s]) \ gone) \cup {n})
  BY <1>1, <1>8 DEF Streamed
<1>10. HasMax(Due(s)' \cup {0}) /\ Max(Due(s)' \cup {0}) = n
  <2>1. /\ Due(s)' \cup {0} \in SUBSET Nat /\ n \in Due(s)' \cup {0}
        /\ \A x \in Due(s)' \cup {0} : x <= n
    BY <1>1, <1>3, <1>6 DEF n
  <2> QED BY <2>1, MaxIs DEF HasMax
<1>11. Flowing(s)'
  <2>1. Streamed(s)' \subseteq Due(s)'
    BY <1>3, <1>6, <1>9 DEF Streamed
  <2>2. phase'[s] # "teardown" /\ lost'[s] = 0 => Due(s)' \subseteq Streamed(s)'
    <3> SUFFICES ASSUME phase'[s] # "teardown", lost'[s] = 0 PROVE Due(s)' \subseteq Streamed(s)'
      OBVIOUS
    <3>1. lost[s] = 0 /\ gone = {}
      BY <1>2, <1>5, <1>8 DEF PushMoves
    <3>2. Due(s) \subseteq Streamed(s)
      BY <1>1, <3>1 DEF FlowInv, Flowing
    <3> QED BY <1>6, <1>9, <3>1, <3>2 DEF Streamed
  <2>3. phase'[s] # "teardown" /\ lost'[s] > LastFigure(wire'[s]) =>
          Warning(lost'[s]) \in ToSet(sending'[s]) \cup ToSet(queue'[s])
    <3> SUFFICES ASSUME phase[s] # "teardown", lost'[s] > LastFigure(wire[s])
                 PROVE  Warning(lost'[s]) \in ToSet(sending[s]) \cup ToSet(queue'[s])
      BY <1>1
    <3>1. CASE lost'[s] > lost[s]
      <4>1. \E i \in 1..Len(queue'[s]) : queue'[s][i] = Warning(lost'[s])
        BY <1>5, <3>1 DEF PushMoves
      <4> QED BY <1>2, <4>1 DEF ToSet
    <3>2. CASE lost'[s] = lost[s]
      <4>1. Warning(lost[s]) \in ToSet(sending[s]) \cup ToSet(queue[s])
        BY <3>2 DEF FlowInv, Flowing
      <4>2. \A i \in 1..Len(queue[s]) : \E j \in 1..Len(queue'[s]) : queue'[s][j] = queue[s][i]
        BY <1>5, <3>2 DEF PushMoves
      <4> QED BY <1>2, <3>2, <4>1, <4>2 DEF ToSet
    <3>3. lost'[s] >= lost[s]
      BY <1>5 DEF PushMoves
    <3> QED BY <1>2, <3>1, <3>2, <3>3
  <2> QED BY <1>1, <1>7, <1>10, <2>1, <2>2, <2>3 DEF Flowing
<1>12. FlowInv(s)'
  <2>1. joined'[s] <= sent'
    BY <1>1 DEF FlowInv, n, IInv, TypeOK
  <2>2. phase'[s] \notin Early
    BY <1>1 DEF IInv, SlotsMatchSessions, Early
  <2> QED BY <1>1, <1>11, <2>1, <2>2 DEF FlowInv
<1>13. CASE phase[s] = "teardown"
  <2>1. Stream(s)!Closed
    BY <1>1, <1>13 DEF Stream!Closed
  <2> QED BY <1>12, <2>1 DEF Streams, Stream!Next
<1>14. CASE phase[s] # "teardown"
  <2>1. phase[s] \notin {"teardown", "closing", "closed"}
    BY <1>14 DEF IInv, SlotsMatchSessions
  <2>2. NewestDue(s)' = n /\ NewestDue(s) \in Nat /\ NewestDue(s) <= sent
    BY <1>3, <1>10, NewestIs DEF NewestDue
  <2>3. Heard(s)' = Heard(s) /\ Heard(s) \in Nat
    BY <1>1, <1>2, HeardIs, FigureNat DEF FlowInv
  <2>4. \A m \in Envelopes(sending[s]), k \in Envelopes(queue[s]) : m < k /\ m \in Nat /\ k \in Nat
    <3> SUFFICES ASSUME NEW i \in 1..Len(sending[s]), NEW j \in 1..Len(queue[s]),
                        sending[s][i].kind = "env", queue[s][j].kind = "env"
                 PROVE  /\ sending[s][i].n < queue[s][j].n
                        /\ sending[s][i].n \in Nat /\ queue[s][j].n \in Nat
      <4>1. DOMAIN sending[s] = 1..Len(sending[s]) /\ DOMAIN queue[s] = 1..Len(queue[s])
        BY <1>2
      <4> QED BY <4>1 DEF Envelopes
    <3>1. Before(sending[s], queue[s])
      BY <1>3 DEF InOrder
    <3> QED BY <1>2, <3>1, Items DEF Before, Counted
  <2> DEFINE pending == Envelopes(sending[s]) \cup Envelopes(queue[s])
  <2>5. \A x, y \in gone, z \in pending : x < z /\ z < y => z \in gone
    <3> SUFFICES ASSUME NEW x \in gone, NEW y \in gone, NEW z \in pending, x < z, z < y
                 PROVE  z \in gone
      OBVIOUS
    <3>1. z \in Envelopes(queue[s])
      BY <2>4
    <3> QED BY <1>8, <3>1
  <2>6. Envelopes(sending'[s]) \cup Envelopes(queue'[s]) = (pending \ gone) \cup {n}
    <3>1. \A m \in Envelopes(sending[s]) : m \notin gone
      BY <2>4
    <3> QED BY <1>1, <1>8, <3>1
  <2>7. gone \in SUBSET pending
    OBVIOUS
  <2>8. IF gone = {} THEN lost'[s] - Heard(s)' >= lost[s] - Heard(s)
                     ELSE lost'[s] - Heard(s)' > lost[s] - Heard(s)
    BY <1>2, <1>5, <1>8, <2>3 DEF PushMoves
  <2>9. Stream(s)!Accept(n, gone)
    BY <1>1, <2>1, <2>2, <2>5, <2>6, <2>8 DEF Stream!Accept, n
  <2> QED BY <1>1, <1>12, <2>7, <2>9 DEF Streams, Stream!Next, n
<1> QED BY <1>13, <1>14

\* An envelope is fanned out: the other sessions do not see it.
LEMMA BroadcastStreams ==
  ASSUME Backlog > 1, IInv, IInv', Broadcast, NEW s \in Session, FlowInv(s)
  PROVE  FlowInv(s)' /\ Streams(s)
<1>1. CASE s \in registered /\ Wants(subscribed[s], sent + 1)
  BY <1>1, BroadcastReaches DEF Streams
<1>2. CASE ~(s \in registered /\ Wants(subscribed[s], sent + 1))
  <2>1. /\ queue'[s] = queue[s] /\ lost'[s] = lost[s] /\ sent' = sent + 1
        /\ UNCHANGED <<phase, registered, subscribed, sending, wire, joined>>
    BY <1>2 DEF Broadcast, FanOut
  <2>2. joined'[s] <= sent' /\ wire' \in [Session -> Seq(OnWire)]
    BY <2>1, GatewayAssumption DEF FlowInv, IInv, TypeOK
  <2>3. s \in registered => Due(s)' = Due(s)
    BY <1>2, <2>1, DueNext DEF FlowInv
  <2> QED BY <2>1, <2>2, <2>3, Unseen DEF Adds, Over, Streams
<1> QED BY <1>1, <1>2

\* A connection that is not registered yet.
LEMMA ConnectionStreams ==
  ASSUME IInv, IInv', NEW s \in Session, Connection(s), FlowInv(s)
  PROVE  FlowInv(s)' /\ Streams(s)
<1> USE DEF Goes, others
<1>1. phase \in [Session -> Phases] /\ wire \in [Session -> Seq(OnWire)]
      /\ joined[s] \in Nat /\ sent \in Nat /\ joined \in [Session -> 0..MaxEnvelopes]
  BY GatewayAssumption DEF IInv, TypeOK
<1>2. phase[s] \in Early => s \notin registered
  BY DEF IInv, SlotsMatchSessions, Early
<1>3. CASE Reject(s) \/ RejectFull(s)
  <2>1. /\ Adds(s) /\ joined'[s] <= sent' /\ s \notin registered' /\ phase'[s] = "closed"
    BY <1>1, <1>2, <1>3 DEF Reject, RejectFull, Adds, Early, FlowInv
  <2> QED BY <2>1, Leaves DEF Streams
<1>4. CASE RejectSubscribe(s)
  <2>1. Adds(s)
    BY <1>4, TellsAdds DEF RejectSubscribe, Codes
  <2>2. joined'[s] <= sent' /\ s \notin registered' /\ phase'[s] = "closing"
    BY <1>1, <1>2, <1>4 DEF RejectSubscribe, Early, FlowInv
  <2> QED BY <2>1, <2>2, Leaves DEF Streams
<1>5. ASSUME NEW sub \in Subscriptions, Accept(s, sub) PROVE FlowInv(s)' /\ Streams(s)
  <2>1. Adds(s) /\ wire' \in [Session -> Seq(OnWire)]
    BY <1>5, WritesAdds DEF Accept
  <2>2. /\ joined'[s] <= sent' /\ queue'[s] = queue[s] /\ sending'[s] = sending[s]
        /\ lost'[s] = lost[s] /\ registered' = registered /\ s \notin registered
        /\ phase[s] = "connecting" /\ phase'[s] = "handshake"
    BY <1>1, <1>2, <1>5 DEF Accept, Early, FlowInv
  <2> QED BY <2>1, <2>2, Unseen DEF Streams, Early, Over
<1>6. ASSUME NEW code \in {"handshake_timeout", "invalid_envelope", "schema_mismatch"},
             HandshakeRefused(s, code)
      PROVE  FlowInv(s)' /\ Streams(s)
  <2>1. Adds(s)
    BY <1>6, TellsAdds DEF HandshakeRefused, Codes
  <2>2. joined'[s] <= sent' /\ s \notin registered' /\ phase'[s] = "closing"
    BY <1>1, <1>2, <1>6 DEF HandshakeRefused, Early, FlowInv
  <2> QED BY <2>1, <2>2, Leaves DEF Streams
<1>7. CASE HandshakeOk(s)
  <2>1. /\ joined'[s] <= sent' /\ queue'[s] = queue[s] /\ sending'[s] = sending[s]
        /\ lost'[s] = lost[s] /\ registered' = registered /\ s \notin registered
        /\ phase[s] = "handshake" /\ phase'[s] = "layout" /\ wire' = wire
    BY <1>1, <1>2, <1>7 DEF HandshakeOk, AfterHandshake, Early, FlowInv
  <2> QED BY <1>1, <2>1, Unseen DEF Streams, Early, Over, Adds
<1>8. CASE SendLayout(s)
  <2>1. Adds(s) /\ wire' \in [Session -> Seq(OnWire)]
    BY <1>8, WritesAdds DEF SendLayout
  <2>2. /\ joined'[s] <= sent' /\ queue'[s] = queue[s] /\ sending'[s] = sending[s]
        /\ lost'[s] = lost[s] /\ registered' = registered /\ s \notin registered
        /\ phase[s] = "layout" /\ phase'[s] = "joining"
    BY <1>1, <1>2, <1>8 DEF SendLayout, Early, FlowInv
  <2> QED BY <2>1, <2>2, Unseen DEF Streams, Early, Over
<1>9. CASE Reserve(s)
  <2>1. /\ phase[s] = "joining" /\ phase'[s] = "active" /\ s \in registered'
        /\ s \notin registered
        /\ queue'[s] = <<>> /\ joined'[s] = sent /\ sent' = sent /\ wire' = wire
        /\ lost' = lost /\ sending' = sending /\ subscribed' = subscribed
    BY <1>1, <1>2, <1>9 DEF Reserve, FreshQueue, Early, IInv, TypeOK
  <2>2. /\ queue[s] = <<>> /\ sending[s] = <<>> /\ lost[s] = 0
        /\ \A i \in 1..Len(wire[s]) : ~Counted(wire[s][i])
    BY <2>1 DEF FlowInv, Early
  <2>3. Warned(wire[s]) = {} /\ LastFigure(wire[s]) = 0 /\ Envelopes(wire[s]) = {}
    <3>1. DOMAIN wire[s] = 1..Len(wire[s])
      BY <1>1
    <3> QED BY <2>2, <3>1 DEF Warned, LastFigure, Envelopes, Counted
  <2>4. Due(s)' = {}
    BY <1>1, <2>1 DEF Due
  <2>5. HasMax({0}) /\ Max({0}) = 0 /\ {} \cup {0} = {0}
    BY MaxIs DEF HasMax
  <2>6. InOrder(wire[s], <<>>, <<>>, 0)
    BY <2>2 DEF InOrder, Ascends, Before, Truthful, Counted
  <2>7. Envelopes(<<>>) = {}
    BY DEF Envelopes
  <2>8. Flowing(s)'
    BY <2>1, <2>2, <2>3, <2>4, <2>5, <2>6, <2>7 DEF Flowing, Streamed
  <2>9. FlowInv(s)'
    BY <1>1, <2>1, <2>3, <2>8 DEF FlowInv, Early
  <2>10. NewestDue(s)' = 0
    BY <2>4, <2>5 DEF NewestDue
  <2>11. Heard(s)' = Heard(s)
    BY <2>1 DEF Heard
  <2>12. UNCHANGED Stream(s)!svars
    BY <2>1, <2>2, <2>10, <2>11 DEF Stream!svars
  <2> QED BY <2>9, <2>12 DEF Streams
<1>10. CASE ReserveRaced(s)
  <2>1. Adds(s)
    BY <1>10, TellsAdds DEF ReserveRaced, Codes
  <2>2. joined'[s] <= sent' /\ s \notin registered' /\ phase'[s] = "closed"
    BY <1>1, <1>2, <1>10 DEF ReserveRaced, Early, FlowInv
  <2> QED BY <2>1, <2>2, Leaves DEF Streams
<1>11. CASE EndsEarly(s)
  <2>1. Adds(s)
    BY <1>11, TellsAdds DEF EndsEarly, Codes
  <2>2. joined'[s] <= sent' /\ s \notin registered' /\ phase'[s] = "closing"
    BY <1>1, <1>2, <1>11 DEF EndsEarly, Early, FlowInv
  <2> QED BY <2>1, <2>2, Leaves DEF Streams
<1> QED BY <1>3, <1>4, <1>5, <1>6, <1>7, <1>8, <1>9, <1>10, <1>11 DEF Connection

\* What is being written is one item.
LEMMA SingleItem ==
  ASSUME NEW S, NEW q \in Seq(S), q # <<>>, Len(q) <= 1
  PROVE  q = <<q[1]>> /\ q[1] \in S
<1>1. Len(q) \in Nat /\ (Len(q) = 0 => q = <<>>)
  OBVIOUS
<1>2. Len(q) = 1
  BY <1>1
<1> QED BY <1>2

\* A session in its two loops, or on its way out.
LEMMA ActiveStreams ==
  ASSUME IInv, IInv', NEW s \in Session, Active(s), FlowInv(s)
  PROVE  FlowInv(s)' /\ Streams(s)
<1> USE DEF Goes, others
<1>1. /\ phase \in [Session -> Phases] /\ wire \in [Session -> Seq(OnWire)]
      /\ sending \in [Session -> Seq(Outbound)] /\ queue \in [Session -> Seq(Outbound)]
      /\ Len(sending[s]) <= 1 /\ lost[s] \in Nat
      /\ joined \in [Session -> 0..MaxEnvelopes] /\ sent \in Nat
      /\ wire'[s] \in Seq(OnWire) /\ queue'[s] \in Seq(Outbound)
  BY GatewayAssumption DEF IInv, TypeOK
<1>2. Due(s)' = Due(s) \/ Close(s)
  BY DEF Active, RecvFrame, SendPop, SendDone, IdleTimeout, LoopEnds, Release, Due
<1>3. ASSUME NEW ok \in BOOLEAN, RecvFrame(s, ok) PROVE FlowInv(s)' /\ Streams(s)
  <2>1. Adds(s) /\ wire' \in [Session -> Seq(OnWire)]
    BY <1>1, <1>3, TellsAdds DEF RecvFrame, Adds, Codes
  <2> QED BY <1>2, <1>3, <2>1, Unseen DEF RecvFrame, Streams, Over, FlowInv, Close
<1>4. CASE IdleTimeout(s)
  <2>1. Adds(s) /\ wire' \in [Session -> Seq(OnWire)]
    BY <1>4, TellsAdds DEF IdleTimeout, Codes
  <2>2. /\ phase[s] = "active" /\ phase'[s] = "expiring" /\ joined'[s] <= sent'
        /\ queue' = queue /\ sending' = sending /\ lost' = lost /\ registered' = registered
    BY <1>1, <1>4 DEF IdleTimeout, FlowInv
  <2> QED BY <1>2, <2>1, <2>2, Unseen DEF Streams, Over, Early, Close
<1>5. CASE SendPop(s)
  <2>1. /\ Live(s) /\ sending[s] = <<>> /\ queue[s] # <<>>
        /\ sending'[s] = <<Head(queue[s])>> /\ queue'[s] = Tail(queue[s])
        /\ UNCHANGED <<phase, registered, wire, subscribed, sent, joined, lost>>
    BY <1>1, <1>5 DEF SendPop
  <2>2. s \in registered /\ phase[s] \notin Early
    BY <2>1 DEF Live, IInv, SlotsMatchSessions, Early
  <2>3. /\ InOrder(wire[s], sending'[s], queue'[s], lost[s])
        /\ Envelopes(sending'[s]) \cup Envelopes(queue'[s]) = Envelopes(queue[s])
        /\ ToSet(sending'[s]) \cup ToSet(queue'[s]) = ToSet(queue[s])
    BY <1>1, <2>1, <2>2, PopInOrder DEF FlowInv, Flowing
  <2>4. Envelopes(<<>>) = {} /\ ToSet(<<>>) = {}
    BY DEF Envelopes, ToSet
  <2>5. Streamed(s)' = Streamed(s)
    BY <2>1, <2>3, <2>4 DEF Streamed
  <2>6. Due(s)' = Due(s)
    BY <2>1 DEF Due
  <2>7. FlowInv(s)'
    BY <2>1, <2>2, <2>3, <2>4, <2>5, <2>6 DEF FlowInv, Flowing
  <2>8. Heard(s)' = Heard(s) /\ NewestDue(s)' = NewestDue(s)
    BY <2>1, <2>6 DEF Heard, NewestDue
  <2>9. UNCHANGED Stream(s)!svars
    BY <2>1, <2>3, <2>4, <2>8 DEF Stream!svars
  <2> QED BY <2>7, <2>9 DEF Streams
<1>6. CASE SendDone(s)
  <2> DEFINE x == sending[s][1]
  <2>1. /\ Live(s) /\ sending[s] # <<>> /\ sending'[s] = <<>>
        /\ wire'[s] = Append(wire[s], x)
        /\ UNCHANGED <<phase, registered, queue, subscribed, sent, joined, lost>>
    BY <1>1, <1>6 DEF SendDone, Writes
  <2>2. s \in registered /\ phase[s] \notin Early
        /\ phase[s] \notin {"teardown", "closing", "closed"}
    BY <2>1 DEF Live, IInv, SlotsMatchSessions, Early
  <2>3. sending[s] = <<x>> /\ x \in Outbound /\ x \in OnWire /\ x.n \in Nat
        /\ x.kind \in {"env", "warning"}
    <3>1. sending[s] \in Seq(Outbound)
      BY <1>1
    <3>2. sending[s] = <<x>> /\ x \in Outbound
      BY <1>1, <2>1, <3>1, SingleItem
    <3> QED BY <3>2 DEF Outbound, OnWire
  <2> HIDE DEF x
  <2>4. InOrder(wire[s], <<x>>, queue[s], lost[s]) /\ HasMax(Due(s) \cup {0})
        /\ (Warned(wire[s]) = {} \/ HasMax(Warned(wire[s])))
    BY <2>2, <2>3 DEF FlowInv, Flowing
  <2>5. InOrder(wire'[s], <<>>, queue[s], lost[s])
    BY <1>1, <2>1, <2>3, <2>4, WriteInOrder
  <2>6. /\ Warned(wire'[s]) = {} \/ HasMax(Warned(wire'[s]))
        /\ LastFigure(wire'[s]) = IF x.kind = "warning" THEN x.n ELSE LastFigure(wire[s])
        /\ Envelopes(wire'[s]) = Envelopes(wire[s]) \cup (IF x.kind = "env" THEN {x.n} ELSE {})
    BY <1>1, <2>1, <2>3, <2>4, FigureFollows, EnvelopesGrow
  <2>7. /\ Envelopes(<<>>) = {} /\ ToSet(<<>>) = {} /\ ToSet(<<x>>) = {x}
        /\ Envelopes(<<x>>) = IF x.kind = "env" THEN {x.n} ELSE {}
    BY DEF Envelopes, ToSet
  <2>8. Streamed(s)' = Streamed(s)
    BY <2>1, <2>3, <2>6, <2>7 DEF Streamed
  <2>9. Due(s)' = Due(s) /\ NewestDue(s)' = NewestDue(s)
    BY <2>1 DEF Due, NewestDue
  <2>10. lost[s] > LastFigure(wire[s]) => Warning(lost[s]) \in {x} \cup ToSet(queue[s])
    BY <2>2, <2>3, <2>7 DEF FlowInv, Flowing
  <2>11. ASSUME x.kind = "warning"
         PROVE  1 <= x.n /\ x.n <= lost[s] /\ LastFigure(wire[s]) < x.n
    <3>1. Before(wire[s], <<x>>) /\ Truthful(<<x>>, lost[s])
      BY <2>4 DEF InOrder
    <3>2. 1 \in 1..Len(<<x>>) /\ <<x>>[1] = x
      OBVIOUS
    <3>3. 1 <= x.n /\ x.n <= lost[s]
      BY <2>11, <3>1, <3>2 DEF Truthful
    <3>4. LastFigure(wire[s]) = 0 \/ \E i \in Warned(wire[s]) : LastFigure(wire[s]) = wire[s][i].n
      BY <1>1, <2>3, <2>4, FigureFollows
    <3>5. \A i \in Warned(wire[s]) : wire[s][i].n < x.n
      BY <2>11, <3>1, <3>2 DEF Before, Warned, Counted
    <3> QED BY <2>3, <3>3, <3>4, <3>5
  <2>12. lost'[s] > LastFigure(wire'[s]) => Warning(lost'[s]) \in ToSet(queue[s])
    <3> SUFFICES ASSUME lost[s] > LastFigure(wire'[s]), Warning(lost[s]) \notin ToSet(queue[s])
                 PROVE  FALSE
      BY <2>1
    <3>1. CASE x.kind = "warning"
      <4>1. x = Warning(lost[s])
        <5>1. LastFigure(wire[s]) \in Nat
          BY <1>1, <2>4, FigureNat
        <5>2. lost[s] > LastFigure(wire[s])
          BY <1>1, <2>3, <2>11, <3>1, <5>1
        <5> QED BY <2>10, <5>2
      <4> QED BY <1>1, <2>6, <3>1, <4>1 DEF Warning
    <3>2. CASE x.kind = "env"
      BY <2>6, <2>10, <3>2 DEF Warning
    <3> QED BY <2>3, <3>1, <3>2
  <2>13. FlowInv(s)'
    BY <2>1, <2>2, <2>4, <2>5, <2>6, <2>7, <2>8, <2>9, <2>12 DEF FlowInv, Flowing, Streamed
  <2>14. Heard(s) = LastFigure(wire[s]) /\ Heard(s)' = LastFigure(wire'[s]) /\ Heard(s) \in Nat
    BY <1>1, <2>4, HeardIs, FigureNat
  <2>15. CASE x.kind = "warning"
    <3>1. Envelopes(sending'[s]) \cup Envelopes(queue'[s]) =
            Envelopes(sending[s]) \cup Envelopes(queue[s])
      BY <2>1, <2>3, <2>7, <2>15
    <3>2. 0 <= lost'[s] - Heard(s)' /\ lost'[s] - Heard(s)' < lost[s] - Heard(s)
      BY <1>1, <2>1, <2>3, <2>6, <2>11, <2>14, <2>15
    <3>3. Stream(s)!Warn
      BY <2>1, <2>9, <3>1, <3>2 DEF Stream!Warn
    <3> QED BY <2>13, <3>3 DEF Streams, Stream!Next
  <2>16. CASE x.kind = "env"
    <3> DEFINE pending == Envelopes(sending[s]) \cup Envelopes(queue[s])
    <3>1. \A m \in Envelopes(queue[s]) : m \in Nat /\ x.n < m
      <4>1. Before(<<x>>, queue[s]) /\ 1 \in 1..Len(<<x>>) /\ <<x>>[1] = x
        BY <2>4 DEF InOrder
      <4>2. \A m \in Envelopes(queue[s]) :
              \E i \in 1..Len(queue[s]) : queue[s][i].kind = "env" /\ queue[s][i].n = m
        BY <1>1 DEF Envelopes
      <4>3. queue[s] \in Seq(Outbound)
        BY <1>1
      <4>4. ASSUME NEW i \in 1..Len(queue[s]), queue[s][i].kind = "env"
            PROVE  queue[s][i].n \in Nat /\ x.n < queue[s][i].n
        BY <2>16, <4>1, <4>3, <4>4, Items DEF Before, Counted
      <4> QED BY <4>2, <4>4
    <3>2. pending = {x.n} \cup Envelopes(queue[s])
      BY <2>3, <2>7, <2>16
    <3>3. Envelopes(sending'[s]) \cup Envelopes(queue'[s]) = pending \ {x.n}
      BY <2>1, <2>3, <2>7, <3>1, <3>2
    <3>4. Heard(s)' = Heard(s)
      BY <2>6, <2>14, <2>16
    <3>5. x.n \in pending /\ \A m \in pending : x.n <= m
      BY <2>3, <3>1, <3>2
    <3>6. Stream(s)!Deliver(x.n)
      BY <2>1, <2>9, <3>3, <3>4, <3>5 DEF Stream!Deliver
    <3> QED BY <2>13, <3>5, <3>6 DEF Streams, Stream!Next
  <2> QED BY <2>3, <2>15, <2>16
<1>7. CASE LoopEnds(s)
  <2>1. /\ Live(s) /\ phase'[s] = "teardown" /\ sending'[s] = <<>>
        /\ UNCHANGED <<registered, queue, wire, sent, joined, lost>>
    BY <1>1, <1>7 DEF LoopEnds
  <2>2. s \in registered
    BY <2>1 DEF Live, IInv, SlotsMatchSessions
  <2>3. InOrder(wire[s], <<>>, queue[s], lost[s])
    BY <2>2, CancelInOrder DEF FlowInv, Flowing
  <2>4. Streamed(s)' \subseteq Streamed(s)
    <3>1. Envelopes(<<>>) = {}
      BY DEF Envelopes
    <3> QED BY <2>1, <3>1 DEF Streamed
  <2>5. Due(s)' = Due(s)
    BY <1>2, <1>7, <2>1 DEF Close, LoopEnds, Live
  <2>6. FlowInv(s)'
    BY <2>1, <2>2, <2>3, <2>4, <2>5 DEF FlowInv, Flowing, Early
  <2>7. Stream(s)!Closed
    BY <2>1 DEF Stream!Closed
  <2> QED BY <2>6, <2>7 DEF Streams, Stream!Next
<1>8. CASE Release(s)
  <2>1. Adds(s)
    BY <1>8, TellsAdds DEF Release, Codes
  <2>2. joined'[s] <= sent' /\ s \notin registered' /\ phase'[s] = "closing"
    BY <1>1, <1>8 DEF Release, Without, FlowInv
  <2> QED BY <2>1, <2>2, Leaves DEF Streams
<1>9. CASE Close(s)
  <2>1. /\ wire'[s] = <<>> /\ joined'[s] <= sent' /\ s \notin registered'
        /\ phase'[s] = "closed"
    BY <1>1, <1>9 DEF Close, IInv, SlotsMatchSessions
  <2> QED BY <2>1, Leaves DEF Streams
<1> QED BY <1>3, <1>4, <1>5, <1>6, <1>7, <1>8, <1>9 DEF Active

\* A step of one connection is not seen by the stream of another.
LEMMA OthersUnseen ==
  ASSUME IInv, IInv', NEW t \in Session, SessionStep(t), NEW s \in Session, s # t, FlowInv(s)
  PROVE  FlowInv(s)' /\ Streams(s)
<1>1. /\ phase'[s] = phase[s] /\ queue'[s] = queue[s] /\ sending'[s] = sending[s]
      /\ wire'[s] = wire[s] /\ lost'[s] = lost[s] /\ joined'[s] = joined[s]
      /\ subscribed'[s] = subscribed[s] /\ sent' = sent
      /\ s \in registered' <=> s \in registered
  <2> USE DEF Goes, others, Tells, Writes, IInv, TypeOK
  <2>1. CASE Connection(t)
    BY <2>1 DEF Connection, Reject, RejectFull, RejectSubscribe, Accept, HandshakeRefused,
      HandshakeOk, AfterHandshake, SendLayout, Reserve, FreshQueue, ReserveRaced, EndsEarly
  <2>2. CASE Active(t)
    BY <2>2 DEF Active, RecvFrame, SendPop, SendDone, IdleTimeout, LoopEnds, Release, Without,
      Close
  <2> QED BY <2>1, <2>2 DEF SessionStep
<1>2. Due(s)' = Due(s) /\ Adds(s) /\ joined'[s] <= sent' /\ (Over(s)' <=> Over(s))
  BY <1>1 DEF Due, Adds, Over, FlowInv
<1>3. wire' \in [Session -> Seq(OnWire)]
  BY DEF IInv, TypeOK
<1> QED BY <1>1, <1>2, <1>3, Unseen DEF Streams

\* Before any connection nothing is on its way.
LEMMA InitFlows ==
  ASSUME Init, NEW s \in Session
  PROVE  FlowInv(s) /\ Stream(s)!Init
<1> USE GatewayAssumption DEF Init
<1>1. /\ phase[s] = "connecting" /\ s \notin registered /\ queue[s] = <<>> /\ sending[s] = <<>>
      /\ wire[s] = <<>> /\ lost[s] = 0 /\ joined[s] = 0 /\ sent = 0
  OBVIOUS
<1>2. Warned(<<>>) = {} /\ Envelopes(<<>>) = {} /\ <<>> \in Seq(OnWire)
  BY DEF Warned, Envelopes
<1>3. Heard(s) = 0
  BY <1>1, <1>2, HeardIs DEF LastFigure
<1>4. FlowInv(s)
  BY <1>1, <1>2 DEF FlowInv, Early
<1>5. Stream(s)!Init
  BY <1>1, <1>2, <1>3 DEF Stream!Init
<1> QED BY <1>4, <1>5

AllFlow == \A s \in Session : FlowInv(s)

\* Every step keeps the flow of every session.
LEMMA NextFlows ==
  ASSUME Backlog > 1, IInv, IInv', AllFlow, [Next]_vars
  PROVE  AllFlow' /\ (Next => \A s \in Session : Streams(s))
<1>1. CASE Broadcast
  BY <1>1, BroadcastStreams DEF AllFlow
<1>2. ASSUME NEW t \in Session, SessionStep(t)
      PROVE  \A s \in Session : FlowInv(s)' /\ Streams(s)
  <2>1. FlowInv(t)' /\ Streams(t)
    BY <1>2, ConnectionStreams, ActiveStreams DEF AllFlow, SessionStep
  <2> QED BY <1>2, <2>1, OthersUnseen DEF AllFlow
<1>3. CASE UNCHANGED vars /\ ~Next
  <2> SUFFICES ASSUME NEW s \in Session PROVE FlowInv(s)'
    BY <1>3 DEF AllFlow
  <2>1. Due(s)' = Due(s) /\ Adds(s) /\ (Over(s)' <=> Over(s)) /\ joined'[s] <= sent'
    BY <1>3 DEF vars, Due, Adds, Over, AllFlow, FlowInv
  <2>2. wire' \in [Session -> Seq(OnWire)]
    BY DEF IInv, TypeOK
  <2> QED BY <1>3, <2>1, <2>2, Unseen DEF vars, AllFlow
<1> QED BY <1>1, <1>2, <1>3 DEF Next, AllFlow

\* What a client of the gateway gets is a stream that announces its losses
\* (fan_out, _send_loop).  With room for one the envelope itself is refused;
\* a session's queue has room for 256.
THEOREM SessionsStream == ASSUME Backlog > 1 PROVE Spec => SessionsAreStreams
<1>1. Init => IInv /\ AllFlow /\ \A s \in Session : Stream(s)!Init
  BY InitIInv, InitFlows DEF AllFlow
<1>2. IInv /\ AllFlow /\ [Next]_vars => IInv' /\ AllFlow'
  BY NextIInv, NextFlows
<1>3. IInv /\ AllFlow /\ [Next]_vars
        => [\A s \in Session : Stream(s)!Next \/ UNCHANGED Stream(s)!svars]_vars
  BY NextIInv, NextFlows DEF Streams
<1> QED BY <1>1, <1>2, <1>3, PTL DEF Spec, SessionsAreStreams

-----------------------------------------------------------------------------
(* What is written, being written and queued, as one sequence. *)

\* Where an item of a concatenation comes from.
LEMMA Joined ==
  ASSUME NEW u \in Seq(OnWire), NEW v \in Seq(OnWire)
  PROVE  /\ u \o v \in Seq(OnWire) /\ Len(u \o v) = Len(u) + Len(v)
         /\ \A i \in 1..Len(u \o v) :
              \/ i \in 1..Len(u) /\ (u \o v)[i] = u[i]
              \/ /\ i > Len(u) /\ i - Len(u) \in 1..Len(v)
                 /\ (u \o v)[i] = v[i - Len(u)]
  OBVIOUS

\* Two parts in order, one before the other, are one part in order.
LEMMA JoinedInOrder ==
  ASSUME NEW u \in Seq(OnWire), NEW v \in Seq(OnWire), NEW q \in Seq(OnWire),
         NEW losses \in Nat,
         Ascends(u), Ascends(v), Before(u, v), Before(u, q), Before(v, q),
         Truthful(u, losses), Truthful(v, losses)
  PROVE  Ascends(u \o v) /\ Before(u \o v, q) /\ Truthful(u \o v, losses)
<1> DEFINE f == u \o v
<1>1. /\ Len(f) = Len(u) + Len(v) /\ Len(u) \in Nat /\ Len(v) \in Nat
      /\ \A i \in 1..Len(f) :
           \/ i \in 1..Len(u) /\ f[i] = u[i]
           \/ i > Len(u) /\ i - Len(u) \in 1..Len(v) /\ f[i] = v[i - Len(u)]
  BY Joined
<1> HIDE DEF f
<1>2. Ascends(f)
  <2> SUFFICES ASSUME NEW i \in 1..Len(f), NEW j \in 1..Len(f), i < j,
                      f[i].kind = f[j].kind, Counted(f[i])
               PROVE  f[i].n < f[j].n
    BY DEF Ascends
  <2>1. CASE j \in 1..Len(u) /\ f[j] = u[j]
    <3>1. i \in 1..Len(u) /\ f[i] = u[i]
      BY <1>1, <2>1
    <3> QED BY <2>1, <3>1 DEF Ascends
  <2>2. CASE j > Len(u) /\ j - Len(u) \in 1..Len(v) /\ f[j] = v[j - Len(u)]
    <3>1. CASE i \in 1..Len(u) /\ f[i] = u[i]
      BY <2>2, <3>1 DEF Before
    <3>2. CASE i > Len(u) /\ i - Len(u) \in 1..Len(v) /\ f[i] = v[i - Len(u)]
      <4>1. i - Len(u) < j - Len(u)
        BY <1>1
      <4> QED BY <2>2, <3>2, <4>1 DEF Ascends
    <3> QED BY <1>1, <3>1, <3>2
  <2> QED BY <1>1, <2>1, <2>2
<1>3. Before(f, q)
  BY <1>1 DEF Before
<1>4. Truthful(f, losses)
  BY <1>1 DEF Truthful
<1> QED BY <1>2, <1>3, <1>4 DEF f

\* A session whose parts are in order is sent what is due, and told.
LEMMA FlowIsDue ==
  ASSUME IInv, NEW s \in registered, FlowInv(s)
  PROVE  /\ Streamed(s) \subseteq Due(s)
         /\ phase[s] # "teardown" /\ lost[s] = 0 => Streamed(s) = Due(s)
         /\ LET f == Flow(s) IN
              \A i, j \in DOMAIN f :
                /\ i < j /\ f[i].kind = f[j].kind /\ f[i].kind \in {"env", "warning"}
                     => f[i].n < f[j].n
                /\ f[i].kind = "warning" => f[i].n <= lost[s]
         /\ phase[s] # "teardown" /\ lost[s] > Heard(s) =>
              Warning(lost[s]) \in ToSet(sending[s] \o queue[s])
<1>1. /\ s \in Session /\ wire[s] \in Seq(OnWire) /\ lost[s] \in Nat
      /\ sending[s] \in Seq(Outbound) /\ queue[s] \in Seq(Outbound) /\ Len(sending[s]) <= 1
  BY DEF IInv, TypeOK
<1>2. sending[s] \in Seq(OnWire) /\ queue[s] \in Seq(OnWire)
  BY <1>1 DEF OnWire
<1>3. Flowing(s)
  BY DEF FlowInv
<1>4. ASSUME NEW f, f = Flow(s), NEW i \in DOMAIN f, NEW j \in DOMAIN f
      PROVE  /\ i < j /\ f[i].kind = f[j].kind /\ f[i].kind \in {"env", "warning"}
                  => f[i].n < f[j].n
             /\ f[i].kind = "warning" => f[i].n <= lost[s]
  <2> DEFINE u == wire[s] \o sending[s]
  <2>1. Ascends(sending[s])
    BY <1>1 DEF Ascends
  <2>2. u \in Seq(OnWire) /\ Ascends(u) /\ Before(u, queue[s]) /\ Truthful(u, lost[s])
    BY <1>1, <1>2, <1>3, <2>1, Joined, JoinedInOrder DEF Flowing, InOrder
  <2> HIDE DEF u
  <2>3. Before(u, <<>>) /\ Before(queue[s], <<>>) /\ <<>> \in Seq(OnWire)
    BY DEF Before
  <2>4. /\ u \o queue[s] \in Seq(OnWire)
        /\ Ascends(u \o queue[s]) /\ Truthful(u \o queue[s], lost[s])
    BY <1>1, <1>2, <1>3, <2>2, <2>3, Joined, JoinedInOrder DEF Flowing, InOrder
  <2>5. f \in Seq(OnWire) /\ Ascends(f) /\ Truthful(f, lost[s])
    BY <1>4, <2>4 DEF Flow, u
  <2>6. DOMAIN f = 1..Len(f)
    BY <2>5
  <2> QED BY <1>4, <2>5, <2>6 DEF Ascends, Truthful, Counted
<1>5. ASSUME NEW x \in ToSet(sending[s]) \cup ToSet(queue[s])
      PROVE  x \in ToSet(sending[s] \o queue[s])
  <2> DEFINE b == sending[s]
             q == queue[s]
  <2>1. /\ b \in Seq(Outbound) /\ q \in Seq(Outbound)
    BY <1>1
  <2> HIDE DEF b, q
  <2>2. /\ DOMAIN b = 1..Len(b) /\ DOMAIN q = 1..Len(q)
        /\ DOMAIN (b \o q) = 1..Len(b) + Len(q)
        /\ \A i \in 1..Len(b) : (b \o q)[i] = b[i]
        /\ \A i \in 1..Len(q) : (b \o q)[Len(b) + i] = q[i]
    BY <2>1
  <2>3. CASE x \in ToSet(b)
    <3>1. PICK i \in 1..Len(b) : x = b[i]
      BY <2>2, <2>3 DEF ToSet
    <3>2. i \in DOMAIN (b \o q) /\ x = (b \o q)[i]
      BY <2>1, <2>2, <3>1
    <3> QED BY <3>2 DEF ToSet, b, q
  <2>4. CASE x \in ToSet(q)
    <3>1. PICK i \in 1..Len(q) : x = q[i]
      BY <2>2, <2>4 DEF ToSet
    <3>2. Len(b) + i \in DOMAIN (b \o q) /\ x = (b \o q)[Len(b) + i]
      BY <2>1, <2>2, <3>1
    <3> QED BY <3>2 DEF ToSet, b, q
  <2> QED BY <1>5, <2>3, <2>4 DEF b, q
<1>6. Heard(s) = LastFigure(wire[s])
  BY <1>1, HeardIs
<1>7. phase[s] # "teardown" /\ lost[s] > Heard(s) =>
        Warning(lost[s]) \in ToSet(sending[s] \o queue[s])
  BY <1>3, <1>5, <1>6 DEF Flowing
<1>8. /\ Streamed(s) \subseteq Due(s)
      /\ phase[s] # "teardown" /\ lost[s] = 0 => Streamed(s) = Due(s)
  BY <1>3 DEF Flowing
<1> QED BY <1>4, <1>7, <1>8

\* A client is sent what is due to it, once and in order, nothing else, and
\* is told of every loss (Registry.fan_out, _envelope_target_agents,
\* _send_loop), for every number of clients and every traffic.
THEOREM DueIsSent == ASSUME Backlog > 1 PROVE Spec => []ExactlyWhatIsDue
<1>1. Init => IInv /\ AllFlow
  BY InitIInv, InitFlows DEF AllFlow
<1>2. IInv /\ AllFlow /\ [Next]_vars => IInv' /\ AllFlow'
  BY NextIInv, NextFlows
<1>3. IInv /\ AllFlow => ExactlyWhatIsDue
  <2> SUFFICES ASSUME IInv, AllFlow, NEW s \in registered
               PROVE  /\ Streamed(s) \subseteq Due(s)
                      /\ phase[s] # "teardown" /\ lost[s] = 0 => Streamed(s) = Due(s)
                      /\ LET f == Flow(s) IN
                           \A i, j \in DOMAIN f :
                             /\ i < j /\ f[i].kind = f[j].kind
                                  /\ f[i].kind \in {"env", "warning"} => f[i].n < f[j].n
                             /\ f[i].kind = "warning" => f[i].n <= lost[s]
                      /\ phase[s] # "teardown" /\ lost[s] > Heard(s) =>
                           Warning(lost[s]) \in ToSet(sending[s] \o queue[s])
    BY DEF ExactlyWhatIsDue
  <2>1. FlowInv(s)
    BY DEF AllFlow, IInv, TypeOK
  <2> QED BY <2>1, FlowIsDue
<1> QED BY <1>1, <1>2, <1>3, PTL DEF Spec
=============================================================================
