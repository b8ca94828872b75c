--------------------------- MODULE EnvelopeProofs ---------------------------
(***************************************************************************)
(* Proofs about the outbound queues of the runtime, for any size of the    *)
(* main queue and any number of envelopes and heartbeats, wherever between *)
(* the two getter tasks the producers run: the consumer never goes back to *)
(* an older heartbeat, and what it gets of the main queue is the stream    *)
(* that AnnouncedStream promises.                                          *)
(***************************************************************************)
EXTENDS EnvelopeQueues, TLAPS

\* What the main queue carries, and the heartbeats that are no older than the
\* newest one delivered.
MainItem == [kind : {"env", "warning"}, n : Int]
LaterBeat == [kind : {"beat"}, n : lastBeat..beats]

OneOf(S) == {<<>>} \cup {<<x>> : x \in S}

Older(s, t) == s # <<>> /\ t # <<>> => s[1].n <= t[1].n

\* What the consumer holds, by where it is.
Places ==
  /\ pc \in {"idle", "racing", "settled", "cancelled"}
  /\ getter \in [Lane -> {"none", "parked", "woken", "done"}]
  /\ pc # "racing" => getter = NoGetters /\ held = NothingHeld
  /\ pc = "settled" <=> result # <<>>
  /\ \A q \in Lane : getter[q] = "done" <=> held[q] # <<>>

\* A heartbeat lives in the slot, with its getter or in the result, never in
\* the main queue; the one on its way is no newer than the one in the slot.
\* BeatsNeverGoBack alone is not inductive: a step that puts a heartbeat back
\* would have to look at what was delivered.
BeatInv ==
  /\ beats \in Nat /\ lastBeat \in 0..beats
  /\ puts \in Nat /\ drops \in Int
  /\ main \in Seq(MainItem)
  /\ held \in [Lane -> OneOf(MainItem) \cup OneOf(LaterBeat)]
  /\ held["main"] \in OneOf(MainItem) /\ held["beat"] \in OneOf(LaterBeat)
  /\ slot \in OneOf(LaterBeat)
  /\ result \in OneOf(MainItem) \cup OneOf(LaterBeat)
  /\ Older(held["beat"], slot)
  /\ result \in OneOf(LaterBeat) => Older(result, slot)
  /\ Places

-----------------------------------------------------------------------------
\* A put leaves a sequence of the same items, however it makes room.
LEMMA PushTyped ==
  ASSUME NEW S, NEW q \in Seq(S), NEW cap \in Nat \ {0}, NEW warning \in S, NEW x \in S
  PROVE  Push(q, cap, warning, x) \in Seq(S) /\ Dropped(q, cap) \in Int
<1>1. Room(cap) \in Nat /\ Room(cap) <= cap
  BY DEF Room
<1>2. CASE Overflows(q, cap)
  <2>1. Newest(q, Room(cap)) \in Seq(S)
    BY <1>1, <1>2 DEF Newest, Overflows
  <2> QED BY <1>1, <1>2, <2>1 DEF Push, Offer, Dropped
<1>3. CASE ~Overflows(q, cap)
  BY <1>3 DEF Push, Dropped
<1> QED BY <1>2, <1>3

\* What is in a place for one item.
LEMMA OneOfHolds ==
  ASSUME NEW S, NEW s \in OneOf(S), s # <<>>
  PROVE  /\ s[1] \in S /\ Head(s) = s[1] /\ Tail(s) = <<>>
         /\ <<s[1]>> = s /\ <<Head(s)>> \in OneOf(S)
<1>1. PICK x \in S : s = <<x>> BY DEF OneOf
<1>2. s[1] = x /\ Head(s) = x BY <1>1
<1>3. Tail(s) = <<>> BY <1>1
<1> QED BY <1>1, <1>2, <1>3 DEF OneOf

\* The heartbeats that may still come, while none is made or delivered.
LEMMA SameBeats ==
  UNCHANGED <<lastBeat, beats>> =>
    LaterBeat' = LaterBeat /\ OneOf(LaterBeat)' = OneOf(LaterBeat)
BY DEF LaterBeat, OneOf

\* Before the first beat none has been.
LEMMA InitBeats == Init => BeatInv
BY DEF Init, BeatInv, Places, OneOf, Older, NoGetters, NothingHeld, Lane

\* No step takes a beat back.
LEMMA NextBeats == BeatInv /\ [Next]_vars => BeatInv' /\ lastBeat' >= lastBeat
<1> SUFFICES ASSUME BeatInv, [Next]_vars PROVE BeatInv' /\ lastBeat' >= lastBeat
  OBVIOUS
<1> USE QueueAssumption DEF BeatInv
<1>1. CASE InjectEnvelope
  <2>1. Warning(DropsAfter(main)) \in MainItem /\ Env(puts + 1) \in MainItem
    BY PushTyped DEF MainItem, Warning, Env, DropsAfter, Dropped, Room
  <2>2. main' \in Seq(MainItem) /\ drops' \in Int
    BY <1>1, <2>1, PushTyped DEF InjectEnvelope
  <2>3. Places'
    BY <1>1 DEF InjectEnvelope, Places, Woken, NoGetters, Lane
  <2>4. UNCHANGED <<slot, beats, pc, held, result, consumed>> /\ puts' = puts + 1
    BY <1>1 DEF InjectEnvelope
  <2> QED BY <2>2, <2>3, <2>4, SameBeats DEF consumed, MainItem, OneOf, Older
<1>2. CASE OnHeartbeatTick
  <2>1. LaterBeat \subseteq LaterBeat' /\ Beat(beats + 1) \in LaterBeat'
    BY <1>2 DEF OnHeartbeatTick, consumed, LaterBeat, Beat
  <2>2. OneOf(LaterBeat) \subseteq OneOf(LaterBeat')
    BY <2>1 DEF OneOf
  <2>3. slot' \in OneOf(LaterBeat') /\ Older(held["beat"], slot')
        /\ (result \in OneOf(LaterBeat) => Older(result, slot'))
    BY <1>2, <2>1 DEF OnHeartbeatTick, LatestBeat, OneOf, Older, Beat, LaterBeat
  <2>4. Places'
    BY <1>2 DEF OnHeartbeatTick, Places, Woken, NoGetters, Lane
  <2>5. result' \in OneOf(LaterBeat') => Older(result', slot')
    BY <1>2, <2>3 DEF OnHeartbeatTick, OneOf, MainItem, LaterBeat, Older
  <2> QED BY <1>2, <2>2, <2>3, <2>4, <2>5 DEF OnHeartbeatTick, consumed
<1>3. CASE RecvEnvelope
  <2>1. /\ held'["main"] \in OneOf(MainItem) /\ held'["beat"] \in OneOf(LaterBeat)
        /\ main' \in Seq(MainItem) /\ slot' = <<>> /\ result = <<>>
    <3>1. main # <<>> => Head(main) \in MainItem /\ Tail(main) \in Seq(MainItem)
      OBVIOUS
    <3>2. held'["main"] \in OneOf(MainItem) /\ main' \in Seq(MainItem)
      BY <1>3, <3>1 DEF RecvEnvelope, Queue, Lane, OneOf
    <3>3. held'["beat"] \in OneOf(LaterBeat) /\ slot' = <<>>
      BY <1>3, OneOfHolds DEF RecvEnvelope, Queue, Lane, OneOf
    <3>4. result = <<>>
      BY <1>3 DEF RecvEnvelope, Places
    <3> QED BY <3>2, <3>3, <3>4
  <2>2. held' \in [Lane -> OneOf(MainItem) \cup OneOf(LaterBeat)]
    BY <1>3, <2>1 DEF RecvEnvelope, Lane
  <2>3. Places'
    BY <1>3 DEF RecvEnvelope, Places, Lane
  <2>4. UNCHANGED <<drops, puts, beats, result, consumed>>
    BY <1>3 DEF RecvEnvelope
  <2> QED BY <2>1, <2>2, <2>3, <2>4, SameBeats DEF consumed, Older, OneOf
<1>4. ASSUME NEW q \in Lane, GetterRuns(q) PROVE BeatInv' /\ lastBeat' >= lastBeat
  <2>1. pc = "racing" /\ result = <<>> /\ held[q] = <<>>
    BY <1>4 DEF GetterRuns, Places, NoGetters, Lane
  <2>2. /\ held'["main"] \in OneOf(MainItem) /\ held'["beat"] \in OneOf(LaterBeat)
        /\ held' \in [Lane -> OneOf(MainItem) \cup OneOf(LaterBeat)]
        /\ main' \in Seq(MainItem) /\ slot' \in OneOf(LaterBeat)
    <3>1. CASE Queue(q) = <<>>
      BY <1>4, <3>1 DEF GetterRuns
    <3>2. CASE Queue(q) # <<>> /\ q = "main"
      <4>1. Head(main) \in MainItem /\ Tail(main) \in Seq(MainItem)
        BY <3>2 DEF Queue
      <4> QED BY <1>4, <3>2, <4>1 DEF GetterRuns, Queue, Lane, OneOf
    <3>3. CASE Queue(q) # <<>> /\ q = "beat"
      <4>1. <<Head(slot)>> \in OneOf(LaterBeat) /\ Tail(slot) = <<>>
        BY <3>3, OneOfHolds DEF Queue
      <4> QED BY <1>4, <3>3, <4>1 DEF GetterRuns, Queue, Lane, OneOf
    <3> QED BY <3>1, <3>2, <3>3 DEF Lane
  <2>3. Older(held'["beat"], slot')
    <3>1. CASE Queue(q) = <<>> \/ q = "main"
      BY <1>4, <3>1 DEF GetterRuns, Lane, Older
    <3>2. CASE Queue(q) # <<>> /\ q = "beat"
      <4>1. Tail(slot) = <<>>
        BY <3>2, OneOfHolds DEF Queue
      <4>2. slot' = <<>>
        BY <1>4, <3>2, <4>1 DEF GetterRuns
      <4> QED BY <4>2 DEF Older
    <3> QED BY <3>1, <3>2 DEF Lane
  <2>4. Places'
    <3>1. CASE Queue(q) = <<>>
      BY <1>4, <2>1, <3>1 DEF GetterRuns, Places, Lane
    <3>2. CASE Queue(q) # <<>>
      <4>1. /\ getter' = [getter EXCEPT ![q] = "done"]
            /\ held' = [held EXCEPT ![q] = <<Head(Queue(q))>>]
            /\ pc' = pc /\ result' = result
        BY <1>4, <3>2 DEF GetterRuns
      <4>2. <<Head(Queue(q))>> # <<>>
        OBVIOUS
      <4> QED BY <2>1, <4>1, <4>2 DEF Places
    <3> QED BY <3>1, <3>2
  <2>5. UNCHANGED <<drops, puts, beats, pc, result, consumed>>
    BY <1>4 DEF GetterRuns
  <2> QED BY <2>1, <2>2, <2>3, <2>4, <2>5, SameBeats DEF consumed, Older, OneOf
<1>5. CASE WaitReturns
  <2>1. PICK q \in Lane : Finished(q)
    BY <1>5 DEF WaitReturns
  <2>2. result' = Winner /\ Winner # <<>>
    BY <1>5, <2>1 DEF WaitReturns, Winner, Finished, Places, Lane
  <2>3. slot' \in OneOf(LaterBeat) /\ result' \in OneOf(MainItem) \cup OneOf(LaterBeat)
    BY <1>5 DEF WaitReturns, Winner, Reinjected
  <2>4. result' \in OneOf(LaterBeat) => Older(result', slot')
    BY <1>5 DEF WaitReturns, Winner, Finished, Places, Reinjected, OneOf, MainItem,
      LaterBeat, Older
  <2>5. Places'
    BY <1>5, <2>2 DEF WaitReturns, Places, NoGetters, NothingHeld, Lane
  <2> QED BY <1>5, <2>3, <2>4, <2>5
    DEF WaitReturns, consumed, LaterBeat, Older, OneOf, NothingHeld, Lane
<1>6. CASE Return
  <2>1. result # <<>> /\ held = NothingHeld
    BY <1>6 DEF Return, Places
  <2>2. /\ slot' = slot /\ held' = held /\ main' = main /\ beats' = beats
        /\ puts' = puts /\ drops' = drops /\ result' = <<>>
    BY <1>6 DEF Return, produced
  <2>3. CASE result \in OneOf(MainItem)
    <3>1. lastBeat' = lastBeat
      BY <1>6, <2>1, <2>3 DEF Return, Consumes, OneOf, MainItem
    <3>2. Places'
      BY <1>6 DEF Return, Places
    <3> QED BY <2>1, <2>2, <3>1, <3>2 DEF LaterBeat, Older, OneOf
  <2>4. CASE result \in OneOf(LaterBeat)
    <3>1. PICK x \in LaterBeat : result = <<x>>
      BY <2>1, <2>4 DEF OneOf
    <3>2. lastBeat' = x.n /\ x.n \in lastBeat..beats
      BY <1>6, <3>1 DEF Return, Consumes, LaterBeat
    <3>3. slot' \in OneOf(LaterBeat')
      BY <2>2, <2>4, <3>1, <3>2 DEF OneOf, Older, LaterBeat
    <3>4. held' \in [Lane -> OneOf(MainItem') \cup OneOf(LaterBeat')]
          /\ held'["main"] = <<>> /\ held'["beat"] = <<>>
      BY <2>1, <2>2 DEF NothingHeld, OneOf, Lane
    <3>5. Places'
      BY <1>6 DEF Return, Places
    <3> QED BY <2>2, <3>2, <3>3, <3>4, <3>5 DEF Older, OneOf, MainItem
  <2> QED BY <2>3, <2>4
<1>7. CASE RecvCancelled
  <2>1. Places'
    BY <1>7 DEF RecvCancelled, Places, NoGetters, NothingHeld, Lane
  <2> QED BY <1>7, <2>1
    DEF RecvCancelled, produced, consumed, LaterBeat, OneOf, Older, NothingHeld, Lane
<1>8. CASE UNCHANGED vars
  BY <1>8 DEF vars, LaterBeat, Older, OneOf, Places, MainItem
<1> QED BY <1>1, <1>2, <1>3, <1>4, <1>5, <1>6, <1>7, <1>8 DEF Next

\* No heartbeat is delivered after a newer one, though one that loses the race
\* against the main queue goes back to its slot (_reinject_heartbeat).
THEOREM HeartbeatsInOrder == Spec => BeatsNeverGoBack
<1>1. BeatInv /\ [Next]_vars => [lastBeat' >= lastBeat]_vars
  BY NextBeats
<1> QED BY <1>1, InitBeats, NextBeats, PTL DEF Spec, BeatsNeverGoBack
-----------------------------------------------------------------------------
(* The queue, the getter and the coroutine implement the ordered stream.   *)

\* An envelope up to the last one injected, or a warning that tells of more
\* losses than the consumer knows of, and only of losses that happened.
Current(x, told, lost, sent) ==
  IF x.kind = "env" THEN x.n <= sent ELSE told < x.n /\ x.n <= lost

\* A queue of such items in which, of two of one kind, the newer is behind.
InOrder(q, told, lost, sent) ==
  /\ \A i \in 1..Len(q) : Current(q[i], told, lost, sent)
  /\ \A i, j \in 1..Len(q) : i < j /\ q[i].kind = q[j].kind => q[i].n < q[j].n

\* x is older than what is left in the queue.
Precedes(x, q) == \A i \in 1..Len(q) : q[i].kind = x.kind => x.n < q[i].n

\* What is taken out of the main queue is current, and older than its rest.
Ahead(s) ==
  s # <<>> /\ s[1].kind # "beat" =>
    Current(s[1], heard, drops, puts) /\ Precedes(s[1], main)

\* A delivery takes the oldest envelope because the order of the queue is
\* kept over the getter and the result; a warning never repeats an old figure
\* because those in the queue ascend as well.
StreamInv ==
  /\ heard \in Int /\ heard <= drops
  /\ InOrder(main, heard, drops, puts)
  /\ Ahead(held["main"]) /\ Ahead(result)

\* On an overflow a put keeps a run of the newest items, at least two fewer
\* than there is room for, and appends the warning and the item.
LEMMA PushKeepsNewest ==
  ASSUME NEW S, NEW q \in Seq(S), NEW cap \in Nat, cap > 1, NEW warning \in S, NEW x \in S,
         Overflows(q, cap)
  PROVE  /\ Dropped(q, cap) \in 1..Len(q)
         /\ Push(q, cap, warning, x) \in Seq(S)
         /\ Len(Push(q, cap, warning, x)) = Len(q) - Dropped(q, cap) + 2
         /\ \A i \in 1..(Len(q) - Dropped(q, cap)) :
              Push(q, cap, warning, x)[i] = q[i + Dropped(q, cap)]
         /\ Push(q, cap, warning, x)[Len(q) - Dropped(q, cap) + 1] = warning
         /\ Push(q, cap, warning, x)[Len(q) - Dropped(q, cap) + 2] = x
<1> DEFINE d == Dropped(q, cap)
           kept == Newest(q, Room(cap))
<1>1. /\ Room(cap) \in Nat /\ Room(cap) <= cap - 2
      /\ d = Len(q) - Room(cap) /\ d \in 1..Len(q)
  BY DEF Room, Dropped, Overflows
<1>2. /\ kept \in Seq(S) /\ Len(kept) = Len(q) - d
      /\ \A i \in 1..(Len(q) - d) : kept[i] = q[i + d]
  BY <1>1 DEF Newest
<1> HIDE DEF d, kept
<1>3. Len(kept) <= cap - 2
  BY <1>1, <1>2
<1>4. Push(q, cap, warning, x) = Append(Append(kept, warning), x)
  BY <1>2, <1>3 DEF Push, Offer, kept
<1> QED BY <1>1, <1>2, <1>4 DEF d

\* The items of a queue.
LEMMA Items ==
  ASSUME NEW q \in Seq(MainItem)
  PROVE  \A i \in 1..Len(q) : q[i].n \in Int /\ q[i].kind \in {"env", "warning"}
<1>1. \A x \in MainItem : x.n \in Int /\ x.kind \in {"env", "warning"}
  BY DEF MainItem
<1>2. \A i \in 1..Len(q) : q[i] \in MainItem
  OBVIOUS
<1> QED BY <1>1, <1>2

\* What a put does to a queue in order: it loses a run of the oldest envelopes,
\* counts what it loses, and nothing that was ahead of the queue is overtaken.
PushedInOrder(q, cap, told, lost, sent) ==
  LET l == lost + Dropped(q, cap)
      r == Push(q, cap, Warning(l), Env(sent + 1))
  IN  /\ r \in Seq(MainItem) /\ InOrder(r, told, l, sent + 1)
      /\ \A x \in MainItem : Current(x, told, lost, sent) /\ Precedes(x, q) =>
           Current(x, told, l, sent + 1) /\ Precedes(x, r)
      /\ \E gone \in SUBSET Envelopes(q) :
           /\ \A x, y \in Envelopes(q) : y \in gone /\ x < y => x \in gone
           /\ Envelopes(r) = (Envelopes(q) \ gone) \cup {sent + 1}
           /\ IF gone = {} THEN l >= lost ELSE l > lost

\* A put keeps a queue in order, whether it overflows or not.
LEMMA PushInOrder ==
  ASSUME NEW q \in Seq(MainItem), NEW cap \in Nat, cap > 1,
         NEW told \in Int, NEW lost \in Int, NEW sent \in Nat, told <= lost,
         InOrder(q, told, lost, sent)
  PROVE  PushedInOrder(q, cap, told, lost, sent)
<1> DEFINE d == Dropped(q, cap)
           l == lost + d
           w == Warning(l)
           e == Env(sent + 1)
           r == Push(q, cap, w, e)
<1>1. ASSUME Overflows(q, cap) PROVE PushedInOrder(q, cap, told, lost, sent)
  <2>1. d \in Int /\ l \in Int /\ w \in MainItem /\ e \in MainItem
    BY <1>1 DEF Warning, Env, MainItem, Dropped, Room
  <2> DEFINE k == Len(q) - d
  <2>4. w.kind = "warning" /\ w.n = l /\ e.kind = "env" /\ e.n = sent + 1
    BY DEF Warning, Env
  <2> HIDE DEF w, e
  <2>2. /\ d \in 1..Len(q) /\ r \in Seq(MainItem) /\ Len(r) = k + 2
        /\ \A i \in 1..k : r[i] = q[i + d]
        /\ r[k + 1] = w /\ r[k + 2] = e
    <3>1. Overflows(q, cap) /\ w \in MainItem /\ e \in MainItem
      BY <1>1, <2>1
    <3> HIDE DEF d, r
    <3> QED BY <3>1, PushKeepsNewest DEF d, r
  <2>3. l > lost /\ k \in Nat /\ k + d = Len(q) /\ d \in Nat \ {0}
    BY <2>2
  <2> HIDE DEF d, l, r, k
  <2>5. \A i \in 1..Len(q) : q[i].n \in Int /\ q[i].kind \in {"env", "warning"}
    BY Items
  <2>6. \A i \in 1..(k + 2) :
          \/ i \in 1..k /\ i + d \in 1..Len(q)
          \/ i = k + 1
          \/ i = k + 2
    BY <2>3
  <2>7. \A i \in 1..Len(r) : Current(r[i], told, l, sent + 1)
    BY <2>1, <2>2, <2>3, <2>4, <2>5, <2>6 DEF InOrder, Current
  <2>8. \A i, j \in 1..Len(r) : i < j /\ r[i].kind = r[j].kind => r[i].n < r[j].n
    <3> SUFFICES ASSUME NEW i \in 1..Len(r), NEW j \in 1..Len(r), i < j, r[i].kind = r[j].kind
                 PROVE  r[i].n < r[j].n
      OBVIOUS
    <3>1. i \in 1..k \/ i = k + 1
      BY <2>2, <2>3
    <3>2. CASE j \in 1..k
      <4>1. i + d \in 1..Len(q) /\ j + d \in 1..Len(q) /\ i + d < j + d
            /\ r[i] = q[i + d] /\ r[j] = q[j + d]
        BY <2>2, <2>3, <3>2
      <4> QED BY <4>1 DEF InOrder
    <3>3. CASE j \notin 1..k /\ i \in 1..k
      <4>1. i + d \in 1..Len(q) /\ r[i] = q[i + d] /\ j \in {k + 1, k + 2}
        <5>1. i + d \in 1..Len(q) /\ r[i] = q[i + d]
          BY <2>2, <2>3, <3>3
        <5>2. j \in 1..(k + 2)
          BY <2>2
        <5> QED BY <2>6, <3>3, <5>1, <5>2
      <4>2. Current(r[i], told, lost, sent) /\ r[i].n \in Int
        BY <2>5, <4>1 DEF InOrder
      <4>3. CASE j = k + 1
        <5>1. r[j].kind = "warning" /\ r[j].n = l /\ r[i].kind = "warning"
          BY <2>2, <2>4, <4>3
        <5> QED BY <2>1, <2>3, <4>2, <5>1 DEF Current
      <4>4. CASE j = k + 2
        <5>1. r[j].kind = "env" /\ r[j].n = sent + 1 /\ r[i].kind = "env"
          BY <2>2, <2>4, <4>4
        <5> QED BY <4>2, <5>1 DEF Current
      <4> QED BY <4>1, <4>3, <4>4
    <3>4. CASE j \notin 1..k /\ i = k + 1
      BY <2>2, <2>3, <2>4, <3>4
    <3> QED BY <3>1, <3>2, <3>3, <3>4
  <2>9. ASSUME NEW x \in MainItem, Current(x, told, lost, sent), Precedes(x, q)
        PROVE  Current(x, told, l, sent + 1) /\ Precedes(x, r)
    <3>1. x.n \in Int /\ x.kind \in {"env", "warning"}
      BY DEF MainItem
    <3>2. Current(x, told, l, sent + 1)
      BY <2>1, <2>3, <2>9, <3>1 DEF Current
    <3>3. ASSUME NEW i \in 1..Len(r), r[i].kind = x.kind PROVE x.n < r[i].n
      <4>1. CASE i \in 1..k /\ i + d \in 1..Len(q)
        BY <2>2, <2>9, <3>3, <4>1 DEF Precedes
      <4>2. CASE i = k + 1 \/ i = k + 2
        BY <2>1, <2>2, <2>3, <2>4, <2>9, <3>1, <3>3, <4>2 DEF Current
      <4> QED BY <2>2, <2>6, <4>1, <4>2
    <3> QED BY <3>2, <3>3 DEF Precedes
  <2> DEFINE gone == {q[i].n : i \in {j \in 1..d : q[j].kind = "env"}}
  <2>10. gone \subseteq Envelopes(q)
    BY <2>2 DEF Envelopes
  <2>11. \A x, y \in Envelopes(q) : y \in gone /\ x < y => x \in gone
    <3> SUFFICES ASSUME NEW i \in 1..Len(q), NEW j \in 1..d, q[i].kind = "env", q[j].kind = "env",
                        q[i].n < q[j].n
                 PROVE  i \in 1..d
      BY DEF Envelopes
    <3>1. j \in 1..Len(q) /\ q[i].n \in Int /\ q[j].n \in Int
      BY <2>3, <2>5
    <3>2. ~(j < i) /\ i # j
      BY <3>1 DEF InOrder
    <3> QED BY <2>3, <3>2
  <2>12. Envelopes(r) = (Envelopes(q) \ gone) \cup {sent + 1}
    <3>1. ASSUME NEW n \in Envelopes(r) PROVE n \in (Envelopes(q) \ gone) \cup {sent + 1}
      <4>1. PICK i \in 1..Len(r) : r[i].kind = "env" /\ r[i].n = n
        BY <2>2 DEF Envelopes
      <4>2. CASE i \in 1..k
        <5>1. i + d \in 1..Len(q) /\ q[i + d].n = n /\ q[i + d].kind = "env"
          <6>1. i + d \in 1..Len(q) /\ r[i] = q[i + d]
            BY <2>2, <2>3, <4>2
          <6> QED BY <4>1, <6>1
        <5>2. \A j \in 1..d : q[j].kind = "env" => q[j].n < n
          <6> SUFFICES ASSUME NEW j \in 1..d, q[j].kind = "env" PROVE q[j].n < n
            OBVIOUS
          <6>1. j \in 1..Len(q) /\ j < i + d
            BY <2>3, <4>2
          <6> QED BY <5>1, <6>1 DEF InOrder
        <5>3. n \notin gone
          <6>1. n \in Int
            BY <2>5, <5>1
          <6> QED BY <5>2, <6>1
        <5> QED BY <5>1, <5>3 DEF Envelopes
      <4> QED BY <2>2, <2>4, <2>6, <4>1, <4>2
    <3>2. ASSUME NEW n \in Envelopes(q), n \notin gone PROVE n \in Envelopes(r)
      <4>1. PICK i \in 1..Len(q) : q[i].kind = "env" /\ q[i].n = n
        BY DEF Envelopes
      <4>2. i \notin 1..d
        BY <3>2, <4>1
      <4>3. i - d \in 1..k /\ r[i - d] = q[i]
        <5>1. i - d \in 1..k /\ (i - d) + d = i
          BY <2>3, <4>2
        <5> QED BY <2>2, <5>1
      <4> QED BY <2>2, <2>3, <4>1, <4>3 DEF Envelopes
    <3>3. sent + 1 \in Envelopes(r)
      BY <2>2, <2>3, <2>4 DEF Envelopes
    <3> QED BY <3>1, <3>2, <3>3
  <2> HIDE DEF gone
  <2>13. IF gone = {} THEN l >= lost ELSE l > lost
    BY <2>1, <2>3
  <2>14. InOrder(r, told, l, sent + 1)
    BY <2>7, <2>8 DEF InOrder
  <2> QED BY <2>2, <2>9, <2>10, <2>11, <2>12, <2>13, <2>14 DEF PushedInOrder, d, l, w, e, r
<1>2. ASSUME ~Overflows(q, cap) PROVE PushedInOrder(q, cap, told, lost, sent)
  <2>1. d = 0 /\ l = lost /\ e \in MainItem /\ r = Append(q, e)
    BY <1>2 DEF Dropped, Env, MainItem, Push
  <2>2. e.kind = "env" /\ e.n = sent + 1
    BY DEF Env
  <2> HIDE DEF d, l, e, w, r
  <2>3. /\ r \in Seq(MainItem) /\ Len(r) = Len(q) + 1
        /\ \A i \in 1..Len(q) : r[i] = q[i]
        /\ r[Len(q) + 1] = e
    BY <2>1
  <2>4. \A i \in 1..Len(q) : q[i].n \in Int /\ q[i].kind \in {"env", "warning"}
    BY Items
  <2>5. \A i \in 1..Len(r) : i \in 1..Len(q) \/ i = Len(q) + 1
    BY <2>3
  <2>6. InOrder(r, told, l, sent + 1)
    BY <2>1, <2>2, <2>3, <2>4, <2>5 DEF InOrder, Current
  <2>7. ASSUME NEW x \in MainItem, Current(x, told, lost, sent), Precedes(x, q)
        PROVE  Current(x, told, l, sent + 1) /\ Precedes(x, r)
    <3>1. x.n \in Int /\ x.kind \in {"env", "warning"}
      BY DEF MainItem
    <3> QED BY <2>1, <2>2, <2>3, <2>4, <2>5, <2>7, <3>1 DEF Current, Precedes
  <2>8. Envelopes(r) = Envelopes(q) \cup {sent + 1}
    BY <2>2, <2>3, <2>5 DEF Envelopes
  <2>9. Envelopes(r) = (Envelopes(q) \ {}) \cup {sent + 1} /\ l >= lost
    BY <2>1, <2>8
  <2> QED BY <2>3, <2>6, <2>7, <2>9 DEF PushedInOrder, d, l, w, e, r
<1> QED BY <1>1, <1>2

\* A place for one item holds the envelope it holds.
LEMMA OneEnvelope ==
  ASSUME NEW S, NEW s \in OneOf(S)
  PROVE  Envelopes(s) = IF s # <<>> /\ s[1].kind = "env" THEN {s[1].n} ELSE {}
<1>1. s = <<>> \/ \E x \in S : s = <<x>>
  BY DEF OneOf
<1> QED BY <1>1 DEF Envelopes

\* Taking the head of the main queue: it is current, precedes the rest, and
\* the rest stays in order.
LEMMA HeadPrecedes ==
  ASSUME NEW q \in Seq(MainItem), q # <<>>, NEW told, NEW lost, NEW sent,
         InOrder(q, told, lost, sent)
  PROVE  /\ Head(q) \in MainItem /\ Tail(q) \in Seq(MainItem)
         /\ Current(Head(q), told, lost, sent) /\ Precedes(Head(q), Tail(q))
         /\ InOrder(Tail(q), told, lost, sent)
         /\ Envelopes(q) = Envelopes(<<Head(q)>>) \cup Envelopes(Tail(q))
<1>1. /\ Head(q) = q[1] /\ Head(q) \in MainItem
      /\ Tail(q) \in Seq(MainItem) /\ Len(Tail(q)) + 1 = Len(q) /\ Len(q) >= 1
      /\ \A i \in 1..Len(Tail(q)) : Tail(q)[i] = q[i + 1] /\ i + 1 \in 1..Len(q)
  OBVIOUS
<1>2. Current(Head(q), told, lost, sent) /\ Precedes(Head(q), Tail(q))
  BY <1>1 DEF InOrder, Precedes
<1>3. InOrder(Tail(q), told, lost, sent)
  BY <1>1 DEF InOrder
<1>4. ASSUME NEW n
      PROVE  n \in Envelopes(q) <=> n \in Envelopes(<<Head(q)>>) \/ n \in Envelopes(Tail(q))
  <2>1. n \in Envelopes(<<Head(q)>>) <=> Head(q).kind = "env" /\ Head(q).n = n
    BY DEF Envelopes
  <2>2. ASSUME NEW i \in 1..Len(q), i # 1
        PROVE  i - 1 \in 1..Len(Tail(q)) /\ Tail(q)[i - 1] = q[i]
    <3>1. i - 1 \in 1..Len(Tail(q)) /\ (i - 1) + 1 = i
      BY <1>1, <2>2
    <3> QED BY <1>1, <3>1
  <2>3. n \in Envelopes(q) <=> \E i \in 1..Len(q) : q[i].kind = "env" /\ q[i].n = n
    BY DEF Envelopes
  <2>4. n \in Envelopes(Tail(q)) <=>
          \E i \in 1..Len(Tail(q)) : Tail(q)[i].kind = "env" /\ Tail(q)[i].n = n
    <3>1. DOMAIN Tail(q) = 1..Len(Tail(q))
      BY <1>1
    <3> QED BY <3>1 DEF Envelopes
  <2>5. 1 \in 1..Len(q) /\ q[1] = Head(q)
    BY <1>1
  <2>6. n \in Envelopes(q) => n \in Envelopes(<<Head(q)>>) \/ n \in Envelopes(Tail(q))
    BY <2>1, <2>2, <2>3, <2>4, <2>5
  <2>7. n \in Envelopes(<<Head(q)>>) => n \in Envelopes(q)
    BY <2>1, <2>3, <2>5
  <2>8. n \in Envelopes(Tail(q)) => n \in Envelopes(q)
    BY <1>1, <2>3, <2>4
  <2> QED BY <2>6, <2>7, <2>8
<1> QED BY <1>1, <1>2, <1>3, <1>4

\* Nothing is on its way at first.
LEMMA InitStream == Init => StreamInv /\ Stream!Init
BY DEF Init, StreamInv, InOrder, Ahead, NothingHeld, Lane, OnTheWay, Envelopes, Stream!Init

\* Accepting an envelope loses a run of the oldest ones in the queue, and the
\* drop count tells of it.
LEMMA InjectAccepts ==
  ASSUME MainCap > 1, BeatInv, StreamInv, InjectEnvelope
  PROVE  StreamInv' /\ Stream!Next
<1> USE QueueAssumption DEF BeatInv, StreamInv
<1>1. /\ puts' = puts + 1 /\ puts < MaxPuts
      /\ drops' = drops + Dropped(main, MainCap)
      /\ main' = Push(main, MainCap, Warning(drops'), Env(puts + 1))
      /\ UNCHANGED <<held, result, heard, pc>>
  BY DEF InjectEnvelope, DropsAfter, consumed
<1>2. PushedInOrder(main, MainCap, heard, drops, puts)
  BY PushInOrder
<1>3. /\ InOrder(main', heard, drops', puts')
      /\ \A x \in MainItem : Current(x, heard, drops, puts) /\ Precedes(x, main) =>
           Current(x, heard, drops', puts') /\ Precedes(x, main')
  BY <1>1, <1>2 DEF PushedInOrder
<1>4. PICK gone \in SUBSET Envelopes(main) :
        /\ \A x, y \in Envelopes(main) : y \in gone /\ x < y => x \in gone
        /\ Envelopes(main') = (Envelopes(main) \ gone) \cup {puts + 1}
        /\ IF gone = {} THEN drops' >= drops ELSE drops' > drops
  BY <1>1, <1>2 DEF PushedInOrder
<1>5. ASSUME NEW s \in OneOf(MainItem) \cup OneOf(LaterBeat), Ahead(s)
      PROVE  /\ s # <<>> /\ s[1].kind # "beat" =>
                  Current(s[1], heard, drops', puts') /\ Precedes(s[1], main')
             /\ \A x \in Envelopes(s), y \in Envelopes(main) : x < y
             /\ \A x \in Envelopes(s) : x \in Int /\ x <= puts
  <2>1. CASE s \in OneOf(LaterBeat) \/ s = <<>>
    <3>1. s # <<>> => s[1].kind = "beat"
      <4>1. \A x \in LaterBeat : x.kind = "beat"
        BY DEF LaterBeat
      <4> QED BY <2>1, <4>1, OneOfHolds
    <3> QED BY <2>1, <3>1, OneEnvelope DEF OneOf
  <2>2. CASE s \in OneOf(MainItem) /\ s # <<>>
    <3>1. s[1] \in MainItem /\ s[1].kind # "beat" /\ s[1].kind \in {"env", "warning"}
      <4>1. \A x \in MainItem : x.kind # "beat" /\ x.kind \in {"env", "warning"}
        BY DEF MainItem
      <4> QED BY <2>2, <4>1, OneOfHolds
    <3>2. Current(s[1], heard, drops, puts) /\ Precedes(s[1], main)
      BY <1>5, <2>2, <3>1 DEF Ahead
    <3>3. Envelopes(s) = IF s[1].kind = "env" THEN {s[1].n} ELSE {}
      BY <2>2, OneEnvelope
    <3>4. Current(s[1], heard, drops', puts') /\ Precedes(s[1], main')
      BY <1>3, <3>1, <3>2
    <3>5. ASSUME s[1].kind = "env"
          PROVE  s[1].n \in Int /\ s[1].n <= puts /\ \A y \in Envelopes(main) : s[1].n < y
      BY <3>1, <3>2, <3>5 DEF Envelopes, Precedes, Current, MainItem
    <3> QED BY <3>3, <3>4, <3>5
  <2> QED BY <2>1, <2>2
<1>6. heard <= drops'
  <2>1. Dropped(main, MainCap) \in Int
    BY DEF Dropped, Room
  <2> QED BY <1>1, <1>4, <2>1
<1>7. StreamInv'
  BY <1>1, <1>3, <1>5, <1>6 DEF Ahead
<1>8. CASE pc = "cancelled"
  <2>1. Stream!Closed
    BY <1>1, <1>8 DEF Stream!Closed
  <2> QED BY <1>7, <2>1 DEF Stream!Next
<1>9. CASE pc # "cancelled"
  <2>1. /\ \A x \in Envelopes(result) \cup Envelopes(held["main"]), y \in Envelopes(main) : x < y
        /\ \A x \in Envelopes(result) \cup Envelopes(held["main"]) : x \in Int /\ x <= puts
    BY <1>5
  <2>2. \A x \in Envelopes(main) : x \in Int /\ x <= puts
    BY Items DEF Envelopes, InOrder, Current
  <2>3. gone \in SUBSET OnTheWay
    BY DEF OnTheWay
  <2>4. \A x, y \in gone, z \in OnTheWay : x < z /\ z < y => z \in gone
    <3> SUFFICES ASSUME NEW x \in gone, NEW y \in gone, NEW z \in OnTheWay, x < z, z < y
                 PROVE  z \in Envelopes(main)
      BY <1>4
    <3>1. x \in Int /\ (z \notin Envelopes(main) => z \in Int /\ z < x)
      BY <2>1, <2>2 DEF OnTheWay
    <3> QED BY <3>1
  <2>5. OnTheWay' = (OnTheWay \ gone) \cup {puts + 1}
    <3>1. \A x \in Envelopes(result) \cup Envelopes(held["main"]) : x \notin gone
      BY <2>1, <2>2
    <3> QED BY <1>1, <1>4, <3>1 DEF OnTheWay
  <2>6. Stream!Accept(puts + 1, gone)
    BY <1>1, <1>4, <1>9, <2>3, <2>4, <2>5 DEF Stream!Accept
  <2>7. puts + 1 \in 1..MaxPuts
    BY <1>1
  <2> QED BY <1>7, <2>3, <2>6, <2>7 DEF Stream!Next
<1> QED BY <1>7, <1>8, <1>9

\* A step that changes neither what is on its way nor the figures is one the
\* stream does not see.
LEMMA Unseen ==
  ASSUME OnTheWay' = OnTheWay, UNCHANGED <<puts, drops, heard>>,
         pc # "cancelled", pc' # "cancelled"
  PROVE  UNCHANGED Stream!svars
BY DEF Stream!svars

\* An item taken out of the main queue stays on its way, ahead of the rest.
LEMMA PopKeepsStream ==
  ASSUME BeatInv, StreamInv, main # <<>>, result = <<>>,
         held["main"] = <<>>, held'["main"] = <<Head(main)>>, main' = Tail(main),
         UNCHANGED <<puts, drops, heard, result>>
  PROVE  StreamInv' /\ OnTheWay' = OnTheWay
<1> USE DEF BeatInv, StreamInv
<1>1. /\ Current(Head(main), heard, drops, puts) /\ Precedes(Head(main), main')
      /\ InOrder(main', heard, drops, puts)
      /\ Envelopes(main) = Envelopes(<<Head(main)>>) \cup Envelopes(main')
  BY HeadPrecedes
<1>2. Envelopes(<<>>) = {}
  BY DEF Envelopes
<1>3. <<Head(main)>>[1] = Head(main)
  OBVIOUS
<1>4. Ahead(held["main"])' /\ Ahead(result)'
  BY <1>1, <1>3 DEF Ahead
<1> QED BY <1>1, <1>2, <1>4 DEF OnTheWay

\* Nothing changes of the main lane.
LEMMA OtherLane ==
  ASSUME StreamInv, held'["main"] = held["main"], UNCHANGED <<main, puts, drops, heard, result>>
  PROVE  StreamInv' /\ OnTheWay' = OnTheWay
BY DEF StreamInv, Ahead, OnTheWay

\* Every step of the queues is a step of the stream or is not seen by it.
LEMMA NextStream ==
  ASSUME MainCap > 1, BeatInv, StreamInv, [Next]_vars
  PROVE  StreamInv' /\ [Stream!Next]_(Stream!svars)
<1> USE QueueAssumption DEF BeatInv
<1>1. CASE InjectEnvelope
  BY <1>1, InjectAccepts
<1>2. CASE OnHeartbeatTick
  <2>1. StreamInv' /\ OnTheWay' = OnTheWay
    BY <1>2, OtherLane DEF OnHeartbeatTick, consumed
  <2> QED BY <1>2, <2>1 DEF OnHeartbeatTick, consumed, Stream!svars
<1>3. CASE RecvEnvelope
  <2>1. held = NothingHeld /\ result = <<>> /\ "main" \in Lane /\ held["main"] = <<>>
    BY <1>3 DEF RecvEnvelope, Places, NothingHeld, Lane
  <2>2. StreamInv' /\ OnTheWay' = OnTheWay
    <3>1. CASE main = <<>>
      <4>1. main' = main /\ held'["main"] = <<>> /\ UNCHANGED <<puts, drops, heard, result>>
        BY <1>3, <2>1, <3>1 DEF RecvEnvelope, consumed, Queue
      <4> QED BY <2>1, <4>1, OtherLane
    <3>2. CASE main # <<>>
      <4>1. /\ main' = Tail(main) /\ held'["main"] = <<Head(main)>>
            /\ UNCHANGED <<puts, drops, heard, result>>
        BY <1>3, <2>1, <3>2 DEF RecvEnvelope, consumed, Queue
      <4> QED BY <2>1, <3>2, <4>1, PopKeepsStream
    <3> QED BY <3>1, <3>2
  <2> QED BY <1>3, <2>2, Unseen DEF RecvEnvelope, consumed
<1>4. ASSUME NEW q \in Lane, GetterRuns(q)
      PROVE  StreamInv' /\ [Stream!Next]_(Stream!svars)
  <2>1. pc = "racing" /\ result = <<>> /\ held[q] = <<>>
    BY <1>4 DEF GetterRuns, Places, NoGetters, Lane
  <2>2. StreamInv' /\ OnTheWay' = OnTheWay
    <3>1. CASE Queue(q) = <<>> \/ q = "beat"
      <4>1. /\ main' = main /\ held'["main"] = held["main"]
            /\ UNCHANGED <<puts, drops, heard, result>>
        BY <1>4, <3>1 DEF GetterRuns, consumed, Lane
      <4> QED BY <4>1, OtherLane
    <3>2. CASE Queue(q) # <<>> /\ q = "main"
      <4>1. /\ main # <<>> /\ main' = Tail(main) /\ held'["main"] = <<Head(main)>>
            /\ UNCHANGED <<puts, drops, heard, result>>
        BY <1>4, <3>2 DEF GetterRuns, consumed, Lane, Queue
      <4> QED BY <2>1, <3>2, <4>1, PopKeepsStream
    <3> QED BY <3>1, <3>2 DEF Lane
  <2> QED BY <1>4, <2>1, <2>2, Unseen DEF GetterRuns, consumed
<1>5. CASE WaitReturns
  <2>1. /\ pc = "racing" /\ pc' = "settled" /\ result = <<>>
        /\ held' = NothingHeld /\ held'["main"] = <<>>
        /\ UNCHANGED <<main, puts, drops, heard>>
    BY <1>5 DEF WaitReturns, Places, NothingHeld, Lane, consumed
  <2>2. CASE Finished("main")
    <3>1. result' = held["main"]
      BY <1>5, <2>2 DEF WaitReturns, Winner
    <3>2. StreamInv' /\ OnTheWay' = OnTheWay
      BY <2>1, <3>1 DEF StreamInv, Ahead, OnTheWay
    <3> QED BY <2>1, <3>2, Unseen
  <2>3. CASE ~Finished("main")
    <3>1. held["main"] = <<>> /\ result' = held["beat"]
      BY <1>5, <2>3 DEF WaitReturns, Winner, Finished, Places, Lane
    <3>2. result' # <<>> => result'[1].kind = "beat"
      <4>1. \A x \in LaterBeat : x.kind = "beat"
        BY DEF LaterBeat
      <4> QED BY <3>1, <4>1, OneOfHolds
    <3>3. Envelopes(result') = {} /\ Envelopes(<<>>) = {}
      <4>1. Envelopes(held["beat"]) = {}
        BY <3>1, <3>2, OneEnvelope
      <4>2. Envelopes(<<>>) = {}
        BY DEF Envelopes
      <4> QED BY <3>1, <4>1, <4>2
    <3>4. StreamInv' /\ OnTheWay' = OnTheWay
      BY <2>1, <3>1, <3>2, <3>3 DEF StreamInv, Ahead, OnTheWay
    <3> QED BY <2>1, <3>4, Unseen
  <2> QED BY <2>2, <2>3
<1>6. CASE Return
  <2>1. /\ pc = "settled" /\ pc' = "idle" /\ result # <<>> /\ result' = <<>>
        /\ held' = held /\ held["main"] = <<>>
        /\ UNCHANGED <<main, puts, drops>> /\ Consumes(result[1])
    BY <1>6 DEF Return, produced, Places, NothingHeld, Lane
  <2> DEFINE x == result[1]
  <2>2. Envelopes(<<>>) = {}
    BY DEF Envelopes
  <2>3. OnTheWay = Envelopes(result) \cup Envelopes(main) /\ OnTheWay' = Envelopes(main)
    BY <2>1, <2>2 DEF OnTheWay
  <2>4. \/ x \in LaterBeat /\ x.kind = "beat"
        \/ x \in MainItem /\ x.kind \in {"env", "warning"}
    <3>1. \A y \in LaterBeat : y.kind = "beat"
      BY DEF LaterBeat
    <3>2. \A y \in MainItem : y.kind \in {"env", "warning"}
      BY DEF MainItem
    <3>3. CASE result \in OneOf(LaterBeat)
      <4>1. result[1] \in LaterBeat
        BY <2>1, <3>3, OneOfHolds
      <4> QED BY <3>1, <4>1
    <3>4. CASE result \in OneOf(MainItem)
      BY <2>1, <3>2, <3>4, OneOfHolds
    <3> QED BY <3>3, <3>4
  <2>5. Envelopes(result) = IF x.kind = "env" THEN {x.n} ELSE {}
    BY <2>1, OneEnvelope
  <2>6. CASE x.kind = "beat"
    <3>1. heard' = heard
      BY <2>1, <2>6 DEF Consumes
    <3>2. StreamInv'
      BY <2>1, <3>1 DEF StreamInv, Ahead
    <3> QED BY <2>1, <2>3, <2>5, <2>6, <3>1, <3>2 DEF Stream!svars
  <2>7. CASE x.kind = "env"
    <3>1. heard' = heard
      BY <2>1, <2>7 DEF Consumes
    <3>2. StreamInv'
      BY <2>1, <3>1 DEF StreamInv, Ahead
    <3>3. x.n \in Int /\ \A m \in Envelopes(main) : m \in Int /\ x.n < m
      <4>1. Precedes(x, main)
        BY <2>1, <2>7 DEF StreamInv, Ahead
      <4>2. \A m \in Envelopes(main) : \E i \in 1..Len(main) : main[i].kind = "env" /\ main[i].n = m
        BY DEF Envelopes
      <4>3. x \in MainItem
        BY <2>4, <2>7
      <4> QED BY <2>7, <4>1, <4>2, <4>3, Items DEF Precedes, MainItem
    <3>4. Stream!Deliver(x.n) /\ x.n \in OnTheWay
      BY <2>1, <2>3, <2>5, <2>7, <3>1, <3>3 DEF Stream!Deliver
    <3> QED BY <3>2, <3>4 DEF Stream!Next
  <2>8. CASE x.kind = "warning"
    <3>1. x \in MainItem /\ heard' = x.n /\ heard < x.n /\ x.n <= drops
      BY <2>1, <2>4, <2>8 DEF Consumes, StreamInv, Ahead, Current
    <3>2. Precedes(x, main) /\ x.n \in Int
      BY <2>1, <2>8, <3>1 DEF StreamInv, Ahead, MainItem
    <3>3. InOrder(main, x.n, drops, puts)
      <4>1. \A i \in 1..Len(main) : Current(main[i], heard, drops, puts)
              /\ main[i].kind \in {"env", "warning"}
        BY Items DEF StreamInv, InOrder
      <4>2. \A i \in 1..Len(main) : Current(main[i], x.n, drops, puts)
        BY <2>8, <3>2, <4>1 DEF Current, Precedes
      <4> QED BY <4>2 DEF StreamInv, InOrder
    <3>4. StreamInv'
      BY <2>1, <3>1, <3>2, <3>3 DEF StreamInv, Ahead
    <3>5. OnTheWay' = OnTheWay
      BY <2>3, <2>5, <2>8
    <3>6. Stream!Warn
      BY <2>1, <3>1, <3>2, <3>5 DEF Stream!Warn, StreamInv
    <3> QED BY <3>4, <3>6 DEF Stream!Next
  <2> QED BY <2>4, <2>6, <2>7, <2>8
<1>7. CASE RecvCancelled
  <2>1. Stream!Closed
    BY <1>7 DEF RecvCancelled, Stream!Closed
  <2>2. held'["main"] = <<>> /\ result' = <<>> /\ UNCHANGED <<main, puts, drops, heard>>
    BY <1>7 DEF RecvCancelled, produced, consumed, NothingHeld, Lane
  <2> QED BY <2>1, <2>2 DEF Stream!Next, StreamInv, Ahead
<1>8. CASE UNCHANGED vars
  <2>1. StreamInv' /\ OnTheWay' = OnTheWay
    BY <1>8, OtherLane DEF vars
  <2> QED BY <1>8, <2>1 DEF vars, Stream!svars
<1> QED BY <1>1, <1>2, <1>3, <1>4, <1>5, <1>6, <1>7, <1>8 DEF Next

\* The consumer of the main queue gets the envelopes in the order they were
\* injected; those lost on an overflow are a run of the oldest, and every loss
\* is announced with a figure that never goes back (recv_envelope,
\* _enqueue_with_drop_oldest).  With room for one the envelope itself is
\* refused; the runtime's queue has room for 1024.
THEOREM QueueIsStream == ASSUME MainCap > 1 PROVE Spec => ImplementsStream
<1>1. Init => BeatInv /\ StreamInv /\ Stream!Init
  BY InitBeats, InitStream
<1>2. BeatInv /\ StreamInv /\ [Next]_vars => BeatInv' /\ StreamInv' /\ [Stream!Next]_(Stream!svars)
  BY NextBeats, NextStream
<1> QED BY <1>1, <1>2, PTL DEF Spec, ImplementsStream, Stream!Spec
=============================================================================
