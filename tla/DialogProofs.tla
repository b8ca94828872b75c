----------------------------- MODULE DialogProofs -----------------------------
(***************************************************************************)
(* Proofs about the dialog subsystem: whatever the agents, the budgets,    *)
(* the cooldowns and the driver, the scheduler's dictionaries stay typed   *)
(* and describe the same dialogs, at most one per pair; the envelopes are  *)
(* those of DialogProtocol; cooldowns are kept; and a turn that is being   *)
(* generated is its dialog's next.                                         *)
(***************************************************************************)
EXTENDS DialogRuntime, TLAPS

\* Ids are fresh: none used so far has an ordinal above its pair's count, and
\* an open dialog is between the agents its id names.
IdsFresh(s) ==
    /\ \A d \in DOMAIN s.wire : d[2] <= s.opened[d[1]]
    /\ \A d \in DOMAIN s.open : PairOf(s.open[d]) = d[1]

SchedulerInv(s) == SchedulerOK(s) /\ IndexOK(s) /\ IdsFresh(s)

\* An inductive invariant: indexes can only be shown consistent with the types
\* and the freshness of ids, since admission would overwrite a reused id.
IInv ==
    /\ SchedulerInv(sched)
    /\ golden \in BOOLEAN
    /\ worldTick \in Nat
    /\ pc \in {"sleep", "dialogTick", "stage", "gather"}
    /\ pending \subseteq StagedTurn

\* Two agents are a pair.
LEMMA PairIsPair ==
    ASSUME NEW a \in Agents, NEW b \in Agents, a # b
    PROVE  {a, b} \in Pairs
BY DEF Pairs

\* _close_dialog_at keeps the dictionaries right, for any dialogs it closes.
LEMMA CloseAllKeeps ==
    ASSUME NEW s, SchedulerInv(s),
           NEW ids \in SUBSET DOMAIN s.open, NEW at \in [ids -> Nat]
    PROVE  SchedulerInv(CloseAll(s, ids, at))
<1> DEFINE c == CloseAll(s, ids, at)
           pairs == {PairOf(s.open[d]) : d \in ids}
<1>1. /\ DOMAIN c.open = DOMAIN s.open \ ids
      /\ \A d \in DOMAIN c.open : c.open[d] = s.open[d]
      /\ DOMAIN c.pairToId = DOMAIN s.pairToId \ pairs
      /\ \A p \in DOMAIN c.pairToId : c.pairToId[p] = s.pairToId[p]
      /\ DOMAIN c.wire = DOMAIN s.wire
      /\ c.opened = s.opened
  BY DEF CloseAll, Unindex
<1>2. \A d \in DOMAIN s.open : PairOf(s.open[d]) = d[1] /\ d[1] \in Pairs
  BY DEF SchedulerInv, IdsFresh, SchedulerOK, Ids
<1>3. IndexOK(c)
  <2>1. ASSUME NEW d \in DOMAIN c.open
        PROVE  PairOf(c.open[d]) \in DOMAIN c.pairToId /\ c.pairToId[PairOf(c.open[d])] = d
    <3>1. PairOf(s.open[d]) \in DOMAIN s.pairToId /\ s.pairToId[PairOf(s.open[d])] = d
      BY <1>1, <2>1 DEF SchedulerInv, IndexOK
    <3>2. PairOf(s.open[d]) \notin pairs
      BY <1>1, <2>1, <3>1 DEF SchedulerInv, IndexOK
    <3> QED BY <1>1, <2>1, <3>1, <3>2
  <2>2. ASSUME NEW p \in DOMAIN c.pairToId
        PROVE  c.pairToId[p] \in DOMAIN c.open /\ PairOf(c.open[c.pairToId[p]]) = p
    <3>1. s.pairToId[p] \in DOMAIN s.open /\ PairOf(s.open[s.pairToId[p]]) = p /\ p \notin pairs
      BY <1>1, <2>2 DEF SchedulerInv, IndexOK
    <3> QED BY <1>1, <2>2, <3>1
  <2> QED BY <2>1, <2>2 DEF IndexOK
<1>4. IdsFresh(c)
  BY <1>1 DEF SchedulerInv, IdsFresh
<1>5. c.lastClose \in [DOMAIN s.lastClose \cup pairs -> Nat] /\ pairs \subseteq Pairs
  <2>1. pairs \subseteq Pairs
    BY <1>2
  <2>2. ASSUME NEW p \in DOMAIN s.lastClose \cup pairs
        PROVE  (IF p \in pairs THEN at[CHOOSE d \in ids : PairOf(s.open[d]) = p]
                               ELSE s.lastClose[p]) \in Nat
    <3>1. CASE p \in pairs
      <4>1. (CHOOSE d \in ids : PairOf(s.open[d]) = p) \in ids
        BY <3>1
      <4> QED BY <3>1, <4>1
    <3>2. CASE p \notin pairs
      BY <3>2, <2>2 DEF SchedulerInv, SchedulerOK
    <3> QED BY <3>1, <3>2
  <2>3. c.lastClose = [p \in DOMAIN s.lastClose \cup pairs |->
                          IF p \in pairs THEN at[CHOOSE d \in ids : PairOf(s.open[d]) = p]
                                         ELSE s.lastClose[p]]
    BY DEF CloseAll
  <2> HIDE DEF c
  <2> QED BY <2>1, <2>2, <2>3
<1>6. c.wire \in [DOMAIN s.wire -> Seq(Kinds)]
  BY DEF CloseAll, SchedulerInv, SchedulerOK, Kinds
<1>7. c.open \in [DOMAIN c.open -> Dialog] /\ c.pairToId \in [DOMAIN c.pairToId -> Ids]
  BY DEF CloseAll, Unindex, SchedulerInv, SchedulerOK
<1>8. c = [open |-> c.open, pairToId |-> c.pairToId, lastClose |-> c.lastClose,
           wire |-> c.wire, opened |-> c.opened]
  BY DEF CloseAll
<1>9. DOMAIN c.lastClose \subseteq Pairs
  BY <1>5 DEF SchedulerInv, SchedulerOK
<1>10. SchedulerOK(c)
  <2>1. DOMAIN c.lastClose = DOMAIN s.lastClose \cup pairs
    BY <1>5
  <2>2. /\ DOMAIN s.open \subseteq DOMAIN s.wire
        /\ DOMAIN s.wire \subseteq Ids
        /\ DOMAIN s.pairToId \subseteq Pairs
        /\ s.opened \in [Pairs -> Nat]
    BY DEF SchedulerInv, SchedulerOK
  <2> HIDE DEF c
  <2> QED BY <1>1, <1>5, <1>6, <1>7, <1>8, <1>9, <2>1, <2>2 DEF SchedulerOK
<1> QED BY <1>3, <1>4, <1>10 DEF SchedulerInv

\* Admission keeps the dictionaries right if it is for pairs of distinct agents
\* without an open dialog: what MayInitiate checks.
LEMMA AdmitKeeps ==
    ASSUME NEW s, SchedulerInv(s), NEW tick \in Nat,
           NEW starts \in SUBSET (Agents \X Agents),
           \A st \in starts : st[1] # st[2] /\ {st[1], st[2]} \notin DOMAIN s.pairToId
    PROVE  SchedulerInv(Admit(s, starts, tick))
<1> DEFINE c == Admit(s, starts, tick)
           pairs == {{st[1], st[2]} : st \in starts}
           ids == {DialogId(s, p) : p \in pairs}
           Start(d) == CHOOSE st \in starts : {st[1], st[2]} = d[1]
<1>1. /\ pairs \subseteq Pairs
      /\ pairs \cap DOMAIN s.pairToId = {}
  BY PairIsPair
<1>2. /\ s.opened \in [Pairs -> Nat]
      /\ DOMAIN s.open \subseteq DOMAIN s.wire
      /\ DOMAIN s.wire \subseteq Ids
      /\ DOMAIN s.pairToId \subseteq Pairs
      /\ DOMAIN s.lastClose \subseteq Pairs
      /\ s.lastClose \in [DOMAIN s.lastClose -> Nat]
      /\ s.open \in [DOMAIN s.open -> Dialog]
      /\ s.wire \in [DOMAIN s.wire -> Seq(Kinds)]
      /\ s.pairToId \in [DOMAIN s.pairToId -> Ids]
  BY DEF SchedulerInv, SchedulerOK
<1>3. \A p \in pairs : /\ DialogId(s, p) \in Ids
                        /\ DialogId(s, p)[1] = p
                        /\ DialogId(s, p)[2] = s.opened[p] + 1
  BY <1>1, <1>2 DEF DialogId, Ids
<1>4. ids \cap DOMAIN s.wire = {}
  <2> SUFFICES ASSUME NEW p \in pairs, DialogId(s, p) \in DOMAIN s.wire PROVE FALSE
    OBVIOUS
  <2>1. s.opened[p] + 1 <= s.opened[p]
    BY <1>3 DEF SchedulerInv, IdsFresh
  <2> QED BY <1>1, <1>2, <2>1
<1>5. \A d \in ids : d[1] \in pairs /\ d = DialogId(s, d[1]) /\ d \in Ids
  BY <1>3
<1>6. \A d \in ids : Start(d) \in starts /\ {Start(d)[1], Start(d)[2]} = d[1]
  <2> SUFFICES ASSUME NEW d \in ids
               PROVE  Start(d) \in starts /\ {Start(d)[1], Start(d)[2]} = d[1]
    OBVIOUS
  <2>1. \E st \in starts : {st[1], st[2]} = d[1]
    BY <1>5
  <2> QED BY <2>1
<1>7. /\ c.open = [d \in DOMAIN s.open \cup ids |->
                      IF d \in ids THEN NewDialog(Start(d)[1], Start(d)[2], tick)
                                   ELSE s.open[d]]
      /\ c.pairToId = [p \in DOMAIN s.pairToId \cup pairs |->
                          IF p \in pairs THEN DialogId(s, p) ELSE s.pairToId[p]]
      /\ c.wire = [d \in DOMAIN s.wire \cup ids |->
                      IF d \in ids THEN <<"initiate">> ELSE s.wire[d]]
      /\ c.lastClose = s.lastClose
      /\ c.opened = [p \in Pairs |-> s.opened[p] + (IF p \in pairs THEN 1 ELSE 0)]
      /\ c = [open |-> c.open, pairToId |-> c.pairToId, lastClose |-> c.lastClose,
              wire |-> c.wire, opened |-> c.opened]
  BY DEF Admit, Announce
<1> HIDE DEF c, ids, pairs, Start
<1>8. ASSUME NEW d \in ids
      PROVE  c.open[d] \in Dialog /\ PairOf(c.open[d]) = d[1]
  <2>1. c.open[d] = NewDialog(Start(d)[1], Start(d)[2], tick)
    BY <1>7, <1>8
  <2>2. Start(d)[1] \in Agents /\ Start(d)[2] \in Agents
    BY <1>6, <1>8
  <2> QED BY <1>6, <1>8, <2>1, <2>2 DEF NewDialog, Dialog, PairOf
<1>9. \A d \in DOMAIN s.open : d \notin ids /\ c.open[d] = s.open[d]
  BY <1>2, <1>4, <1>7
<1>10. SchedulerOK(c)
  <2>1. c.open \in [DOMAIN c.open -> Dialog] /\ DOMAIN c.open = DOMAIN s.open \cup ids
    BY <1>2, <1>7, <1>8, <1>9
  <2>2. c.wire \in [DOMAIN c.wire -> Seq(Kinds)] /\ DOMAIN c.wire = DOMAIN s.wire \cup ids
    <3>1. <<"initiate">> \in Seq(Kinds)
      BY DEF Kinds
    <3> QED BY <1>2, <1>7, <3>1
  <2>3. c.pairToId \in [DOMAIN c.pairToId -> Ids] /\ DOMAIN c.pairToId \subseteq Pairs
    BY <1>1, <1>2, <1>3, <1>7
  <2>4. c.opened \in [Pairs -> Nat]
    BY <1>2, <1>7
  <2>5. ids \subseteq Ids
    BY <1>5
  <2> QED BY <1>2, <1>7, <2>1, <2>2, <2>3, <2>4, <2>5 DEF SchedulerOK
<1>11. IndexOK(c)
  <2>1. ASSUME NEW d \in DOMAIN c.open
        PROVE  PairOf(c.open[d]) \in DOMAIN c.pairToId /\ c.pairToId[PairOf(c.open[d])] = d
    <3>1. CASE d \in ids
      BY <1>5, <1>7, <1>8, <3>1
    <3>2. CASE d \notin ids
      <4>1. d \in DOMAIN s.open /\ c.open[d] = s.open[d]
        BY <1>7, <1>9, <2>1, <3>2
      <4>2. PairOf(s.open[d]) \in DOMAIN s.pairToId /\ s.pairToId[PairOf(s.open[d])] = d
        BY <4>1 DEF SchedulerInv, IndexOK
      <4> QED BY <1>1, <1>7, <4>1, <4>2
    <3> QED BY <3>1, <3>2
  <2>2. ASSUME NEW p \in DOMAIN c.pairToId
        PROVE  c.pairToId[p] \in DOMAIN c.open /\ PairOf(c.open[c.pairToId[p]]) = p
    <3>1. CASE p \in pairs
      <4>1. DialogId(s, p) \in ids
        BY <3>1 DEF ids
      <4> QED BY <1>3, <1>7, <1>8, <3>1, <4>1
    <3>2. CASE p \notin pairs
      <4>1. p \in DOMAIN s.pairToId /\ c.pairToId[p] = s.pairToId[p]
        BY <1>7, <2>2, <3>2
      <4>2. s.pairToId[p] \in DOMAIN s.open /\ PairOf(s.open[s.pairToId[p]]) = p
        BY <4>1 DEF SchedulerInv, IndexOK
      <4> QED BY <1>7, <1>9, <4>1, <4>2
    <3> QED BY <3>1, <3>2
  <2> QED BY <2>1, <2>2 DEF IndexOK
<1>12. IdsFresh(c)
  <2>1. ASSUME NEW d \in DOMAIN c.wire PROVE d[2] <= c.opened[d[1]]
    <3>1. CASE d \in ids
      BY <1>1, <1>2, <1>3, <1>5, <1>7, <3>1
    <3>2. CASE d \notin ids
      <4>1. d \in DOMAIN s.wire /\ d[2] <= s.opened[d[1]]
        BY <1>7, <2>1, <3>2 DEF SchedulerInv, IdsFresh
      <4>2. d[1] \in Pairs /\ d[2] \in Nat
        BY <1>2, <4>1 DEF Ids
      <4>3. c.opened[d[1]] \in {s.opened[d[1]], s.opened[d[1]] + 1} /\ s.opened[d[1]] \in Nat
        BY <1>2, <1>7, <4>2
      <4> QED BY <4>1, <4>2, <4>3
    <3> QED BY <3>1, <3>2
  <2>2. ASSUME NEW d \in DOMAIN c.open PROVE PairOf(c.open[d]) = d[1]
    <3>1. CASE d \in ids
      BY <1>8, <3>1
    <3>2. CASE d \notin ids
      BY <1>7, <1>9, <2>2, <3>2 DEF SchedulerInv, IdsFresh
    <3> QED BY <3>1, <3>2
  <2> QED BY <2>1, <2>2 DEF IdsFresh
<1> QED BY <1>10, <1>11, <1>12 DEF SchedulerInv, c

\* Recording turns of open dialogs touches neither index.
LEMMA RecordAllKeeps ==
    ASSUME NEW s, SchedulerInv(s), NEW tick \in Nat,
           NEW said \in SUBSET StagedTurn, \A t \in said : t.id \in DOMAIN s.open
    PROVE  SchedulerInv(RecordAll(s, said, tick))
<1> DEFINE c == RecordAll(s, said, tick)
           ids == {t.id : t \in said}
           Of(d) == CHOOSE t \in said : t.id = d
<1>1. \A d \in ids : Of(d) \in said
  OBVIOUS
<1>2. /\ c.open = [d \in DOMAIN s.open |->
                      IF d \in ids THEN Spoken(s.open[d], Of(d), tick) ELSE s.open[d]]
      /\ c.wire = [d \in DOMAIN s.wire |->
                      IF d \in ids THEN Append(s.wire[d], "turn") ELSE s.wire[d]]
      /\ c.pairToId = s.pairToId
      /\ c.lastClose = s.lastClose
      /\ c.opened = s.opened
      /\ c = [open |-> c.open, pairToId |-> c.pairToId, lastClose |-> c.lastClose,
              wire |-> c.wire, opened |-> c.opened]
  BY DEF RecordAll
<1> HIDE DEF c, ids, Of
<1>3. ASSUME NEW d \in DOMAIN s.open
      PROVE  c.open[d] \in Dialog /\ PairOf(c.open[d]) = PairOf(s.open[d])
  <2>1. s.open[d] \in Dialog
    BY <1>3 DEF SchedulerInv, SchedulerOK
  <2>2. CASE d \in ids
    <3>1. Of(d).index \in Nat /\ Of(d).speaker \in Agents
      BY <1>1, <2>2 DEF StagedTurn
    <3>2. [index |-> Of(d).index, speaker |-> Of(d).speaker] \in Turn
      BY <3>1 DEF Turn
    <3>3. Append(s.open[d].turns, [index |-> Of(d).index, speaker |-> Of(d).speaker]) \in Seq(Turn)
      BY <2>1, <3>2 DEF Dialog
    <3> QED BY <1>2, <2>1, <2>2, <3>3 DEF Spoken, Dialog, PairOf
  <2>3. CASE d \notin ids
    BY <1>2, <2>1, <2>3 DEF PairOf
  <2> QED BY <2>2, <2>3
<1>4. c.wire \in [DOMAIN s.wire -> Seq(Kinds)]
  BY <1>2 DEF Kinds, SchedulerInv, SchedulerOK
<1>5. SchedulerOK(c)
  BY <1>2, <1>3, <1>4 DEF SchedulerInv, SchedulerOK
<1>6. IndexOK(c)
  BY <1>2, <1>3 DEF SchedulerInv, IndexOK
<1>7. IdsFresh(c)
  BY <1>2, <1>3 DEF SchedulerInv, IdsFresh
<1> QED BY <1>5, <1>6, <1>7 DEF SchedulerInv, c

-----------------------------------------------------------------------------

\* A scheduler without a dialog has nothing to be wrong about.
LEMMA InitIInv == Init => IInv
<1> SUFFICES ASSUME Init PROVE IInv
  OBVIOUS
<1>1. sched = [open |-> <<>>, pairToId |-> <<>>, lastClose |-> <<>>,
               wire |-> <<>>, opened |-> [p \in Pairs |-> 0]]
  BY DEF Init, SchedulerInit
<1>2. SchedulerInv(sched)
  BY <1>1 DEF SchedulerInv, SchedulerOK, IndexOK, IdsFresh
<1> QED BY <1>2 DEF Init, SchedulerInit, IInv

\* What MayInitiate admits is a pair of distinct agents without an open dialog.
LEMMA DrawnAdmissible ==
    ASSUME NEW s, NEW view \in [Registered -> Zones], NEW tick,
           NEW st \in Drawn(s, view, tick)
    PROVE  /\ st \in Agents \X Agents
           /\ st[1] # st[2]
           /\ {st[1], st[2]} \notin DOMAIN s.pairToId
BY RuntimeAssumption DEF Drawn, MayInitiate

\* Every operation keeps the invariant.
LEMMA NextIInv == IInv /\ [Next]_vars => IInv'
<1> SUFFICES ASSUME IInv, [Next]_vars PROVE IInv'
  OBVIOUS
<1> USE DEF IInv
<1>1. CASE StepAgents
  BY <1>1 DEF StepAgents
<1>2. CASE RunDialogTick
  <2>1. PICK view \in [Registered -> Zones] : Tick(worldTick, view)
    BY <1>2 DEF RunDialogTick
  <2> DEFINE r == CloseTimedOut(sched, worldTick)
  <2>2. SchedulerInv(r)
    <3>1. Expired(sched, worldTick) \in SUBSET DOMAIN sched.open
      BY DEF Expired
    <3> QED BY <3>1, CloseAllKeeps DEF CloseTimedOut
  <2>3. PICK starts \in SUBSET Drawn(r, view, worldTick) : sched' = Admit(r, starts, worldTick)
    BY <2>1 DEF Tick
  <2> HIDE DEF r
  <2>4. SchedulerInv(sched')
    <3>1. starts \in SUBSET (Agents \X Agents)
      BY <2>3, DrawnAdmissible
    <3>2. \A st \in starts : st[1] # st[2] /\ {st[1], st[2]} \notin DOMAIN r.pairToId
      BY <2>3, DrawnAdmissible
    <3> QED BY <2>2, <2>3, <3>1, <3>2, AdmitKeeps
  <2> QED BY <1>2, <2>1, <2>4 DEF RunDialogTick, Tick
<1>3. CASE StageTurns
  <2> DEFINE known == {d \in DOMAIN sched.open : PairOf(sched.open[d]) \subseteq Registered}
             spent == {d \in known : Exhausted(sched.open[d])}
  <2>1. /\ sched' = CloseAll(sched, spent, [d \in spent |-> worldTick])
        /\ pending' = {Staged(d) : d \in known \ spent}
    BY <1>3 DEF StageTurns
  <2>2. SchedulerInv(sched')
    BY <2>1, CloseAllKeeps
  <2>3. pending' \subseteq StagedTurn
    <3> SUFFICES ASSUME NEW d \in DOMAIN sched.open PROVE Staged(d) \in StagedTurn
      BY <2>1
    <3>1. d \in Ids /\ sched.open[d] \in Dialog
      BY DEF SchedulerInv, SchedulerOK
    <3>2. /\ sched.open[d].initiator \in Agents
          /\ sched.open[d].target \in Agents
          /\ Len(sched.open[d].turns) \in Nat
      BY <3>1 DEF Dialog
    <3>3. NextSpeaker(sched.open[d]) \in Agents
      BY <3>2 DEF NextSpeaker
    <3> QED BY <3>1, <3>2, <3>3 DEF Staged, StagedTurn
  <2> QED BY <1>3, <2>2, <2>3 DEF StageTurns
<1>4. CASE RecordTurns
  <2>1. PICK produced \in SUBSET pending :
           sched' = RecordAll(sched, StillOpen(produced), worldTick)
    BY <1>4 DEF RecordTurns
  <2>2. SchedulerInv(sched')
    <3>1. /\ StillOpen(produced) \in SUBSET StagedTurn
          /\ \A t \in StillOpen(produced) : t.id \in DOMAIN sched.open
      BY DEF StillOpen
    <3> QED BY <2>1, <3>1, RecordAllKeeps
  <2> QED BY <1>4, <2>2 DEF RecordTurns
<1>5. CASE DriverInitiates
  <2>1. PICK a \in Agents, b \in Agents, zone \in Zones : ScheduleInitiate(a, b, zone, worldTick)
    BY <1>5 DEF DriverInitiates
  <2>2. /\ a # b /\ {a, b} \notin DOMAIN sched.pairToId
        /\ sched' = Admit(sched, {<<a, b>>}, worldTick)
        /\ golden' = golden
    BY <2>1 DEF ScheduleInitiate, MayInitiate
  <2>3. SchedulerInv(sched')
    <3> DEFINE starts == {<<a, b>>}
    <3>1. /\ starts \in SUBSET (Agents \X Agents)
          /\ \A st \in starts : st[1] # st[2] /\ {st[1], st[2]} \notin DOMAIN sched.pairToId
      BY <2>2
    <3> HIDE DEF starts
    <3>2. SchedulerInv(Admit(sched, starts, worldTick))
      BY <3>1, AdmitKeeps
    <3> QED BY <2>2, <3>2 DEF starts
  <2> QED BY <1>5, <2>2, <2>3 DEF DriverInitiates
<1>6. CASE DriverCloses
  <2>1. PICK id \in DOMAIN sched.open, withTick \in BOOLEAN : CloseDialog(id, worldTick, withTick)
    BY <1>6 DEF DriverCloses
  <2> DEFINE at == [d \in {id} |-> IF withTick THEN worldTick ELSE sched.open[d].lastActivity]
  <2>2. sched' = CloseAll(sched, {id}, at) /\ golden' = golden
    BY <2>1 DEF CloseDialog
  <2>3. at \in [{id} -> Nat]
    <3>1. sched.open[id] \in Dialog
      BY DEF SchedulerInv, SchedulerOK
    <3> QED BY <3>1 DEF Dialog
  <2> HIDE DEF at
  <2>4. SchedulerInv(sched')
    BY <2>2, <2>3, CloseAllKeeps
  <2> QED BY <1>6, <2>2, <2>4 DEF DriverCloses
<1>7. CASE DriverFlipsMode
  BY <1>7 DEF DriverFlipsMode, FlipGolden
<1>8. CASE UNCHANGED vars
  BY <1>8 DEF vars
<1> QED BY <1>1, <1>2, <1>3, <1>4, <1>5, <1>6, <1>7, <1>8 DEF Next, RunLoop, Driver

\* The invariant holds in every state.
THEOREM InductiveInvariant == Spec => []IInv
<1> QED BY InitIInv, NextIInv, PTL DEF Spec

\* The types of the scheduler and of the turn driver, for every set of agents,
\* every budget, cooldown and timeout, with or without a driver.
THEOREM TypeCorrect == Spec => []TypeOK
<1>1. IInv => TypeOK
  BY DEF IInv, SchedulerInv, TypeOK
<1> QED BY <1>1, InductiveInvariant, PTL

\* _open and _pair_to_id never disagree: at most one dialog of a pair is open,
\* and the pair of every closed dialog is free to talk again.
THEOREM IndexAlwaysConsistent == Spec => []IndexConsistent
<1>1. IInv => IndexConsistent
  BY DEF IInv, SchedulerInv, IndexConsistent
<1> QED BY <1>1, InductiveInvariant, PTL

-----------------------------------------------------------------------------
(* What the operations do to the open dialogs and to the wire. *)

\* The wire after some dialogs were announced, and of those that were, some had
\* a turn and some their close.
Told(wire, started, spoken, ended) ==
    [d \in DOMAIN wire \cup started |->
        IF d \in started THEN <<"initiate">>
        ELSE IF d \in spoken THEN Append(wire[d], "turn")
        ELSE IF d \in ended THEN Append(wire[d], "close")
        ELSE wire[d]]

\* The ids of a closed set of dialogs leave, and each is told its close.
LEMMA CloseAllTells ==
    ASSUME NEW s, NEW ids, NEW at
    PROVE  /\ DOMAIN CloseAll(s, ids, at).open = DOMAIN s.open \ ids
           /\ \A d \in DOMAIN s.open \ ids : CloseAll(s, ids, at).open[d] = s.open[d]
           /\ CloseAll(s, ids, at).wire =
                Told(s.wire, {}, {}, ids)
BY DEF CloseAll, Told

\* Admission announces ids that were never used, one for each of its pairs, and
\* closes nothing.
LEMMA AdmitTells ==
    ASSUME NEW s, SchedulerInv(s), NEW tick,
           NEW starts \in SUBSET (Agents \X Agents), \A st \in starts : st[1] # st[2]
    PROVE  \E ids \in SUBSET Ids :
             /\ ids \cap DOMAIN s.wire = {}
             /\ \A d \in ids : \E st \in starts : d[1] = {st[1], st[2]}
             /\ DOMAIN Admit(s, starts, tick).open = DOMAIN s.open \cup ids
             /\ \A d \in DOMAIN s.open : Admit(s, starts, tick).open[d] = s.open[d]
             /\ Admit(s, starts, tick).lastClose = s.lastClose
             /\ Admit(s, starts, tick).wire =
                  Told(s.wire, ids, {}, {})
<1> DEFINE pairs == {{st[1], st[2]} : st \in starts}
           ids == {DialogId(s, p) : p \in pairs}
<1>1. pairs \subseteq Pairs
  BY PairIsPair
<1>2. /\ s.opened \in [Pairs -> Nat] /\ DOMAIN s.wire \subseteq Ids
      /\ DOMAIN s.open \subseteq DOMAIN s.wire
  BY DEF SchedulerInv, SchedulerOK
<1>3. \A p \in pairs : /\ DialogId(s, p) \in Ids /\ DialogId(s, p)[1] = p
                       /\ DialogId(s, p)[2] = s.opened[p] + 1
  BY <1>1, <1>2 DEF DialogId, Ids
<1>4. ids \in SUBSET Ids
  BY <1>3
<1>5. ids \cap DOMAIN s.wire = {}
  <2> SUFFICES ASSUME NEW p \in pairs, DialogId(s, p) \in DOMAIN s.wire PROVE FALSE
    OBVIOUS
  <2>1. s.opened[p] + 1 <= s.opened[p]
    BY <1>3 DEF SchedulerInv, IdsFresh
  <2> QED BY <1>1, <1>2, <2>1
<1>6. \A d \in ids : \E st \in starts : d[1] = {st[1], st[2]}
  BY <1>3
<1>7. /\ DOMAIN Admit(s, starts, tick).open = DOMAIN s.open \cup ids
      /\ \A d \in DOMAIN s.open : d \notin ids => Admit(s, starts, tick).open[d] = s.open[d]
      /\ Admit(s, starts, tick).lastClose = s.lastClose
      /\ Admit(s, starts, tick).wire = Told(s.wire, ids, {}, {})
  BY DEF Admit, Announce, Told
<1> HIDE DEF ids
<1> QED BY <1>2, <1>4, <1>5, <1>6, <1>7

\* A turn changes no dialog but its own, opens none and closes none.
LEMMA RecordAllTells ==
    ASSUME NEW s, NEW said, NEW tick, \A t \in said : t.id \in DOMAIN s.open
    PROVE  \E ids \in SUBSET DOMAIN s.open :
             /\ DOMAIN RecordAll(s, said, tick).open = DOMAIN s.open
             /\ RecordAll(s, said, tick).wire = Told(s.wire, {}, ids, {})
<1> DEFINE ids == {t.id : t \in said}
<1>1. ids \in SUBSET DOMAIN s.open
  OBVIOUS
<1>2. /\ DOMAIN RecordAll(s, said, tick).open = DOMAIN s.open
      /\ RecordAll(s, said, tick).wire = Told(s.wire, {}, ids, {})
  BY DEF RecordAll, Told
<1> HIDE DEF ids
<1> QED BY <1>1, <1>2

\* A tick opens and closes dialogs and leaves the others alone; it closes first,
\* so that what it admits is measured against the cooldowns of its own closes.
LEMMA TickTells ==
    ASSUME IInv, NEW view \in [Registered -> Zones], Tick(worldTick, view)
    PROVE  \E ended \in SUBSET DOMAIN sched.open, started \in SUBSET Ids :
             /\ started \cap DOMAIN sched.wire = {}
             /\ DOMAIN sched'.open = (DOMAIN sched.open \ ended) \cup started
             /\ \A d \in DOMAIN sched.open \ ended : sched'.open[d] = sched.open[d]
             /\ sched'.wire = Told(sched.wire, started, {}, ended)
             /\ \A d \in started : ~ CoolingDown(sched', d[1], worldTick)
<1> DEFINE ended == Expired(sched, worldTick)
           at == [d \in ended |-> worldTick]
           r == CloseTimedOut(sched, worldTick)
<1>0. r = CloseAll(sched, ended, at)
  BY DEF CloseTimedOut
<1>1. ended \in SUBSET DOMAIN sched.open
  BY DEF Expired
<1>2. SchedulerInv(r)
  BY <1>1, CloseAllKeeps DEF CloseTimedOut, IInv
<1>4. PICK starts \in SUBSET Drawn(r, view, worldTick) : sched' = Admit(r, starts, worldTick)
  BY DEF Tick
<1>5. \A st \in Drawn(r, view, worldTick) : ~ CoolingDown(r, {st[1], st[2]}, worldTick)
  BY DEF Drawn
<1> HIDE DEF r, ended, at
<1>3. /\ DOMAIN r.open = DOMAIN sched.open \ ended
      /\ \A d \in DOMAIN sched.open \ ended : r.open[d] = sched.open[d]
      /\ r.wire = Told(sched.wire, {}, {}, ended)
  BY <1>0, <1>1, CloseAllTells
<1>6. starts \in SUBSET (Agents \X Agents) /\ \A st \in starts : st[1] # st[2]
  BY <1>4, DrawnAdmissible
<1>7. PICK started \in SUBSET Ids :
        /\ started \cap DOMAIN r.wire = {}
        /\ \A d \in started : \E st \in starts : d[1] = {st[1], st[2]}
        /\ DOMAIN sched'.open = DOMAIN r.open \cup started
        /\ \A d \in DOMAIN r.open : sched'.open[d] = r.open[d]
        /\ sched'.lastClose = r.lastClose
        /\ sched'.wire = Told(r.wire, started, {}, {})
  BY <1>2, <1>4, <1>6, AdmitTells
<1>8. \A d \in started : ~ CoolingDown(sched', d[1], worldTick)
  <2> SUFFICES ASSUME NEW d \in started PROVE ~ CoolingDown(sched', d[1], worldTick)
    OBVIOUS
  <2>1. PICK st \in starts : d[1] = {st[1], st[2]}
    BY <1>7
  <2>2. ~ CoolingDown(r, d[1], worldTick)
    BY <1>4, <1>5, <2>1
  <2>3. sched'.lastClose = r.lastClose
    BY <1>7
  <2> QED BY <2>2, <2>3 DEF CoolingDown
<1>9. DOMAIN r.wire = DOMAIN sched.wire
  BY <1>3 DEF Told
<1>10. sched'.wire = Told(sched.wire, started, {}, ended)
  <2>1. \A d \in DOMAIN sched.wire :
          r.wire[d] = IF d \in ended THEN Append(sched.wire[d], "close") ELSE sched.wire[d]
    BY <1>3 DEF Told
  <2> QED BY <1>7, <1>9, <2>1 DEF Told
<1> QED BY <1>1, <1>3, <1>7, <1>8, <1>9, <1>10

-----------------------------------------------------------------------------
(* The scheduler and the turn driver implement DialogProtocol. *)

\* Dialogs between the same two agents are the same dialog: their index is.
LEMMA OpenOnePerPair ==
    ASSUME NEW s, SchedulerInv(s)
    PROVE  Protocol!OnePerPair(DOMAIN s.open)
BY DEF SchedulerInv, IndexOK, IdsFresh, Protocol!OnePerPair

\* What a step of the protocol is, when it starts, carries on and ends the
\* dialogs that are named.
LEMMA IsProtocolStep ==
    ASSUME IInv, IInv',
           NEW started \in SUBSET Ids, NEW spoken \in SUBSET DOMAIN sched.open,
           NEW ended \in SUBSET DOMAIN sched.open, spoken \cap ended = {},
           started \cap DOMAIN sched.wire = {},
           DOMAIN sched'.open = (DOMAIN sched.open \ ended) \cup started,
           sched'.wire = Told(sched.wire, started, spoken, ended)
    PROVE  Protocol!Next
<1>1. DOMAIN sched.open \subseteq DOMAIN sched.wire
  BY DEF IInv, SchedulerInv, SchedulerOK
<1>2. /\ DOMAIN sched'.open \ DOMAIN sched.open = started
      /\ DOMAIN sched.open \ DOMAIN sched'.open = ended
  BY <1>1
<1>3. Protocol!OnePerPair(DOMAIN sched'.open)
  BY OpenOnePerPair DEF IInv
<1>4. Protocol!Step(started, spoken, ended)
  BY <1>1, <1>3 DEF Protocol!Step, Told
<1> QED BY <1>2, <1>4 DEF Protocol!Next

\* Every step of the subsystem is one of the protocol or changes nothing in it.
LEMMA NextIsProtocol ==
    ASSUME IInv, [Next]_vars
    PROVE  [Protocol!Next]_(Protocol!vars)
<1>0. IInv'
  BY NextIInv
<1>1. CASE UNCHANGED sched
  BY <1>1 DEF Protocol!vars
<1>2. CASE RunDialogTick
  <2>1. PICK view \in [Registered -> Zones] : Tick(worldTick, view)
    BY <1>2 DEF RunDialogTick
  <2>2. PICK ended \in SUBSET DOMAIN sched.open, started \in SUBSET Ids :
          /\ started \cap DOMAIN sched.wire = {}
          /\ DOMAIN sched'.open = (DOMAIN sched.open \ ended) \cup started
          /\ sched'.wire = Told(sched.wire, started, {}, ended)
    BY <2>1, TickTells
  <2> QED BY <1>0, <2>2, IsProtocolStep, {} \in SUBSET DOMAIN sched.open
<1>3. CASE StageTurns \/ DriverCloses
  <2>1. PICK ended \in SUBSET DOMAIN sched.open :
          /\ DOMAIN sched'.open = DOMAIN sched.open \ ended
          /\ sched'.wire = Told(sched.wire, {}, {}, ended)
    <3>1. CASE StageTurns
      <4> DEFINE spent == {d \in {e \in DOMAIN sched.open : PairOf(sched.open[e]) \subseteq Registered} :
                             Exhausted(sched.open[d])}
      <4>1. sched' = CloseAll(sched, spent, [d \in spent |-> worldTick])
        BY <3>1 DEF StageTurns
      <4>2. spent \in SUBSET DOMAIN sched.open
        OBVIOUS
      <4> HIDE DEF spent
      <4> QED BY <4>1, <4>2, CloseAllTells
    <3>2. CASE DriverCloses
      <4>1. PICK id \in DOMAIN sched.open, withTick \in BOOLEAN : CloseDialog(id, worldTick, withTick)
        BY <3>2 DEF DriverCloses
      <4>2. \E at : sched' = CloseAll(sched, {id}, at)
        BY <4>1 DEF CloseDialog
      <4> QED BY <4>2, CloseAllTells
    <3> QED BY <1>3, <3>1, <3>2
  <2> QED BY <1>0, <2>1, IsProtocolStep, {} \in SUBSET DOMAIN sched.open, {} \in SUBSET Ids
<1>4. CASE RecordTurns
  <2>1. PICK said : sched' = RecordAll(sched, StillOpen(said), worldTick)
    BY <1>4 DEF RecordTurns
  <2>2. \A t \in StillOpen(said) : t.id \in DOMAIN sched.open
    BY DEF StillOpen
  <2>3. PICK spoken \in SUBSET DOMAIN sched.open :
          /\ DOMAIN sched'.open = DOMAIN sched.open
          /\ sched'.wire = Told(sched.wire, {}, spoken, {})
    BY <2>1, <2>2, RecordAllTells
  <2> QED BY <1>0, <2>3, IsProtocolStep, {} \in SUBSET DOMAIN sched.open, {} \in SUBSET Ids
<1>5. CASE DriverInitiates
  <2>1. PICK a \in Agents, b \in Agents : a # b /\ sched' = Admit(sched, {<<a, b>>}, worldTick)
    BY <1>5 DEF DriverInitiates, ScheduleInitiate, MayInitiate
  <2> DEFINE starts == {<<a, b>>}
  <2>2. starts \in SUBSET (Agents \X Agents) /\ \A st \in starts : st[1] # st[2]
    BY <2>1
  <2>3. sched' = Admit(sched, starts, worldTick)
    BY <2>1
  <2> HIDE DEF starts
  <2>4. PICK started \in SUBSET Ids :
          /\ started \cap DOMAIN sched.wire = {}
          /\ DOMAIN sched'.open = DOMAIN sched.open \cup started
          /\ sched'.wire = Told(sched.wire, started, {}, {})
    BY <2>2, <2>3, AdmitTells DEF IInv
  <2> QED BY <1>0, <2>4, IsProtocolStep, {} \in SUBSET DOMAIN sched.open
<1> QED
  BY <1>1, <1>2, <1>3, <1>4, <1>5
  DEF Next, RunLoop, Driver, StepAgents, DriverFlipsMode, FlipGolden, vars

\* Whoever consumes the envelopes sees every dialog announced once under an id of
\* its own, then its turns, then one close, and never two dialogs of a pair at a
\* time: for any agents, budgets, cooldowns, timeouts and driver.
THEOREM ProtocolImplemented == Spec => ImplementsProtocol
<1>1. Init => Protocol!Init
  BY DEF Init, SchedulerInit, Protocol!Init
<1>2. IInv /\ [Next]_vars => [Protocol!Next]_(Protocol!vars)
  BY NextIsProtocol
<1> QED BY <1>1, <1>2, InductiveInvariant, PTL DEF Spec, ImplementsProtocol, Protocol!Spec

-----------------------------------------------------------------------------
(* Cooldowns and turns in flight. *)

\* A cooldown that is over is one of at least the prescribed length.
LEMMA OverMeansLong ==
    ASSUME NEW s, SchedulerOK(s), NEW p, NEW tick \in Nat,
           ~ CoolingDown(s, p, tick), p \in DOMAIN s.lastClose
    PROVE  tick - s.lastClose[p] >= EffectiveCooldown
<1>1. s.lastClose[p] \in Nat
  BY DEF SchedulerOK
<1>2. EffectiveCooldown \in Nat
  BY SchedulerAssumption DEF EffectiveCooldown
<1> QED BY <1>1, <1>2 DEF CoolingDown

\* No interleaving of the run loop and of a driver opens a dialog of a pair whose
\* cooldown is running, outside the golden phase: for any cooldowns and timeouts.
THEOREM CooldownAlwaysKept == Spec => CooldownKept
<1> DEFINE Kept == \A d \in DOMAIN sched'.open \ DOMAIN sched.open :
                      (~ golden /\ d[1] \in DOMAIN sched'.lastClose) =>
                          worldTick - sched'.lastClose[d[1]] >= EffectiveCooldown
<1>1. ASSUME IInv, [Next]_vars PROVE [Kept]_vars
  <2> SUFFICES ASSUME NEW d \in DOMAIN sched'.open \ DOMAIN sched.open,
                      ~ golden, d[1] \in DOMAIN sched'.lastClose
               PROVE  worldTick - sched'.lastClose[d[1]] >= EffectiveCooldown
    OBVIOUS
  <2>0. SchedulerOK(sched') /\ worldTick \in Nat
    BY <1>1, NextIInv DEF IInv, SchedulerInv
  <2>1. CASE UNCHANGED sched
    BY <2>1
  <2>2. CASE RunDialogTick
    <3>1. PICK view \in [Registered -> Zones] : Tick(worldTick, view)
      BY <2>2 DEF RunDialogTick
    <3>2. PICK ended \in SUBSET DOMAIN sched.open, started \in SUBSET Ids :
            /\ DOMAIN sched'.open = (DOMAIN sched.open \ ended) \cup started
            /\ \A e \in started : ~ CoolingDown(sched', e[1], worldTick)
      BY <1>1, <3>1, TickTells
    <3>3. ~ CoolingDown(sched', d[1], worldTick)
      BY <3>2
    <3> QED BY <2>0, <3>3, OverMeansLong
  <2>3. CASE StageTurns \/ DriverCloses
    <3>1. \E ids, at : sched' = CloseAll(sched, ids, at)
      BY <2>3 DEF StageTurns, DriverCloses, CloseDialog
    <3>2. DOMAIN sched'.open \subseteq DOMAIN sched.open
      BY <3>1, CloseAllTells
    <3> QED BY <3>2
  <2>4. CASE RecordTurns
    <3>1. PICK said : sched' = RecordAll(sched, StillOpen(said), worldTick)
      BY <2>4 DEF RecordTurns
    <3>2. \A t \in StillOpen(said) : t.id \in DOMAIN sched.open
      BY DEF StillOpen
    <3>3. DOMAIN sched'.open = DOMAIN sched.open
      BY <3>1, <3>2, RecordAllTells
    <3> QED BY <3>3
  <2>5. CASE DriverInitiates
    <3>1. PICK a \in Agents, b \in Agents :
            /\ a # b
            /\ sched' = Admit(sched, {<<a, b>>}, worldTick)
            /\ ~ CoolingDown(sched, {a, b}, worldTick)
      BY <2>5 DEF DriverInitiates, ScheduleInitiate, MayInitiate
    <3> DEFINE starts == {<<a, b>>}
    <3>2. starts \in SUBSET (Agents \X Agents) /\ \A st \in starts : st[1] # st[2] /\ {st[1], st[2]} = {a, b}
      BY <3>1
    <3>3. sched' = Admit(sched, starts, worldTick)
      BY <3>1
    <3> HIDE DEF starts
    <3>4. PICK started \in SUBSET Ids :
            /\ \A e \in started : \E st \in starts : e[1] = {st[1], st[2]}
            /\ DOMAIN sched'.open = DOMAIN sched.open \cup started
            /\ sched'.lastClose = sched.lastClose
      BY <1>1, <3>2, <3>3, AdmitTells DEF IInv
    <3>5. d[1] = {a, b}
      BY <3>2, <3>4
    <3>6. ~ CoolingDown(sched', d[1], worldTick)
      BY <3>1, <3>4, <3>5 DEF CoolingDown
    <3> QED BY <2>0, <3>6, OverMeansLong
  <2> QED
    BY <1>1, <2>1, <2>2, <2>3, <2>4, <2>5
    DEF Next, RunLoop, Driver, StepAgents, DriverFlipsMode, FlipGolden, vars
<1> QED BY <1>1, InductiveInvariant, PTL DEF Spec, CooldownKept

\* Turns are in flight while their generators are awaited, and for dialogs that
\* were announced: an id a driver's new dialog gets is none of theirs.
InFlightInv ==
    /\ pc # "gather" => pending = {}
    /\ \A t \in pending : t.id \in DOMAIN sched.wire
    /\ InFlightIsNext

\* No driver that opens or closes dialogs during the await makes a turn in
\* flight other than the next one of its dialog: for any agents and budgets.
THEOREM InFlightAlwaysNext == Spec => []InFlightIsNext
<1>1. Init => InFlightInv
  BY DEF Init, InFlightInv, InFlightIsNext
<1>2. ASSUME IInv, InFlightInv, [Next]_vars PROVE InFlightInv'
  <2>0. DOMAIN sched.open \subseteq DOMAIN sched.wire
    BY <1>2 DEF IInv, SchedulerInv, SchedulerOK
  <2>1. CASE RunDialogTick \/ StepAgents
    BY <1>2, <2>1 DEF RunDialogTick, StepAgents, InFlightInv, InFlightIsNext
  <2>2. CASE StageTurns
    <3> DEFINE known == {e \in DOMAIN sched.open : PairOf(sched.open[e]) \subseteq Registered}
               spent == {e \in known : Exhausted(sched.open[e])}
               at == [e \in spent |-> worldTick]
    <3>1. /\ sched' = CloseAll(sched, spent, at)
          /\ pending' = {Staged(d) : d \in known \ spent}
          /\ pc' = IF pending' = {} THEN "sleep" ELSE "gather"
      BY <2>2 DEF StageTurns
    <3>2. known \subseteq DOMAIN sched.open
      OBVIOUS
    <3> HIDE DEF known, spent, at
    <3>3. /\ DOMAIN sched'.open = DOMAIN sched.open \ spent
          /\ \A d \in DOMAIN sched.open \ spent : sched'.open[d] = sched.open[d]
          /\ sched'.wire = Told(sched.wire, {}, {}, spent)
      BY <3>1, CloseAllTells
    <3>4. DOMAIN sched'.wire = DOMAIN sched.wire
      BY <3>3 DEF Told
    <3>5. ASSUME NEW t \in pending'
          PROVE  /\ t.id \in known \ spent
                 /\ t.index = Len(sched.open[t.id].turns)
                 /\ t.speaker = NextSpeaker(sched.open[t.id])
                 /\ t = Staged(t.id)
      BY <3>1, <3>5 DEF Staged
    <3>6. InFlightIsNext'
      BY <3>2, <3>3, <3>5 DEF InFlightIsNext
    <3>7. \A t \in pending' : t.id \in DOMAIN sched'.wire
      BY <2>0, <3>2, <3>5, <3>4
    <3> QED BY <3>1, <3>6, <3>7 DEF InFlightInv
  <2>3. CASE RecordTurns
    BY <2>3 DEF RecordTurns, InFlightInv, InFlightIsNext
  <2>4. CASE DriverInitiates
    <3>1. PICK a \in Agents, b \in Agents : a # b /\ sched' = Admit(sched, {<<a, b>>}, worldTick)
      BY <2>4 DEF DriverInitiates, ScheduleInitiate, MayInitiate
    <3> DEFINE starts == {<<a, b>>}
    <3>2. starts \in SUBSET (Agents \X Agents) /\ \A st \in starts : st[1] # st[2]
      BY <3>1
    <3>3. sched' = Admit(sched, starts, worldTick)
      BY <3>1
    <3> HIDE DEF starts
    <3>4. PICK started \in SUBSET Ids :
            /\ started \cap DOMAIN sched.wire = {}
            /\ DOMAIN sched'.open = DOMAIN sched.open \cup started
            /\ \A d \in DOMAIN sched.open : sched'.open[d] = sched.open[d]
            /\ sched'.wire = Told(sched.wire, started, {}, {})
      BY <1>2, <3>2, <3>3, AdmitTells DEF IInv
    <3>5. DOMAIN sched'.wire = DOMAIN sched.wire \cup started
      BY <3>4 DEF Told
    <3>6. pending' = pending /\ pc' = pc
      BY <2>4 DEF DriverInitiates
    <3>7. ASSUME NEW t \in pending', t.id \in DOMAIN sched'.open
          PROVE  /\ t.id \in DOMAIN sched.open
                 /\ sched'.open[t.id] = sched.open[t.id]
      BY <1>2, <3>4, <3>6, <3>7 DEF InFlightInv
    <3> QED BY <1>2, <3>5, <3>6, <3>7 DEF InFlightInv, InFlightIsNext
  <2>5. CASE DriverCloses
    <3>1. \E ids, at : sched' = CloseAll(sched, ids, at)
      BY <2>5 DEF DriverCloses, CloseDialog
    <3>2. /\ DOMAIN sched'.open \subseteq DOMAIN sched.open
          /\ \A d \in DOMAIN sched'.open : sched'.open[d] = sched.open[d]
          /\ \E ids : sched'.wire = Told(sched.wire, {}, {}, ids)
      BY <3>1, CloseAllTells
    <3>3. DOMAIN sched'.wire = DOMAIN sched.wire
      BY <3>2 DEF Told
    <3>4. pending' = pending /\ pc' = pc
      BY <2>5 DEF DriverCloses
    <3> QED BY <1>2, <3>2, <3>4, <3>3 DEF InFlightInv, InFlightIsNext
  <2>6. CASE DriverFlipsMode \/ UNCHANGED vars
    BY <1>2, <2>6 DEF DriverFlipsMode, FlipGolden, vars, InFlightInv, InFlightIsNext
  <2> QED
    BY <1>2, <2>1, <2>2, <2>3, <2>4, <2>5, <2>6 DEF Next, RunLoop, Driver
<1>3. InFlightInv => InFlightIsNext
  BY DEF InFlightInv
<1> QED BY <1>1, <1>2, <1>3, InductiveInvariant, PTL DEF Spec

=============================================================================
