--------------------------- MODULE DialogScheduler ---------------------------
(***************************************************************************)
(* InMemoryDialogScheduler (integration/dialog.py): admits dialogs between *)
(* pairs of agents, keeps their transcripts and closes them.               *)
(*                                                                         *)
(* The three dictionaries of the class are fields of one record:           *)
(*    open       _open: the open dialogs by id                             *)
(*    pairToId   _pair_to_id: the open dialog's id by unordered pair       *)
(*    lastClose  _last_close_tick: the cooldown anchor by pair             *)
(* and two fields record what leaves the scheduler:                        *)
(*    wire       per dialog, the kinds of the envelopes emitted so far     *)
(*    opened     how many dialogs a pair has had (ids are never reused)    *)
(* Every operation is a function of that record, so that tick(), which     *)
(* closes and then admits in one synchronous call, is their composition.   *)
(*                                                                         *)
(* A dialog id (8 hex digits of a uuid4, or 32 bits of the pair's RNG)     *)
(* is modelled as the pair and its ordinal: two ids never collide.         *)
(***************************************************************************)
EXTENDS Integers, Sequences, FiniteSets

CONSTANTS
    Agents,              \* agent ids, integers: the code sorts agents by id
    Zones,
    ReflectiveZones,     \* _REFLECTIVE_ZONES
    COOLDOWN_TICKS,
    COOLDOWN_TICKS_EVAL,
    TIMEOUT_TICKS,
    EvalNaturalMode      \* eval_natural_mode, fixed at construction

ASSUME SchedulerAssumption ==
    /\ Agents \subseteq Int
    /\ ReflectiveZones \subseteq Zones
    /\ COOLDOWN_TICKS \in Nat \ {0}
    /\ COOLDOWN_TICKS_EVAL \in Nat \ {0}
    /\ TIMEOUT_TICKS \in Nat \ {0}
    /\ EvalNaturalMode \in BOOLEAN

VARIABLES
    sched,               \* the scheduler's state, see above
    golden               \* golden_baseline_mode, flipped by the driver

Pairs == {p \in SUBSET Agents : \E a, b \in p : a # b /\ p = {a, b}}

PairOf(dialog) == {dialog.initiator, dialog.target}

DialogId(s, p) == <<p, s.opened[p] + 1>>

Ids == Pairs \X (Nat \ {0})

Turn == [index : Nat, speaker : Agents]

Dialog == [initiator : Agents, target : Agents,
           openedTick : Nat, lastActivity : Nat, turns : Seq(Turn)]

Kinds == {"initiate", "turn", "close"}

SchedulerOK(s) ==
    /\ DOMAIN s.open \subseteq DOMAIN s.wire
    /\ DOMAIN s.wire \subseteq Ids
    /\ DOMAIN s.pairToId \subseteq Pairs
    /\ DOMAIN s.lastClose \subseteq Pairs
    /\ s \in [open      : [DOMAIN s.open -> Dialog],
              pairToId  : [DOMAIN s.pairToId -> Ids],
              lastClose : [DOMAIN s.lastClose -> Nat],
              wire      : [DOMAIN s.wire -> Seq(Kinds)],
              opened    : [Pairs -> Nat]]

SchedulerInit ==
    /\ sched = [open |-> <<>>, pairToId |-> <<>>, lastClose |-> <<>>,
                wire |-> <<>>, opened |-> [p \in Pairs |-> 0]]
    /\ golden \in {g \in BOOLEAN : ~ (g /\ EvalNaturalMode)}

-----------------------------------------------------------------------------
(* Admission. *)

EffectiveCooldown == IF EvalNaturalMode THEN COOLDOWN_TICKS_EVAL ELSE COOLDOWN_TICKS

\* Faulty variant: the cooldown ends a tick early.
CoolingDownShort(s, p, tick) ==
    p \in DOMAIN s.lastClose /\ tick - s.lastClose[p] < EffectiveCooldown - 1

CoolingDown(s, p, tick) ==
    p \in DOMAIN s.lastClose /\ tick - s.lastClose[p] < EffectiveCooldown

\* Faulty variant: the pair's open dialog is not looked up.
MayInitiateTwice(s, a, b, zone, tick) ==
    /\ a # b
    /\ zone \in ReflectiveZones \/ golden \/ EvalNaturalMode
    /\ ~ CoolingDown(s, {a, b}, tick) \/ golden

\* The gates of schedule_initiate, past which it always admits.
MayInitiate(s, a, b, zone, tick) ==
    /\ a # b
    /\ zone \in ReflectiveZones \/ golden \/ EvalNaturalMode
    /\ {a, b} \notin DOMAIN s.pairToId
    /\ ~ CoolingDown(s, {a, b}, tick) \/ golden

NewDialog(initiator, target, tick) ==
    [initiator |-> initiator, target |-> target, openedTick |-> tick,
     lastActivity |-> tick, turns |-> <<>>]

Announce(wire, ids) ==
    [d \in DOMAIN wire \cup ids |-> IF d \in ids THEN <<"initiate">> ELSE wire[d]]

\* What schedule_initiate writes for every <<initiator, target>> of `starts',
\* which holds at most one orientation of a pair.
Admit(s, starts, tick) ==
    LET pairs  == {{st[1], st[2]} : st \in starts}
        ids    == {DialogId(s, p) : p \in pairs}
        New(d) == LET st == CHOOSE st \in starts : {st[1], st[2]} = d[1]
                  IN  NewDialog(st[1], st[2], tick)
    IN  [open      |-> [d \in DOMAIN s.open \cup ids |->
                            IF d \in ids THEN New(d) ELSE s.open[d]],
         pairToId  |-> [p \in DOMAIN s.pairToId \cup pairs |->
                            IF p \in pairs THEN DialogId(s, p) ELSE s.pairToId[p]],
         lastClose |-> s.lastClose,
         wire      |-> Announce(s.wire, ids),
         opened    |-> [p \in Pairs |-> s.opened[p] + (IF p \in pairs THEN 1 ELSE 0)]]

-----------------------------------------------------------------------------
(* Turns and closes. *)

\* The dialog after a turn: record_turn takes the turn's tick for its activity.
Spoken(dialog, turn, tick) ==
    [initiator    |-> dialog.initiator,
     target       |-> dialog.target,
     openedTick   |-> dialog.openedTick,
     lastActivity |-> tick,
     turns        |-> Append(dialog.turns, [index |-> turn.index, speaker |-> turn.speaker])]

\* record_turn and the runtime's inject_envelope for every turn of `said', a set
\* of [id, index, speaker] with one turn per dialog, all of open dialogs.
RecordAll(s, said, tick) ==
    LET ids   == {t.id : t \in said}
        Of(d) == CHOOSE t \in said : t.id = d
    IN  [open      |-> [d \in DOMAIN s.open |->
                            IF d \in ids THEN Spoken(s.open[d], Of(d), tick) ELSE s.open[d]],
         pairToId  |-> s.pairToId,
         lastClose |-> s.lastClose,
         wire      |-> [d \in DOMAIN s.wire |->
                            IF d \in ids THEN Append(s.wire[d], "turn") ELSE s.wire[d]],
         opened    |-> s.opened]

\* Faulty variant: a closed dialog keeps its entry in the pair index.
UnindexNone(index, pairs) == index

Unindex(index, pairs) == [p \in DOMAIN index \ pairs |-> index[p]]

\* _close_dialog_at for every id of `ids'; at[id] is the tick it is closed at.
CloseAll(s, ids, at) ==
    LET pairs == {PairOf(s.open[d]) : d \in ids}
    IN  [open      |-> [d \in DOMAIN s.open \ ids |-> s.open[d]],
         pairToId  |-> Unindex(s.pairToId, pairs),
         lastClose |-> [p \in DOMAIN s.lastClose \cup pairs |->
                            IF p \in pairs
                            THEN at[CHOOSE d \in ids : PairOf(s.open[d]) = p]
                            ELSE s.lastClose[p]],
         wire      |-> [d \in DOMAIN s.wire |->
                            IF d \in ids THEN Append(s.wire[d], "close") ELSE s.wire[d]],
         opened    |-> s.opened]

\* Faulty variant: only dialogs nobody spoke in time out.
ExpiredUnstarted(s, worldTick) ==
    IF golden THEN {}
    ELSE {d \in DOMAIN s.open : /\ s.open[d].turns = <<>>
                                /\ worldTick - s.open[d].lastActivity >= TIMEOUT_TICKS}

Expired(s, worldTick) ==
    IF golden THEN {}
    ELSE {d \in DOMAIN s.open : worldTick - s.open[d].lastActivity >= TIMEOUT_TICKS}

CloseTimedOut(s, worldTick) ==
    LET expired == Expired(s, worldTick)
    IN  CloseAll(s, expired, [d \in expired |-> worldTick])

\* The pairs tick() draws for, lower id first, each of which the draw may admit.
\* `view' is the zone of every agent of the runtime.
Drawn(s, view, worldTick) ==
    {st \in (DOMAIN view) \X (DOMAIN view) :
        LET a == st[1]
            b == st[2]
        IN  /\ a < b
            /\ EvalNaturalMode \/ (view[a] = view[b] /\ view[a] \in ReflectiveZones)
            /\ {a, b} \notin DOMAIN s.pairToId
            /\ ~ CoolingDown(s, {a, b}, worldTick)
            /\ MayInitiate(s, a, b, view[a], worldTick)}

-----------------------------------------------------------------------------
(* The operations of the class. *)

ScheduleInitiate(a, b, zone, tick) ==
    /\ MayInitiate(sched, a, b, zone, tick)
    /\ sched' = Admit(sched, {<<a, b>>}, tick)
    /\ UNCHANGED golden

\* close_dialog with the current tick, or without one: the anchor is then the
\* dialog's last activity.
CloseDialog(id, tick, withTick) ==
    /\ id \in DOMAIN sched.open
    /\ sched' = CloseAll(sched, {id},
                    [d \in {id} |-> IF withTick THEN tick ELSE sched.open[d].lastActivity])
    /\ UNCHANGED golden

Tick(worldTick, view) ==
    LET reaped == CloseTimedOut(sched, worldTick)
    IN  /\ \E starts \in SUBSET Drawn(reaped, view, worldTick) :
              sched' = Admit(reaped, starts, worldTick)
        /\ UNCHANGED golden

FlipGolden ==
    /\ ~ EvalNaturalMode
    /\ golden' = ~ golden
    /\ UNCHANGED sched

=============================================================================
