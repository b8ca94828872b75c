---------------------------- MODULE DialogRuntime ----------------------------
(***************************************************************************)
(* The dialog half of WorldRuntime._on_cognition_tick (world/tick.py): the *)
(* run loop's task advances the agents, runs the scheduler's tick, stages  *)
(* one turn per open dialog and awaits their generation.                   *)
(*                                                                         *)
(* The handler gives up control only while it sleeps for the next event    *)
(* and while it awaits the generators (pc = "gather").  There, and only    *)
(* there, another task of the event loop (a driver) may use the scheduler. *)
(***************************************************************************)
EXTENDS DialogScheduler, FiniteSetsExt

CONSTANTS
    Registered,      \* the agents of the runtime, a subset of Agents
    Budget,          \* dialog_turn_budget of every registered agent
    External,        \* whether a driver uses the scheduler beside the run loop
    MaxTick,         \* bound: the world ticks explored
    MaxDialogs       \* bound: the dialogs explored

ASSUME RuntimeAssumption ==
    /\ Registered \subseteq Agents
    /\ Budget \in [Registered -> Nat]
    /\ External \in BOOLEAN
    /\ MaxTick \in Nat
    /\ MaxDialogs \in Nat

VARIABLES
    worldTick,       \* _current_world_tick(): the highest tick of any agent
    pc,              \* where the cognition handler is
    pending          \* the turns being generated: [id, index, speaker]

vars == <<sched, golden, worldTick, pc, pending>>

StagedTurn == [id : Ids, index : Nat, speaker : Agents]

TypeOK ==
    /\ SchedulerOK(sched)
    /\ golden \in BOOLEAN
    /\ worldTick \in Nat
    /\ pc \in {"sleep", "dialogTick", "stage", "gather"}
    /\ pending \subseteq StagedTurn

Init ==
    /\ SchedulerInit
    /\ worldTick = 0
    /\ pc = "sleep"
    /\ pending = {}

WithinBounds == MapThenSumSet(LAMBDA p : sched'.opened[p], Pairs) <= MaxDialogs

-----------------------------------------------------------------------------
(* The run loop's task. *)

\* The agents that were due have stepped.  The highest tick moves on by one if
\* an agent that had it completed its step, and stays otherwise: no agent was
\* due, only laggards were, or the steps raised.
StepAgents ==
    /\ pc = "sleep"
    /\ worldTick' \in {t \in {worldTick, worldTick + 1} : t <= MaxTick}
    /\ pc' = "dialogTick"
    /\ UNCHANGED <<sched, golden, pending>>

RunDialogTick ==
    /\ pc = "dialogTick"
    /\ \E view \in [Registered -> Zones] : Tick(worldTick, view)
    /\ WithinBounds
    /\ pc' = "stage"
    /\ UNCHANGED <<worldTick, pending>>

NextSpeaker(dialog) ==
    IF Len(dialog.turns) % 2 = 0 THEN dialog.initiator ELSE dialog.target

Exhausted(dialog) == Len(dialog.turns) >= Budget[NextSpeaker(dialog)]

\* Faulty variant: turns numbered from one.
StagedFromOne(d) ==
    [id |-> d, index |-> Len(sched.open[d].turns) + 1, speaker |-> NextSpeaker(sched.open[d])]

Staged(d) ==
    [id |-> d, index |-> Len(sched.open[d].turns), speaker |-> NextSpeaker(sched.open[d])]

\* _stage_dialog_turns: dialogs with an agent the runtime does not know are
\* skipped, exhausted ones are closed, the rest get a turn.
StageTurns ==
    /\ pc = "stage"
    /\ LET known == {d \in DOMAIN sched.open : PairOf(sched.open[d]) \subseteq Registered}
           spent == {d \in known : Exhausted(sched.open[d])}
       IN  /\ sched' = CloseAll(sched, spent, [d \in spent |-> worldTick])
           /\ pending' = {Staged(d) : d \in known \ spent}
    /\ pc' = IF pending' = {} THEN "sleep" ELSE "gather"
    /\ UNCHANGED <<golden, worldTick>>

\* record_turn raises KeyError for the others, which are dropped.
StillOpen(turns) == {t \in turns : t.id \in DOMAIN sched.open}

\* The gather is over.  A generator that raised or declined leaves its dialog
\* alone.
RecordTurns ==
    /\ pc = "gather"
    /\ \E produced \in SUBSET pending :
          sched' = RecordAll(sched, StillOpen(produced), worldTick)
    /\ pending' = {}
    /\ pc' = "sleep"
    /\ UNCHANGED <<golden, worldTick>>

-----------------------------------------------------------------------------
(* A driver, in another task of the same event loop. *)

AtAwait == pc \in {"sleep", "gather"}

DriverInitiates ==
    /\ External /\ AtAwait
    /\ \E a, b \in Agents, zone \in Zones : ScheduleInitiate(a, b, zone, worldTick)
    /\ WithinBounds
    /\ UNCHANGED <<worldTick, pc, pending>>

DriverCloses ==
    /\ External /\ AtAwait
    /\ \E id \in DOMAIN sched.open, withTick \in BOOLEAN : CloseDialog(id, worldTick, withTick)
    /\ UNCHANGED <<worldTick, pc, pending>>

DriverFlipsMode ==
    /\ External /\ AtAwait
    /\ FlipGolden
    /\ UNCHANGED <<worldTick, pc, pending>>

-----------------------------------------------------------------------------

RunLoop == StepAgents \/ RunDialogTick \/ StageTurns \/ RecordTurns

Driver == DriverInitiates \/ DriverCloses \/ DriverFlipsMode

Next == RunLoop \/ Driver

Spec == Init /\ [][Next]_vars

\* The run loop's task is scheduled by the event loop for as long as it can run.
LiveSpec == Spec /\ WF_vars(RunLoop)

\* Besides, some agent with the highest tick keeps completing its steps: even a
\* step whose LLM call fails advances the tick (CognitionCycle._fallback).
ProgressSpec == LiveSpec /\ SF_vars(StepAgents /\ worldTick' > worldTick)

-----------------------------------------------------------------------------
(* What is claimed of the dialog subsystem. *)

\* _open and _pair_to_id describe the same dialogs, one per pair: an index that
\* kept the id of a closed dialog would bar its pair from talking for ever.
IndexOK(s) ==
    /\ \A d \in DOMAIN s.open : /\ PairOf(s.open[d]) \in DOMAIN s.pairToId
                               /\ s.pairToId[PairOf(s.open[d])] = d
    /\ \A p \in DOMAIN s.pairToId : /\ s.pairToId[p] \in DOMAIN s.open
                                   /\ PairOf(s.open[s.pairToId[p]]) = p

IndexConsistent == IndexOK(sched)

\* Whatever is being generated for a dialog that is still open is that dialog's
\* next turn: no dialog has two turns in flight, none is generated twice.
InFlightIsNext ==
    \A t \in pending : t.id \in DOMAIN sched.open =>
        /\ t.index = Len(sched.open[t.id].turns)
        /\ t.speaker = NextSpeaker(sched.open[t.id])
        /\ \A u \in pending : u.id = t.id => u = t

\* The wire is the one the consumers were promised (DialogProtocol).
Protocol == INSTANCE DialogProtocol
    WITH live <- DOMAIN sched.open, wire <- sched.wire

ImplementsProtocol == Protocol!Spec

\* Outside the golden phase a pair talks again only once its cooldown is over,
\* whichever of tick() and schedule_initiate opens the dialog, and also when the
\* pair's last dialog was closed in the golden phase.
CooldownKept ==
    [][\A d \in DOMAIN sched'.open \ DOMAIN sched.open :
          (~ golden /\ d[1] \in DOMAIN sched'.lastClose) =>
              worldTick - sched'.lastClose[d[1]] >= EffectiveCooldown]_vars

\* The longest a dialog can last: a turn may come as late as the timeout allows,
\* and no participant takes more turns than its budget.
LongestDialog(d) ==
    TIMEOUT_TICKS * (1 + 2 * Max({Budget[a] : a \in d[1] \cap Registered} \cup {0}))

\* Every dialog ends, whether its generator talks, declines or fails for ever: by
\* a speaker's budget, by the inactivity timeout, which the golden phase has
\* not, or by a driver.  Dialogs with too few ticks left before MaxTick are out of the claim.
DialogsClose ==
    \A d \in Pairs \X (1 .. MaxDialogs) :
        (/\ ~ golden
         /\ d \in DOMAIN sched.open
         /\ worldTick + LongestDialog(d) <= MaxTick)
        ~> golden \/ d \notin DOMAIN sched.open

-----------------------------------------------------------------------------
(* Claims of the documentation that the code does not keep. *)

\* schemas.py:1381 "the scheduler's "timeout", which is driven by wall-clock": an
\* open dialog ends as long as the run loop goes on.
TimeoutByWallClock ==
    \A d \in Pairs \X (1 .. MaxDialogs) :
        (~ golden /\ d \in DOMAIN sched.open) ~> d \notin DOMAIN sched.open

=============================================================================
