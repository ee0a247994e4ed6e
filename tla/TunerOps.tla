------------------------------ MODULE TunerOps ------------------------------
(***************************************************************************)
(* The parallelism tuner of one backend, services/scheduler/tuner.rs, as   *)
(* operators on one record: the methods of Tuner take the record and       *)
(* answer the record they leave behind.                                    *)
(*                                                                         *)
(* Time is relative.  dueIn is next_due - now in ticks, never below zero,  *)
(* so that a behaviour may last for ever over finitely many states.        *)
(* Throughput is data: whether a finished trial measured well enough is    *)
(* the parameter `accepted` of OnComplete.                                 *)
(***************************************************************************)
EXTENDS Integers, Sequences, FiniteSets

CONSTANTS FirstExperiment,   \* ticks before the first experiment is due
          ExperimentCap,     \* the longest interval between experiments
          SampleCapacity,    \* completed calls remembered for baselines
          HistoryCapacity    \* level changes kept for the snapshot

ASSUME TunerAssumption ==
    /\ FirstExperiment \in Nat \ {0}
    /\ ExperimentCap \in Nat \ {0}
    /\ FirstExperiment <= ExperimentCap
    /\ SampleCapacity \in Nat \ {0}
    /\ HistoryCapacity \in Nat \ {0}

Outcome == {"ok", "failed", "cancelled"}
Direction == {"up", "down"}
ChangeReason == {"trial", "kept", "rejected", "failed"}

\* Option<Trial>::None.
NoTrial == [incumbent |-> 0, level |-> 0, window |-> 0,
            dispatched |-> {}, completed |-> 0]

NewTuner(ceiling) ==
    [ceiling   |-> ceiling,
     level     |-> 1,
     direction |-> "up",
     interval  |-> FirstExperiment,
     dueIn     |-> FirstExperiment,
     trial     |-> NoTrial,
     samples   |-> <<>>,
     history   |-> <<>>]

\* VecDeque kept at a capacity: the oldest entry makes room.
PushRing(ring, capacity, entry) ==
    Append(IF Len(ring) = capacity THEN Tail(ring) ELSE ring, entry)

-----------------------------------------------------------------------------
Flipped(direction) == IF direction = "up" THEN "down" ELSE "up"

Stepped(t, direction) == IF direction = "up" THEN t.level + 1 ELSE t.level - 1

\* Slip: the step down is not held to one call at a time.
CanStepUnfloored(t, direction) == Stepped(t, direction) <= t.ceiling

CanStep(t, direction) == Stepped(t, direction) \in 1..t.ceiling

\* target() writes the direction back: it turns at either end of the range.
Turned(t) == IF CanStep(t, t.direction) THEN t.direction ELSE Flipped(t.direction)

Target(t) == IF CanStep(t, Turned(t)) THEN Stepped(t, Turned(t)) ELSE t.level

Window(target) == IF target > 2 THEN target - 1 ELSE 1

\* baseline() answers Some: the incumbent finished enough calls to compare.
HasBaseline(t, window) ==
    Cardinality({i \in DOMAIN t.samples :
                    t.samples[i] = [level |-> t.level, outcome |-> "ok"]}) >= window

\* Slip: the level is assigned before the change is recorded.
ChangeAfterAssignment(t, to, reason) ==
    PushRing(t.history, HistoryCapacity,
             [from |-> to, to |-> to, reason |-> reason])

Change(t, to, reason) ==
    PushRing(t.history, HistoryCapacity,
             [from |-> t.level, to |-> to, reason |-> reason])

Poll(t, backlog, paused) ==
    LET target == Target(t)
        turned == [t EXCEPT !.direction = Turned(t)]
    IN  IF t.trial # NoTrial \/ t.ceiling <= 1 \/ t.dueIn > 0 \/ paused
        THEN t
        ELSE IF backlog < target \/ ~HasBaseline(t, Window(target))
             THEN turned
             ELSE [turned EXCEPT
                     !.history = Change(t, target, "trial"),
                     !.trial = [incumbent |-> t.level, level |-> target,
                                window |-> Window(target),
                                dispatched |-> {}, completed |-> 0],
                     !.level = target]

OnDispatch(t, id) ==
    IF t.trial # NoTrial /\ Cardinality(t.trial.dispatched) < t.trial.window
    THEN [t EXCEPT !.trial.dispatched = @ \cup {id}]
    ELSE t

\* Slip: a rejected trial does not turn the climb.
ConcludeWithoutFlip(t, accepted, reason) ==
    LET to == IF accepted THEN t.trial.level ELSE t.trial.incumbent
    IN  [t EXCEPT !.history = Change(t, to, reason),
                  !.level = to,
                  !.interval = ExperimentCap,
                  !.dueIn = ExperimentCap,
                  !.trial = NoTrial]

Conclude(t, accepted, reason) ==
    LET to == IF accepted THEN t.trial.level ELSE t.trial.incumbent
        interval == IF 2 * t.interval < ExperimentCap THEN 2 * t.interval
                                                      ELSE ExperimentCap
    IN  [t EXCEPT !.history = Change(t, to, reason),
                  !.level = to,
                  !.direction = IF accepted THEN @ ELSE Flipped(@),
                  !.interval = interval,
                  !.dueIn = interval,
                  !.trial = NoTrial]

\* Slip: any call that completes during the trial is counted.
MeasuredAny(t, id) == [t EXCEPT !.trial.completed = @ + 1]

\* Slip: the calls of the window are not counted.
MeasuredNever(t, id) == t

\* A completed call that neither fails the trial nor ends its window.
Measured(t, id) ==
    IF id \in t.trial.dispatched THEN [t EXCEPT !.trial.completed = @ + 1] ELSE t

\* `level` is the one the call was dispatched under.
Sampled(t, level, outcome) ==
    [t EXCEPT !.samples = PushRing(@, SampleCapacity,
                                   [level |-> level, outcome |-> outcome])]

OnComplete(t, id, level, outcome, accepted) ==
    LET sampled == Sampled(t, level, outcome)
        measured == Measured(sampled, id)
    IN  IF t.trial = NoTrial THEN sampled
        ELSE IF outcome = "failed" THEN Conclude(sampled, FALSE, "failed")
        ELSE IF measured.trial.completed < measured.trial.window THEN measured
        ELSE Conclude(measured, accepted, IF accepted THEN "kept" ELSE "rejected")

\* One tick of the clock every instant is read from.
Elapse(t) == [t EXCEPT !.dueIn = IF @ > 0 THEN @ - 1 ELSE 0]
=============================================================================
