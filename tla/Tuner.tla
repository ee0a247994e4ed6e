------------------------------- MODULE Tuner -------------------------------
(***************************************************************************)
(* The tuner of one backend among the calls of its scheduler.  Every       *)
(* method is called under the scheduler's lock, so each is one action; the *)
(* environment is what Scheduler::step and Scheduler::finish promise: a    *)
(* call starts only below the level in force and completes once.           *)
(***************************************************************************)
EXTENDS TunerOps

CONSTANTS Ids,          \* call ids; one is reused when nothing remembers it
          Ceiling,      \* SchedulerConfig::ceiling
          MaxBacklog    \* bound: the longest backlog a poll is told of

ASSUME TunerEnvironment ==
    /\ IsFiniteSet(Ids)
    /\ Ceiling \in Nat \ {0}
    /\ MaxBacklog \in Nat

VARIABLES tuner,     \* the record of TunerOps
          running    \* the level each call was dispatched under, 0 if not running

vars == <<tuner, running>>

Running == {id \in Ids : running[id] > 0}

Init == /\ tuner = NewTuner(Ceiling)
        /\ running = [id \in Ids |-> 0]

\* The head of Scheduler::step.
DoPoll(backlog, paused) ==
    /\ backlog >= Cardinality(Running)
    /\ tuner' = Poll(tuner, backlog, paused)
    /\ UNCHANGED running

\* Queue::dispatch starts a call and step tells the tuner of it.
Dispatch(id) ==
    /\ id \notin Running \cup tuner.trial.dispatched
    /\ Cardinality(Running) < tuner.level
    /\ running' = [running EXCEPT ![id] = tuner.level]
    /\ tuner' = OnDispatch(tuner, id)

\* Scheduler::finish.
Complete(id, outcome, accepted) ==
    /\ id \in Running
    /\ tuner' = OnComplete(tuner, id, running[id], outcome, accepted)
    /\ running' = [running EXCEPT ![id] = 0]

Tick == /\ tuner.dueIn > 0
        /\ tuner' = Elapse(tuner)
        /\ UNCHANGED running

Next == \/ \E backlog \in 0..MaxBacklog, paused \in BOOLEAN : DoPoll(backlog, paused)
        \/ \E id \in Ids : Dispatch(id)
        \/ \E id \in Ids, outcome \in Outcome, accepted \in BOOLEAN :
              Complete(id, outcome, accepted)
        \/ Tick

\* A backend with work keeps starting calls, and every call it started ends:
\* it answers, fails, or its slot is dropped.
Fairness == /\ WF_vars(\E id \in Ids : Dispatch(id))
            /\ \A id \in Ids :
                  WF_vars(\E outcome \in Outcome, accepted \in BOOLEAN :
                            Complete(id, outcome, accepted))

Spec == Init /\ [][Next]_vars

FairSpec == Spec /\ Fairness

-----------------------------------------------------------------------------
SampleType == [level : 1..Ceiling, outcome : Outcome]

HistoryType == [from : 1..Ceiling, to : 1..Ceiling, reason : ChangeReason]

TrialType == [incumbent : Nat, level : Nat, window : Nat,
              dispatched : SUBSET Ids, completed : Nat]

TunerType ==
    [ceiling : {Ceiling}, level : 1..Ceiling, direction : Direction,
     interval : 1..ExperimentCap, dueIn : 0..ExperimentCap,
     trial : TrialType, samples : Seq(SampleType), history : Seq(HistoryType)]

\* Every field of Tuner holds what its Rust type and its clamps allow: the
\* level and the levels of every sample and change stay in [1, ceiling].
TypeOK == /\ tuner \in TunerType
          /\ running \in [Ids -> 0..Ceiling]

\* A trial is one step off its incumbent, is the level in force, and counts
\* as completed exactly the calls of its window that no longer run: a call
\* that ends in any way is counted, and counted once, so a trial cannot wait
\* for a call that is gone (tuner.rs on_dispatch, on_complete).
TrialAccounted ==
    LET trial == tuner.trial IN
    trial # NoTrial =>
        /\ trial.level = tuner.level
        /\ trial.incumbent \in 1..Ceiling
        /\ trial.level - trial.incumbent \in {-1, 1}
        /\ trial.window = Window(trial.level)
        /\ Cardinality(trial.dispatched) <= trial.window
        /\ trial.completed = Cardinality(trial.dispatched \ Running)
        /\ trial.completed < trial.window

\* Every change begins at the level the one before it left.
Linked(h) == \A i \in 1..(Len(h) - 1) : h[i].to = h[i + 1].from

\* The snapshot's history tells one unbroken story: every change begins at
\* the level the last one left, the newest leaves the level in force, and it
\* is a "trial" exactly while a trial runs (tuner.rs change, conclude).
HistoryConnected ==
    LET h == tuner.history IN
    /\ Len(h) <= HistoryCapacity
    /\ Linked(h)
    /\ Len(h) > 0 => h[Len(h)].to = tuner.level
    /\ tuner.trial # NoTrial <=> Len(h) > 0 /\ h[Len(h)].reason = "trial"

\* Hill climbing: between the two ends, a neighbour level that was rejected
\* is not the next one tried from the same incumbent; the other one is
\* (tuner.rs conclude flips, target turns only at the ends).
RejectedIsNotRetriedNext ==
    LET h == tuner.history IN
    \A i \in 1..(Len(h) - 2) :
        /\ h[i].reason = "trial" /\ h[i + 2].reason = "trial"
        /\ h[i + 1].reason \in {"rejected", "failed"}
        /\ h[i].from \in 2..(Ceiling - 1)
        => h[i + 2].to # h[i].to

\* The level changes only by opening a trial or by ending one, a trial that
\* ends early ends at its incumbent, and one that is judged has seen its
\* whole window dispatched and completed (tuner.rs on_complete, conclude).
LevelStep ==
    LET trial == tuner.trial IN
    /\ tuner'.level # tuner.level => (trial = NoTrial) # (tuner'.trial = NoTrial)
    /\ trial # NoTrial /\ tuner'.trial = NoTrial =>
         \/ /\ tuner'.level = trial.incumbent
            /\ tuner'.samples[Len(tuner'.samples)].outcome = "failed"
         \/ /\ Cardinality(trial.dispatched) = trial.window
            /\ \A id \in trial.dispatched : running'[id] = 0

LevelIsEarned == [][LevelStep]_vars

\* While the scheduler has calls to run every trial is decided: no order of
\* completions, failures and cancellations leaves one open for ever.
TrialsEnd == (tuner.trial # NoTrial) ~> (tuner.trial = NoTrial)

=============================================================================
