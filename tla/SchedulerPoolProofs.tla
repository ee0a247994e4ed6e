------------------------ MODULE SchedulerPoolProofs ------------------------
(***************************************************************************)
(* What the schedulers of a pool keep true for any number of backends,     *)
(* calls and rebalance passes, whatever the gate, the holds and the tuners *)
(* do in between.                                                          *)
(***************************************************************************)
EXTENDS SchedulerPool, FiniteLemmas

-----------------------------------------------------------------------------
(* The records of the state.                                               *)

SampleRecord == [level : 0..Ceiling, outcome : Outcome]

ChangeRecord == [from : 1..Ceiling, to : 1..Ceiling, reason : ChangeReason]

TrialRecord == [incumbent : 0..Ceiling, level : 0..Ceiling, window : Nat,
                dispatched : SUBSET Ids, completed : Nat]

TunerRecord ==
    [ceiling : {Ceiling}, level : 1..Ceiling, direction : Direction, interval : Nat,
     dueIn : Nat, trial : TrialRecord, samples : Seq(SampleRecord),
     history : Seq(ChangeRecord)]

\* A trial is between two levels of the range.
Sane(t) ==
    /\ t \in TunerRecord
    /\ t.trial # NoTrial => t.trial.incumbent \in 1..Ceiling /\ t.trial.level \in 1..Ceiling

StepRecord == [on : BOOLEAN, paused : BOOLEAN, held : BOOLEAN, for : Int, notify : BOOLEAN]

LoadRecord == [calls : Nat, level : Nat \ {0}, pace : Nat]

BeatRecord ==
    [pc : {"rest", "count", "read", "pick", "take", "put", "putting"},
     live : SUBSET Backends, unread : SUBSET Backends, budget : Nat,
     loads : [Backends -> LoadRecord], sources : SUBSET Backends,
     source : 0..NumBackends, target : 0..NumBackends, cargo : 0..MaxCalls]

Shape ==
    /\ waiting \in [Backends -> SUBSET Ids]
    /\ running \in [Backends -> SUBSET Ids]
    /\ runner \in [Ids -> [bucket : 0..(Ceiling - 1), level : 0..Ceiling]]
    /\ value \in [Ids -> Nat]
    /\ meta \in [Ids -> Metas]
    /\ tuner \in [Backends -> TunerRecord]
    /\ \A b \in Backends : Sane(tuner[b])
    /\ pace \in [Backends -> Paces]
    /\ hold \in [Backends -> Nat \cup {NoHold, Elapsed}]
    /\ step \in [Backends -> StepRecord]
    /\ future \in [Ids -> FutureType]
    /\ nextId \in 1..(MaxCalls + 1)
    /\ paused \in BOOLEAN
    /\ stale \in SUBSET Ids
    /\ timers \in SUBSET Nat
    /\ beat \in [Beats -> BeatRecord]

-----------------------------------------------------------------------------
(* The inductive invariant.                                                *)

\* A pass reads, picks and moves among its live members; it carries a call
\* only between its two locks.
Fits(r) ==
    /\ r.pc # "rest" => r.live # {}
    /\ r.pc \in {"count", "read"} => r.unread # {}
    /\ r.pc = "take" => r.sources # {} /\ r.target \in Backends
    /\ r.pc \in {"put", "putting"} => r.source \in Backends /\ r.target \in Backends
    /\ r.cargo # 0 <=> r.pc = "put"

Beating == \A k \in Beats : Fits(beat[k])

At(b) == waiting[b] \cup running[b]

Held(i) == (\E b \in Backends : i \in At(b)) \/ (\E k \in Beats : beat[k].cargo = i)

\* No call has two places.
Alone ==
    /\ \A b, c \in Backends : b # c => At(b) \cap At(c) = {}
    /\ \A b \in Backends : waiting[b] \cap running[b] = {}
    /\ \A k \in Beats, b \in Backends : beat[k].cargo \notin At(b)
    /\ \A k, l \in Beats : beat[k].cargo = beat[l].cargo /\ beat[k].cargo # 0 => k = l

\* Ids are given out in order.
Known ==
    \A i \in Ids :
        /\ future[i].pc = "none" <=> i >= nextId
        /\ i >= nextId => ~Held(i)

Awaited == {"enter", "register", "place", "placing", "scan", "await"}

\* What a future relies on: its call has a place, its slot a bucket.
Kept ==
    \A i \in Ids :
        /\ future[i].pc \in Awaited => Held(i)
        /\ future[i].pc \in {"slot", "dropFinish"} => i \in running[future[i].at]

\* A locked method answers a future whose call is here, or a beat that put
\* a call here.
Locks ==
    \A b \in Backends :
        LET n == step[b].for IN
        step[b].on =>
            /\ n > 0 => n \in Ids /\ n \in At(b) /\ future[n].pc \in {"enter", "placing"}
            /\ n < 0 => -n \in Beats /\ beat[-n].pc = "putting" /\ beat[-n].target = b

Inv == Shape /\ Beating /\ Alone /\ Known /\ Kept /\ Locks

-----------------------------------------------------------------------------
(* The tuner's methods.                                                    *)

\* A ring keeps holding what it held, whichever end it drops.
LEMMA PushRingType ==
    ASSUME NEW S, NEW ring \in Seq(S), NEW capacity \in Nat \ {0}, NEW entry \in S
    PROVE  PushRing(ring, capacity, entry) \in Seq(S)
BY DEF PushRing

\* A tuner starts sane,
LEMMA NewTunerSane == Sane(NewTuner(Ceiling))
BY PoolAssumption, TunerAssumption
   DEF NewTuner, Sane, TunerRecord, TrialRecord, NoTrial, Direction

\* stays so where an experiment begins,
LEMMA PollSane ==
    ASSUME NEW t, Sane(t), NEW backlog, NEW isPaused
    PROVE  Sane(Poll(t, backlog, isPaused))
<1> DEFINE trial == [incumbent |-> t.level, level |-> Target(t), window |-> Window(Target(t)),
                     dispatched |-> {}, completed |-> 0]
           turned == [t EXCEPT !.direction = Turned(t)]
           opened == [turned EXCEPT !.history = Change(t, Target(t), "trial")]
           tried == [opened EXCEPT !.trial = trial]
           moved == [tried EXCEPT !.level = Target(t)]
<1>1. t \in TunerRecord
  BY DEF Sane
<1>2. Turned(t) \in Direction /\ Target(t) \in 1..Ceiling /\ t.level \in 1..Ceiling
  BY <1>1, PoolAssumption
     DEF TunerRecord, Turned, Target, CanStep, Stepped, Flipped, Direction
<1>3. Window(Target(t)) \in Nat
  BY <1>2 DEF Window
<1>4. trial \in TrialRecord
  BY <1>2, <1>3 DEF TrialRecord
<1>5. Change(t, Target(t), "trial") \in Seq(ChangeRecord)
  BY <1>1, <1>2, PushRingType, TunerAssumption
     DEF Change, TunerRecord, ChangeRecord, ChangeReason
<1>6. turned \in TunerRecord /\ turned.trial = t.trial
  BY <1>1, <1>2 DEF TunerRecord
<1> HIDE DEF turned
<1>7. opened \in TunerRecord
  BY <1>5, <1>6 DEF TunerRecord
<1> HIDE DEF opened, trial
<1>8. tried \in TunerRecord /\ tried.trial = trial
  BY <1>4, <1>7 DEF TunerRecord
<1> HIDE DEF tried
<1>9. moved \in TunerRecord /\ moved.trial = trial
  BY <1>2, <1>8 DEF TunerRecord
<1>10. Sane(moved)
  <2>1. trial.incumbent \in 1..Ceiling /\ trial.level \in 1..Ceiling
    BY <1>2 DEF trial
  <2> HIDE DEF moved
  <2>2. QED
    BY <1>9, <2>1 DEF Sane
<1>11. Sane(turned)
  BY <1>6 DEF Sane
<1>12. Poll(t, backlog, isPaused) \in {t, turned, moved}
  <2>1. moved = [turned EXCEPT !.history = Change(t, Target(t), "trial"),
                               !.trial = trial, !.level = Target(t)]
    BY DEF moved, tried, opened
  <2>2. QED
    BY <2>1 DEF Poll, turned, trial
<1>13. QED
  BY <1>10, <1>11, <1>12

\* where a call is dispatched,
LEMMA OnDispatchSane ==
    ASSUME NEW t, Sane(t), NEW id \in Ids
    PROVE  /\ Sane(OnDispatch(t, id))
           /\ OnDispatch(t, id).level = t.level
<1> DEFINE joined == [t.trial EXCEPT !.dispatched = @ \cup {id}]
           told == [t EXCEPT !.trial = joined]
<1>1. t \in TunerRecord /\ t.trial \in TrialRecord
  BY DEF Sane, TunerRecord
<1>2. /\ joined \in TrialRecord
      /\ joined.incumbent = t.trial.incumbent /\ joined.level = t.trial.level
  BY <1>1 DEF TrialRecord
<1> HIDE DEF joined
<1>3. told \in TunerRecord /\ told.trial = joined /\ told.level = t.level
  BY <1>1, <1>2 DEF TunerRecord
<1>4. CASE t.trial # NoTrial /\ Cardinality(t.trial.dispatched) < t.trial.window
  <2>1. OnDispatch(t, id) = told
    BY <1>4 DEF OnDispatch, told, joined
  <2> HIDE DEF told
  <2>2. QED
    BY <1>2, <1>3, <1>4, <2>1 DEF Sane
<1>5. CASE ~(t.trial # NoTrial /\ Cardinality(t.trial.dispatched) < t.trial.window)
  BY <1>5 DEF OnDispatch
<1>6. QED
  BY <1>4, <1>5

\* where a call completes: the levels of a trial that ends are in the range,
LEMMA ConcludeSane ==
    ASSUME NEW t, Sane(t), t.trial # NoTrial, NEW accepted \in BOOLEAN,
           NEW reason \in ChangeReason
    PROVE  Sane(Conclude(t, accepted, reason))
<1> DEFINE to == IF accepted THEN t.trial.level ELSE t.trial.incumbent
           direction == IF accepted THEN t.direction ELSE Flipped(t.direction)
           interval == IF 2 * t.interval < ExperimentCap THEN 2 * t.interval
                                                         ELSE ExperimentCap
           told == [t EXCEPT !.history = Change(t, to, reason)]
           back == [told EXCEPT !.level = to]
           turned == [back EXCEPT !.direction = direction]
           slower == [turned EXCEPT !.interval = interval]
           later == [slower EXCEPT !.dueIn = interval]
           over == [later EXCEPT !.trial = NoTrial]
<1>1. t \in TunerRecord /\ to \in 1..Ceiling
  BY DEF Sane
<1>2. Change(t, to, reason) \in Seq(ChangeRecord)
  BY <1>1, PushRingType, TunerAssumption DEF Change, TunerRecord, ChangeRecord
<1>3. direction \in Direction /\ interval \in Nat
  BY <1>1, TunerAssumption DEF TunerRecord, Direction, Flipped
<1>4. NoTrial \in TrialRecord
  BY PoolAssumption DEF NoTrial, TrialRecord
<1>5. Conclude(t, accepted, reason) = over
  BY DEF Conclude
<1> HIDE DEF to, direction, interval
<1>6. told \in TunerRecord
  BY <1>1, <1>2 DEF TunerRecord
<1> HIDE DEF told
<1>7. back \in TunerRecord
  BY <1>1, <1>6 DEF TunerRecord
<1> HIDE DEF back
<1>8. turned \in TunerRecord
  BY <1>3, <1>7 DEF TunerRecord
<1> HIDE DEF turned
<1>9. slower \in TunerRecord
  BY <1>3, <1>8 DEF TunerRecord
<1> HIDE DEF slower
<1>10. later \in TunerRecord
  BY <1>3, <1>9 DEF TunerRecord
<1> HIDE DEF later
<1>11. over \in TunerRecord /\ over.trial = NoTrial
  BY <1>4, <1>10 DEF TunerRecord
<1> HIDE DEF over
<1>12. QED
  BY <1>5, <1>11 DEF Sane

\* and a call that does not end it is counted.
LEMMA SampledSane ==
    ASSUME NEW t, Sane(t), NEW level \in 0..Ceiling, NEW outcome \in Outcome
    PROVE  /\ Sane(Sampled(t, level, outcome))
           /\ Sampled(t, level, outcome).trial = t.trial
           /\ Sampled(t, level, outcome).level = t.level
<1> DEFINE samples == PushRing(t.samples, SampleCapacity, [level |-> level, outcome |-> outcome])
<1>1. t \in TunerRecord
  BY DEF Sane
<1>2. samples \in Seq(SampleRecord)
  BY <1>1, PushRingType, TunerAssumption DEF TunerRecord, SampleRecord
<1>3. Sampled(t, level, outcome) = [t EXCEPT !.samples = samples]
  BY DEF Sampled
<1> HIDE DEF samples
<1>4. /\ [t EXCEPT !.samples = samples] \in TunerRecord
      /\ [t EXCEPT !.samples = samples].trial = t.trial
      /\ [t EXCEPT !.samples = samples].level = t.level
  BY <1>1, <1>2 DEF TunerRecord
<1>5. QED
  BY <1>3, <1>4 DEF Sane

\* What a measured call leaves of the trial.
LEMMA MeasuredSane ==
    ASSUME NEW t, Sane(t), t.trial # NoTrial, NEW id \in Ids
    PROVE  /\ Sane(Measured(t, id))
           /\ Measured(t, id).trial.incumbent = t.trial.incumbent
           /\ Measured(t, id).trial.level = t.trial.level
           /\ Measured(t, id).trial.window = t.trial.window
           /\ Measured(t, id).trial.dispatched = t.trial.dispatched
           /\ Measured(t, id).trial.completed
                 = t.trial.completed + IF id \in t.trial.dispatched THEN 1 ELSE 0
           /\ Measured(t, id).trial # NoTrial
<1> DEFINE counted == [t.trial EXCEPT !.completed = @ + 1]
           told == [t EXCEPT !.trial = counted]
<1>1. t \in TunerRecord /\ t.trial \in TrialRecord /\ t.trial.level \in 1..Ceiling
  BY DEF Sane, TunerRecord
<1>2. /\ counted \in TrialRecord
      /\ counted.incumbent = t.trial.incumbent /\ counted.level = t.trial.level
      /\ counted.window = t.trial.window /\ counted.dispatched = t.trial.dispatched
      /\ counted.completed = t.trial.completed + 1
  BY <1>1 DEF TrialRecord
<1>3. counted # NoTrial
  BY <1>1, <1>2 DEF NoTrial
<1> HIDE DEF counted
<1>4. told \in TunerRecord /\ told.trial = counted
  BY <1>1, <1>2 DEF TunerRecord
<1>5. CASE id \in t.trial.dispatched
  <2>1. Measured(t, id) = told
    BY <1>5 DEF Measured, counted
  <2> HIDE DEF told
  <2>2. QED
    BY <1>1, <1>2, <1>3, <1>4, <1>5, <2>1 DEF Sane
<1>6. CASE id \notin t.trial.dispatched
  <2>1. Measured(t, id) = t
    BY <1>6 DEF Measured
  <2>2. t.trial.completed + 0 = t.trial.completed
    BY <1>1 DEF TrialRecord
  <2>3. QED
    BY <1>6, <2>1, <2>2
<1>7. QED
  BY <1>5, <1>6

\* Whatever a completed call does to its tuner leaves it sane.
LEMMA OnCompleteSane ==
    ASSUME NEW t, Sane(t), NEW id \in Ids, NEW level \in 0..Ceiling,
           NEW outcome \in Outcome, NEW accepted \in BOOLEAN
    PROVE  Sane(OnComplete(t, id, level, outcome, accepted))
<1> DEFINE sampled == Sampled(t, level, outcome)
           measured == Measured(sampled, id)
<1>1. Sane(sampled) /\ sampled.trial = t.trial
  BY SampledSane
<1>2. CASE t.trial = NoTrial
  BY <1>1, <1>2 DEF OnComplete
<1>3. CASE t.trial # NoTrial
  <2>1. Sane(measured) /\ measured.trial # NoTrial
    BY <1>1, <1>3, MeasuredSane
  <2>2. Sane(Conclude(sampled, FALSE, "failed"))
    BY <1>1, <1>3, ConcludeSane DEF ChangeReason
  <2>3. Sane(Conclude(measured, accepted, IF accepted THEN "kept" ELSE "rejected"))
    BY <2>1, ConcludeSane DEF ChangeReason
  <2> HIDE DEF measured, sampled
  <2>4. OnComplete(t, id, level, outcome, accepted)
           \in {Conclude(sampled, FALSE, "failed"), measured,
                Conclude(measured, accepted, IF accepted THEN "kept" ELSE "rejected")}
    BY <1>3 DEF OnComplete, measured, sampled
  <2>5. QED
    BY <2>1, <2>2, <2>3, <2>4
<1>4. QED
  BY <1>2, <1>3

\* The clock only brings the next experiment closer.
LEMMA ElapseSane ==
    ASSUME NEW t, Sane(t)
    PROVE  /\ Sane(Elapse(t))
           /\ Elapse(t).trial = t.trial
           /\ Elapse(t).level = t.level
<1> DEFINE dueIn == IF t.dueIn > 0 THEN t.dueIn - 1 ELSE 0
<1>1. t \in TunerRecord /\ dueIn \in Nat
  BY DEF Sane, TunerRecord
<1>2. Elapse(t) = [t EXCEPT !.dueIn = dueIn]
  BY DEF Elapse
<1> HIDE DEF dueIn
<1>3. /\ [t EXCEPT !.dueIn = dueIn] \in TunerRecord
      /\ [t EXCEPT !.dueIn = dueIn].trial = t.trial
      /\ [t EXCEPT !.dueIn = dueIn].level = t.level
  BY <1>1 DEF TunerRecord
<1>4. QED
  BY <1>2, <1>3 DEF Sane

-----------------------------------------------------------------------------
(* The records of futures, locks and beats.                                *)

\* A future in another place of await_placement.
LEMMA FutureAt ==
    ASSUME NEW f \in FutureType,
           NEW pc \in {"none", "enter", "register", "place", "placing", "scan", "await",
                       "slot", "dropHome", "dropScan", "dropFinish", "done"}
    PROVE  /\ [f EXCEPT !.pc = pc] \in FutureType
           /\ [f EXCEPT !.pc = pc].pc = pc
           /\ [f EXCEPT !.pc = pc].at = f.at
           /\ [f EXCEPT !.pc = pc].home = f.home
BY DEF FutureType

\* Where a future looks next, after a member that does not hold its call.
LEMMA NotHereMoves ==
    ASSUME NEW f \in FutureType, f.pc \in {"place", "scan"}
    PROVE  /\ NotHere(f) \in FutureType
           /\ NotHere(f).home = f.home
           /\ f.pc = "place" => NotHere(f).pc = "scan" /\ NotHere(f).at = 1
           /\ f.pc = "scan" /\ f.at < NumBackends =>
                 NotHere(f).pc = "scan" /\ NotHere(f).at = f.at + 1
           /\ f.pc = "scan" /\ f.at = NumBackends => NotHere(f).pc = "await"
           /\ NotHere(f).pc \in {"scan", "await"}
           /\ f.woken => NotHere(f).woken
<1>1. CASE f.pc = "place"
  <2>1. PICK first \in Backends : first = 1
    BY PoolAssumption DEF Backends
  <2> DEFINE moved == [f EXCEPT !.pc = "scan"]
             scanning == [moved EXCEPT !.at = first]
  <2>2. NotHere(f) = scanning
    BY <1>1, <2>1 DEF NotHere
  <2>3. /\ moved \in FutureType /\ moved.pc = "scan" /\ moved.home = f.home
        /\ f.woken => moved.woken
    BY DEF FutureType
  <2> HIDE DEF moved
  <2>4. /\ scanning \in FutureType /\ scanning.pc = "scan"
        /\ scanning.at = first /\ scanning.home = f.home
        /\ f.woken => scanning.woken
    BY <2>1, <2>3 DEF FutureType
  <2> HIDE DEF scanning
  <2>5. QED
    BY <1>1, <2>1, <2>2, <2>4
<1>2. CASE f.pc = "scan" /\ f.at < NumBackends
  <2>1. NotHere(f) = [f EXCEPT !.at = f.at + 1]
    BY <1>2, PoolAssumption DEF NotHere, FutureType, Backends
  <2>2. f.at + 1 \in Backends /\ f.at # NumBackends
    BY <1>2, PoolAssumption DEF FutureType, Backends
  <2>3. /\ [f EXCEPT !.at = f.at + 1] \in FutureType
        /\ [f EXCEPT !.at = f.at + 1].pc = "scan"
        /\ [f EXCEPT !.at = f.at + 1].at = f.at + 1
        /\ [f EXCEPT !.at = f.at + 1].home = f.home
        /\ f.woken => [f EXCEPT !.at = f.at + 1].woken
    BY <1>2, <2>2 DEF FutureType
  <2>4. QED
    BY <1>2, <2>1, <2>2, <2>3
<1>3. CASE f.pc = "scan" /\ f.at = NumBackends
  <2> DEFINE waits == [f EXCEPT !.pc = "await"]
  <2>1. NotHere(f) = waits /\ ~(f.at < NumBackends)
    BY <1>3, PoolAssumption DEF NotHere
  <2>2. /\ waits \in FutureType /\ waits.pc = "await" /\ waits.home = f.home
        /\ f.woken => waits.woken
    BY DEF FutureType
  <2> HIDE DEF waits
  <2>3. QED
    BY <1>3, <2>1, <2>2
<1>4. f.pc = "place" \/ (f.pc = "scan" /\ f.at < NumBackends)
         \/ (f.pc = "scan" /\ f.at = NumBackends)
  BY PoolAssumption DEF FutureType, Backends
<1>5. QED
  BY <1>1, <1>2, <1>3, <1>4, Zenon

\* NoFuture with a place is a future.
LEMMA NoFutureType ==
    /\ NoFuture \in FutureType
    /\ NoFuture.pc = "none"
BY PoolAssumption DEF NoFuture, FutureType, Backends

\* A future that is over.
LEMMA FutureDone ==
    /\ [NoFuture EXCEPT !.pc = "done"] \in FutureType
    /\ [NoFuture EXCEPT !.pc = "done"].pc = "done"
BY NoFutureType, FutureAt

\* A future that was just enqueued at b.
LEMMA FutureEntered ==
    ASSUME NEW b \in Backends
    PROVE  /\ [NoFuture EXCEPT !.pc = "enter", !.home = b] \in FutureType
           /\ [NoFuture EXCEPT !.pc = "enter", !.home = b].pc = "enter"
           /\ [NoFuture EXCEPT !.pc = "enter", !.home = b].home = b
<1> DEFINE g == [NoFuture EXCEPT !.pc = "enter"]
<1>1. g \in FutureType /\ g.pc = "enter"
  BY NoFutureType, FutureAt
<1>2. [NoFuture EXCEPT !.pc = "enter", !.home = b] = [g EXCEPT !.home = b]
  OBVIOUS
<1> HIDE DEF g
<1>3. QED
  BY <1>1, <1>2 DEF FutureType

\* A notification wakes whoever listens and moves nobody.
LEMMA WokenMovesNobody ==
    ASSUME NEW f \in [Ids -> FutureType]
    PROVE  /\ Woken(f) \in [Ids -> FutureType]
           /\ \A i \in Ids : /\ Woken(f)[i].pc = f[i].pc
                             /\ Woken(f)[i].at = f[i].at
                             /\ Woken(f)[i].home = f[i].home
                             /\ f[i].woken => Woken(f)[i].woken
                             /\ f[i].pc \in Listening => Woken(f)[i].woken
<1>1. \A i \in Ids : /\ [f[i] EXCEPT !.woken = TRUE] \in FutureType
                     /\ [f[i] EXCEPT !.woken = TRUE].pc = f[i].pc
                     /\ [f[i] EXCEPT !.woken = TRUE].at = f[i].at
                     /\ [f[i] EXCEPT !.woken = TRUE].home = f[i].home
                     /\ [f[i] EXCEPT !.woken = TRUE].woken = TRUE
  BY DEF FutureType
<1>2. \A i \in Ids : f[i] \in FutureType /\ f[i].woken \in BOOLEAN
  BY DEF FutureType
<1>3. Woken(f) \in [Ids -> FutureType]
  BY <1>1, <1>2 DEF Woken
<1>4. QED
  BY <1>1, <1>3 DEF Woken

\* A closed lock.
LEMMA StepClosed == Unlocked \in StepRecord /\ ~Unlocked.on
BY DEF StepRecord, Unlocked

\* A beat between two passes.
LEMMA RestingType ==
    /\ Resting \in BeatRecord
    /\ Resting.pc = "rest" /\ Resting.cargo = 0
<1>1. NoLoad \in LoadRecord
  BY DEF NoLoad, LoadRecord
<1>2. QED
  BY <1>1, PoolAssumption DEF Resting, BeatRecord

-----------------------------------------------------------------------------
(* What the helpers of the actions do.                                     *)

\* A lock is taken for one backend and leaves the others alone.
LEMMA BeginStepTypes ==
    ASSUME Shape, NEW b \in Backends, NEW t, Sane(t), NEW backlog, NEW late, NEW n \in Int,
           NEW notify \in BOOLEAN, BeginStep(b, t, backlog, late, n, notify)
    PROVE  /\ tuner' \in [Backends -> TunerRecord]
           /\ \A c \in Backends : Sane(tuner'[c])
           /\ hold' \in [Backends -> Nat \cup {NoHold, Elapsed}]
           /\ step' \in [Backends -> StepRecord]
           /\ step'[b].on /\ step'[b].for = n
           /\ \A c \in Backends : c # b => step'[c] = step[c]
<1> DEFINE polled == Poll(t, backlog, paused)
           isHeld == hold[b] # NoHold /\ hold[b] + late > 0
           opened == [on |-> TRUE, paused |-> paused, held |-> isHeld, for |-> n,
                      notify |-> notify]
           left == IF isHeld THEN hold[b] ELSE NoHold
<1>1. /\ tuner' = [tuner EXCEPT ![b] = polled]
      /\ hold' = [hold EXCEPT ![b] = left]
      /\ step' = [step EXCEPT ![b] = opened]
  BY DEF BeginStep
<1>2. Sane(polled) /\ polled \in TunerRecord
  BY PollSane DEF Sane
<1>3. opened \in StepRecord /\ opened.on /\ opened.for = n
  BY DEF StepRecord, Shape
<1>4. left \in Nat \cup {NoHold, Elapsed}
  BY DEF Shape
<1> HIDE DEF polled, opened, left
<1>5. QED
  BY <1>1, <1>2, <1>3, <1>4 DEF Shape

\* Where a call starts: a waiting call, in a free bucket below the level.
LEMMA PlacementIsFree ==
    ASSUME Shape, NEW b \in Backends, NEW isPaused, NEW isHeld,
           NEW p \in Placement(b, isPaused, isHeld)
    PROVE  /\ p = <<p[1], p[2]>>
           /\ p[1] \in waiting[b] /\ p[1] \in Ids
           /\ p[1] \in Eligible(b, isPaused, isHeld)
           /\ p[2] \in FreeBuckets(b)
           /\ p[2] \in 0..(Ceiling - 1)
           /\ Cardinality(running[b]) < tuner[b].level
           /\ tuner[b].level >= ReservedFrom =>
                 (meta[p[1]].lane = "reserved" => p[2] = 0)
<1> DEFINE E == Eligible(b, isPaused, isHeld)
           F == FreeBuckets(b)
           lane == [i \in Ids |-> meta[i].lane]
           level == tuner[b].level
           R == {i \in E : lane[i] = "reserved"}
<1>1. E \subseteq waiting[b] /\ waiting[b] \subseteq Ids
  BY DEF Eligible, Shape
<1>2. level \in 1..Ceiling /\ F \in SUBSET (0..(Ceiling - 1)) /\ F \in SUBSET Nat
  <2>1. tuner[b] \in TunerRecord /\ Ceiling \in Nat
    BY PoolAssumption DEF Shape
  <2>2. level \in 1..Ceiling
    BY <2>1 DEF TunerRecord
  <2> HIDE DEF level
  <2>3. F \subseteq 0..(level - 1)
    BY DEF FreeBuckets, level
  <2>4. QED
    BY <2>1, <2>2, <2>3
<1>3. Cardinality(running[b]) < level /\ p \in NextPlacement(E, value, lane, F, level, ReservedFrom)
  BY DEF Placement
<1>4. \A S \in SUBSET Nat : S # {} => Minimum(S) \in S
  BY LeastNat DEF Minimum
<1>5. \A S \in SUBSET E : BestOf(S, value) \subseteq S
  BY DEF BestOf
<1>6. F # {}
  BY <1>3 DEF NextPlacement
<1>7. (IF F \ {0} # {} THEN F \ {0} ELSE F) \in SUBSET F
      /\ (IF F \ {0} # {} THEN F \ {0} ELSE F) # {}
  BY <1>6
<1>8. /\ \A i \in Ids : lane[i] = meta[i].lane
      /\ ReservedFrom \in Nat
  BY PoolAssumption
<1> HIDE DEF E, F, lane, level
<1>9. CASE level < ReservedFrom
  <2>1. p \in BestOf(E, value) \X {Minimum(F)}
    BY <1>3, <1>6, <1>9 DEF NextPlacement
  <2>2. p[1] \in E /\ p[2] \in F /\ p = <<p[1], p[2]>>
    BY <2>1, <1>2, <1>4, <1>5, <1>6
  <2>3. ~(level >= ReservedFrom)
    BY <1>2, <1>8, <1>9
  <2>4. QED
    BY <1>1, <1>2, <1>3, <2>2, <2>3 DEF E, F, level
<1>10. CASE ~(level < ReservedFrom) /\ 0 \in F /\ R # {}
  <2>1. p \in BestOf(R, value) \X {0}
    BY <1>3, <1>6, <1>10 DEF NextPlacement
  <2>2. p[1] \in E /\ p[2] = 0 /\ p = <<p[1], p[2]>>
    BY <2>1, <1>5
  <2>3. QED
    BY <1>1, <1>2, <1>3, <1>10, <2>2 DEF E, F, level
<1>11. CASE ~(level < ReservedFrom) /\ ~(0 \in F /\ R # {})
  <2>1. p \in BestOf(E \ R, value) \X {Minimum(IF F \ {0} # {} THEN F \ {0} ELSE F)}
    BY <1>3, <1>6, <1>11 DEF NextPlacement
  <2>2. p[1] \in E \ R /\ p[2] \in F /\ p = <<p[1], p[2]>>
    BY <2>1, <1>2, <1>4, <1>5, <1>7
  <2>3. p[1] \in Ids /\ lane[p[1]] # "reserved"
    BY <1>1, <2>2
  <2>4. meta[p[1]].lane # "reserved"
    BY <2>3, <1>8
  <2>5. QED
    BY <1>1, <1>2, <1>3, <2>2, <2>4 DEF E, F, level
<1>12. QED
  BY <1>9, <1>10, <1>11

-----------------------------------------------------------------------------
(* How a call changes its place.                                           *)

CargoKept == \A k \in Beats : beat'[k].cargo = beat[k].cargo

HoldersKept == \A i \in Ids : Held(i)' <=> Held(i)

\* No call moves.
LEMMA Unmoved ==
    ASSUME Alone, waiting' = waiting, running' = running, CargoKept
    PROVE  /\ Alone'
           /\ \A i \in Ids : Held(i)' <=> Held(i)
           /\ \A b \in Backends : At(b)' = At(b)
BY DEF Alone, CargoKept, Held, At

\* A call joins a queue.
LEMMA Joined ==
    ASSUME Shape, Alone, NEW i \in Ids, ~Held(i), NEW b \in Backends,
           waiting' = [waiting EXCEPT ![b] = @ \cup {i}], running' = running, CargoKept
    PROVE  /\ Alone'
           /\ \A j \in Ids : Held(j)' <=> j = i \/ Held(j)
           /\ \A c \in Backends : At(c) \subseteq At(c)'
           /\ i \in At(b)'
<1>1. /\ waiting'[b] = waiting[b] \cup {i}
      /\ \A c \in Backends : c # b => waiting'[c] = waiting[c]
  BY DEF Shape
<1>2. /\ \A c \in Backends : At(c)' = IF c = b THEN At(c) \cup {i} ELSE At(c)
      /\ \A c \in Backends : i \notin At(c)
      /\ \A k \in Beats : beat[k].cargo # i
  BY <1>1 DEF At, Held
<1>3. Alone'
  BY <1>1, <1>2 DEF Alone, CargoKept, At
<1>4. \A j \in Ids : Held(j)' <=> j = i \/ Held(j)
  BY <1>2 DEF Held, CargoKept
<1>5. QED
  BY <1>2, <1>3, <1>4

\* A call leaves a queue and has no place.
LEMMA Withdrawn ==
    ASSUME Shape, Alone, NEW i \in Ids, NEW b \in Backends, i \in waiting[b],
           waiting' = [waiting EXCEPT ![b] = @ \ {i}], running' = running, CargoKept
    PROVE  /\ Alone'
           /\ \A j \in Ids : Held(j)' <=> j # i /\ Held(j)
           /\ \A c \in Backends : At(c)' = At(c) \ {i}
<1>1. /\ waiting'[b] = waiting[b] \ {i}
      /\ \A c \in Backends : c # b => waiting'[c] = waiting[c]
  BY DEF Shape
<1>2. /\ \A c \in Backends : At(c)' = At(c) \ {i}
      /\ \A k \in Beats : beat[k].cargo # i
  BY <1>1 DEF At, Alone
<1>3. Alone'
  <2>1. \A c \in Backends : waiting'[c] \subseteq waiting[c] /\ At(c)' \subseteq At(c)
    BY <1>1, <1>2
  <2>2. QED
    BY <2>1 DEF Alone, CargoKept, At
<1>4. \A j \in Ids : Held(j)' <=> j # i /\ Held(j)
  BY <1>2 DEF Held, CargoKept
<1>5. QED
  BY <1>2, <1>3, <1>4

\* A call leaves its bucket and has no place.
LEMMA Ended ==
    ASSUME Shape, Alone, NEW i \in Ids, NEW b \in Backends, i \in running[b],
           running' = [running EXCEPT ![b] = @ \ {i}], waiting' = waiting, CargoKept
    PROVE  /\ Alone'
           /\ \A j \in Ids : Held(j)' <=> j # i /\ Held(j)
           /\ \A c \in Backends : At(c)' = At(c) \ {i}
<1>1. /\ running'[b] = running[b] \ {i}
      /\ \A c \in Backends : c # b => running'[c] = running[c]
  BY DEF Shape
<1>2. /\ \A c \in Backends : At(c)' = At(c) \ {i}
      /\ \A k \in Beats : beat[k].cargo # i
  BY <1>1 DEF At, Alone
<1>3. Alone'
  <2>1. \A c \in Backends : running'[c] \subseteq running[c] /\ At(c)' \subseteq At(c)
    BY <1>1, <1>2
  <2>2. QED
    BY <2>1 DEF Alone, CargoKept, At
<1>4. \A j \in Ids : Held(j)' <=> j # i /\ Held(j)
  BY <1>2 DEF Held, CargoKept
<1>5. QED
  BY <1>2, <1>3, <1>4

\* A call starts where it waited.
LEMMA Started ==
    ASSUME Shape, Alone, NEW i \in Ids, NEW b \in Backends, i \in waiting[b],
           waiting' = [waiting EXCEPT ![b] = @ \ {i}],
           running' = [running EXCEPT ![b] = @ \cup {i}], CargoKept
    PROVE  /\ Alone'
           /\ \A j \in Ids : Held(j)' <=> Held(j)
           /\ \A c \in Backends : At(c)' = At(c)
<1>1. /\ waiting'[b] = waiting[b] \ {i}
      /\ running'[b] = running[b] \cup {i}
      /\ \A c \in Backends : c # b => waiting'[c] = waiting[c] /\ running'[c] = running[c]
  BY DEF Shape
<1>2. \A c \in Backends : At(c)' = At(c)
  BY <1>1 DEF At
<1>3. \A c \in Backends : waiting'[c] \cap running'[c] = {}
  BY <1>1 DEF Alone
<1>4. Alone'
  BY <1>2, <1>3 DEF Alone, CargoKept
<1>5. QED
  BY <1>2, <1>4 DEF Held, CargoKept

\* A beat takes a waiting call.
LEMMA Taken ==
    ASSUME Shape, Alone, NEW i \in Ids, NEW b \in Backends, i \in waiting[b], NEW k \in Beats,
           waiting' = [waiting EXCEPT ![b] = @ \ {i}], running' = running,
           beat[k].cargo = 0, beat'[k].cargo = i,
           \A l \in Beats : l # k => beat'[l].cargo = beat[l].cargo
    PROVE  /\ Alone'
           /\ \A j \in Ids : Held(j)' <=> Held(j)
           /\ \A c \in Backends : At(c)' = At(c) \ {i}
<1>1. /\ waiting'[b] = waiting[b] \ {i}
      /\ \A c \in Backends : c # b => waiting'[c] = waiting[c]
  BY DEF Shape
<1>2. /\ \A c \in Backends : At(c)' = At(c) \ {i}
      /\ \A l \in Beats : beat[l].cargo # i
      /\ i # 0
  BY <1>1 DEF At, Alone, Ids
<1>3. \A c \in Backends : waiting'[c] \subseteq waiting[c] /\ At(c)' \subseteq At(c)
  BY <1>1, <1>2
<1>4. \A c \in Backends, l \in Beats : beat'[l].cargo \notin At(c)'
  BY <1>2 DEF Alone
<1>5. \A l, m \in Beats : beat'[l].cargo = beat'[m].cargo /\ beat'[l].cargo # 0 => l = m
  BY <1>2 DEF Alone
<1>6. Alone'
  BY <1>3, <1>4, <1>5 DEF Alone
<1>7. ASSUME NEW j \in Ids
      PROVE  Held(j)' <=> Held(j)
  <2>1. CASE j = i
    BY <2>1 DEF Held, At
  <2>2. CASE j # i
    <3>1. \A c \in Backends : j \in At(c)' <=> j \in At(c)
      BY <1>2, <2>2
    <3>2. \A l \in Beats : beat'[l].cargo = j <=> beat[l].cargo = j
      BY <2>2 DEF Ids
    <3>3. QED
      BY <3>1, <3>2 DEF Held
  <2>3. QED
    BY <2>1, <2>2
<1>8. QED
  BY <1>2, <1>6, <1>7

\* A beat puts the call it took.
LEMMA Given ==
    ASSUME Shape, Alone, NEW b \in Backends, NEW k \in Beats, beat[k].cargo \in Ids,
           waiting' = [waiting EXCEPT ![b] = @ \cup {beat[k].cargo}], running' = running,
           beat'[k].cargo = 0,
           \A l \in Beats : l # k => beat'[l].cargo = beat[l].cargo
    PROVE  /\ Alone'
           /\ \A j \in Ids : Held(j)' <=> Held(j)
           /\ \A c \in Backends : At(c) \subseteq At(c)'
<1> DEFINE i == beat[k].cargo
<1>1. /\ waiting'[b] = waiting[b] \cup {i}
      /\ \A c \in Backends : c # b => waiting'[c] = waiting[c]
  BY DEF Shape
<1>2. /\ \A c \in Backends : At(c)' = IF c = b THEN At(c) \cup {i} ELSE At(c)
      /\ \A c \in Backends : i \notin At(c)
      /\ \A l \in Beats : l # k => beat[l].cargo # i
      /\ i # 0 /\ \A c \in Backends : 0 \notin At(c)'
  BY <1>1 DEF At, Alone, Shape, Ids
<1>3. \A c, d \in Backends : c # d => At(c)' \cap At(d)' = {}
  BY <1>2 DEF Alone
<1>4. \A c \in Backends : waiting'[c] \cap running'[c] = {}
  BY <1>1, <1>2 DEF Alone, At
<1>5. \A c \in Backends, l \in Beats : beat'[l].cargo \notin At(c)'
  BY <1>2 DEF Alone
<1>6. \A l, m \in Beats : beat'[l].cargo = beat'[m].cargo /\ beat'[l].cargo # 0 => l = m
  BY <1>2 DEF Alone
<1>7. Alone'
  BY <1>3, <1>4, <1>5, <1>6 DEF Alone
<1>8. ASSUME NEW j \in Ids
      PROVE  Held(j)' <=> Held(j)
  <2>1. CASE j = i
    BY <1>2, <2>1 DEF Held
  <2>2. CASE j # i
    <3>1. \A c \in Backends : j \in At(c)' <=> j \in At(c)
      BY <1>2, <2>2
    <3>2. \A l \in Beats : beat'[l].cargo = j <=> beat[l].cargo = j
      BY <2>2 DEF Ids
    <3>3. QED
      BY <3>1, <3>2 DEF Held
  <2>3. QED
    BY <2>1, <2>2
<1>9. QED
  BY <1>2, <1>7, <1>8

-----------------------------------------------------------------------------
(* Every step keeps the invariant.                                         *)

\* Where no call moves, places and futures go on fitting.
LEMMA PlacesSteady ==
    ASSUME Inv, waiting' = waiting, running' = running, CargoKept, nextId' = nextId,
           \A i \in Ids : future'[i].pc = "none" <=> future[i].pc = "none",
           \A i \in Ids : future'[i].pc \in Awaited => future[i].pc \in Awaited,
           \A i \in Ids : future'[i].pc \in {"slot", "dropFinish"} => i \in running[future'[i].at]
    PROVE  Alone' /\ Known' /\ Kept'
<1>1. Alone' /\ \A i \in Ids : Held(i)' <=> Held(i)
  BY Unmoved DEF Inv
<1>2. Known'
  BY <1>1 DEF Inv, Known
<1>3. Kept'
  BY <1>1 DEF Inv, Kept
<1>4. QED
  BY <1>1, <1>2, <1>3

\* Where no lock is taken for somebody, and nobody who waits for one moves,
\* every lock goes on fitting.
LEMMA LocksSteady ==
    ASSUME Inv,
           \A b \in Backends : step'[b].on => step'[b] = step[b] \/ step'[b].for = 0,
           \A b \in Backends : step[b].on => At(b) \subseteq At(b)',
           \A i \in Ids : future[i].pc \in {"enter", "placing"} => future'[i].pc = future[i].pc,
           \A k \in Beats : beat[k].pc = "putting" =>
                beat'[k].pc = "putting" /\ beat'[k].target = beat[k].target
    PROVE  Locks'
<1> SUFFICES ASSUME NEW b \in Backends, step'[b].on
             PROVE  /\ step'[b].for > 0 => /\ step'[b].for \in Ids
                                           /\ step'[b].for \in At(b)'
                                           /\ future'[step'[b].for].pc \in {"enter", "placing"}
                    /\ step'[b].for < 0 => /\ -step'[b].for \in Beats
                                           /\ beat'[-step'[b].for].pc = "putting"
                                           /\ beat'[-step'[b].for].target = b
  BY DEF Locks
<1>1. CASE step'[b] = step[b]
  BY <1>1 DEF Inv, Locks
<1>2. CASE step'[b].for = 0
  BY <1>2
<1>3. QED
  BY <1>1, <1>2

\* Beats that do not move keep fitting.
LEMMA BeatsSteady ==
    ASSUME Inv, beat' = beat
    PROVE  Beating' /\ CargoKept
BY DEF Inv, Beating, CargoKept

\* Register: the future listens before it looks.
LEMMA RegisterInv ==
    ASSUME Inv, NEW i \in Ids, Register(i)
    PROVE  Inv'
<1> DEFINE f == future[i]
           placed == [f EXCEPT !.pc = "place"]
           unwoken == [placed EXCEPT !.woken = FALSE]
           fresh == [unwoken EXCEPT !.late = FALSE]
<1>1. f \in FutureType /\ f.pc \in {"register", "await"}
  BY DEF Register, Inv, Shape
<1>2. placed \in FutureType /\ placed.pc = "place"
  BY <1>1, FutureAt
<1>3. future' = [future EXCEPT ![i] = fresh]
  BY DEF Register
<1> HIDE DEF placed
<1>4. unwoken \in FutureType /\ unwoken.pc = "place"
  BY <1>2 DEF FutureType
<1> HIDE DEF unwoken
<1>5. fresh \in FutureType /\ fresh.pc = "place"
  BY <1>4 DEF FutureType
<1> HIDE DEF fresh
<1>6. /\ future' \in [Ids -> FutureType]
      /\ \A j \in Ids : future'[j] = IF j = i THEN fresh ELSE future[j]
  BY <1>3, <1>5 DEF Inv, Shape
<1>7. Shape'
  BY <1>6 DEF Inv, Shape, Register, queueVars, gateVars
<1>8. Beating' /\ CargoKept
  BY BeatsSteady DEF Register
<1>9. Alone' /\ Known' /\ Kept'
  <2>1. \A j \in Ids : future'[j].pc \in {"slot", "dropFinish"} => i # j
    BY <1>5, <1>6
  <2>2. QED
    BY <1>1, <1>5, <1>6, <1>8, <2>1, PlacesSteady
       DEF Inv, Kept, Register, queueVars, Awaited
<1>10. Locks'
  <2>1. \A b \in Backends : At(b)' = At(b)
    BY DEF At, Register, queueVars
  <2>2. QED
    BY <1>1, <1>6, <2>1, LocksSteady DEF Register
<1>11. QED
  BY <1>7, <1>8, <1>9, <1>10 DEF Inv

\* No future goes anywhere.
CourseKept ==
    \A i \in Ids : /\ future'[i].pc = future[i].pc
                   /\ future'[i].at = future[i].at
                   /\ future'[i].home = future[i].home

\* Where neither a call nor a future nor a beat moves, and locks are only
\* taken for nobody, only the types of the rest are left to see to.
LEMMA QuietInv ==
    ASSUME Inv, Shape', CourseKept, waiting' = waiting, running' = running, nextId' = nextId,
           beat' = beat,
           \A b \in Backends : step'[b].on => step'[b] = step[b] \/ step'[b].for = 0
    PROVE  Inv'
<1>1. Beating' /\ CargoKept
  BY BeatsSteady
<1>2. Alone' /\ Known' /\ Kept'
  BY <1>1, PlacesSteady DEF Inv, Kept, CourseKept
<1>3. \A b \in Backends : At(b)' = At(b)
  BY DEF At
<1>4. Locks'
  BY <1>3, LocksSteady DEF CourseKept
<1>5. QED
  BY <1>1, <1>2, <1>4 DEF Inv

\* DropPending: the future goes to look for its call once more.
LEMMA DropPendingInv ==
    ASSUME Inv, NEW i \in Ids, DropPending(i)
    PROVE  Inv'
<1> DEFINE f == future[i]
           dropped == [f EXCEPT !.pc = "dropHome"]
<1>1. f \in FutureType /\ f.pc = "await"
  BY DEF DropPending, Inv, Shape
<1>2. dropped \in FutureType /\ dropped.pc = "dropHome"
  BY <1>1, FutureAt
<1>3. future' = [future EXCEPT ![i] = dropped]
  BY DEF DropPending
<1> HIDE DEF dropped
<1>6. /\ future' \in [Ids -> FutureType]
      /\ \A j \in Ids : future'[j] = IF j = i THEN dropped ELSE future[j]
  BY <1>2, <1>3 DEF Inv, Shape
<1>7. Shape'
  BY <1>6 DEF Inv, Shape, DropPending, queueVars, gateVars
<1>8. Beating' /\ CargoKept
  BY BeatsSteady DEF DropPending
<1>9. Alone' /\ Known' /\ Kept'
  BY <1>1, <1>2, <1>6, <1>8, PlacesSteady DEF Inv, Kept, DropPending, queueVars, Awaited
<1>10. Locks'
  <2>1. \A b \in Backends : At(b)' = At(b)
    BY DEF At, DropPending, queueVars
  <2>2. QED
    BY <1>1, <1>6, <2>1, LocksSteady DEF DropPending
<1>11. QED
  BY <1>7, <1>8, <1>9, <1>10 DEF Inv

\* The gate's steps and the timers: at most a notification.
LEMMA GateInv ==
    ASSUME Inv,
           \/ \E v \in BOOLEAN : SetPaused(v)
           \/ \E i \in Ids : GoStale(i)
           \/ GateNotify
           \/ TimerFires
    PROVE  Inv'
<1>1. future \in [Ids -> FutureType]
  BY DEF Inv, Shape
<1>2. CASE \E v \in BOOLEAN : SetPaused(v)
  <2>1. Shape' /\ CourseKept
    BY <1>2 DEF Inv, Shape, SetPaused, queueVars, CourseKept
  <2>2. QED
    BY <1>2, <2>1, QuietInv DEF SetPaused, queueVars
<1>3. CASE \E i \in Ids : GoStale(i)
  <2>1. Shape' /\ CourseKept
    BY <1>3 DEF Inv, Shape, GoStale, queueVars, CourseKept
  <2>2. QED
    BY <1>3, <2>1, QuietInv DEF GoStale, queueVars
<1>4. CASE GateNotify
  <2>1. future' \in [Ids -> FutureType] /\ CourseKept
    BY <1>1, <1>4, WokenMovesNobody DEF GateNotify, CourseKept
  <2>2. Shape'
    BY <1>4, <2>1 DEF Inv, Shape, GateNotify, queueVars
  <2>3. QED
    BY <1>4, <2>1, <2>2, QuietInv DEF GateNotify, queueVars
<1>5. CASE TimerFires
  <2>1. future' \in [Ids -> FutureType] /\ CourseKept
    BY <1>1, <1>5, WokenMovesNobody DEF TimerFires, CourseKept
  <2>2. Shape'
    BY <1>5, <2>1 DEF Inv, Shape, TimerFires, queueVars, gateVars
  <2>3. QED
    BY <1>5, <2>1, <2>2, QuietInv DEF TimerFires, queueVars
<1>6. QED
  BY <1>2, <1>3, <1>4, <1>5

\* The holds on the reserved lane.
LEMMA HoldInv ==
    ASSUME Inv, NEW b \in Backends,
           (\E ticks \in HoldTicks : HoldReserved(b, ticks)) \/ ClearReservedHold(b)
    PROVE  Inv'
<1>1. CASE \E ticks \in HoldTicks : HoldReserved(b, ticks)
  <2>1. PICK ticks \in HoldTicks : HoldReserved(b, ticks)
    BY <1>1
  <2>2. ticks \in Nat
    BY PoolAssumption
  <2>3. hold' \in [Backends -> Nat \cup {NoHold, Elapsed}] /\ timers' \in SUBSET Nat
    BY <2>1, <2>2 DEF HoldReserved, Inv, Shape
  <2>4. Shape' /\ CourseKept
    BY <2>1, <2>3 DEF HoldReserved, Inv, Shape, queueVars, gateVars, CourseKept
  <2>5. QED
    BY <2>1, <2>4, QuietInv DEF HoldReserved, queueVars
<1>2. CASE ClearReservedHold(b)
  <2> DEFINE polled == Poll(tuner[b], Cardinality(waiting[b]) + Cardinality(running[b]), paused)
             opened == [on |-> TRUE, paused |-> paused, held |-> FALSE, for |-> 0, notify |-> TRUE]
  <2>1. /\ tuner' = [tuner EXCEPT ![b] = polled]
        /\ hold' = [hold EXCEPT ![b] = NoHold]
        /\ step' = [step EXCEPT ![b] = opened]
    BY <1>2 DEF ClearReservedHold
  <2>2. Sane(polled) /\ polled \in TunerRecord
    BY PollSane DEF Inv, Shape, Sane
  <2>3. opened \in StepRecord /\ opened.for = 0
    BY DEF Inv, Shape, StepRecord
  <2> HIDE DEF polled, opened
  <2>7. /\ tuner' \in [Backends -> TunerRecord] /\ \A c \in Backends : Sane(tuner'[c])
        /\ hold' \in [Backends -> Nat \cup {NoHold, Elapsed}]
        /\ step' \in [Backends -> StepRecord]
    BY <2>1, <2>2, <2>3 DEF Inv, Shape
  <2>4. Shape' /\ CourseKept
    BY <1>2, <2>7 DEF ClearReservedHold, Inv, Shape, queueVars, gateVars, CourseKept
  <2>5. \A c \in Backends : step'[c] = step[c] \/ step'[c].for = 0
    BY <2>1, <2>3 DEF Inv, Shape
  <2>6. QED
    BY <1>2, <2>4, <2>5, QuietInv DEF ClearReservedHold, queueVars
<1>3. QED
  BY <1>1, <1>2

\* The clock.
LEMMA TickInv ==
    ASSUME Inv, Tick
    PROVE  Inv'
<1>1. tuner' \in [Backends -> TunerRecord] /\ \A b \in Backends : Sane(tuner'[b])
  <2>1. \A b \in Backends : Sane(Elapse(tuner[b])) /\ Elapse(tuner[b]) \in TunerRecord
    BY ElapseSane DEF Inv, Shape, Sane
  <2>2. QED
    BY <2>1 DEF Tick
<1>2. hold' \in [Backends -> Nat \cup {NoHold, Elapsed}]
  <2>1. \A n \in Nat \cup {NoHold, Elapsed} : HoldLess(n) \in Nat \cup {NoHold, Elapsed}
    BY DEF HoldLess, NoHold, Elapsed
  <2>2. QED
    BY <2>1 DEF Tick, Inv, Shape
<1>3. timers' \in SUBSET Nat
  BY DEF Tick, OneLess, Inv, Shape
<1>4. future' \in [Ids -> FutureType] /\ CourseKept
  <2>1. \A i \in Ids : /\ [future[i] EXCEPT !.late = TRUE] \in FutureType
                       /\ [future[i] EXCEPT !.late = TRUE].pc = future[i].pc
                       /\ [future[i] EXCEPT !.late = TRUE].at = future[i].at
                       /\ [future[i] EXCEPT !.late = TRUE].home = future[i].home
    BY DEF Inv, Shape, FutureType
  <2>2. QED
    BY <2>1 DEF Tick, CourseKept, Inv, Shape
<1>5. Shape'
  BY <1>1, <1>2, <1>3, <1>4 DEF Tick, Inv, Shape, queueVars, gateVars
<1>6. QED
  BY <1>4, <1>5, QuietInv DEF Tick, queueVars

\* A beat that neither takes nor puts.
LEMMA BeatInv ==
    ASSUME Inv, NEW k \in Beats, NEW r \in BeatRecord, Fits(r),
           r.pc \notin {"put", "putting"}, beat[k].pc \notin {"put", "putting"},
           beat' = [beat EXCEPT ![k] = r],
           UNCHANGED <<queueVars, tuner, pace, hold, step, future, gateVars, timers>>
    PROVE  Inv' /\ HoldersKept /\ CargoKept
<1>1. /\ beat' \in [Beats -> BeatRecord]
      /\ \A l \in Beats : beat'[l] = IF l = k THEN r ELSE beat[l]
  BY DEF Inv, Shape
<1>2. Shape'
  BY <1>1 DEF Inv, Shape, queueVars, gateVars
<1>3. Beating'
  BY <1>1 DEF Inv, Beating, Fits
<1>4. CargoKept
  <2>1. r.cargo = 0 /\ beat[k].cargo = 0
    BY DEF Inv, Beating, Fits
  <2>2. QED
    BY <1>1, <2>1 DEF CargoKept
<1>5. Alone' /\ Known' /\ Kept'
  BY <1>4, PlacesSteady DEF Inv, Kept, queueVars
<1>6. Locks'
  <2>1. \A b \in Backends : At(b)' = At(b)
    BY DEF At, queueVars
  <2>2. \A l \in Beats : beat[l].pc = "putting" =>
            beat'[l].pc = "putting" /\ beat'[l].target = beat[l].target
    BY <1>1
  <2>3. QED
    BY <2>1, <2>2, LocksSteady
<1>7. HoldersKept
  BY <1>4, Unmoved DEF Inv, queueVars, HoldersKept
<1>8. QED
  BY <1>2, <1>3, <1>4, <1>5, <1>6, <1>7 DEF Inv

\* The loads that start first are somewhere among those compared.
LEMMA LoadsCompared ==
    ASSUME NEW loads \in [Backends -> LoadRecord], NEW S \in SUBSET Backends, S # {}
    PROVE  Lightest([b \in S |-> loads[b]], S) \in S /\ Heaviest(loads, S) \in S
<1> DEFINE start == [b \in Backends |-> StartMs(loads[b])]
           starts == {start[b] : b \in S}
           light == {b \in S : \A c \in S : start[b] <= start[c]}
           heavy == {b \in S : \A c \in S : start[b] >= start[c]}
<1>1. start \in [Backends -> Nat]
  <2>1. SUFFICES ASSUME NEW b \in Backends PROVE StartMs(loads[b]) \in Nat
    OBVIOUS
  <2>2. /\ loads[b].calls \in Nat /\ loads[b].pace \in Nat /\ loads[b].level \in Nat \ {0}
    BY DEF LoadRecord
  <2>3. loads[b].calls * loads[b].pace \in Nat
    BY <2>2
  <2>4. QED
    BY <2>2, <2>3 DEF StartMs
<1>2. \A T \in SUBSET Nat : T # {} => Minimum(T) \in T
  BY LeastNat DEF Minimum
<1>3. IsFiniteSet(S) /\ S \in SUBSET Nat
  <2>1. IsFiniteSet(Backends) /\ Backends \in SUBSET Nat
    BY FS_Interval, PoolAssumption DEF Backends
  <2>2. QED
    BY <2>1, FS_Subset
<1>4. /\ Lightest([b \in S |-> loads[b]], S) = Minimum(light)
      /\ Heaviest(loads, S) = Minimum(heavy)
  BY DEF Lightest, Heaviest
<1> HIDE DEF start
<1>5. starts \in SUBSET Nat /\ starts # {} /\ IsFiniteSet(starts)
  BY <1>1, <1>3, ImageIsFinite
<1>6. light # {}
  <2>1. PICK x \in starts : \A y \in starts : x <= y
    <3> HIDE DEF starts
    <3> QED BY <1>5, LeastNat
  <2>2. QED
    BY <2>1
<1>7. heavy # {}
  <2>1. PICK x \in starts : \A y \in starts : y <= x
    <3> HIDE DEF starts
    <3> QED BY <1>5, GreatestNat
  <2>2. PICK b \in S : start[b] = x
    OBVIOUS
  <2>3. \A c \in S : start[c] <= start[b] /\ start[c] \in Nat /\ start[b] \in Nat
    BY <1>1, <2>1, <2>2
  <2>4. b \in heavy
    BY <2>3
  <2>5. QED
    BY <2>4
<1>8. light \in SUBSET S /\ heavy \in SUBSET S
  OBVIOUS
<1> HIDE DEF light, heavy
<1>9. QED
  BY <1>2, <1>3, <1>4, <1>6, <1>7, <1>8

\* How many calls are at a backend.
LEMMA CountsAreNumbers ==
    ASSUME Shape, NEW b \in Backends
    PROVE  /\ IsFiniteSet(waiting[b]) /\ IsFiniteSet(running[b])
           /\ Cardinality(waiting[b]) \in Nat /\ Cardinality(running[b]) \in Nat
<1>1. IsFiniteSet(Ids)
  BY FS_Interval, PoolAssumption DEF Ids
<1>2. waiting[b] \in SUBSET Ids /\ running[b] \in SUBSET Ids
  BY DEF Shape
<1>3. QED
  BY <1>1, <1>2, FS_Subset, FS_CardinalityType

\* A pass begins among backends that are live.
LEMMA BeginRebalanceInv ==
    ASSUME Inv, NEW k \in Beats, BeginRebalance(k, Backends)
    PROVE  Inv' /\ HoldersKept /\ CargoKept
<1> DEFINE counting == [Resting EXCEPT !.pc = "count"]
           live == [counting EXCEPT !.live = Backends]
           begun == [live EXCEPT !.unread = Backends]
<1>1. beat' = [beat EXCEPT ![k] = begun]
  BY DEF BeginRebalance
<1>2. counting \in BeatRecord /\ counting.pc = "count" /\ counting.cargo = 0
  BY RestingType DEF BeatRecord
<1> HIDE DEF counting
<1>3. live \in BeatRecord /\ live.pc = "count" /\ live.cargo = 0 /\ live.live = Backends
  BY <1>2 DEF BeatRecord
<1> HIDE DEF live
<1>4. /\ begun \in BeatRecord /\ begun.pc = "count" /\ begun.cargo = 0
      /\ begun.live = Backends /\ begun.unread = Backends
  BY <1>3 DEF BeatRecord
<1> HIDE DEF begun
<1>5. Backends # {}
  <2>1. 1 \in Backends
    BY PoolAssumption DEF Backends
  <2>2. QED
    BY <2>1
<1>6. Fits(begun)
  BY <1>4, <1>5 DEF Fits
<1>7. QED
  BY <1>1, <1>4, <1>6, BeatInv DEF BeginRebalance

\* The pass counts the calls that wait, one backend at a time.
LEMMA CountWaitingInv ==
    ASSUME Inv, NEW k \in Beats, CountWaiting(k)
    PROVE  Inv' /\ HoldersKept /\ CargoKept
<1> DEFINE r == beat[k]
           b == Minimum(r.unread)
           budget == r.budget + Cardinality(waiting[b])
           fewer == [r EXCEPT !.unread = @ \ {b}]
           more == [fewer EXCEPT !.budget = budget]
           reading == [r EXCEPT !.pc = "read"]
           all == [reading EXCEPT !.unread = r.live]
           done == [all EXCEPT !.budget = budget]
           next == IF r.unread # {b} THEN more ELSE IF budget = 0 THEN Resting ELSE done
<1>1. r \in BeatRecord /\ Fits(r) /\ r.pc = "count"
  BY DEF CountWaiting, Inv, Shape, Beating
<1>2. r.unread \in SUBSET Nat /\ r.unread # {} /\ r.unread \subseteq Backends
  BY <1>1, PoolAssumption DEF BeatRecord, Fits, Backends
<1>3. b \in r.unread
  BY <1>2, LeastNat DEF Minimum
<1>4. budget \in Nat
  <2>1. Cardinality(waiting[b]) \in Nat
    BY <1>2, <1>3, CountsAreNumbers DEF Inv
  <2>2. QED
    BY <1>1, <2>1 DEF BeatRecord
<1>5. beat' = [beat EXCEPT ![k] = next]
  <2>1. more = [r EXCEPT !.unread = r.unread \ {b}, !.budget = budget]
    OBVIOUS
  <2>2. done = [r EXCEPT !.pc = "read", !.unread = r.live, !.budget = budget]
    OBVIOUS
  <2>3. beat' = [beat EXCEPT ![k] =
              IF r.unread # {b} THEN [r EXCEPT !.unread = r.unread \ {b}, !.budget = budget]
              ELSE IF budget = 0 THEN Resting
              ELSE [r EXCEPT !.pc = "read", !.unread = r.live, !.budget = budget]]
    BY DEF CountWaiting
  <2>4. QED
    BY <2>1, <2>2, <2>3
<1> HIDE DEF b, budget
<1>6. /\ fewer \in BeatRecord /\ fewer.pc = "count" /\ fewer.live = r.live
      /\ fewer.unread = r.unread \ {b} /\ fewer.cargo = r.cargo
  BY <1>1 DEF BeatRecord
<1>7. reading \in BeatRecord /\ reading.pc = "read" /\ reading.live = r.live /\ reading.cargo = r.cargo
  BY <1>1 DEF BeatRecord
<1> HIDE DEF fewer, reading
<1>8. /\ more \in BeatRecord /\ more.pc = "count" /\ more.live = r.live
      /\ more.unread = r.unread \ {b} /\ more.cargo = r.cargo
  BY <1>4, <1>6 DEF BeatRecord
<1>9. /\ all \in BeatRecord /\ all.pc = "read" /\ all.live = r.live /\ all.unread = r.live
      /\ all.cargo = r.cargo
  BY <1>1, <1>7 DEF BeatRecord
<1> HIDE DEF more, all
<1>10. /\ done \in BeatRecord /\ done.pc = "read" /\ done.live = r.live /\ done.unread = r.live
       /\ done.cargo = r.cargo
  BY <1>4, <1>9 DEF BeatRecord
<1> HIDE DEF done
<1>11. next \in BeatRecord /\ Fits(next) /\ next.pc \notin {"put", "putting"}
  BY <1>1, <1>3, <1>8, <1>10, RestingType DEF Fits
<1> HIDE DEF next
<1>12. QED
  BY <1>1, <1>5, <1>11, BeatInv DEF CountWaiting

\* The pass reads the loads, one backend at a time.
LEMMA ReadLoadInv ==
    ASSUME Inv, NEW k \in Beats, ReadLoad(k)
    PROVE  Inv' /\ HoldersKept /\ CargoKept
<1> DEFINE r == beat[k]
           b == Minimum(r.unread)
           pc == IF r.unread = {b} THEN "pick" ELSE "read"
           loads == [r.loads EXCEPT ![b] = LoadOf(b)]
           loaded == [r EXCEPT !.loads = loads]
           unread == r.unread \ {b}
           fewer == [loaded EXCEPT !.unread = unread]
           next == [fewer EXCEPT !.pc = pc]
<1>1. r \in BeatRecord /\ Fits(r) /\ r.pc = "read"
  BY DEF ReadLoad, Inv, Shape, Beating
<1>2. r.unread \in SUBSET Nat /\ r.unread # {} /\ r.unread \subseteq Backends
  BY <1>1, PoolAssumption DEF BeatRecord, Fits, Backends
<1>3. b \in r.unread /\ b \in Backends
  BY <1>2, LeastNat DEF Minimum
<1>4. LoadOf(b) \in LoadRecord
  <2>1. Cardinality(waiting[b]) + Cardinality(running[b]) \in Nat
    BY <1>3, CountsAreNumbers DEF Inv
  <2>2. tuner[b].level \in Nat \ {0}
    <3>1. tuner[b] \in TunerRecord
      BY <1>3 DEF Inv, Shape
    <3>2. QED
      BY <3>1, PoolAssumption DEF TunerRecord
  <2>3. pace[b] \in Nat
    BY <1>3, PoolAssumption DEF Inv, Shape
  <2>4. QED
    BY <2>1, <2>2, <2>3 DEF LoadOf, LoadRecord
<1>5. beat' = [beat EXCEPT ![k] = next]
  <2> DEFINE one == [beat EXCEPT ![k].loads[b] = LoadOf(b)]
             two == [one EXCEPT ![k].unread = unread]
  <2>1. beat' = [beat EXCEPT ![k].loads[b] = LoadOf(b), ![k].unread = unread, ![k].pc = pc]
    BY DEF ReadLoad
  <2>2. one = [beat EXCEPT ![k] = loaded]
    OBVIOUS
  <2> HIDE DEF b, unread, pc
  <2>3. beat' = [two EXCEPT ![k].pc = pc]
    BY <2>1
  <2> HIDE DEF one, loaded
  <2>4. beat \in [Beats -> BeatRecord] /\ one \in [Beats -> {beat[l] : l \in Beats} \cup {loaded}] /\ one[k] = loaded
    BY <2>2 DEF Inv, Shape
  <2>5. two = [one EXCEPT ![k] = fewer]
    BY <2>4
  <2> HIDE DEF two, fewer
  <2>6. two = [beat EXCEPT ![k] = fewer] /\ two[k] = fewer
    BY <2>2, <2>4, <2>5
  <2>7. beat' = [two EXCEPT ![k] = next]
    BY <2>3, <2>6
  <2> HIDE DEF next
  <2>8. QED
    BY <2>4, <2>6, <2>7
<1>6. loads \in [Backends -> LoadRecord]
  BY <1>1, <1>4 DEF BeatRecord
<1>7. pc \in {"pick", "read"} /\ (pc = "read" => r.unread \ {b} # {})
  BY <1>3
<1>13. unread \in SUBSET Backends
  BY <1>2
<1> HIDE DEF b, loads, pc
<1>8. /\ loaded \in BeatRecord /\ loaded.live = r.live
      /\ loaded.unread = r.unread /\ loaded.cargo = r.cargo
  BY <1>1, <1>6 DEF BeatRecord
<1> HIDE DEF loaded
<1>9. /\ fewer \in BeatRecord /\ fewer.live = r.live
      /\ fewer.unread = unread /\ fewer.cargo = r.cargo
  BY <1>8, <1>13 DEF BeatRecord
<1> HIDE DEF fewer
<1>10. /\ next \in BeatRecord /\ next.pc = pc /\ next.live = r.live
       /\ next.unread = unread /\ next.cargo = r.cargo
  BY <1>7, <1>9 DEF BeatRecord
<1> HIDE DEF next
<1>11. Fits(next)
  BY <1>1, <1>7, <1>10 DEF Fits
<1>12. QED
  BY <1>1, <1>5, <1>7, <1>10, <1>11, BeatInv DEF ReadLoad

\* The pass picks its target and the backends a call may come from.
LEMMA PickTargetInv ==
    ASSUME Inv, NEW k \in Beats, PickTarget(k)
    PROVE  Inv' /\ HoldersKept /\ CargoKept
<1> DEFINE r == beat[k]
           target == Lightest([b \in r.live |-> r.loads[b]], r.live)
           sources == {b \in r.live \ {target} :
                          LowersTheWorst([c \in r.live |-> r.loads[c]], b, target)}
           taking == [r EXCEPT !.pc = "take"]
           aimed == [taking EXCEPT !.target = target]
           chosen == [aimed EXCEPT !.sources = sources]
           next == IF sources = {} THEN Resting ELSE chosen
<1>1. r \in BeatRecord /\ Fits(r) /\ r.pc = "pick"
  BY DEF PickTarget, Inv, Shape, Beating
<1>2. /\ r.loads \in [Backends -> LoadRecord]
      /\ r.live \in SUBSET Backends /\ r.live # {}
  BY <1>1 DEF BeatRecord, Fits
<1>3. target \in Backends /\ target \in 0..NumBackends
  BY <1>2, LoadsCompared DEF Backends
<1>4. sources \in SUBSET Backends
  BY <1>2
<1>5. beat' = [beat EXCEPT ![k] = next]
  BY DEF PickTarget
<1> HIDE DEF target, sources
<1>6. taking \in BeatRecord /\ taking.pc = "take" /\ taking.live = r.live /\ taking.cargo = r.cargo
  BY <1>1 DEF BeatRecord
<1> HIDE DEF taking
<1>7. /\ aimed \in BeatRecord /\ aimed.pc = "take" /\ aimed.live = r.live
      /\ aimed.cargo = r.cargo /\ aimed.target = target
  BY <1>3, <1>6 DEF BeatRecord
<1> HIDE DEF aimed
<1>8. /\ chosen \in BeatRecord /\ chosen.pc = "take" /\ chosen.live = r.live
      /\ chosen.cargo = r.cargo /\ chosen.target = target /\ chosen.sources = sources
  BY <1>4, <1>7 DEF BeatRecord
<1> HIDE DEF chosen
<1>9. next \in BeatRecord /\ Fits(next) /\ next.pc \notin {"put", "putting"}
  BY <1>1, <1>3, <1>8, RestingType DEF Fits
<1> HIDE DEF next
<1>10. QED
  BY <1>1, <1>5, <1>9, BeatInv DEF PickTarget

\* The pass takes a call out of the fullest queue, or gives a source up.
LEMMA TakeWaitingInv ==
    ASSUME Inv, NEW k \in Beats, TakeWaiting(k)
    PROVE  Inv' /\ HoldersKept
<1> DEFINE r == beat[k]
           source == Heaviest(r.loads, r.sources)
           best == BestOf(Movable(source, r.target), value)
           fewer == [r EXCEPT !.sources = r.sources \ {source}]
           left == IF r.sources = {source} THEN Resting ELSE fewer
<1>1. r \in BeatRecord /\ Fits(r) /\ r.pc = "take"
  BY DEF TakeWaiting, Inv, Shape, Beating
<1>2. source \in r.sources /\ source \in Backends
  <2>1. /\ r.loads \in [Backends -> LoadRecord]
        /\ r.sources \in SUBSET Backends /\ r.sources # {}
    BY <1>1 DEF BeatRecord, Fits
  <2>2. QED
    BY <2>1, LoadsCompared
<1>3. /\ Free(source)
      /\ UNCHANGED <<running, runner, value, meta, nextId, tuner, pace, hold, step,
                     future, gateVars, timers>>
      /\ \/ beat' = [beat EXCEPT ![k] = left] /\ waiting' = waiting
         \/ \E i \in best :
              /\ waiting' = [waiting EXCEPT ![source] = @ \ {i}]
              /\ beat' = [beat EXCEPT ![k].pc = "put", ![k].source = source, ![k].cargo = i]
  BY DEF TakeWaiting
<1>4. best \subseteq waiting[source]
  BY DEF BestOf, Movable
<1> HIDE DEF source, best
<1>5. CASE beat' = [beat EXCEPT ![k] = left] /\ waiting' = waiting
  <2>1. /\ fewer \in BeatRecord /\ fewer.pc = "take" /\ fewer.live = r.live
        /\ fewer.sources = r.sources \ {source} /\ fewer.target = r.target
        /\ fewer.cargo = r.cargo
    BY <1>1 DEF BeatRecord
  <2> HIDE DEF fewer
  <2>2. left \in BeatRecord /\ Fits(left) /\ left.pc \notin {"put", "putting"}
    BY <1>1, <1>2, <2>1, RestingType DEF Fits
  <2> HIDE DEF left
  <2>3. QED
    BY <1>1, <1>3, <1>5, <2>2, BeatInv DEF queueVars
<1>6. ASSUME NEW i \in best,
             waiting' = [waiting EXCEPT ![source] = @ \ {i}],
             beat' = [beat EXCEPT ![k].pc = "put", ![k].source = source, ![k].cargo = i]
      PROVE  Inv' /\ HoldersKept
  <2> DEFINE put == [r EXCEPT !.pc = "put"]
             from == [put EXCEPT !.source = source]
             carrying == [from EXCEPT !.cargo = i]
  <2>1. i \in waiting[source] /\ i \in Ids
    BY <1>2, <1>4 DEF Inv, Shape
  <2>2. beat' = [beat EXCEPT ![k] = carrying]
    BY <1>6
  <2>3. /\ put \in BeatRecord /\ put.pc = "put" /\ put.live = r.live /\ put.target = r.target
    BY <1>1 DEF BeatRecord
  <2> HIDE DEF put
  <2>4. /\ from \in BeatRecord /\ from.pc = "put" /\ from.live = r.live
        /\ from.target = r.target /\ from.source = source
    BY <1>2, <2>3 DEF BeatRecord, Backends
  <2> HIDE DEF from
  <2>5. /\ carrying \in BeatRecord /\ carrying.pc = "put" /\ carrying.live = r.live
        /\ carrying.target = r.target /\ carrying.source = source /\ carrying.cargo = i
    BY <2>1, <2>4 DEF BeatRecord, Ids
  <2> HIDE DEF carrying
  <2>6. Fits(carrying)
    BY <1>1, <1>2, <2>1, <2>5 DEF Fits, Ids
  <2>7. /\ beat' \in [Beats -> BeatRecord]
        /\ \A l \in Beats : beat'[l] = IF l = k THEN carrying ELSE beat[l]
    BY <2>2, <2>5 DEF Inv, Shape
  <2>8. Shape'
    <3>1. waiting' \in [Backends -> SUBSET Ids]
      BY <1>6 DEF Inv, Shape
    <3>2. QED
      BY <1>3, <2>7, <3>1 DEF Inv, Shape, gateVars
  <2>9. Beating'
    BY <2>6, <2>7 DEF Inv, Beating
  <2>10. /\ Alone'
         /\ \A j \in Ids : Held(j)' <=> Held(j)
         /\ \A c \in Backends : At(c)' = At(c) \ {i}
    <3>1. beat[k].cargo = 0
      BY <1>1 DEF Fits
    <3>2. beat'[k].cargo = i /\ \A l \in Beats : l # k => beat'[l].cargo = beat[l].cargo
      BY <2>5, <2>7
    <3>3. QED
      BY <1>2, <1>3, <1>6, <2>1, <3>1, <3>2, Taken DEF Inv
  <2>11. Known' /\ Kept'
    BY <1>3, <2>10 DEF Inv, Known, Kept
  <2>12. Locks'
    <3>1. \A c \in Backends : step[c].on => At(c) \subseteq At(c)'
      <4>1. SUFFICES ASSUME NEW c \in Backends, step[c].on PROVE i \notin At(c)
        BY <2>10
      <4>2. c # source
        BY <1>3, <4>1 DEF Free
      <4>3. i \in At(source)
        BY <2>1 DEF At
      <4>4. QED
        BY <1>2, <4>2, <4>3 DEF Inv, Alone
    <3>2. \A l \in Beats : beat[l].pc = "putting" =>
              beat'[l].pc = "putting" /\ beat'[l].target = beat[l].target
      BY <1>1, <2>7
    <3>3. QED
      BY <1>3, <3>1, <3>2, LocksSteady
  <2>13. QED
    BY <2>8, <2>9, <2>10, <2>11, <2>12 DEF Inv, HoldersKept
<1>7. QED
  BY <1>3, <1>5, <1>6

\* The pass puts the call it took into its target's queue.
LEMMA PutWaitingInv ==
    ASSUME Inv, NEW k \in Beats, PutWaiting(k)
    PROVE  Inv' /\ HoldersKept
<1> DEFINE r == beat[k]
           b == r.target
           i == r.cargo
           putting == [r EXCEPT !.pc = "putting"]
           empty == [putting EXCEPT !.cargo = 0]
           backlog == Cardinality(waiting[b]) + 1 + Cardinality(running[b])
<1>1. r \in BeatRecord /\ Fits(r) /\ r.pc = "put"
  BY DEF PutWaiting, Inv, Shape, Beating
<1>2. b \in Backends /\ i \in Ids /\ k \in Nat \ {0}
  BY <1>1, PoolAssumption DEF BeatRecord, Fits, Ids
<1>3. /\ Free(b)
      /\ waiting' = [waiting EXCEPT ![b] = @ \cup {i}]
      /\ BeginStep(b, tuner[b], backlog, 0, -k, TRUE)
      /\ beat' = [beat EXCEPT ![k].pc = "putting", ![k].cargo = 0]
      /\ UNCHANGED <<running, runner, value, meta, nextId, pace, future, gateVars, timers>>
  BY DEF PutWaiting
<1>4. /\ tuner' \in [Backends -> TunerRecord]
      /\ \A c \in Backends : Sane(tuner'[c])
      /\ hold' \in [Backends -> Nat \cup {NoHold, Elapsed}]
      /\ step' \in [Backends -> StepRecord]
      /\ step'[b].on /\ step'[b].for = -k
      /\ \A c \in Backends : c # b => step'[c] = step[c]
  <2>1. Sane(tuner[b]) /\ -k \in Int /\ TRUE \in BOOLEAN
    BY <1>2 DEF Inv, Shape
  <2> HIDE DEF backlog
  <2>2. QED
    BY <1>2, <1>3, <2>1, BeginStepTypes DEF Inv
<1>5. beat' = [beat EXCEPT ![k] = empty]
  BY <1>3
<1>6. putting \in BeatRecord /\ putting.pc = "putting" /\ putting.live = r.live
      /\ putting.target = r.target /\ putting.source = r.source
  BY <1>1 DEF BeatRecord
<1> HIDE DEF putting
<1>7. /\ empty \in BeatRecord /\ empty.pc = "putting" /\ empty.live = r.live
      /\ empty.target = r.target /\ empty.source = r.source /\ empty.cargo = 0
  BY <1>6, PoolAssumption DEF BeatRecord
<1> HIDE DEF empty
<1>8. /\ beat' \in [Beats -> BeatRecord]
      /\ \A l \in Beats : beat'[l] = IF l = k THEN empty ELSE beat[l]
  BY <1>5, <1>7 DEF Inv, Shape
<1>9. Shape'
  <2>1. waiting' \in [Backends -> SUBSET Ids]
    BY <1>2, <1>3 DEF Inv, Shape
  <2>2. QED
    BY <1>3, <1>4, <1>8, <2>1 DEF Inv, Shape, gateVars
<1>10. Beating'
  BY <1>1, <1>7, <1>8 DEF Inv, Beating, Fits
<1>11. /\ Alone'
       /\ \A j \in Ids : Held(j)' <=> Held(j)
       /\ \A c \in Backends : At(c) \subseteq At(c)'
  <2>1. beat'[k].cargo = 0 /\ \A l \in Beats : l # k => beat'[l].cargo = beat[l].cargo
    BY <1>7, <1>8
  <2>2. QED
    BY <1>2, <1>3, <2>1, Given DEF Inv
<1>12. Known' /\ Kept'
  BY <1>3, <1>11 DEF Inv, Known, Kept
<1>13. Locks'
  <2>1. SUFFICES ASSUME NEW c \in Backends, step'[c].on
                 PROVE  /\ step'[c].for > 0 => /\ step'[c].for \in Ids
                                               /\ step'[c].for \in At(c)'
                                               /\ future'[step'[c].for].pc \in {"enter", "placing"}
                        /\ step'[c].for < 0 => /\ -step'[c].for \in Beats
                                               /\ beat'[-step'[c].for].pc = "putting"
                                               /\ beat'[-step'[c].for].target = c
    BY DEF Locks
  <2>2. CASE c = b
    <3>1. step'[c].for = -k
      BY <1>4, <2>2
    <3>2. -step'[c].for = k /\ ~(step'[c].for > 0)
      BY <1>2, <3>1
    <3>3. beat'[k].pc = "putting" /\ beat'[k].target = c
      BY <1>7, <1>8, <2>2
    <3>4. QED
      BY <3>2, <3>3
  <2>3. CASE c # b
    <3>1. step'[c] = step[c] /\ step[c].on
      BY <1>4, <2>1, <2>3
    <3>2. \A l \in Beats : beat[l].pc = "putting" => l # k
      BY <1>1
    <3>3. /\ step[c].for > 0 => /\ step[c].for \in Ids
                                /\ step[c].for \in At(c)
                                /\ future[step[c].for].pc \in {"enter", "placing"}
          /\ step[c].for < 0 => /\ -step[c].for \in Beats
                                /\ beat[-step[c].for].pc = "putting"
                                /\ beat[-step[c].for].target = c
      BY <3>1 DEF Inv, Locks
    <3>4. step[c].for > 0 => step[c].for \in At(c)'
      BY <1>11, <3>3
    <3>5. step[c].for < 0 => beat'[-step[c].for] = beat[-step[c].for]
      BY <1>8, <3>2, <3>3
    <3>6. future' = future /\ step'[c] = step[c]
      BY <1>3, <3>1
    <3>7. QED
      BY <3>3, <3>4, <3>5, <3>6
  <2>4. QED
    BY <2>2, <2>3
<1>14. QED
  BY <1>9, <1>10, <1>11, <1>12, <1>13 DEF Inv, HoldersKept

\* A lock that is taken for a call's future fits, and the others go on fitting.
LEMMA LocksTaken ==
    ASSUME Inv, NEW b \in Backends, NEW i \in Ids,
           step'[b].for = i, i \in At(b)', future'[i].pc \in {"enter", "placing"},
           future[i].pc \notin {"enter", "placing"},
           \A c \in Backends : c # b => step'[c] = step[c],
           \A c \in Backends : At(c) \subseteq At(c)',
           \A j \in Ids : j # i => future'[j] = future[j],
           beat' = beat
    PROVE  Locks'
<1> SUFFICES ASSUME NEW c \in Backends, step'[c].on
             PROVE  /\ step'[c].for > 0 => /\ step'[c].for \in Ids
                                           /\ step'[c].for \in At(c)'
                                           /\ future'[step'[c].for].pc \in {"enter", "placing"}
                    /\ step'[c].for < 0 => /\ -step'[c].for \in Beats
                                           /\ beat'[-step'[c].for].pc = "putting"
                                           /\ beat'[-step'[c].for].target = c
  BY DEF Locks
<1>1. CASE c = b
  <2>1. i > 0 /\ ~(i < 0)
    BY DEF Ids
  <2>2. QED
    BY <1>1, <2>1
<1>2. CASE c # b
  <2>1. step'[c] = step[c] /\ step[c].on
    BY <1>2
  <2>2. /\ step[c].for > 0 => /\ step[c].for \in Ids
                              /\ step[c].for \in At(c)
                              /\ future[step[c].for].pc \in {"enter", "placing"}
        /\ step[c].for < 0 => /\ -step[c].for \in Beats
                              /\ beat[-step[c].for].pc = "putting"
                              /\ beat[-step[c].for].target = c
    BY <2>1 DEF Inv, Locks
  <2>3. step[c].for > 0 => /\ step[c].for \in At(c)'
                           /\ future'[step[c].for] = future[step[c].for]
    BY <2>2
  <2>4. QED
    BY <2>1, <2>2, <2>3
<1>3. QED
  BY <1>1, <1>2

\* A call is queued.
LEMMA EnqueueInv ==
    ASSUME Inv, NEW b \in Backends, NEW m \in Metas, Enqueue(b, m)
    PROVE  Inv'
<1> DEFINE i == nextId
           entered == [NoFuture EXCEPT !.pc = "enter", !.home = b]
           backlog == Cardinality(waiting[b]) + 1 + Cardinality(running[b])
<1>1. /\ i \in Ids
      /\ nextId' = i + 1
      /\ waiting' = [waiting EXCEPT ![b] = @ \cup {i}]
      /\ value' = [value EXCEPT ![i] = InitialValue[m.priority]]
      /\ meta' = [meta EXCEPT ![i] = m]
      /\ future' = [future EXCEPT ![i] = entered]
      /\ BeginStep(b, tuner[b], backlog, 0, i, FALSE)
      /\ UNCHANGED <<running, runner, pace, gateVars, timers, beat>>
  BY DEF Enqueue
<1>2. /\ entered \in FutureType /\ entered.pc = "enter"
  BY FutureEntered
<1> HIDE DEF entered
<1>3. /\ future' \in [Ids -> FutureType]
      /\ \A j \in Ids : future'[j] = IF j = i THEN entered ELSE future[j]
  BY <1>1, <1>2 DEF Inv, Shape
<1>4. /\ tuner' \in [Backends -> TunerRecord]
      /\ \A c \in Backends : Sane(tuner'[c])
      /\ hold' \in [Backends -> Nat \cup {NoHold, Elapsed}]
      /\ step' \in [Backends -> StepRecord]
      /\ step'[b].on /\ step'[b].for = i
      /\ \A c \in Backends : c # b => step'[c] = step[c]
  <2>1. Sane(tuner[b]) /\ i \in Int /\ FALSE \in BOOLEAN
    BY <1>1 DEF Inv, Shape, Ids
  <2> HIDE DEF backlog
  <2>2. QED
    BY <1>1, <2>1, BeginStepTypes DEF Inv
<1>5. i \in Ids /\ i \in Nat /\ ~Held(i) /\ future[i].pc = "none"
  BY <1>1 DEF Inv, Known, Ids
<1>6. Shape'
  <2>1. value' \in [Ids -> Nat]
    <3>1. m.priority \in Priority
      BY PoolAssumption
    <3>2. InitialValue[m.priority] \in Nat
      BY <3>1, PoolAssumption
    <3>3. QED
      BY <1>1, <3>2 DEF Inv, Shape
  <2>2. waiting' \in [Backends -> SUBSET Ids]
    BY <1>1 DEF Inv, Shape
  <2>3. meta' \in [Ids -> Metas]
    BY <1>1 DEF Inv, Shape
  <2>4. nextId' \in 1..(MaxCalls + 1)
    BY <1>1, PoolAssumption DEF Ids
  <2>5. QED
    BY <1>1, <1>3, <1>4, <2>1, <2>2, <2>3, <2>4 DEF Inv, Shape, gateVars
<1>7. Beating' /\ CargoKept
  BY <1>1, BeatsSteady
<1>8. /\ Alone'
      /\ \A j \in Ids : Held(j)' <=> j = i \/ Held(j)
      /\ \A c \in Backends : At(c) \subseteq At(c)'
      /\ i \in At(b)'
  BY <1>1, <1>5, <1>7, Joined DEF Inv
<1>9. Known'
  <2>1. SUFFICES ASSUME NEW j \in Ids
                 PROVE  /\ future'[j].pc = "none" <=> j >= i + 1
                        /\ j >= i + 1 => ~Held(j)'
    BY <1>1 DEF Known
  <2>2. CASE j = i
    BY <1>2, <1>3, <1>5, <2>2
  <2>3. CASE j # i
    <3>1. j >= i + 1 <=> j >= i
      BY <1>5, <2>3 DEF Ids
    <3>2. QED
      BY <1>3, <1>8, <2>3, <3>1 DEF Inv, Known
  <2>4. QED
    BY <2>2, <2>3
<1>10. Kept'
  BY <1>1, <1>2, <1>3, <1>8 DEF Inv, Kept
<1>11. Locks'
  <2>1. beat' = beat /\ \A j \in Ids : j # i => future'[j] = future[j]
    BY <1>1, <1>3
  <2>2. future'[i].pc \in {"enter", "placing"} /\ future[i].pc \notin {"enter", "placing"}
    BY <1>2, <1>3, <1>5
  <2> HIDE DEF i
  <2>3. QED
    BY <1>4, <1>5, <1>8, <2>1, <2>2, LocksTaken
<1>12. QED
  BY <1>6, <1>7, <1>8, <1>9, <1>10, <1>11 DEF Inv

\* A future goes on, and its call stays where it is.
LEMMA FutureInv ==
    ASSUME Inv, NEW i \in Ids, NEW g \in FutureType, future' = [future EXCEPT ![i] = g],
           g.pc # "none", future[i].pc \notin {"none", "enter", "placing"},
           g.pc \in Awaited => future[i].pc \in Awaited,
           g.pc \in {"slot", "dropFinish"} => i \in running[g.at],
           UNCHANGED <<queueVars, tuner, pace, hold, step, gateVars, timers, beat>>
    PROVE  Inv'
<1>1. /\ future' \in [Ids -> FutureType]
      /\ \A j \in Ids : future'[j] = IF j = i THEN g ELSE future[j]
  BY DEF Inv, Shape
<1>2. Shape'
  BY <1>1 DEF Inv, Shape, queueVars, gateVars
<1>3. Beating' /\ CargoKept
  BY BeatsSteady
<1>4. Alone' /\ Known' /\ Kept'
  <2>1. \A j \in Ids : future'[j].pc \in {"slot", "dropFinish"} => j \in running[future'[j].at]
    BY <1>1 DEF Inv, Kept
  <2>2. QED
    BY <1>1, <1>3, <2>1, PlacesSteady DEF queueVars
<1>5. Locks'
  <2>1. \A b \in Backends : At(b)' = At(b)
    BY DEF At, queueVars
  <2>2. QED
    BY <1>1, <2>1, LocksSteady
<1>6. QED
  BY <1>2, <1>3, <1>4, <1>5 DEF Inv

\* A call that has no place any more leaves the locks of the others alone.
LEMMA OthersKeep ==
    ASSUME Inv, NEW b \in Backends, NEW i \in Ids, Free(b), i \in At(b),
           \A c \in Backends : At(c)' = At(c) \ {i}
    PROVE  \A c \in Backends : step[c].on => At(c) \subseteq At(c)'
<1> SUFFICES ASSUME NEW c \in Backends, step[c].on PROVE i \notin At(c)
  OBVIOUS
<1>1. c # b
  BY DEF Free
<1>2. QED
  BY <1>1 DEF Inv, Alone

\* A call is withdrawn and its future is over.
LEMMA WithdrawInv ==
    ASSUME Inv, NEW b \in Backends, NEW i \in Ids, Free(b), i \in waiting[b],
           future[i].pc \in {"place", "scan", "dropHome", "dropScan"}, Withdraw(b, i),
           UNCHANGED <<running, runner, nextId, tuner, pace, hold, step, gateVars, timers, beat>>
    PROVE  Inv'
<1> DEFINE over == [NoFuture EXCEPT !.pc = "done"]
<1>1. /\ waiting' = [waiting EXCEPT ![b] = @ \ {i}]
      /\ value' = [value EXCEPT ![i] = 0]
      /\ meta' = [meta EXCEPT ![i] = NoMeta]
      /\ future' = [future EXCEPT ![i] = over]
  BY DEF Withdraw
<1>2. over \in FutureType /\ over.pc = "done"
  BY FutureDone
<1> HIDE DEF over
<1>3. /\ future' \in [Ids -> FutureType]
      /\ \A j \in Ids : future'[j] = IF j = i THEN over ELSE future[j]
  BY <1>1, <1>2 DEF Inv, Shape
<1>4. Shape'
  <2>1. /\ waiting' \in [Backends -> SUBSET Ids]
        /\ value' \in [Ids -> Nat]
    BY <1>1 DEF Inv, Shape
  <2>2. meta' \in [Ids -> Metas]
    BY <1>1, PoolAssumption DEF Inv, Shape, NoMeta
  <2>3. QED
    BY <1>3, <2>1, <2>2 DEF Inv, Shape, gateVars
<1>5. Beating' /\ CargoKept
  BY BeatsSteady
<1>6. /\ Alone'
      /\ \A j \in Ids : Held(j)' <=> j # i /\ Held(j)
      /\ \A c \in Backends : At(c)' = At(c) \ {i}
  BY <1>1, <1>5, Withdrawn DEF Inv
<1>7. Known'
  BY <1>2, <1>3, <1>6 DEF Inv, Known
<1>8. Kept'
  BY <1>2, <1>3, <1>6 DEF Inv, Kept, Awaited
<1>9. Locks'
  <2>1. i \in At(b)
    BY DEF At
  <2>2. \A c \in Backends : step[c].on => At(c) \subseteq At(c)'
    BY <1>6, <2>1, OthersKeep
  <2>3. QED
    BY <1>3, <2>2, LocksSteady
<1>10. QED
  BY <1>4, <1>5, <1>6, <1>7, <1>8, <1>9 DEF Inv

\* A call gives its bucket back, and its future is over.
LEMMA FinishInv ==
    ASSUME Inv, NEW i \in Ids, NEW b \in Backends, NEW outcome \in Outcome,
           NEW accepted \in BOOLEAN, future[i].pc \in {"slot", "dropFinish"},
           Finish(b, i, outcome, accepted)
    PROVE  Inv'
<1> DEFINE over == [NoFuture EXCEPT !.pc = "done"]
           told == OnComplete(tuner[b], i, runner[i].level, outcome, accepted)
           backlog == Cardinality(waiting[b]) + Cardinality(running[b]) - 1
<1>1. /\ Free(b) /\ i \in running[b]
      /\ running' = [running EXCEPT ![b] = @ \ {i}]
      /\ runner' = [runner EXCEPT ![i] = NoRunner]
      /\ value' = [j \in Ids |-> IF j = i THEN 0
                                 ELSE IF j \in waiting[b] THEN value[j] + 1 ELSE value[j]]
      /\ (\E p \in Paces : pace' = [pace EXCEPT ![b] = p]) \/ pace' = pace
      /\ BeginStep(b, told, backlog, 0, 0, TRUE)
      /\ meta' = [meta EXCEPT ![i] = NoMeta]
      /\ future' = [future EXCEPT ![i] = over]
      /\ UNCHANGED <<waiting, nextId, gateVars, timers, beat>>
  BY DEF Finish
<1>2. over \in FutureType /\ over.pc = "done"
  BY FutureDone
<1> HIDE DEF over
<1>3. /\ future' \in [Ids -> FutureType]
      /\ \A j \in Ids : future'[j] = IF j = i THEN over ELSE future[j]
  BY <1>1, <1>2 DEF Inv, Shape
<1>4. /\ tuner' \in [Backends -> TunerRecord]
      /\ \A c \in Backends : Sane(tuner'[c])
      /\ hold' \in [Backends -> Nat \cup {NoHold, Elapsed}]
      /\ step' \in [Backends -> StepRecord]
      /\ step'[b].for = 0
      /\ \A c \in Backends : c # b => step'[c] = step[c]
  <2>1. Sane(told)
    <3>1. Sane(tuner[b]) /\ runner[i].level \in 0..Ceiling
      BY DEF Inv, Shape
    <3>2. QED
      BY <3>1, OnCompleteSane
  <2>2. 0 \in Int /\ TRUE \in BOOLEAN
    OBVIOUS
  <2> HIDE DEF told, backlog
  <2>3. QED
    BY <1>1, <2>1, <2>2, BeginStepTypes DEF Inv
<1>5. Shape'
  <2>1. running' \in [Backends -> SUBSET Ids]
    BY <1>1 DEF Inv, Shape
  <2>2. runner' \in [Ids -> [bucket : 0..(Ceiling - 1), level : 0..Ceiling]]
    <3>1. NoRunner \in [bucket : 0..(Ceiling - 1), level : 0..Ceiling]
      BY PoolAssumption DEF NoRunner
    <3>2. QED
      BY <1>1, <3>1 DEF Inv, Shape
  <2>3. value' \in [Ids -> Nat]
    BY <1>1 DEF Inv, Shape
  <2>4. meta' \in [Ids -> Metas]
    BY <1>1, PoolAssumption DEF Inv, Shape, NoMeta
  <2>5. pace' \in [Backends -> Paces]
    BY <1>1 DEF Inv, Shape
  <2>6. QED
    BY <1>1, <1>3, <1>4, <2>1, <2>2, <2>3, <2>4, <2>5 DEF Inv, Shape, gateVars
<1>6. Beating' /\ CargoKept
  BY <1>1, BeatsSteady
<1>7. /\ Alone'
      /\ \A j \in Ids : Held(j)' <=> j # i /\ Held(j)
      /\ \A c \in Backends : At(c)' = At(c) \ {i}
  BY <1>1, <1>6, Ended DEF Inv
<1>8. Known'
  BY <1>1, <1>2, <1>3, <1>7 DEF Inv, Known
<1>9. Kept'
  <2>1. \A c \in Backends : running'[c] = IF c = b THEN running[b] \ {i} ELSE running[c]
    BY <1>1 DEF Inv, Shape
  <2>2. ASSUME NEW j \in Ids, future'[j].pc \in {"slot", "dropFinish"}
        PROVE  j \in running'[future'[j].at]
    <3>1. j # i /\ future'[j] = future[j]
      BY <1>2, <1>3, <2>2
    <3>2. j \in running[future[j].at] /\ future[j].at \in Backends
      BY <2>2, <3>1 DEF Inv, Kept, Shape, FutureType
    <3>3. QED
      BY <2>1, <3>1, <3>2
  <2>3. \A j \in Ids : future'[j].pc \in Awaited => Held(j)'
    BY <1>2, <1>3, <1>7 DEF Inv, Kept, Awaited
  <2>4. QED
    BY <2>2, <2>3 DEF Kept
<1>10. Locks'
  <2>1. i \in At(b)
    BY <1>1 DEF At
  <2>2. \A c \in Backends : step[c].on => At(c) \subseteq At(c)'
    BY <1>1, <1>7, <2>1, OthersKeep
  <2>3. QED
    BY <1>1, <1>3, <1>4, <2>2, LocksSteady
<1>11. QED
  BY <1>5, <1>6, <1>7, <1>8, <1>9, <1>10 DEF Inv

\* A future looks at a member.
LEMMA LookInv ==
    ASSUME Inv, NEW i \in Ids, Look(i)
    PROVE  Inv'
<1> DEFINE f == future[i]
           b == IF f.pc = "place" THEN f.home ELSE f.at
           placing == [f EXCEPT !.pc = "placing"]
           backlog == Cardinality(waiting[b]) + Cardinality(running[b])
<1>1. f \in FutureType /\ f.pc \in {"place", "scan"} /\ b \in Backends
  BY DEF Look, Inv, Shape, FutureType
<1>2. /\ Free(b)
      /\ \/ /\ i \in running[b]
            /\ future' = Claimed(future, i, b)
            /\ UNCHANGED <<waiting, value, meta, tuner, hold, step>>
         \/ /\ i \notin running[b] \cup waiting[b]
            /\ future' = [future EXCEPT ![i] = NotHere(f)]
            /\ UNCHANGED <<waiting, value, meta, tuner, hold, step>>
         \/ /\ i \in waiting[b] \cap stale
            /\ Withdraw(b, i)
            /\ UNCHANGED <<tuner, hold, step>>
         \/ /\ i \in waiting[b] \ stale
            /\ future' = [future EXCEPT ![i].pc = "placing"]
            /\ \E late \in {0, 1} : BeginStep(b, tuner[b], backlog, late, i, FALSE)
            /\ UNCHANGED <<waiting, value, meta>>
      /\ UNCHANGED <<running, runner, nextId, pace, gateVars, timers, beat>>
  BY DEF Look
<1> HIDE DEF b
<1>3. CASE /\ i \in running[b]
           /\ future' = Claimed(future, i, b)
           /\ UNCHANGED <<waiting, value, meta, tuner, hold, step>>
  <2> DEFINE placed == [f EXCEPT !.pc = "slot"]
             slot == [placed EXCEPT !.at = b]
  <2>1. /\ slot \in FutureType /\ slot.pc = "slot" /\ slot.at = b
    <3>1. placed \in FutureType /\ placed.pc = "slot"
      BY <1>1, FutureAt
    <3> HIDE DEF placed
    <3>2. QED
      BY <1>1, <3>1 DEF FutureType
  <2>2. future' = [future EXCEPT ![i] = slot]
    BY <1>3 DEF Claimed
  <2> HIDE DEF slot
  <2>3. QED
    BY <1>1, <1>2, <1>3, <2>1, <2>2, FutureInv DEF queueVars, Awaited
<1>4. CASE /\ i \notin running[b] \cup waiting[b]
           /\ future' = [future EXCEPT ![i] = NotHere(f)]
           /\ UNCHANGED <<waiting, value, meta, tuner, hold, step>>
  <2>1. NotHere(f) \in FutureType /\ NotHere(f).pc \in {"scan", "await"}
    BY <1>1, NotHereMoves
  <2>2. QED
    BY <1>1, <1>2, <1>4, <2>1, FutureInv DEF queueVars, Awaited
<1>5. CASE /\ i \in waiting[b] \cap stale
           /\ Withdraw(b, i)
           /\ UNCHANGED <<tuner, hold, step>>
  BY <1>1, <1>2, <1>5, WithdrawInv
<1>6. CASE /\ i \in waiting[b] \ stale
           /\ future' = [future EXCEPT ![i].pc = "placing"]
           /\ \E late \in {0, 1} : BeginStep(b, tuner[b], backlog, late, i, FALSE)
           /\ UNCHANGED <<waiting, value, meta>>
  <2>1. placing \in FutureType /\ placing.pc = "placing"
    BY <1>1, FutureAt
  <2>2. future' = [future EXCEPT ![i] = placing]
    BY <1>6
  <2>3. PICK late \in {0, 1} : BeginStep(b, tuner[b], backlog, late, i, FALSE)
    BY <1>6
  <2>4. /\ tuner' \in [Backends -> TunerRecord]
        /\ \A c \in Backends : Sane(tuner'[c])
        /\ hold' \in [Backends -> Nat \cup {NoHold, Elapsed}]
        /\ step' \in [Backends -> StepRecord]
        /\ step'[b].on /\ step'[b].for = i
        /\ \A c \in Backends : c # b => step'[c] = step[c]
    <3>1. Sane(tuner[b]) /\ i \in Int /\ FALSE \in BOOLEAN
      BY <1>1 DEF Inv, Shape, Ids
    <3> HIDE DEF backlog
    <3>2. QED
      BY <1>1, <2>3, <3>1, BeginStepTypes DEF Inv
  <2> HIDE DEF placing, backlog
  <2>5. /\ future' \in [Ids -> FutureType]
        /\ \A j \in Ids : future'[j] = IF j = i THEN placing ELSE future[j]
    BY <2>1, <2>2 DEF Inv, Shape
  <2>6. Shape'
    BY <1>2, <1>6, <2>4, <2>5 DEF Inv, Shape, gateVars
  <2>7. Beating' /\ CargoKept
    BY <1>2, BeatsSteady
  <2>8. Alone' /\ Known' /\ Kept'
    <3>1. \A j \in Ids : future'[j].pc \in {"slot", "dropFinish"} => j \in running[future'[j].at]
      BY <2>1, <2>5 DEF Inv, Kept
    <3>2. QED
      BY <1>1, <1>2, <1>6, <2>1, <2>5, <2>7, <3>1, PlacesSteady DEF Awaited
  <2>9. Locks'
    <3>1. \A c \in Backends : At(c)' = At(c)
      BY <1>2, <1>6 DEF At
    <3>2. i \in At(b)
      BY <1>6 DEF At
    <3>3. QED
      BY <1>1, <1>2, <2>1, <2>4, <2>5, <3>1, <3>2, LocksTaken
  <2>10. QED
    BY <2>6, <2>7, <2>8, <2>9 DEF Inv
<1>7. QED
  BY <1>2, <1>3, <1>4, <1>5, <1>6

\* A dropped future looks for its call once more.
LEMMA AbandonInv ==
    ASSUME Inv, NEW i \in Ids, Abandon(i)
    PROVE  Inv'
<1> DEFINE f == future[i]
           b == IF f.pc = "dropHome" THEN f.home ELSE f.at
           next == IF f.pc = "dropHome" THEN [[f EXCEPT !.pc = "dropScan"] EXCEPT !.at = 1]
                   ELSE IF f.at < NumBackends THEN [f EXCEPT !.at = f.at + 1]
                   ELSE [NoFuture EXCEPT !.pc = "done"]
           ending == [f EXCEPT !.pc = "dropFinish"]
           finishing == [ending EXCEPT !.at = b]
<1>1. f \in FutureType /\ f.pc \in {"dropHome", "dropScan"} /\ b \in Backends
  BY DEF Abandon, Inv, Shape, FutureType
<1>2. /\ Free(b)
      /\ \/ i \in waiting[b] /\ Withdraw(b, i)
         \/ /\ i \in running[b]
            /\ future' = [future EXCEPT ![i].pc = "dropFinish", ![i].at = b]
            /\ UNCHANGED <<waiting, value, meta>>
         \/ /\ i \notin waiting[b] \cup running[b]
            /\ future' = [future EXCEPT ![i] = next]
            /\ UNCHANGED <<waiting, value, meta>>
      /\ UNCHANGED <<running, runner, nextId, tuner, pace, hold, step, gateVars, timers, beat>>
  BY DEF Abandon
<1> HIDE DEF b
<1>3. CASE i \in waiting[b] /\ Withdraw(b, i)
  BY <1>1, <1>2, <1>3, WithdrawInv
<1>4. CASE /\ i \in running[b]
           /\ future' = [future EXCEPT ![i].pc = "dropFinish", ![i].at = b]
           /\ UNCHANGED <<waiting, value, meta>>
  <2>1. finishing \in FutureType /\ finishing.pc = "dropFinish" /\ finishing.at = b
    <3>1. ending \in FutureType /\ ending.pc = "dropFinish"
      BY <1>1, FutureAt
    <3> HIDE DEF ending
    <3>2. QED
      BY <1>1, <3>1 DEF FutureType
  <2>2. future' = [future EXCEPT ![i] = finishing]
    BY <1>4
  <2> HIDE DEF finishing
  <2>3. QED
    BY <1>1, <1>2, <1>4, <2>1, <2>2, FutureInv DEF queueVars, Awaited
<1>5. CASE /\ i \notin waiting[b] \cup running[b]
           /\ future' = [future EXCEPT ![i] = next]
           /\ UNCHANGED <<waiting, value, meta>>
  <2>1. next \in FutureType /\ next.pc \in {"dropScan", "done"}
    <3>1. CASE f.pc = "dropHome"
      <4>1. PICK first \in Backends : first = 1
        BY PoolAssumption DEF Backends
      <4> DEFINE moved == [f EXCEPT !.pc = "dropScan"]
                 scanning == [moved EXCEPT !.at = first]
      <4>2. next = scanning
        BY <3>1, <4>1
      <4>3. scanning \in FutureType /\ scanning.pc = "dropScan"
        <5>1. moved \in FutureType /\ moved.pc = "dropScan"
          BY <1>1, FutureAt
        <5> HIDE DEF moved
        <5>2. QED
          BY <4>1, <5>1 DEF FutureType
      <4> HIDE DEF scanning, next
      <4>4. QED
        BY <4>2, <4>3
    <3>2. CASE f.pc = "dropScan" /\ f.at < NumBackends
      <4>1. f.at + 1 \in Backends
        BY <1>1, <3>2, PoolAssumption DEF FutureType, Backends
      <4>2. [f EXCEPT !.at = f.at + 1] \in FutureType
            /\ [f EXCEPT !.at = f.at + 1].pc = "dropScan"
        BY <1>1, <3>2, <4>1 DEF FutureType
      <4>3. QED
        BY <3>2, <4>2
    <3>3. CASE f.pc = "dropScan" /\ ~(f.at < NumBackends)
      BY <3>3, FutureDone
    <3>4. QED
      BY <1>1, <3>1, <3>2, <3>3
  <2> HIDE DEF next
  <2>2. QED
    BY <1>1, <1>2, <1>5, <2>1, FutureInv DEF queueVars, Awaited
<1>6. QED
  BY <1>2, <1>3, <1>4, <1>5

\* A call starts in a free bucket, and everybody who waits is told.
LEMMA StartNextInv ==
    ASSUME Inv, NEW b \in Backends, StartNext(b)
    PROVE  Inv'
<1>1. PICK p \in Placement(b, step[b].paused, step[b].held) :
          /\ waiting' = [waiting EXCEPT ![b] = @ \ {p[1]}]
          /\ running' = [running EXCEPT ![b] = @ \cup {p[1]}]
          /\ runner' = [runner EXCEPT ![p[1]] = [bucket |-> p[2], level |-> tuner[b].level]]
          /\ tuner' = [tuner EXCEPT ![b] = OnDispatch(tuner[b], p[1])]
          /\ future' = Woken(future)
  BY DEF StartNext
<1>2. UNCHANGED <<value, meta, nextId, pace, hold, step, gateVars, timers, beat>> /\ step[b].on
  BY DEF StartNext
<1>3. p[1] \in waiting[b] /\ p[1] \in Ids /\ p[2] \in 0..(Ceiling - 1)
  BY PlacementIsFree DEF Inv
<1>4. future' \in [Ids -> FutureType] /\ CourseKept
  BY <1>1, WokenMovesNobody DEF Inv, Shape, CourseKept
<1>5. tuner' \in [Backends -> TunerRecord] /\ \A c \in Backends : Sane(tuner'[c])
  <2>1. Sane(OnDispatch(tuner[b], p[1]))
    BY <1>3, OnDispatchSane DEF Inv, Shape
  <2>2. QED
    BY <1>1, <2>1 DEF Inv, Shape, Sane
<1>6. runner' \in [Ids -> [bucket : 0..(Ceiling - 1), level : 0..Ceiling]]
  <2>1. tuner[b].level \in 0..Ceiling
    <3>1. tuner[b] \in TunerRecord
      BY DEF Inv, Shape
    <3>2. QED
      BY <3>1 DEF TunerRecord
  <2>2. [bucket |-> p[2], level |-> tuner[b].level] \in [bucket : 0..(Ceiling - 1), level : 0..Ceiling]
    BY <1>3, <2>1
  <2>3. QED
    BY <1>1, <2>2 DEF Inv, Shape
<1>7. waiting' \in [Backends -> SUBSET Ids] /\ running' \in [Backends -> SUBSET Ids]
  BY <1>1, <1>3 DEF Inv, Shape
<1>8. Shape'
  BY <1>2, <1>4, <1>5, <1>6, <1>7 DEF Inv, Shape, gateVars
<1>9. Beating' /\ CargoKept
  BY <1>2, BeatsSteady
<1>10. /\ Alone'
       /\ \A j \in Ids : Held(j)' <=> Held(j)
       /\ \A c \in Backends : At(c)' = At(c)
  BY <1>1, <1>3, <1>9, Started DEF Inv
<1>11. Known' /\ Kept'
  <2>1. \A c \in Backends : running[c] \subseteq running'[c]
    BY <1>1 DEF Inv, Shape
  <2>2. \A j \in Ids : future[j].at \in Backends
    BY DEF Inv, Shape, FutureType
  <2>3. Known'
    BY <1>2, <1>4, <1>10 DEF Inv, Known, CourseKept
  <2>4. Kept'
    BY <1>4, <1>10, <2>1, <2>2 DEF Inv, Kept, CourseKept
  <2>5. QED
    BY <2>3, <2>4
<1>12. Locks'
  BY <1>2, <1>4, <1>10, LocksSteady DEF CourseKept
<1>13. QED
  BY <1>8, <1>9, <1>10, <1>11, <1>12 DEF Inv

\* The answer a future gets from the member it asked.
LEMMA AnswerMoves ==
    ASSUME NEW f \in [Ids -> FutureType], NEW i \in Ids, NEW b \in Backends,
           f[i].pc \in {"enter", "placing"}
    PROVE  /\ Answered(f, i, b) \in [Ids -> FutureType]
           /\ \A j \in Ids : j # i => Answered(f, i, b)[j] = f[j]
           /\ f[i].pc = "enter" => Answered(f, i, b)[i].pc = "register"
           /\ f[i].pc = "placing" /\ i \in running[b] =>
                 Answered(f, i, b)[i].pc = "slot" /\ Answered(f, i, b)[i].at = b
           /\ f[i].pc = "placing" /\ i \notin running[b] => Answered(f, i, b)[i].pc = "await"
           /\ Answered(f, i, b)[i].home = f[i].home
<1>1. f[i] \in FutureType
  OBVIOUS
<1>2. CASE f[i].pc = "enter"
  <2> DEFINE registers == [f[i] EXCEPT !.pc = "register"]
  <2>1. Answered(f, i, b) = [f EXCEPT ![i] = registers]
    BY <1>2 DEF Answered
  <2>2. registers \in FutureType /\ registers.pc = "register" /\ registers.home = f[i].home
    BY <1>1, FutureAt
  <2> HIDE DEF registers
  <2>3. QED
    BY <1>2, <2>1, <2>2
<1>3. CASE f[i].pc = "placing" /\ i \in running[b]
  <2> DEFINE slot == [f[i] EXCEPT !.pc = "slot"]
             claims == [slot EXCEPT !.at = b]
  <2>1. Answered(f, i, b) = [f EXCEPT ![i] = claims]
    BY <1>3 DEF Answered, Claimed
  <2>2. slot \in FutureType /\ slot.pc = "slot" /\ slot.home = f[i].home
    BY <1>1, FutureAt
  <2> HIDE DEF slot
  <2>3. /\ claims \in FutureType /\ claims.pc = "slot" /\ claims.at = b
        /\ claims.home = f[i].home
    BY <2>2 DEF FutureType
  <2> HIDE DEF claims
  <2>4. QED
    BY <1>3, <2>1, <2>3
<1>4. CASE f[i].pc = "placing" /\ i \notin running[b]
  <2> DEFINE waits == [f[i] EXCEPT !.pc = "await"]
  <2>1. Answered(f, i, b) = [f EXCEPT ![i] = waits]
    BY <1>4 DEF Answered
  <2>2. waits \in FutureType /\ waits.pc = "await" /\ waits.home = f[i].home
    BY <1>1, FutureAt
  <2> HIDE DEF waits
  <2>3. QED
    BY <1>4, <2>1, <2>2
<1>5. QED
  BY <1>2, <1>3, <1>4

\* Where a beat goes on once its call has been put down.
LEMMA MoveOverFits ==
    ASSUME Inv, NEW k \in Beats, beat[k].pc = "putting"
    PROVE  /\ MoveOver(k) \in BeatRecord
           /\ Fits(MoveOver(k))
           /\ MoveOver(k).pc \in {"read", "rest"}
           /\ MoveOver(k).cargo = 0
<1> DEFINE r == beat[k]
           reads == [Resting EXCEPT !.pc = "read"]
           lives == [reads EXCEPT !.live = r.live]
           unread == [lives EXCEPT !.unread = r.live]
           next == [unread EXCEPT !.budget = r.budget - 1]
<1>1. r \in BeatRecord /\ r.live # {}
  BY DEF Inv, Shape, Beating, Fits
<1>2. Resting \in BeatRecord /\ Resting.pc = "rest" /\ Resting.cargo = 0
  BY RestingType
<1>3. Fits(Resting)
  BY <1>2 DEF Fits
<1>4. reads \in BeatRecord /\ reads.pc = "read" /\ reads.cargo = 0
  BY <1>2 DEF BeatRecord
<1> HIDE DEF reads
<1>5. lives \in BeatRecord /\ lives.pc = "read" /\ lives.cargo = 0 /\ lives.live = r.live
  BY <1>1, <1>4 DEF BeatRecord
<1> HIDE DEF lives
<1>6. /\ unread \in BeatRecord /\ unread.pc = "read" /\ unread.cargo = 0
      /\ unread.live = r.live /\ unread.unread = r.live
  BY <1>1, <1>5 DEF BeatRecord
<1> HIDE DEF unread
<1>7. CASE r.budget > 1
  <2>1. r.budget - 1 \in Nat
    BY <1>1, <1>7 DEF BeatRecord
  <2>2. /\ next \in BeatRecord /\ next.pc = "read" /\ next.cargo = 0
        /\ next.live = r.live /\ next.unread = r.live
    BY <1>6, <2>1 DEF BeatRecord
  <2>3. MoveOver(k) = next
    BY <1>7 DEF MoveOver, next, unread, lives, reads
  <2> HIDE DEF next
  <2>4. QED
    BY <1>1, <2>2, <2>3 DEF Fits
<1>8. CASE ~(r.budget > 1)
  BY <1>2, <1>3, <1>8 DEF MoveOver
<1>9. QED
  BY <1>7, <1>8

\* Whom the lock was taken for, and what his future hears when it is freed.
LEMMA StepAnswers ==
    ASSUME Inv, NEW b \in Backends, StepDone(b)
    PROVE  LET n == step[b].for IN
           /\ n > 0 => n \in Ids /\ n \in At(b) /\ future[n].pc \in {"enter", "placing"}
           /\ n < 0 => -n \in Beats /\ beat[-n].pc = "putting" /\ beat[-n].target = b
           /\ future' \in [Ids -> FutureType]
           /\ \A i \in Ids : ~(n > 0 /\ i = n) => /\ future'[i].pc = future[i].pc
                                                  /\ future'[i].at = future[i].at
                                                  /\ future'[i].home = future[i].home
                                                  /\ future[i].woken => future'[i].woken
           /\ n > 0 => /\ future'[n].home = future[n].home
                       /\ \/ future'[n].pc = "register"
                          \/ future'[n].pc = "await" /\ n \notin running[b]
                          \/ future'[n].pc = "slot" /\ future'[n].at = b /\ n \in running[b]
<1> DEFINE n == step[b].for
           told == IF step[b].notify THEN Woken(future) ELSE future
<1>1. /\ step[b].on
      /\ future' = IF n > 0 THEN Answered(told, n, b) ELSE told
  BY DEF StepDone
<1>2. /\ n > 0 => n \in Ids /\ n \in At(b) /\ future[n].pc \in {"enter", "placing"}
      /\ n < 0 => -n \in Beats /\ beat[-n].pc = "putting" /\ beat[-n].target = b
  BY <1>1 DEF Inv, Locks
<1>3. /\ told \in [Ids -> FutureType]
      /\ \A i \in Ids : /\ told[i].pc = future[i].pc /\ told[i].at = future[i].at
                        /\ told[i].home = future[i].home
                        /\ future[i].woken => told[i].woken
  <2>1. future \in [Ids -> FutureType]
    BY DEF Inv, Shape
  <2>2. QED
    BY <2>1, WokenMovesNobody
<1> HIDE DEF told
<1>4. CASE n > 0
  <2>1. n \in Ids /\ told[n].pc \in {"enter", "placing"}
    BY <1>2, <1>3, <1>4
  <2>2. future' = Answered(told, n, b)
    BY <1>1, <1>4
  <2> HIDE DEF n
  <2>3. /\ future' \in [Ids -> FutureType]
        /\ \A i \in Ids : i # n => future'[i] = told[i]
        /\ future'[n].home = told[n].home
        /\ \/ future'[n].pc = "register"
           \/ future'[n].pc = "await" /\ n \notin running[b]
           \/ future'[n].pc = "slot" /\ future'[n].at = b /\ n \in running[b]
    BY <1>3, <2>1, <2>2, AnswerMoves
  <2>4. QED
    BY <1>2, <1>3, <1>4, <2>1, <2>3 DEF n
<1>5. CASE ~(n > 0)
  BY <1>1, <1>2, <1>3, <1>5
<1>6. QED
  BY <1>4, <1>5

\* The lock is freed and whom it was taken for is answered.
LEMMA StepDoneInv ==
    ASSUME Inv, NEW b \in Backends, StepDone(b)
    PROVE  Inv' /\ HoldersKept /\ CargoKept
<1> DEFINE n == step[b].for
<1>1. /\ step[b].on
      /\ step' = [step EXCEPT ![b] = Unlocked]
      /\ beat' = IF n < 0 THEN [beat EXCEPT ![-n] = MoveOver(-n)] ELSE beat
      /\ UNCHANGED <<queueVars, tuner, pace, hold, gateVars, timers>>
  BY DEF StepDone
<1>2. /\ n > 0 => n \in Ids /\ n \in At(b) /\ future[n].pc \in {"enter", "placing"}
      /\ n < 0 => -n \in Beats /\ beat[-n].pc = "putting" /\ beat[-n].target = b
      /\ n \in Int
  BY StepAnswers DEF Inv, Shape, StepRecord
<1>3. /\ future' \in [Ids -> FutureType]
      /\ \A i \in Ids : ~(n > 0 /\ i = n) => /\ future'[i].pc = future[i].pc
                                             /\ future'[i].at = future[i].at
      /\ n > 0 => \/ future'[n].pc \in {"register", "await"}
                  \/ future'[n].pc = "slot" /\ future'[n].at = b /\ n \in running[b]
  BY StepAnswers
<1>4. /\ step' \in [Backends -> StepRecord]
      /\ ~step'[b].on
      /\ \A c \in Backends : c # b => step'[c] = step[c]
  BY <1>1, StepClosed DEF Inv, Shape
<1>5. /\ beat' \in [Beats -> BeatRecord]
      /\ Beating' /\ CargoKept
      /\ \A k \in Beats : ~(n < 0 /\ k = -n) => beat'[k] = beat[k]
  <2>1. CASE n < 0
    <3> DEFINE k == -n
               r == MoveOver(k)
    <3>1. k \in Beats /\ beat[k].pc = "putting"
      BY <1>2, <2>1
    <3>2. r \in BeatRecord /\ Fits(r) /\ r.cargo = 0 /\ beat[k].cargo = 0
      <4>1. beat[k].cargo = 0
        BY <3>1 DEF Inv, Beating, Fits
      <4> HIDE DEF k
      <4>2. QED
        BY <3>1, <4>1, MoveOverFits
    <3>3. beat' = [beat EXCEPT ![k] = r]
      BY <1>1, <2>1
    <3> HIDE DEF r
    <3>4. /\ beat' \in [Beats -> BeatRecord]
          /\ \A l \in Beats : beat'[l] = IF l = k THEN r ELSE beat[l]
      BY <3>2, <3>3 DEF Inv, Shape
    <3>5. Beating'
      BY <3>2, <3>4 DEF Inv, Beating
    <3>6. CargoKept
      BY <3>2, <3>4 DEF CargoKept
    <3>7. ASSUME NEW l \in Beats, ~(n < 0 /\ l = -n) PROVE beat'[l] = beat[l]
      <4>1. l # k
        BY <2>1, <3>7
      <4> HIDE DEF k
      <4>2. QED
        BY <3>4, <4>1
    <3> HIDE DEF k
    <3>8. QED
      BY <3>4, <3>5, <3>6, <3>7
  <2>2. CASE ~(n < 0)
    <3>1. beat' = beat
      BY <1>1, <2>2
    <3>2. Beating' /\ CargoKept
      BY <3>1, BeatsSteady
    <3>3. beat' \in [Beats -> BeatRecord]
      BY <3>1 DEF Inv, Shape
    <3>4. QED
      BY <3>1, <3>2, <3>3
  <2>3. QED
    BY <2>1, <2>2
<1>6. Shape'
  BY <1>1, <1>3, <1>4, <1>5 DEF Inv, Shape, queueVars, gateVars
<1>7. Alone' /\ Known' /\ Kept'
  <2>1. \A i \in Ids : future'[i].pc = "none" <=> future[i].pc = "none"
    BY <1>2, <1>3
  <2>2. \A i \in Ids : future'[i].pc \in Awaited => future[i].pc \in Awaited
    BY <1>2, <1>3 DEF Awaited
  <2>3. \A i \in Ids : future'[i].pc \in {"slot", "dropFinish"} => i \in running[future'[i].at]
    BY <1>2, <1>3 DEF Inv, Kept
  <2>4. QED
    BY <1>1, <1>5, <2>1, <2>2, <2>3, PlacesSteady DEF queueVars
<1>8. Locks'
  <2> SUFFICES ASSUME NEW c \in Backends, step'[c].on
               PROVE  /\ step'[c].for > 0 => /\ step'[c].for \in Ids
                                             /\ step'[c].for \in At(c)'
                                             /\ future'[step'[c].for].pc \in {"enter", "placing"}
                      /\ step'[c].for < 0 => /\ -step'[c].for \in Beats
                                             /\ beat'[-step'[c].for].pc = "putting"
                                             /\ beat'[-step'[c].for].target = c
    BY DEF Locks
  <2>1. c # b /\ step'[c] = step[c] /\ step[c].on
    BY <1>4
  <2>2. /\ step[c].for > 0 => /\ step[c].for \in Ids
                              /\ step[c].for \in At(c)
                              /\ future[step[c].for].pc \in {"enter", "placing"}
        /\ step[c].for < 0 => /\ -step[c].for \in Beats
                              /\ beat[-step[c].for].pc = "putting"
                              /\ beat[-step[c].for].target = c
        /\ step[c].for \in Int
    BY <2>1 DEF Inv, Locks, Shape, StepRecord
  <2>3. At(c)' = At(c)
    BY <1>1 DEF At, queueVars
  <2>4. step[c].for > 0 => future'[step[c].for].pc \in {"enter", "placing"}
    <3>1. ASSUME step[c].for > 0, n > 0 PROVE step[c].for # n
      <4>1. At(b) \cap At(c) = {}
        BY <2>1 DEF Inv, Alone
      <4>2. QED
        BY <1>2, <2>2, <3>1, <4>1
    <3>2. QED
      BY <1>3, <2>2, <3>1
  <2>5. step[c].for < 0 => beat'[-step[c].for] = beat[-step[c].for]
    <3>1. ASSUME step[c].for < 0, n < 0 PROVE -step[c].for # -n
      BY <1>2, <2>1, <2>2, <3>1
    <3> DEFINE m == -step[c].for
    <3>2. step[c].for < 0 => m \in Beats /\ ~(n < 0 /\ m = -n)
      BY <2>2, <3>1
    <3> HIDE DEF m
    <3>3. step[c].for < 0 => beat'[m] = beat[m]
      BY <1>5, <3>2
    <3>4. QED
      BY <3>3 DEF m
  <2>6. QED
    BY <2>1, <2>2, <2>3, <2>4, <2>5
<1>9. HoldersKept
  BY <1>1, <1>5, Unmoved DEF Inv, queueVars, HoldersKept
<1>10. QED
  BY <1>5, <1>6, <1>7, <1>8, <1>9 DEF Inv

\* It holds before any call is made,
LEMMA InitInv ==
    ASSUME Init
    PROVE  Inv
<1>1. /\ waiting = [b \in Backends |-> {}]
      /\ running = [b \in Backends |-> {}]
      /\ \A i \in Ids : future[i] = NoFuture
      /\ \A b \in Backends : step[b] = Unlocked
      /\ \A k \in Beats : beat[k] = Resting
      /\ nextId = 1
  BY DEF Init
<1>2. NoFuture \in FutureType /\ NoFuture.pc = "none"
  BY NoFutureType DEF NoFuture
<1>3. Shape
  <2>1. runner \in [Ids -> [bucket : 0..(Ceiling - 1), level : 0..Ceiling]]
    BY PoolAssumption DEF Init, NoRunner
  <2>2. meta \in [Ids -> Metas] /\ pace \in [Backends -> Paces]
    BY PoolAssumption DEF Init, NoMeta
  <2>3. tuner \in [Backends -> TunerRecord] /\ \A b \in Backends : Sane(tuner[b])
    <3>1. Sane(NewTuner(Ceiling)) /\ NewTuner(Ceiling) \in TunerRecord
      BY NewTunerSane DEF Sane
    <3>2. QED
      BY <3>1 DEF Init
  <2>4. step \in [Backends -> StepRecord]
    BY StepClosed DEF Init
  <2>5. future \in [Ids -> FutureType]
    BY <1>2 DEF Init
  <2>6. beat \in [Beats -> BeatRecord]
    BY RestingType DEF Init
  <2>7. hold \in [Backends -> Nat \cup {NoHold, Elapsed}]
    BY DEF Init
  <2>8. nextId \in 1..(MaxCalls + 1)
    BY PoolAssumption DEF Init
  <2>9. QED
    BY <2>1, <2>2, <2>3, <2>4, <2>5, <2>6, <2>7, <2>8 DEF Shape, Init
<1>4. \A b \in Backends : At(b) = {}
  BY <1>1 DEF At
<1>5. \A k \in Beats : beat[k].cargo = 0 /\ Fits(beat[k])
  BY <1>1, RestingType DEF Fits
<1>6. \A i \in Ids : ~Held(i)
  BY <1>4, <1>5 DEF Held, Ids
<1>7. Alone
  BY <1>1, <1>4, <1>5 DEF Alone
<1>8. Known
  BY <1>1, <1>2, <1>6 DEF Known, Ids
<1>9. Kept
  BY <1>1, <1>2 DEF Kept, Awaited
<1>10. Locks
  BY <1>1, StepClosed DEF Locks
<1>11. QED
  BY <1>3, <1>5, <1>7, <1>8, <1>9, <1>10 DEF Inv, Beating

\* and every step of the pool keeps it.
LEMMA NextInv ==
    ASSUME Inv, [Next]_vars
    PROVE  Inv'
<1>1. ASSUME NEW b \in Backends, NEW m \in Metas, Enqueue(b, m) PROVE Inv'
  BY <1>1, EnqueueInv
<1>2. ASSUME NEW i \in Ids, FutureStep(i) PROVE Inv'
  <2>1. ASSUME NEW accepted \in BOOLEAN, FinishAbandoned(i, accepted) PROVE Inv'
    <3>1. future[i].at \in Backends /\ "cancelled" \in Outcome
      BY DEF Inv, Shape, FutureType, Outcome
    <3>2. QED
      BY <2>1, <3>1, FinishInv DEF FinishAbandoned
  <2>2. QED
    BY <1>2, <2>1, RegisterInv, LookInv, AbandonInv DEF FutureStep
<1>3. ASSUME NEW i \in Ids, EndOfCall(i) PROVE Inv'
  <2>1. PICK outcome \in Outcome, accepted \in BOOLEAN : EndSlot(i, outcome, accepted)
    BY <1>3 DEF EndOfCall
  <2>2. future[i].at \in Backends
    BY DEF Inv, Shape, FutureType
  <2>3. QED
    BY <2>1, <2>2, FinishInv DEF EndSlot
<1>4. ASSUME NEW b \in Backends, LockStep(b) PROVE Inv'
  BY <1>4, StartNextInv, StepDoneInv DEF LockStep
<1>5. ASSUME NEW k \in Beats, BeginRebalance(k, Backends) \/ BeatStep(k) PROVE Inv'
  BY <1>5, BeginRebalanceInv, CountWaitingInv, ReadLoadInv, PickTargetInv, TakeWaitingInv,
     PutWaitingInv DEF BeatStep
<1>6. ASSUME Environment PROVE Inv'
  BY <1>6, DropPendingInv, GateInv, HoldInv, TickInv DEF Environment
<1>7. ASSUME UNCHANGED vars PROVE Inv'
  <2>1. Shape' /\ CourseKept
    BY <1>7 DEF vars, queueVars, gateVars, Inv, Shape, CourseKept
  <2>2. QED
    BY <1>7, <2>1, QuietInv DEF vars, queueVars, gateVars
<1>8. QED
  BY <1>1, <1>2, <1>3, <1>4, <1>5, <1>6, <1>7 DEF Next

-----------------------------------------------------------------------------
(* Every started call is claimed, and nothing is held for the dead.        *)

\* A pool whose calls nobody drops, or nobody moves.
Tracked == ~MayDrop \/ Beats = {}

Dropping == {"dropHome", "dropScan", "dropFinish"}

Sees(i, b) == future[i].pc \in {"enter", "placing", "slot", "dropFinish", "done"} \/ WillLook(i, b)

\* Where nobody moves calls, a call stays with the backend it was queued at.
AtHome(i) ==
    /\ future[i].pc # "dropScan"
    /\ future[i].pc = "dropHome" => Held(i)
    /\ \A b \in Backends : i \in At(b) => future[i].home = b

Traced(i) ==
    /\ \A b \in Backends : i \in running[b] => Sees(i, b)
    /\ ~MayDrop => future[i].pc \notin Dropping
    /\ Beats = {} => AtHome(i)
    /\ Tracked /\ future[i].pc = "done" => ~Held(i)

Trace == \A i \in Ids : Traced(i)

\* A call nothing happens to stays traced.
LEMMA TracedStays ==
    ASSUME NEW i \in Ids, Traced(i),
           future'[i].pc = future[i].pc, future'[i].at = future[i].at,
           future'[i].home = future[i].home, future[i].woken => future'[i].woken,
           Held(i)' <=> Held(i),
           \A b \in Backends : i \in running'[b] => i \in running[b],
           Beats = {} => \A b \in Backends : i \in At(b)' => i \in At(b)
    PROVE  Traced(i)'
<1>1. ASSUME NEW b \in Backends, i \in running'[b]
      PROVE  Sees(i, b)'
  BY <1>1 DEF Traced, Sees, WillLook
<1>2. ASSUME Beats = {}
      PROVE  AtHome(i)'
  BY <1>2 DEF Traced, AtHome
<1>3. ~MayDrop => future'[i].pc \notin Dropping
  BY DEF Traced
<1>4. Tracked /\ future'[i].pc = "done" => ~Held(i)'
  BY DEF Traced
<1>5. QED
  BY <1>1, <1>2, <1>3, <1>4 DEF Traced, Tracked

\* Where neither futures nor places change, but for a notification.
LEMMA TraceSteady ==
    ASSUME Trace, CourseKept, \A i \in Ids : future[i].woken => future'[i].woken,
           running' = running, HoldersKept, Beats = {} => waiting' = waiting
    PROVE  Trace'
<1> SUFFICES ASSUME NEW i \in Ids
             PROVE  Traced(i)'
  BY DEF Trace
<1>1. Beats = {} => \A b \in Backends : i \in At(b)' => i \in At(b)
  BY DEF At
<1>2. QED
  BY <1>1, TracedStays DEF Trace, CourseKept, HoldersKept

\* Where one future moves on and its call stays.
LEMMA TraceFuture ==
    ASSUME Inv, Trace, NEW i \in Ids, NEW g \in FutureType, future' = [future EXCEPT ![i] = g],
           UNCHANGED <<waiting, running, beat>>,
           g.home = future[i].home,
           \A b \in Backends : i \in running[b] =>
               \/ g.pc \in {"enter", "placing", "slot", "dropFinish", "done", "dropHome",
                            "dropScan", "register", "place"}
               \/ g.woken
               \/ g.pc = "scan" /\ g.at <= b,
           ~MayDrop => g.pc \notin Dropping,
           Beats = {} => g.pc # "dropScan" /\ (g.pc = "dropHome" => Held(i)),
           Tracked /\ g.pc = "done" => ~Held(i)
    PROVE  Trace'
<1>1. \A j \in Ids : future'[j] = IF j = i THEN g ELSE future[j]
  BY DEF Inv, Shape
<1>2. \A j \in Ids : Held(j)' <=> Held(j)
  BY DEF Held, At
<1>3. \A b \in Backends : At(b)' = At(b)
  BY DEF At
<1>4. ASSUME NEW j \in Ids, j # i
      PROVE  Traced(j)'
  BY <1>1, <1>2, <1>3, <1>4, TracedStays DEF Trace
<1>5. Traced(i)'
  <2>1. Traced(i) /\ future'[i] = g
    BY <1>1 DEF Trace
  <2>2. ASSUME NEW b \in Backends, i \in running'[b]
        PROVE  Sees(i, b)'
    BY <2>1, <2>2 DEF Sees, WillLook
  <2>3. ASSUME Beats = {}
        PROVE  AtHome(i)'
    <3>1. AtHome(i)
      BY <2>1, <2>3 DEF Traced
    <3>2. QED
      BY <1>2, <1>3, <2>1, <2>3, <3>1 DEF AtHome
  <2>4. ~MayDrop => future'[i].pc \notin Dropping
    BY <2>1
  <2>5. Tracked /\ future'[i].pc = "done" => ~Held(i)'
    BY <1>2, <2>1
  <2>6. QED
    BY <2>2, <2>3, <2>4, <2>5 DEF Traced, Tracked
<1>6. QED
  BY <1>4, <1>5 DEF Trace

\* Where a call leaves its queue or its bucket, and its future is over.
LEMMA TraceOver ==
    ASSUME Inv, Trace, NEW i \in Ids, NEW b \in Backends,
           future' = [future EXCEPT ![i] = [NoFuture EXCEPT !.pc = "done"]], beat' = beat,
           \/ i \in waiting[b] /\ waiting' = [waiting EXCEPT ![b] = @ \ {i}] /\ running' = running
           \/ i \in running[b] /\ running' = [running EXCEPT ![b] = @ \ {i}] /\ waiting' = waiting
    PROVE  Trace'
<1> DEFINE over == [NoFuture EXCEPT !.pc = "done"]
<1>1. over \in FutureType /\ over.pc = "done"
  BY FutureDone
<1> HIDE DEF over
<1>2. \A j \in Ids : future'[j] = IF j = i THEN over ELSE future[j]
  BY DEF Inv, Shape, over
<1>3. /\ \A j \in Ids : Held(j)' <=> j # i /\ Held(j)
      /\ \A c \in Backends : At(c)' = At(c) \ {i}
  <2>1. CargoKept
    BY DEF CargoKept
  <2>2. QED
    BY <2>1, Withdrawn, Ended DEF Inv
<1>4. \A c \in Backends : running'[c] \subseteq running[c]
  BY DEF Inv, Shape
<1>5. ASSUME NEW j \in Ids, j # i
      PROVE  Traced(j)'
  BY <1>2, <1>3, <1>4, <1>5, TracedStays DEF Trace
<1>6. Traced(i)'
  <2>1. \A c \in Backends : i \notin At(c)' /\ i \notin running'[c]
    BY <1>3 DEF At
  <2>2. future'[i].pc = "done" /\ ~Held(i)'
    BY <1>1, <1>2, <1>3
  <2>3. QED
    BY <2>1, <2>2 DEF Traced, AtHome, Dropping, Tracked
<1>7. QED
  BY <1>5, <1>6 DEF Trace

\* A call that is queued is at home.
LEMMA TraceEnqueue ==
    ASSUME Inv, Trace, NEW b \in Backends, NEW m \in Metas, Enqueue(b, m)
    PROVE  Trace'
<1>1. PICK i \in Ids : i = nextId
  BY DEF Enqueue
<1> DEFINE entered == [NoFuture EXCEPT !.pc = "enter", !.home = b]
<1>2. /\ waiting' = [waiting EXCEPT ![b] = @ \cup {i}]
      /\ future' = [future EXCEPT ![i] = entered]
      /\ running' = running /\ beat' = beat
  BY <1>1 DEF Enqueue
<1>3. entered \in FutureType /\ entered.pc = "enter" /\ entered.home = b
  BY FutureEntered
<1> HIDE DEF entered
<1>4. \A j \in Ids : future'[j] = IF j = i THEN entered ELSE future[j]
  BY <1>2, <1>3 DEF Inv, Shape
<1>5. ~Held(i)
  BY <1>1 DEF Inv, Known, Ids
<1>6. \A j \in Ids : Held(j)' <=> j = i \/ Held(j)
  <2>1. CargoKept
    BY <1>2 DEF CargoKept
  <2>2. QED
    BY <1>2, <1>5, <2>1, Joined DEF Inv
<1>7. \A c \in Backends : At(c)' = IF c = b THEN At(c) \cup {i} ELSE At(c)
  BY <1>2 DEF At, Inv, Shape
<1>8. ASSUME NEW j \in Ids, j # i
      PROVE  Traced(j)'
  BY <1>2, <1>4, <1>6, <1>7, <1>8, TracedStays DEF Trace
<1>9. Traced(i)'
  <2>1. \A c \in Backends : i \in At(c)' => c = b
    BY <1>5, <1>7 DEF Held
  <2>2. future'[i].pc = "enter" /\ future'[i].home = b
    BY <1>2, <1>3, <1>4
  <2>3. QED
    BY <2>1, <2>2 DEF Traced, AtHome, Dropping, Sees
<1>10. QED
  BY <1>8, <1>9 DEF Trace

\* A future that looks on has passed no backend its call could have started at.
LEMMA TraceLook ==
    ASSUME Inv, Trace, NEW i \in Ids, Look(i)
    PROVE  Trace'
<1> DEFINE f == future[i]
           b == IF f.pc = "place" THEN f.home ELSE f.at
           placing == [f EXCEPT !.pc = "placing"]
           slot == [[f EXCEPT !.pc = "slot"] EXCEPT !.at = b]
<1>1. f \in FutureType /\ f.pc \in {"place", "scan"} /\ b \in Backends
  BY DEF Look, Inv, Shape, FutureType
<1>2. /\ \/ i \in running[b] /\ future' = Claimed(future, i, b) /\ waiting' = waiting
         \/ /\ i \notin running[b] \cup waiting[b]
            /\ future' = [future EXCEPT ![i] = NotHere(f)]
            /\ waiting' = waiting
         \/ i \in waiting[b] /\ Withdraw(b, i)
         \/ future' = [future EXCEPT ![i] = placing] /\ waiting' = waiting
      /\ UNCHANGED <<running, beat>>
  BY DEF Look
<1>3. f.pc = "scan" => b = f.at
  OBVIOUS
<1> HIDE DEF b
<1>4. CASE i \in running[b] /\ future' = Claimed(future, i, b) /\ waiting' = waiting
  <2>1. slot \in FutureType /\ slot.pc = "slot" /\ slot.home = f.home
    <3> DEFINE claiming == [f EXCEPT !.pc = "slot"]
    <3>1. claiming \in FutureType /\ claiming.pc = "slot" /\ claiming.home = f.home
      BY <1>1, FutureAt
    <3> HIDE DEF claiming
    <3>2. /\ [claiming EXCEPT !.at = b] \in FutureType
          /\ [claiming EXCEPT !.at = b].pc = "slot"
          /\ [claiming EXCEPT !.at = b].home = f.home
      BY <1>1, <3>1 DEF FutureType
    <3>3. QED
      BY <3>2 DEF claiming
  <2>2. future' = [future EXCEPT ![i] = slot]
    BY <1>4 DEF Claimed
  <2> HIDE DEF slot
  <2>3. QED
    BY <1>2, <1>4, <2>1, <2>2, TraceFuture DEF Dropping
<1>5. CASE /\ i \notin running[b] \cup waiting[b]
           /\ future' = [future EXCEPT ![i] = NotHere(f)]
           /\ waiting' = waiting
  <2> DEFINE g == NotHere(f)
  <2>1. /\ g \in FutureType /\ g.home = f.home /\ g.pc \in {"scan", "await"}
        /\ f.woken => g.woken
        /\ f.pc = "place" => g.pc = "scan" /\ g.at = 1
        /\ f.pc = "scan" /\ f.at < NumBackends => g.pc = "scan" /\ g.at = f.at + 1
    BY <1>1, NotHereMoves
  <2>2. ASSUME NEW c \in Backends, i \in running[c]
        PROVE  g.woken \/ (g.pc = "scan" /\ g.at <= c)
    <3>1. CASE f.pc = "place"
      BY <2>1, <3>1 DEF Backends
    <3>2. CASE f.pc = "scan" /\ ~f.woken
      <4>1. f.at <= c /\ f.at # c
        BY <1>1, <1>5, <1>3, <2>2, <3>2 DEF Trace, Traced, Sees, WillLook
      <4>2. f.at < NumBackends /\ f.at + 1 <= c
        BY <1>1, <4>1, PoolAssumption DEF FutureType, Backends
      <4>3. QED
        BY <2>1, <3>2, <4>2
    <3>3. QED
      BY <1>1, <2>1, <3>1, <3>2
  <2>3. future' = [future EXCEPT ![i] = g]
    BY <1>5
  <2> HIDE DEF g
  <2>4. QED
    BY <1>2, <1>5, <2>1, <2>2, <2>3, TraceFuture DEF Dropping
<1>6. CASE i \in waiting[b] /\ Withdraw(b, i)
  BY <1>1, <1>2, <1>6, TraceOver DEF Withdraw
<1>7. CASE future' = [future EXCEPT ![i] = placing] /\ waiting' = waiting
  <2>1. placing \in FutureType /\ placing.pc = "placing" /\ placing.home = f.home
    BY <1>1, FutureAt
  <2> HIDE DEF placing
  <2>2. QED
    BY <1>2, <1>7, <2>1, TraceFuture DEF Dropping
<1>8. QED
  BY <1>2, <1>4, <1>5, <1>6, <1>7

\* A future that is dropped looks for its call until it has found it, and
\* ends without it only where somebody moved it.
LEMMA TraceAbandon ==
    ASSUME Inv, Trace, NEW i \in Ids, Abandon(i)
    PROVE  Trace'
<1> DEFINE f == future[i]
           b == IF f.pc = "dropHome" THEN f.home ELSE f.at
           scanning == [[f EXCEPT !.pc = "dropScan"] EXCEPT !.at = 1]
           further == [f EXCEPT !.at = f.at + 1]
           over == [NoFuture EXCEPT !.pc = "done"]
           ending == [f EXCEPT !.pc = "dropFinish"]
           finishing == [ending EXCEPT !.at = b]
<1>1. f \in FutureType /\ f.pc \in {"dropHome", "dropScan"} /\ b \in Backends
  BY DEF Abandon, Inv, Shape, FutureType
<1>2. /\ \/ i \in waiting[b] /\ Withdraw(b, i)
         \/ i \in running[b] /\ future' = [future EXCEPT ![i] = finishing] /\ waiting' = waiting
         \/ /\ i \notin waiting[b] \cup running[b]
            /\ future' = [future EXCEPT ![i] = IF f.pc = "dropHome" THEN scanning
                                               ELSE IF f.at < NumBackends THEN further ELSE over]
            /\ waiting' = waiting
      /\ UNCHANGED <<running, beat>>
  BY DEF Abandon
<1>3. f.pc = "dropHome" => b = f.home
  OBVIOUS
<1> HIDE DEF b
<1>4. MayDrop
  BY <1>1 DEF Trace, Traced, Dropping, PoolAssumption
<1>5. CASE i \in waiting[b] /\ Withdraw(b, i)
  BY <1>1, <1>2, <1>5, TraceOver DEF Withdraw
<1>6. CASE i \in running[b] /\ future' = [future EXCEPT ![i] = finishing] /\ waiting' = waiting
  <2>1. finishing \in FutureType /\ finishing.pc = "dropFinish" /\ finishing.home = f.home
    <3> DEFINE found == [f EXCEPT !.pc = "dropFinish"]
    <3>1. found \in FutureType /\ found.pc = "dropFinish" /\ found.home = f.home
      BY <1>1, FutureAt
    <3> HIDE DEF found
    <3>2. /\ [found EXCEPT !.at = b] \in FutureType
          /\ [found EXCEPT !.at = b].pc = "dropFinish"
          /\ [found EXCEPT !.at = b].home = f.home
      BY <1>1, <3>1 DEF FutureType
    <3>3. QED
      BY <3>2 DEF found
  <2> HIDE DEF finishing
  <2>2. QED
    BY <1>2, <1>4, <1>6, <2>1, TraceFuture
<1>7. ASSUME i \notin waiting[b] \cup running[b]
      PROVE  Beats # {}
  <2>1. SUFFICES ASSUME Beats = {} PROVE FALSE
    OBVIOUS
  <2>2. AtHome(i)
    BY <2>1 DEF Trace, Traced
  <2>3. f.pc = "dropHome" /\ Held(i) /\ b = f.home
    BY <1>1, <1>3, <2>2 DEF AtHome
  <2>4. PICK c \in Backends : i \in At(c)
    BY <2>1, <2>3 DEF Held
  <2>5. QED
    BY <1>7, <2>2, <2>3, <2>4 DEF AtHome, At
<1>8. CASE /\ i \notin waiting[b] \cup running[b]
           /\ future' = [future EXCEPT ![i] = IF f.pc = "dropHome" THEN scanning
                                              ELSE IF f.at < NumBackends THEN further ELSE over]
           /\ waiting' = waiting
  <2>1. Beats # {} /\ ~Tracked
    BY <1>4, <1>7, <1>8 DEF Tracked
  <2>2. CASE f.pc = "dropHome"
    <3>1. PICK first \in Backends : first = 1
      BY PoolAssumption DEF Backends
    <3> DEFINE scanned == [[f EXCEPT !.pc = "dropScan"] EXCEPT !.at = first]
    <3>2. future' = [future EXCEPT ![i] = scanned]
      BY <1>8, <2>2, <3>1
    <3>3. scanned \in FutureType /\ scanned.pc = "dropScan" /\ scanned.home = f.home
      <4> DEFINE leaving == [f EXCEPT !.pc = "dropScan"]
      <4>1. leaving \in FutureType /\ leaving.pc = "dropScan" /\ leaving.home = f.home
        BY <1>1, FutureAt
      <4> HIDE DEF leaving
      <4>2. /\ [leaving EXCEPT !.at = first] \in FutureType
            /\ [leaving EXCEPT !.at = first].pc = "dropScan"
            /\ [leaving EXCEPT !.at = first].home = f.home
        BY <4>1 DEF FutureType
      <4>3. QED
        BY <4>2 DEF leaving
    <3> HIDE DEF scanned, scanning
    <3>4. QED
      BY <1>2, <1>4, <1>8, <2>1, <3>2, <3>3, TraceFuture
  <2>3. CASE f.pc = "dropScan" /\ f.at < NumBackends
    <3>1. f.at + 1 \in Backends
      BY <1>1, <2>3, PoolAssumption DEF FutureType, Backends
    <3>2. further \in FutureType /\ further.pc = "dropScan" /\ further.home = f.home
      BY <1>1, <2>3, <3>1 DEF FutureType
    <3>3. future' = [future EXCEPT ![i] = further]
      BY <1>8, <2>3
    <3> HIDE DEF further
    <3>4. QED
      BY <1>2, <1>4, <1>8, <2>1, <3>2, <3>3, TraceFuture
  <2>4. CASE f.pc = "dropScan" /\ ~(f.at < NumBackends)
    <3>1. future' = [future EXCEPT ![i] = over]
      BY <1>8, <2>4
    <3>2. over.pc = "done"
      BY FutureDone
    <3> HIDE DEF over
    <3>3. \A j \in Ids : future'[j] = IF j = i THEN over ELSE future[j]
      BY <3>1 DEF Inv, Shape
    <3>4. \A j \in Ids : Held(j)' <=> Held(j)
      BY <1>2, <1>8 DEF Held, At
    <3>5. \A j \in Ids : j # i => Traced(j)'
      BY <1>2, <2>1, <3>3, <3>4, TracedStays DEF Trace
    <3>6. Traced(i)'
      BY <1>4, <2>1, <3>2, <3>3 DEF Traced, Sees, Tracked
    <3>7. QED
      BY <3>5, <3>6 DEF Trace
  <2>5. QED
    BY <1>1, <2>2, <2>3, <2>4
<1>9. QED
  BY <1>2, <1>5, <1>6, <1>8

\* A future that looks again, or is dropped, is on its way to its call.
LEMMA TraceRegister ==
    ASSUME Inv, Trace, NEW i \in Ids, Register(i) \/ DropPending(i)
    PROVE  Trace'
<1> DEFINE f == future[i]
           placed == [f EXCEPT !.pc = "place"]
           unwoken == [placed EXCEPT !.woken = FALSE]
           fresh == [unwoken EXCEPT !.late = FALSE]
           dropped == [f EXCEPT !.pc = "dropHome"]
<1>1. f \in FutureType
  BY DEF Inv, Shape
<1>2. UNCHANGED <<waiting, running, beat>>
  BY DEF Register, DropPending, queueVars
<1>3. CASE Register(i)
  <2>1. placed \in FutureType /\ placed.pc = "place" /\ placed.home = f.home
    BY <1>1, FutureAt
  <2>2. future' = [future EXCEPT ![i] = fresh]
    BY <1>3 DEF Register
  <2> HIDE DEF placed
  <2>3. unwoken \in FutureType /\ unwoken.pc = "place" /\ unwoken.home = f.home
    BY <2>1 DEF FutureType
  <2> HIDE DEF unwoken
  <2>4. fresh \in FutureType /\ fresh.pc = "place" /\ fresh.home = f.home
    BY <2>3 DEF FutureType
  <2> HIDE DEF fresh
  <2>5. QED
    BY <1>2, <2>2, <2>4, TraceFuture DEF Dropping
<1>4. CASE DropPending(i)
  <2>1. dropped \in FutureType /\ dropped.pc = "dropHome" /\ dropped.home = f.home
    BY <1>1, FutureAt
  <2>2. future' = [future EXCEPT ![i] = dropped] /\ MayDrop /\ f.pc = "await"
    BY <1>4 DEF DropPending
  <2>3. Held(i)
    BY <2>2 DEF Inv, Kept, Awaited
  <2> HIDE DEF dropped
  <2>4. QED
    BY <1>2, <2>1, <2>2, <2>3, TraceFuture
<1>5. QED
  BY <1>3, <1>4

\* Whoever waits hears of a start.
LEMMA TraceStart ==
    ASSUME Inv, Trace, NEW b \in Backends, StartNext(b)
    PROVE  Trace'
<1>1. PICK p \in Placement(b, step[b].paused, step[b].held) :
          /\ waiting' = [waiting EXCEPT ![b] = @ \ {p[1]}]
          /\ running' = [running EXCEPT ![b] = @ \cup {p[1]}]
          /\ future' = Woken(future)
  BY DEF StartNext
<1>2. PICK i \in Ids : i = p[1]
  BY PlacementIsFree DEF Inv
<1>3. beat' = beat /\ i \in waiting[b]
  BY <1>2, PlacementIsFree DEF StartNext, Inv
<1>4. \A j \in Ids : /\ future'[j].pc = future[j].pc
                     /\ future'[j].at = future[j].at
                     /\ future'[j].home = future[j].home
                     /\ future[j].woken => future'[j].woken
                     /\ future[j].pc \in Listening => future'[j].woken
  BY <1>1, WokenMovesNobody DEF Inv, Shape
<1>5. /\ \A j \in Ids : Held(j)' <=> Held(j)
      /\ \A c \in Backends : At(c)' = At(c)
  <2>1. CargoKept
    BY <1>3 DEF CargoKept
  <2>2. QED
    BY <1>1, <1>2, <1>3, <2>1, Started DEF Inv
<1>6. \A c \in Backends : running'[c] = IF c = b THEN running[c] \cup {i} ELSE running[c]
  BY <1>1, <1>2 DEF Inv, Shape
<1>7. ASSUME NEW j \in Ids, j # i
      PROVE  Traced(j)'
  BY <1>4, <1>5, <1>6, <1>7, TracedStays DEF Trace
<1>8. Traced(i)'
  <2>1. Held(i) /\ i \in At(b) /\ i \notin running[b] /\ Traced(i)
    BY <1>3 DEF Held, At, Inv, Alone, Trace
  <2>2. ASSUME NEW c \in Backends, i \in running'[c]
        PROVE  Sees(i, c)'
    <3>1. future[i].pc # "none" /\ future[i].pc \notin {"slot", "dropFinish"}
      <4>1. future[i].pc # "none"
        BY <2>1 DEF Inv, Known
      <4>2. \A d \in Backends : i \notin running[d]
        <5>1. ASSUME NEW d \in Backends PROVE i \notin running[d]
          <6>1. CASE d = b
            BY <2>1, <6>1
          <6>2. CASE d # b
            <7>1. At(d) \cap At(b) = {}
              BY <6>2 DEF Inv, Alone
            <7>2. QED
              BY <2>1, <7>1 DEF At
          <6>3. QED
            BY <6>1, <6>2
        <5>2. QED
          BY <5>1
      <4>3. future[i].at \in Backends
        BY DEF Inv, Shape, FutureType
      <4>4. QED
        BY <4>1, <4>2, <4>3 DEF Inv, Kept
    <3>2. future[i] \in FutureType
      BY DEF Inv, Shape
    <3>3. CASE future[i].pc \in Listening
      BY <1>4, <3>3 DEF Sees, WillLook
    <3>4. CASE future[i].pc \in {"enter", "register", "dropHome", "dropScan", "done"}
      BY <1>4, <3>4 DEF Sees, WillLook
    <3>5. QED
      BY <3>1, <3>2, <3>3, <3>4 DEF FutureType, Listening
  <2>3. ASSUME Beats = {}
        PROVE  AtHome(i)'
    BY <1>4, <1>5, <2>1, <2>3 DEF Traced, AtHome
  <2>4. /\ ~MayDrop => future'[i].pc \notin Dropping
        /\ Tracked /\ future'[i].pc = "done" => ~Held(i)'
    BY <1>4, <1>5, <2>1 DEF Traced
  <2>5. QED
    BY <2>2, <2>3, <2>4 DEF Traced, Tracked
<1>9. QED
  BY <1>7, <1>8 DEF Trace

\* The future a method answers goes where its call is.
LEMMA TraceStepDone ==
    ASSUME Inv, Trace, NEW b \in Backends, StepDone(b)
    PROVE  Trace'
<1> DEFINE n == step[b].for
<1>1. waiting' = waiting /\ running' = running
  BY DEF StepDone, queueVars
<1>2. \A j \in Ids : Held(j)' <=> Held(j)
  BY StepDoneInv DEF HoldersKept
<1>3. /\ n > 0 => n \in Ids /\ n \in At(b)
      /\ \A i \in Ids : ~(n > 0 /\ i = n) => /\ future'[i].pc = future[i].pc
                                             /\ future'[i].at = future[i].at
                                             /\ future'[i].home = future[i].home
                                             /\ future[i].woken => future'[i].woken
      /\ n > 0 => /\ future'[n].home = future[n].home
                  /\ \/ future'[n].pc = "register"
                     \/ future'[n].pc = "await" /\ n \notin running[b]
                     \/ future'[n].pc = "slot" /\ future'[n].at = b /\ n \in running[b]
  BY StepAnswers
<1>4. \A c \in Backends : At(c)' = At(c)
  BY <1>1 DEF At
<1>5. ASSUME NEW j \in Ids, ~(n > 0 /\ j = n)
      PROVE  Traced(j)'
  BY <1>1, <1>2, <1>3, <1>4, <1>5, TracedStays DEF Trace
<1>6. ASSUME NEW j \in Ids, n > 0, j = n
      PROVE  Traced(j)'
  <2>1. /\ future'[j].home = future[j].home
        /\ \/ future'[j].pc = "register"
           \/ future'[j].pc = "await" /\ j \notin running[b]
           \/ future'[j].pc = "slot"
        /\ j \in At(b)
    BY <1>3, <1>6
  <2>2. ASSUME NEW c \in Backends, j \in running'[c]
        PROVE  Sees(j, c)'
    <3>1. CASE future'[j].pc = "await" /\ j \notin running[b]
      <4>1. c # b
        BY <1>1, <2>2, <3>1
      <4>2. At(c) \cap At(b) = {}
        BY <4>1 DEF Inv, Alone
      <4>3. QED
        BY <1>1, <2>1, <2>2, <4>2 DEF At
    <3>2. CASE future'[j].pc \in {"register", "slot"}
      BY <3>2 DEF Sees, WillLook
    <3>3. QED
      BY <2>1, <3>1, <3>2
  <2>3. ASSUME Beats = {}
        PROVE  AtHome(j)'
    BY <1>4, <2>1, <2>3 DEF Trace, Traced, AtHome
  <2>4. QED
    BY <2>1, <2>2, <2>3 DEF Traced, Tracked, Dropping
<1>7. QED
  BY <1>5, <1>6 DEF Trace

\* A pass that counts, reads, picks, takes or puts leaves every call traced.
LEMMA TraceBeat ==
    ASSUME Inv, Trace, NEW k \in Beats, BeginRebalance(k, Backends) \/ BeatStep(k)
    PROVE  Trace'
<1>1. HoldersKept
  BY BeginRebalanceInv, CountWaitingInv, ReadLoadInv, PickTargetInv, TakeWaitingInv,
     PutWaitingInv DEF BeatStep
<1>2. future' = future /\ running' = running
  BY DEF BeatStep, BeginRebalance, CountWaiting, ReadLoad, PickTarget, TakeWaiting, PutWaiting,
         queueVars
<1>3. QED
  BY <1>1, <1>2, TraceSteady DEF CourseKept

\* So do the gate, the holds and the clock.
LEMMA TraceEnvironment ==
    ASSUME Inv, Trace, Environment
    PROVE  Trace'
<1>1. ASSUME NEW i \in Ids, DropPending(i)
      PROVE  Trace'
  BY <1>1, TraceRegister
<1>2. ASSUME UNCHANGED <<waiting, running, beat>>, CourseKept,
             \A i \in Ids : future[i].woken => future'[i].woken
      PROVE  Trace'
  <2>1. HoldersKept
    BY <1>2 DEF HoldersKept, Held, At
  <2>2. QED
    BY <1>2, <2>1, TraceSteady
<1>3. CASE \/ \E v \in BOOLEAN : SetPaused(v)
           \/ \E i \in Ids : GoStale(i)
           \/ \E b \in Backends, ticks \in HoldTicks : HoldReserved(b, ticks)
           \/ \E b \in Backends : ClearReservedHold(b)
  BY <1>2, <1>3 DEF SetPaused, GoStale, HoldReserved, ClearReservedHold, CourseKept, queueVars
<1>4. CASE GateNotify \/ TimerFires
  <2>1. future' = Woken(future) /\ UNCHANGED <<waiting, running, beat>>
    BY <1>4 DEF GateNotify, TimerFires, queueVars
  <2>2. future \in [Ids -> FutureType]
    BY DEF Inv, Shape
  <2>3. /\ CourseKept
        /\ \A i \in Ids : future[i].woken => future'[i].woken
    BY <2>1, <2>2, WokenMovesNobody DEF CourseKept
  <2>4. QED
    BY <1>2, <2>1, <2>3
<1>5. CASE Tick
  <2>1. UNCHANGED <<waiting, running, beat>>
    BY <1>5 DEF Tick, queueVars
  <2>2. ASSUME NEW i \in Ids
        PROVE  /\ future'[i].pc = future[i].pc
               /\ future'[i].at = future[i].at
               /\ future'[i].home = future[i].home
               /\ future[i].woken => future'[i].woken
    <3>1. future'[i] \in {future[i], [future[i] EXCEPT !.late = TRUE]}
      BY <1>5 DEF Tick
    <3>2. future[i] \in FutureType
      BY DEF Inv, Shape
    <3>3. QED
      BY <3>1, <3>2 DEF FutureType
  <2>3. QED
    BY <1>2, <2>1, <2>2 DEF CourseKept
<1>6. QED
  BY <1>1, <1>3, <1>4, <1>5 DEF Environment

\* Every step keeps every call traced.
LEMMA TraceNext ==
    ASSUME Inv, Trace, [Next]_vars
    PROVE  Trace'
<1>1. ASSUME NEW i \in Ids, NEW b \in Backends, NEW outcome, NEW accepted,
             Finish(b, i, outcome, accepted)
      PROVE  Trace'
  BY <1>1, TraceOver DEF Finish
<1>2. ASSUME NEW i \in Ids, FutureStep(i) \/ EndOfCall(i)
      PROVE  Trace'
  <2>1. future[i].at \in Backends
    BY DEF Inv, Shape, FutureType
  <2>2. QED
    BY <1>1, <1>2, <2>1, TraceRegister, TraceLook, TraceAbandon
       DEF FutureStep, EndOfCall, FinishAbandoned, EndSlot
<1>3. CASE UNCHANGED vars
  <2>1. HoldersKept /\ CourseKept
    BY <1>3 DEF vars, queueVars, gateVars, HoldersKept, Held, At, CourseKept
  <2>2. QED
    BY <1>3, <2>1, TraceSteady DEF vars, queueVars
<1>4. QED
  BY <1>2, <1>3, TraceEnqueue, TraceStart, TraceStepDone, TraceBeat, TraceEnvironment
     DEF Next, LockStep

\* A call's holders are as many as its places: none or one.
LEMMA HoldersCount ==
    ASSUME Inv, NEW i \in Ids
    PROVE  /\ Held(i) => Cardinality(Holders(i)) = 1
           /\ ~Held(i) => Holders(i) = {} /\ Cardinality(Holders(i)) = 0
<1>1. ASSUME ~Held(i)
      PROVE  Holders(i) = {}
  BY <1>1 DEF Held, At, Holders
<1>2. ASSUME NEW b \in Backends, i \in waiting[b]
      PROVE  Holders(i) = {<<"waiting", b>>}
  <2>1. \A c \in Backends : i \in waiting[c] <=> c = b
    <3>1. \A c \in Backends : c # b => At(c) \cap At(b) = {}
      BY DEF Inv, Alone
    <3>2. QED
      BY <1>2, <3>1 DEF At
  <2>2. \A c \in Backends : i \notin running[c]
    <3>1. \A c \in Backends : c # b => At(c) \cap At(b) = {}
      BY DEF Inv, Alone
    <3>2. i \notin running[b]
      BY <1>2 DEF Inv, Alone
    <3>3. QED
      BY <1>2, <3>1, <3>2 DEF At
  <2>3. \A k \in Beats : beat[k].cargo # i
    BY <1>2 DEF Inv, Alone, At
  <2>4. QED
    BY <2>1, <2>2, <2>3 DEF Holders
<1>3. ASSUME NEW b \in Backends, i \in running[b]
      PROVE  Holders(i) = {<<"running", b>>}
  <2>1. \A c \in Backends : i \in running[c] <=> c = b
    <3>1. \A c \in Backends : c # b => At(c) \cap At(b) = {}
      BY DEF Inv, Alone
    <3>2. QED
      BY <1>3, <3>1 DEF At
  <2>2. \A c \in Backends : i \notin waiting[c]
    <3>1. \A c \in Backends : c # b => At(c) \cap At(b) = {}
      BY DEF Inv, Alone
    <3>2. i \notin waiting[b]
      BY <1>3 DEF Inv, Alone
    <3>3. QED
      BY <1>3, <3>1, <3>2 DEF At
  <2>3. \A k \in Beats : beat[k].cargo # i
    BY <1>3 DEF Inv, Alone, At
  <2>4. QED
    BY <2>1, <2>2, <2>3 DEF Holders
<1>4. ASSUME NEW k \in Beats, beat[k].cargo = i
      PROVE  Holders(i) = {<<"moving", k>>}
  <2>1. \A l \in Beats : beat[l].cargo = i <=> l = k
    BY <1>4 DEF Inv, Alone, Ids
  <2>2. \A c \in Backends : i \notin waiting[c] /\ i \notin running[c]
    BY <1>4 DEF Inv, Alone, At
  <2>3. QED
    BY <2>1, <2>2 DEF Holders
<1>5. ASSUME Held(i)
      PROVE  \E h : Holders(i) = {h}
  BY <1>2, <1>3, <1>4, <1>5 DEF Held, At
<1>6. QED
  BY <1>1, <1>5, FS_EmptySet, FS_Singleton

\* Nothing more is needed for a call to be held once.
LEMMA OncePlaced ==
    ASSUME Inv
    PROVE  HeldOnce
<1> SUFFICES ASSUME NEW i \in Ids
             PROVE  /\ Cardinality(Holders(i)) <= 1
                    /\ future[i].pc \in Awaited => Cardinality(Holders(i)) = 1
                    /\ future[i].pc \in {"slot", "dropFinish"} => i \in running[future[i].at]
  BY DEF HeldOnce, Awaited
<1>1. Cardinality(Holders(i)) \in {0, 1}
  BY HoldersCount
<1>2. QED
  BY <1>1, HoldersCount DEF Inv, Kept

\* Futures start traced,
LEMMA TraceInit ==
    ASSUME Init
    PROVE  Trace
<1>1. Inv
  BY InitInv
<1>2. \A i \in Ids : future[i].pc = "none"
  BY NoFutureType DEF Init, NoFuture
<1>3. \A i \in Ids, b \in Backends : i \notin At(b) /\ i \notin running[b]
  BY DEF Init, At
<1>4. QED
  BY <1>2, <1>3 DEF Trace, Traced, AtHome, Dropping

-----------------------------------------------------------------------------
(* Buckets, lanes and trials, whatever the tuner does to the level.        *)

\* The calls that are over, or that nobody holds any more.
Past == {i \in Ids : i < nextId /\ ~Held(i)}

\* A trial has counted those of its calls that do not run any more.
Accounted(trial, R, past) ==
    trial # NoTrial =>
        /\ trial.dispatched \subseteq R \cup past
        /\ trial.completed = Cardinality(trial.dispatched \ R)
        /\ trial.completed < trial.window

Bucketed(b) ==
    /\ Cardinality(running[b]) <= Ceiling
    /\ \A i, j \in running[b] : runner[i].bucket = runner[j].bucket => i = j
    /\ \A i \in running[b] : meta[i].lane = "reserved" /\ runner[i].level >= ReservedFrom
                                 => runner[i].bucket = 0

Tidy == \A b \in Backends : Bucketed(b) /\ Accounted(tuner[b].trial, running[b], Past)

\* A poll keeps the trial, or opens one that has counted nothing yet.
LEMMA PollAccounts ==
    ASSUME NEW t, Sane(t), NEW R \in SUBSET Ids, NEW past, NEW backlog, NEW isPaused,
           Accounted(t.trial, R, past)
    PROVE  Accounted(Poll(t, backlog, isPaused).trial, R, past)
<1> DEFINE trial == [incumbent |-> t.level, level |-> Target(t), window |-> Window(Target(t)),
                     dispatched |-> {}, completed |-> 0]
           turned == [t EXCEPT !.direction = Turned(t)]
           opened == [turned EXCEPT !.history = Change(t, Target(t), "trial")]
           tried == [opened EXCEPT !.trial = trial]
           moved == [tried EXCEPT !.level = Target(t)]
<1>1. t \in TunerRecord
  BY DEF Sane
<1>2. turned.trial = t.trial
  BY <1>1 DEF TunerRecord
<1>3. Window(Target(t)) \in Nat \ {0}
  <2>1. Target(t) \in 1..Ceiling
    BY <1>1, PoolAssumption
       DEF TunerRecord, Turned, Target, CanStep, Stepped, Flipped, Direction
  <2>2. QED
    BY <2>1, PoolAssumption DEF Window
<1>4. moved.trial = trial
  BY <1>1 DEF TunerRecord
<1>5. Accounted(trial, R, past)
  <2>1. trial.dispatched = {} /\ trial.completed = 0 /\ trial.window \in Nat \ {0}
    BY <1>3
  <2>2. Cardinality({}) = 0
    BY FS_EmptySet
  <2>3. {} \ R = {}
    OBVIOUS
  <2> HIDE DEF trial
  <2>4. QED
    BY <2>1, <2>2, <2>3 DEF Accounted
<1>6. Poll(t, backlog, isPaused) \in {t, turned, moved}
  <2>1. moved = [turned EXCEPT !.history = Change(t, Target(t), "trial"),
                               !.trial = trial, !.level = Target(t)]
    BY DEF moved, tried, opened
  <2>2. QED
    BY <2>1 DEF Poll, turned, trial
<1> HIDE DEF moved, turned, trial
<1>7. QED
  BY <1>2, <1>4, <1>5, <1>6

\* A call that starts may join the trial, which has not counted it.
LEMMA DispatchAccounts ==
    ASSUME NEW t, Sane(t), NEW R \in SUBSET Ids, NEW past, NEW id \in Ids,
           id \notin R, id \notin past, Accounted(t.trial, R, past)
    PROVE  Accounted(OnDispatch(t, id).trial, R \cup {id}, past)
<1> DEFINE joined == [t.trial EXCEPT !.dispatched = @ \cup {id}]
           told == [t EXCEPT !.trial = joined]
           D == t.trial.dispatched
<1>1. t \in TunerRecord /\ t.trial \in TrialRecord
  BY DEF Sane, TunerRecord
<1>2. /\ joined.dispatched = D \cup {id}
      /\ joined.completed = t.trial.completed
      /\ joined.window = t.trial.window
  BY <1>1 DEF TrialRecord
<1>3. told.trial = joined
  BY <1>1 DEF TunerRecord
<1>4. CASE t.trial = NoTrial
  BY <1>4 DEF OnDispatch, Accounted
<1>5. CASE t.trial # NoTrial
  <2>1. /\ D \subseteq R \cup past
        /\ t.trial.completed = Cardinality(D \ R)
        /\ t.trial.completed < t.trial.window
    BY <1>5 DEF Accounted
  <2>2. D \ (R \cup {id}) = D \ R /\ (D \cup {id}) \ (R \cup {id}) = D \ R
    BY <2>1
  <2>3. Accounted(t.trial, R \cup {id}, past)
    BY <2>1, <2>2 DEF Accounted
  <2>4. Accounted(joined, R \cup {id}, past)
    <3> HIDE DEF joined
    <3>1. QED
      BY <1>2, <2>1, <2>2 DEF Accounted
  <2>5. OnDispatch(t, id) \in {t, told}
    BY DEF OnDispatch
  <2> HIDE DEF told, joined
  <2>6. QED
    BY <1>3, <2>3, <2>4, <2>5
<1>6. QED
  BY <1>4, <1>5

\* A call that ends is counted if it belongs to the trial.
LEMMA CompleteAccounts ==
    ASSUME NEW t, Sane(t), NEW R \in SUBSET Ids, NEW past, NEW later, NEW id \in R,
           past \subseteq later, id \in later,
           NEW level \in 0..Ceiling, NEW outcome \in Outcome, NEW accepted \in BOOLEAN,
           Accounted(t.trial, R, past)
    PROVE  Accounted(OnComplete(t, id, level, outcome, accepted).trial, R \ {id}, later)
<1> DEFINE sampled == Sampled(t, level, outcome)
           measured == Measured(sampled, id)
           ends == Conclude(measured, accepted, IF accepted THEN "kept" ELSE "rejected")
           fails == Conclude(sampled, FALSE, "failed")
           D == t.trial.dispatched
<1>1. Sane(sampled) /\ sampled.trial = t.trial
  BY SampledSane
<1>2. CASE t.trial = NoTrial
  BY <1>1, <1>2 DEF OnComplete, Accounted
<1>3. CASE t.trial # NoTrial
  <2>1. /\ D \subseteq R \cup past
        /\ t.trial.completed = Cardinality(D \ R)
        /\ t.trial.completed < t.trial.window
    BY <1>3 DEF Accounted
  <2>2. /\ Sane(measured)
        /\ measured.trial.window = t.trial.window
        /\ measured.trial.dispatched = D
        /\ measured.trial.completed = t.trial.completed + IF id \in D THEN 1 ELSE 0
    BY <1>1, <1>3, MeasuredSane
  <2>3. Cardinality(D \ (R \ {id})) = Cardinality(D \ R) + IF id \in D THEN 1 ELSE 0
    <3>1. IsFiniteSet(D \ R)
      <4>1. D \subseteq Ids
        BY DEF Sane, TunerRecord, TrialRecord
      <4>2. IsFiniteSet(Ids)
        BY FS_Interval, PoolAssumption DEF Ids
      <4>3. QED
        BY <4>1, <4>2, FS_Subset
    <3>2. Cardinality(D \ R) \in Nat
      BY <3>1, FS_CardinalityType
    <3>3. CASE id \in D
      <4>1. D \ (R \ {id}) = (D \ R) \cup {id} /\ id \notin D \ R
        BY <3>3
      <4> DEFINE before == D \ R
      <4> HIDE DEF before
      <4>2. Cardinality(before \cup {id}) = Cardinality(before) + 1
        BY <3>1, <4>1, FS_AddElement DEF before
      <4>3. Cardinality(D \ (R \ {id})) = Cardinality(D \ R) + 1
        BY <4>1, <4>2 DEF before
      <4> HIDE DEF D
      <4>4. QED
        BY <3>3, <4>3
    <3>4. CASE id \notin D
      <4>1. D \ (R \ {id}) = D \ R
        BY <3>4
      <4> HIDE DEF D
      <4>2. QED
        BY <3>2, <3>4, <4>1
    <3>5. QED
      BY <3>3, <3>4
  <2>4. CASE OnComplete(t, id, level, outcome, accepted) = measured
             /\ measured.trial.completed < measured.trial.window
    <3> HIDE DEF measured, D
    <3>1. D \subseteq (R \ {id}) \cup later
      BY <2>1
    <3>2. QED
      BY <2>1, <2>2, <2>3, <2>4, <3>1 DEF Accounted
  <2>5. CASE OnComplete(t, id, level, outcome, accepted) \in {ends, fails}
    <3>1. ASSUME NEW u, Sane(u), NEW kept, NEW reason
          PROVE  Conclude(u, kept, reason).trial = NoTrial
      BY <3>1 DEF Conclude, Sane, TunerRecord
    <3>2. ends.trial = NoTrial /\ fails.trial = NoTrial
      BY <1>1, <2>2, <3>1
    <3> HIDE DEF ends, fails
    <3>3. QED
      BY <2>5, <3>2 DEF Accounted
  <2>6. \/ /\ OnComplete(t, id, level, outcome, accepted) = measured
           /\ measured.trial.completed < measured.trial.window
        \/ OnComplete(t, id, level, outcome, accepted) \in {ends, fails}
    BY <1>3 DEF OnComplete
  <2>7. QED
    BY <2>4, <2>5, <2>6
<1>4. QED
  BY <1>2, <1>3

\* What is accounted for stays so when more is past.
LEMMA AccountedGrows ==
    ASSUME NEW trial, NEW R, NEW past, NEW later, past \subseteq later,
           Accounted(trial, R, past)
    PROVE  Accounted(trial, R, later)
BY DEF Accounted

\* Where no call starts or ends, and trials at most open.
LEMMA TidySteady ==
    ASSUME Inv, Tidy, running' = running, Past \subseteq Past',
           \A b \in Backends : \A i \in running[b] :
               runner'[i] = runner[i] /\ meta'[i] = meta[i],
           \A b \in Backends : Accounted(tuner'[b].trial, running[b], Past)
    PROVE  Tidy'
<1> SUFFICES ASSUME NEW b \in Backends
             PROVE  Bucketed(b)' /\ Accounted(tuner'[b].trial, running'[b], Past')
  BY DEF Tidy
<1>1. Bucketed(b)'
  BY DEF Tidy, Bucketed
<1>2. Accounted(tuner'[b].trial, running[b], Past')
  BY AccountedGrows
<1>3. QED
  BY <1>1, <1>2

\* A lock that is taken leaves the trials accounted for.
LEMMA BeginStepAccounts ==
    ASSUME Inv, Tidy, NEW b \in Backends, NEW t, Sane(t), NEW R \in SUBSET Ids, NEW past,
           Accounted(t.trial, R, past), NEW backlog, NEW late, NEW n, NEW notify,
           BeginStep(b, t, backlog, late, n, notify)
    PROVE  /\ Accounted(tuner'[b].trial, R, past)
           /\ \A c \in Backends : c # b => tuner'[c] = tuner[c]
<1> DEFINE polled == Poll(t, backlog, paused)
<1>1. tuner' = [tuner EXCEPT ![b] = polled]
  BY DEF BeginStep
<1>2. Accounted(polled.trial, R, past)
  BY PollAccounts
<1> HIDE DEF polled
<1>3. QED
  BY <1>1, <1>2 DEF Inv, Shape

\* The same, where the lock is taken for what the tuner already knows.
LEMMA LockedAccounts ==
    ASSUME Inv, Tidy, NEW b \in Backends, NEW backlog, NEW late, NEW n, NEW notify,
           BeginStep(b, tuner[b], backlog, late, n, notify)
    PROVE  \A c \in Backends : Accounted(tuner'[c].trial, running[c], Past)
<1>1. /\ Sane(tuner[b]) /\ running[b] \in SUBSET Ids
      /\ Accounted(tuner[b].trial, running[b], Past)
  BY DEF Inv, Shape, Tidy
<1>2. /\ Accounted(tuner'[b].trial, running[b], Past)
      /\ \A c \in Backends : c # b => tuner'[c] = tuner[c]
  BY <1>1, BeginStepAccounts
<1>3. QED
  BY <1>2 DEF Tidy

\* A call that is queued starts nowhere yet.
LEMMA TidyEnqueue ==
    ASSUME Inv, Tidy, NEW b \in Backends, NEW m \in Metas, Enqueue(b, m)
    PROVE  Tidy'
<1>1. PICK i \in Ids : i = nextId
  BY DEF Enqueue
<1>2. /\ waiting' = [waiting EXCEPT ![b] = @ \cup {i}]
      /\ meta' = [meta EXCEPT ![i] = m]
      /\ nextId' = i + 1
      /\ UNCHANGED <<running, runner, beat>>
  BY <1>1 DEF Enqueue
<1>3. ~Held(i)
  BY <1>1 DEF Inv, Known, Ids
<1>4. \A j \in Ids : Held(j)' <=> j = i \/ Held(j)
  <2>1. CargoKept
    BY <1>2 DEF CargoKept
  <2>2. QED
    BY <1>2, <1>3, <2>1, Joined DEF Inv
<1>5. Past \subseteq Past'
  BY <1>1, <1>2, <1>4 DEF Past, Ids
<1>6. \A c \in Backends : \A j \in running[c] : runner'[j] = runner[j] /\ meta'[j] = meta[j]
  <2>1. \A c \in Backends : i \notin running[c]
    BY <1>3 DEF Held, At
  <2>2. QED
    BY <1>2, <2>1 DEF Inv, Shape
<1>7. \A c \in Backends : Accounted(tuner'[c].trial, running[c], Past)
  BY LockedAccounts DEF Enqueue
<1>8. QED
  BY <1>2, <1>5, <1>6, <1>7, TidySteady

\* A call that is withdrawn never ran.
LEMMA TidyWithdraw ==
    ASSUME Inv, Tidy, NEW i \in Ids, NEW b \in Backends, i \in waiting[b], Withdraw(b, i),
           UNCHANGED <<running, runner, nextId, tuner, beat>>
    PROVE  Tidy'
<1>1. \A j \in Ids : Held(j)' <=> j # i /\ Held(j)
  <2>1. CargoKept
    BY DEF CargoKept
  <2>2. QED
    BY <2>1, Withdrawn DEF Inv, Withdraw
<1>2. Past \subseteq Past'
  BY <1>1 DEF Past
<1>3. \A c \in Backends : i \notin running[c]
  <2>1. \A c \in Backends : c # b => At(c) \cap At(b) = {}
    BY DEF Inv, Alone
  <2>2. i \notin running[b]
    BY DEF Inv, Alone
  <2>3. QED
    BY <2>1, <2>2 DEF At
<1>4. \A c \in Backends : \A j \in running[c] : meta'[j] = meta[j]
  BY <1>3 DEF Withdraw, Inv, Shape
<1>5. \A c \in Backends : Accounted(tuner'[c].trial, running[c], Past)
  BY DEF Tidy
<1>6. QED
  BY <1>2, <1>4, <1>5, TidySteady

\* A call that ends gives its bucket back, and the trial counts it.
LEMMA TidyFinish ==
    ASSUME Inv, Tidy, NEW i \in Ids, NEW b \in Backends, NEW outcome \in Outcome,
           NEW accepted \in BOOLEAN, Finish(b, i, outcome, accepted)
    PROVE  Tidy'
<1> DEFINE told == OnComplete(tuner[b], i, runner[i].level, outcome, accepted)
           backlog == Cardinality(waiting[b]) + Cardinality(running[b]) - 1
<1>1. /\ i \in running[b]
      /\ running' = [running EXCEPT ![b] = @ \ {i}]
      /\ runner' = [runner EXCEPT ![i] = NoRunner]
      /\ meta' = [meta EXCEPT ![i] = NoMeta]
      /\ BeginStep(b, told, backlog, 0, 0, TRUE)
      /\ UNCHANGED <<waiting, nextId, beat>>
  BY DEF Finish
<1>2. /\ \A j \in Ids : Held(j)' <=> j # i /\ Held(j)
      /\ \A c \in Backends : At(c)' = At(c) \ {i}
  <2>1. CargoKept
    BY <1>1 DEF CargoKept
  <2>2. QED
    BY <1>1, <2>1, Ended DEF Inv
<1>3. /\ Past \subseteq Past' /\ i \in Past'
      /\ Sane(tuner[b]) /\ running[b] \in SUBSET Ids
      /\ Accounted(tuner[b].trial, running[b], Past)
      /\ runner[i].level \in 0..Ceiling
  <2>1. Held(i)
    BY <1>1 DEF Held, At
  <2>2. i < nextId
    BY <2>1 DEF Inv, Known, Ids, Shape
  <2>3. QED
    BY <1>1, <1>2, <2>2 DEF Past, Inv, Shape, Tidy
<1>4. Sane(told) /\ Accounted(told.trial, running[b] \ {i}, Past')
  <2>1. Sane(told)
    BY <1>3, OnCompleteSane
  <2>2. QED
    BY <1>1, <1>3, <2>1, CompleteAccounts
<1> HIDE DEF told, backlog
<1>5. /\ Accounted(tuner'[b].trial, running[b] \ {i}, Past')
      /\ \A c \in Backends : c # b => tuner'[c] = tuner[c]
  <2>1. running[b] \ {i} \in SUBSET Ids
    BY <1>3
  <2> DEFINE R == running[b] \ {i}
  <2> HIDE DEF R
  <2>2. QED
    BY <1>1, <1>4, <2>1, BeginStepAccounts DEF R
<1>6. ASSUME NEW c \in Backends, c # b
      PROVE  Bucketed(c)' /\ Accounted(tuner'[c].trial, running'[c], Past')
  <2>1. running'[c] = running[c] /\ i \notin running[c]
    <3>1. At(c) \cap At(b) = {}
      BY <1>6 DEF Inv, Alone
    <3>2. QED
      BY <1>1, <1>6, <3>1 DEF Inv, Shape, At
  <2>2. \A j \in running[c] : runner'[j] = runner[j] /\ meta'[j] = meta[j]
    BY <1>1, <2>1 DEF Inv, Shape
  <2>3. Bucketed(c)'
    BY <2>1, <2>2 DEF Tidy, Bucketed
  <2>4. Accounted(tuner[c].trial, running[c], Past')
    BY <1>3, AccountedGrows DEF Tidy
  <2>5. QED
    BY <1>5, <1>6, <2>1, <2>3, <2>4
<1>7. Bucketed(b)' /\ Accounted(tuner'[b].trial, running'[b], Past')
  <2>1. running'[b] = running[b] \ {i}
    BY <1>1 DEF Inv, Shape
  <2>2. \A j \in running[b] \ {i} : runner'[j] = runner[j] /\ meta'[j] = meta[j]
    BY <1>1 DEF Inv, Shape
  <2>3. Cardinality(running[b] \ {i}) <= Ceiling
    <3>1. IsFiniteSet(running[b])
      <4>1. IsFiniteSet(Ids)
        BY FS_Interval, PoolAssumption DEF Ids
      <4>2. QED
        BY <1>3, <4>1, FS_Subset
    <3>2. Cardinality(running[b] \ {i}) <= Cardinality(running[b])
          /\ Cardinality(running[b] \ {i}) \in Nat /\ Cardinality(running[b]) \in Nat
      BY <3>1, FS_Subset, FS_CardinalityType
    <3>3. Cardinality(running[b]) <= Ceiling
      BY DEF Tidy, Bucketed
    <3>4. QED
      BY <3>2, <3>3, PoolAssumption
  <2>4. Bucketed(b)'
    BY <2>1, <2>2, <2>3 DEF Tidy, Bucketed
  <2>5. QED
    BY <1>5, <2>1, <2>4
<1>8. QED
  BY <1>6, <1>7 DEF Tidy

\* A call that starts takes a bucket nobody has, the reserved lane its own.
LEMMA TidyStart ==
    ASSUME Inv, Tidy, NEW b \in Backends, StartNext(b)
    PROVE  Tidy'
<1>1. PICK p \in Placement(b, step[b].paused, step[b].held) :
          /\ waiting' = [waiting EXCEPT ![b] = @ \ {p[1]}]
          /\ running' = [running EXCEPT ![b] = @ \cup {p[1]}]
          /\ runner' = [runner EXCEPT ![p[1]] = [bucket |-> p[2], level |-> tuner[b].level]]
          /\ tuner' = [tuner EXCEPT ![b] = OnDispatch(tuner[b], p[1])]
  BY DEF StartNext
<1>2. PICK i \in Ids : i = p[1]
  BY PlacementIsFree DEF Inv
<1>3. /\ i \in waiting[b]
      /\ \A j \in running[b] : runner[j].bucket # p[2]
      /\ Cardinality(running[b]) < tuner[b].level
      /\ tuner[b].level >= ReservedFrom => (meta[i].lane = "reserved" => p[2] = 0)
      /\ UNCHANGED <<meta, nextId, beat>>
  <2>1. p[2] \in FreeBuckets(b)
    BY PlacementIsFree DEF Inv
  <2>2. \A j \in running[b] : runner[j].bucket # p[2]
    BY <2>1 DEF FreeBuckets
  <2>3. QED
    BY <1>2, <2>2, PlacementIsFree DEF Inv, StartNext
<1>4. /\ Sane(tuner[b]) /\ tuner[b].level \in 1..Ceiling /\ running[b] \in SUBSET Ids
      /\ Accounted(tuner[b].trial, running[b], Past)
  BY DEF Inv, Shape, Tidy, TunerRecord
<1>5. \A j \in Ids : Held(j)' <=> Held(j)
  <2>1. CargoKept
    BY <1>3 DEF CargoKept
  <2>2. QED
    BY <1>1, <1>2, <1>3, <2>1, Started DEF Inv
<1>6. Past' = Past
  BY <1>3, <1>5 DEF Past
<1>7. Held(i) /\ i \notin running[b] /\ i \notin Past
  BY <1>3 DEF Held, At, Inv, Alone, Past
<1>8. ASSUME NEW c \in Backends, c # b
      PROVE  Bucketed(c)' /\ Accounted(tuner'[c].trial, running'[c], Past')
  <2>1. running'[c] = running[c] /\ i \notin running[c] /\ tuner'[c] = tuner[c]
    <3>1. At(c) \cap At(b) = {}
      BY <1>8 DEF Inv, Alone
    <3>2. QED
      BY <1>1, <1>3, <1>8, <3>1 DEF Inv, Shape, At
  <2>2. \A j \in running[c] : runner'[j] = runner[j]
    BY <1>1, <1>2, <2>1 DEF Inv, Shape
  <2>3. Bucketed(c)'
    BY <1>3, <2>1, <2>2 DEF Tidy, Bucketed
  <2>4. QED
    BY <1>6, <2>1, <2>3 DEF Tidy
<1>9. Bucketed(b)' /\ Accounted(tuner'[b].trial, running'[b], Past')
  <2>1. running'[b] = running[b] \cup {i}
    BY <1>1, <1>2 DEF Inv, Shape
  <2>2. runner'[i].bucket = p[2] /\ runner'[i].level = tuner[b].level
    BY <1>1, <1>2 DEF Inv, Shape
  <2>3. \A j \in running[b] : runner'[j] = runner[j]
    BY <1>1, <1>2, <1>7 DEF Inv, Shape
  <2>4. Cardinality(running[b] \cup {i}) <= Ceiling
    <3>1. IsFiniteSet(running[b])
      <4>1. IsFiniteSet(Ids)
        BY FS_Interval, PoolAssumption DEF Ids
      <4>2. QED
        BY <1>4, <4>1, FS_Subset
    <3>2. Cardinality(running[b] \cup {i}) = Cardinality(running[b]) + 1
          /\ Cardinality(running[b]) \in Nat
      BY <1>7, <3>1, FS_AddElement, FS_CardinalityType
    <3>3. QED
      BY <1>3, <1>4, <3>2, PoolAssumption
  <2>5. Bucketed(b)'
    <3>1. \A j, l \in running'[b] : runner'[j].bucket = runner'[l].bucket => j = l
      BY <1>3, <2>1, <2>2, <2>3 DEF Tidy, Bucketed
    <3>2. \A j \in running'[b] : meta'[j].lane = "reserved" /\ runner'[j].level >= ReservedFrom
                                     => runner'[j].bucket = 0
      BY <1>3, <2>1, <2>2, <2>3 DEF Tidy, Bucketed
    <3>3. QED
      BY <2>1, <2>4, <3>1, <3>2 DEF Bucketed
  <2>6. tuner'[b] = OnDispatch(tuner[b], i)
    BY <1>1, <1>2 DEF Inv, Shape
  <2>7. Accounted(OnDispatch(tuner[b], i).trial, running[b] \cup {i}, Past)
    BY <1>4, <1>7, DispatchAccounts
  <2>8. QED
    BY <1>6, <2>1, <2>5, <2>6, <2>7
<1>10. QED
  BY <1>8, <1>9 DEF Tidy

\* A future that looks, registers or is dropped starts nothing.
LEMMA TidyFuture ==
    ASSUME Inv, Tidy, NEW i \in Ids, Register(i) \/ DropPending(i) \/ Look(i) \/ Abandon(i)
    PROVE  Tidy'
<1>1. UNCHANGED <<running, runner, nextId, beat>>
  BY DEF Register, DropPending, Look, Abandon, queueVars
<1>2. CASE \E b \in Backends : i \in waiting[b] /\ Withdraw(b, i) /\ tuner' = tuner
  BY <1>1, <1>2, TidyWithdraw
<1>3. ASSUME waiting' = waiting, meta' = meta,
             \A b \in Backends : Accounted(tuner'[b].trial, running[b], Past)
      PROVE  Tidy'
  <2>1. Past' = Past
    BY <1>1, <1>3 DEF Past, Held, At
  <2>2. QED
    BY <1>1, <1>3, <2>1, TidySteady
<1>4. CASE Register(i) \/ DropPending(i)
  BY <1>3, <1>4 DEF Register, DropPending, queueVars, Tidy
<1>5. CASE Look(i)
  <2> DEFINE b == IF future[i].pc = "place" THEN future[i].home ELSE future[i].at
             backlog == Cardinality(waiting[b]) + Cardinality(running[b])
  <2>1. b \in Backends
    BY DEF Inv, Shape, FutureType
  <2>2. \/ UNCHANGED <<waiting, meta, tuner>>
        \/ i \in waiting[b] /\ Withdraw(b, i) /\ tuner' = tuner
        \/ /\ \E late \in {0, 1} : BeginStep(b, tuner[b], backlog, late, i, FALSE)
           /\ UNCHANGED <<waiting, meta>>
    BY <1>5 DEF Look
  <2> HIDE DEF b, backlog
  <2>3. CASE UNCHANGED <<waiting, meta, tuner>>
    BY <1>3, <2>3 DEF Tidy
  <2>4. CASE /\ \E late \in {0, 1} : BeginStep(b, tuner[b], backlog, late, i, FALSE)
             /\ UNCHANGED <<waiting, meta>>
    BY <1>3, <2>1, <2>4, LockedAccounts
  <2>5. QED
    BY <1>2, <2>1, <2>2, <2>3, <2>4
<1>6. CASE Abandon(i)
  <2> DEFINE b == IF future[i].pc = "dropHome" THEN future[i].home ELSE future[i].at
  <2>1. b \in Backends
    BY DEF Inv, Shape, FutureType
  <2>2. /\ \/ UNCHANGED <<waiting, meta>>
           \/ i \in waiting[b] /\ Withdraw(b, i)
        /\ tuner' = tuner
    BY <1>6 DEF Abandon
  <2> HIDE DEF b
  <2>3. QED
    BY <1>2, <1>3, <2>1, <2>2 DEF Tidy
<1>7. QED
  BY <1>4, <1>5, <1>6

\* Nor does a pass that moves a waiting call,
LEMMA TidyBeat ==
    ASSUME Inv, Tidy, NEW k \in Beats, BeginRebalance(k, Backends) \/ BeatStep(k)
    PROVE  Tidy'
<1>1. HoldersKept
  BY BeginRebalanceInv, CountWaitingInv, ReadLoadInv, PickTargetInv, TakeWaitingInv,
     PutWaitingInv DEF BeatStep
<1>2. UNCHANGED <<running, runner, meta, nextId>>
  BY DEF BeatStep, BeginRebalance, CountWaiting, ReadLoad, PickTarget, TakeWaiting, PutWaiting,
         queueVars
<1>3. Past' = Past
  BY <1>1, <1>2 DEF Past, HoldersKept
<1>4. \A b \in Backends : Accounted(tuner'[b].trial, running[b], Past)
  <2>1. CASE PutWaiting(k)
    <3> DEFINE b == beat[k].target
               backlog == Cardinality(waiting[b]) + 1 + Cardinality(running[b])
    <3>1. b \in Backends /\ BeginStep(b, tuner[b], backlog, 0, -k, TRUE)
      BY <2>1 DEF PutWaiting, Inv, Beating, Fits
    <3> HIDE DEF b, backlog
    <3>2. QED
      BY <3>1, LockedAccounts
  <2>2. CASE ~PutWaiting(k)
    <3>1. tuner' = tuner
      BY <2>2 DEF BeatStep, BeginRebalance, CountWaiting, ReadLoad, PickTarget, TakeWaiting
    <3>2. QED
      BY <3>1 DEF Tidy
  <2>3. QED
    BY <2>1, <2>2
<1>5. QED
  BY <1>2, <1>3, <1>4, TidySteady

\* a method that returns, the gate, a hold or the clock.
LEMMA TidyQuiet ==
    ASSUME Inv, Tidy,
           \/ \E b \in Backends : StepDone(b) \/ ClearReservedHold(b)
           \/ \E v \in BOOLEAN : SetPaused(v)
           \/ \E i \in Ids : GoStale(i)
           \/ GateNotify
           \/ \E b \in Backends, ticks \in HoldTicks : HoldReserved(b, ticks)
           \/ TimerFires
           \/ Tick
           \/ UNCHANGED vars
    PROVE  Tidy'
<1>1. UNCHANGED queueVars
  BY DEF StepDone, ClearReservedHold, SetPaused, GoStale, GateNotify, HoldReserved, TimerFires,
         Tick, vars
<1>2. HoldersKept
  <2>1. CASE \E b \in Backends : StepDone(b)
    BY <2>1, StepDoneInv
  <2>2. CASE ~\E b \in Backends : StepDone(b)
    <3>1. beat' = beat
      BY <2>2 DEF ClearReservedHold, SetPaused, GoStale, GateNotify, HoldReserved, TimerFires,
                  Tick, vars
    <3>2. QED
      BY <1>1, <3>1 DEF HoldersKept, Held, At, queueVars
  <2>3. QED
    BY <2>1, <2>2
<1>3. Past' = Past
  BY <1>1, <1>2 DEF Past, HoldersKept, queueVars
<1>4. \A b \in Backends : Accounted(tuner'[b].trial, running[b], Past)
  <2>1. CASE tuner' = tuner
    BY <2>1 DEF Tidy
  <2>2. ASSUME NEW b \in Backends, ClearReservedHold(b)
        PROVE  \A c \in Backends : Accounted(tuner'[c].trial, running[c], Past)
    <3> DEFINE polled == Poll(tuner[b], Cardinality(waiting[b]) + Cardinality(running[b]), paused)
    <3>1. tuner' = [tuner EXCEPT ![b] = polled]
      BY <2>2 DEF ClearReservedHold
    <3>2. Accounted(polled.trial, running[b], Past)
      BY PollAccounts DEF Inv, Shape, Tidy
    <3> HIDE DEF polled
    <3>3. QED
      BY <3>1, <3>2 DEF Inv, Shape, Tidy
  <2>3. CASE Tick
    <3>1. \A b \in Backends : tuner'[b].trial = tuner[b].trial
      BY <2>3 DEF Tick, Elapse, Inv, Shape, TunerRecord
    <3>2. QED
      BY <3>1 DEF Tidy
  <2>4. QED
    BY <2>1, <2>2, <2>3 DEF StepDone, SetPaused, GoStale, GateNotify, HoldReserved, TimerFires, vars
<1>5. QED
  BY <1>1, <1>3, <1>4, TidySteady DEF queueVars

\* Every step leaves buckets, lanes and trials in order.
LEMMA TidyNext ==
    ASSUME Inv, Tidy, [Next]_vars
    PROVE  Tidy'
<1>1. ASSUME NEW i \in Ids, EndOfCall(i) \/ \E accepted \in BOOLEAN : FinishAbandoned(i, accepted)
      PROVE  Tidy'
  <2>1. future[i].at \in Backends /\ "cancelled" \in Outcome
    BY DEF Inv, Shape, FutureType, Outcome
  <2>2. QED
    BY <1>1, <2>1, TidyFinish DEF EndOfCall, EndSlot, FinishAbandoned
<1>2. ASSUME NEW i \in Ids, FutureStep(i)
      PROVE  Tidy'
  BY <1>1, <1>2, TidyFuture DEF FutureStep
<1>3. ASSUME Environment
      PROVE  Tidy'
  BY <1>3, TidyFuture, TidyQuiet DEF Environment
<1>4. QED
  BY <1>1, <1>2, <1>3, TidyEnqueue, TidyStart, TidyBeat, TidyQuiet DEF Next, LockStep

\* They are in order before any call starts.
LEMMA TidyInit ==
    ASSUME Init
    PROVE  Tidy
<1>1. \A b \in Backends : running[b] = {} /\ tuner[b].trial = NoTrial
  BY DEF Init, NewTuner
<1>2. Cardinality({}) <= Ceiling
  BY FS_EmptySet, PoolAssumption
<1>3. QED
  BY <1>1, <1>2 DEF Tidy, Bucketed, Accounted

-----------------------------------------------------------------------------
(* The pool implements CallPool.                                           *)

\* A call is only carried to a backend it is allowed on.
Destined == \A k \in Beats : beat[k].pc = "put" => beat[k].target \in meta[beat[k].cargo].allowed

PlaceMap == [i \in Ids |-> PlaceOf(i)]

Waiting(i, b) == [is |-> "waiting", at |-> b, allowed |-> meta[i].allowed]
Running(i, b) == [is |-> "running", at |-> b, allowed |-> meta[i].allowed]
Moving(i) == [is |-> "moving", at |-> 0, allowed |-> meta[i].allowed]

\* Where the refinement sees a call.
Placed ==
    \A i \in Ids :
        /\ \A b \in Backends : i \in waiting[b] => PlaceOf(i) = Waiting(i, b)
        /\ \A b \in Backends : i \in running[b] => PlaceOf(i) = Running(i, b)
        /\ \A k \in Beats : beat[k].cargo = i => PlaceOf(i) = Moving(i)
        /\ ~Held(i) => PlaceOf(i) = IF i < nextId THEN Pool!Over ELSE Pool!Unborn

\* A number alone is the least of itself.
LEMMA MinimumOfOne ==
    ASSUME NEW n \in Int
    PROVE  Minimum({n}) = n
BY DEF Minimum

\* The places a call has in the pool are the one it has in CallPool,
LEMMA WherePlaced == Inv => Placed
<1> SUFFICES ASSUME Inv, NEW i \in Ids
             PROVE  /\ \A b \in Backends : i \in waiting[b] => PlaceOf(i) = Waiting(i, b)
                    /\ \A b \in Backends : i \in running[b] => PlaceOf(i) = Running(i, b)
                    /\ \A k \in Beats : beat[k].cargo = i => PlaceOf(i) = Moving(i)
                    /\ ~Held(i) => PlaceOf(i) = IF i < nextId THEN Pool!Over ELSE Pool!Unborn
  BY DEF Placed
<1>1. \A b, c \in Backends : b # c => At(b) \cap At(c) = {}
  BY DEF Inv, Alone
<1>2. ASSUME NEW b \in Backends, i \in waiting[b]
      PROVE  PlaceOf(i) = Waiting(i, b)
  <2>1. {c \in Backends : i \in waiting[c]} = {b}
    BY <1>1, <1>2 DEF At
  <2>2. Minimum({b}) = b
    BY MinimumOfOne DEF Backends
  <2>3. QED
    BY <2>1, <2>2 DEF PlaceOf, Waiting
<1>3. ASSUME NEW b \in Backends, i \in running[b]
      PROVE  PlaceOf(i) = Running(i, b)
  <2>1. {c \in Backends : i \in running[c]} = {b}
    BY <1>1, <1>3 DEF At
  <2>2. {c \in Backends : i \in waiting[c]} = {}
    <3>1. waiting[b] \cap running[b] = {}
      BY DEF Inv, Alone
    <3>2. QED
      BY <1>1, <1>3, <3>1 DEF At
  <2>3. Minimum({b}) = b
    BY MinimumOfOne DEF Backends
  <2>4. QED
    BY <2>1, <2>2, <2>3 DEF PlaceOf, Running
<1>4. ASSUME NEW k \in Beats, beat[k].cargo = i
      PROVE  PlaceOf(i) = Moving(i)
  <2>1. \A c \in Backends : i \notin waiting[c] /\ i \notin running[c]
    BY <1>4 DEF Inv, Alone, At
  <2>2. {c \in Backends : i \in waiting[c]} = {} /\ {c \in Backends : i \in running[c]} = {}
    BY <2>1
  <2>3. QED
    BY <1>4, <2>2 DEF PlaceOf, Moving
<1>5. ASSUME ~Held(i)
      PROVE  PlaceOf(i) = IF i < nextId THEN Pool!Over ELSE Pool!Unborn
  <2>1. {c \in Backends : i \in waiting[c]} = {} /\ {c \in Backends : i \in running[c]} = {}
        /\ ~\E k \in Beats : beat[k].cargo = i
    BY <1>5 DEF Held, At
  <2>2. QED
    BY <2>1 DEF PlaceOf, Pool!Over, Pool!Unborn, Pool!Nowhere
<1>6. QED
  BY <1>2, <1>3, <1>4, <1>5

\* before a step and after it.
LEMMA WherePlacedNext == Inv' => Placed'
BY WherePlaced, PTL

\* A call whose own places stay has the same place.
LEMMA SamePlace ==
    ASSUME NEW i \in Ids,
           \A b \in Backends : i \in waiting'[b] <=> i \in waiting[b],
           \A b \in Backends : i \in running'[b] <=> i \in running[b],
           \A k \in Beats : beat'[k].cargo = i <=> beat[k].cargo = i,
           i < nextId' <=> i < nextId,
           Held(i) => meta'[i] = meta[i]
    PROVE  PlaceOf(i)' = PlaceOf(i)
<1>1. /\ {b \in Backends : i \in waiting'[b]} = {b \in Backends : i \in waiting[b]}
      /\ {b \in Backends : i \in running'[b]} = {b \in Backends : i \in running[b]}
      /\ (\E k \in Beats : beat'[k].cargo = i) <=> (\E k \in Beats : beat[k].cargo = i)
  OBVIOUS
<1>2. CASE Held(i)
  BY <1>1, <1>2 DEF PlaceOf
<1>3. CASE ~Held(i)
  <2>1. {c \in Backends : i \in waiting[c]} = {} /\ {c \in Backends : i \in running[c]} = {}
        /\ ~\E k \in Beats : beat[k].cargo = i
    BY <1>3 DEF Held, At
  <2>2. QED
    BY <1>1, <2>1 DEF PlaceOf
<1>4. QED
  BY <1>2, <1>3

\* Where no call changes its place, CallPool stands still.
LEMMA PlacesStutter ==
    ASSUME UNCHANGED <<waiting, running, nextId>>, CargoKept,
           \A i \in Ids : Held(i) => meta'[i] = meta[i]
    PROVE  PlaceMap' = PlaceMap
<1>1. \A i \in Ids : PlaceOf(i)' = PlaceOf(i)
  BY SamePlace DEF CargoKept
<1>2. QED
  BY <1>1 DEF PlaceMap

\* Where one call does, the others stay.
LEMMA OnePlace ==
    ASSUME NEW i \in Ids, NEW p, PlaceOf(i)' = p,
           \A j \in Ids : j # i => PlaceOf(j)' = PlaceOf(j)
    PROVE  PlaceMap' = [PlaceMap EXCEPT ![i] = p]
BY DEF PlaceMap

\* A call is queued.
LEMMA EnqueueMaps ==
    ASSUME Inv, NEW b \in Backends, NEW m \in Metas, Enqueue(b, m)
    PROVE  Pool!Next
<1>1. PICK i \in Ids : i = nextId
  BY DEF Enqueue
<1>2. /\ waiting' = [waiting EXCEPT ![b] = @ \cup {i}]
      /\ meta' = [meta EXCEPT ![i] = m]
      /\ nextId' = i + 1
      /\ UNCHANGED <<running, beat>>
  BY <1>1 DEF Enqueue
<1>3. ~Held(i)
  BY <1>1 DEF Inv, Known, Ids
<1>4. PlaceOf(i) = Pool!Unborn
  <2>1. ~(i < nextId)
    BY <1>1 DEF Ids
  <2>2. QED
    BY <1>3, <2>1, WherePlaced DEF Placed
<1>5. PlaceOf(i)' = [is |-> "waiting", at |-> b, allowed |-> m.allowed]
  <2>1. i \in waiting'[b] /\ meta'[i] = m
    BY <1>2 DEF Inv, Shape
  <2>2. Placed'
    BY EnqueueInv, WherePlacedNext
  <2>3. PlaceOf(i)' = Waiting(i, b)'
    BY <2>1, <2>2 DEF Placed
  <2>4. QED
    BY <2>1, <2>3 DEF Waiting
<1>6. ASSUME NEW j \in Ids, j # i
      PROVE  PlaceOf(j)' = PlaceOf(j)
  <2>1. /\ \A c \in Backends : j \in waiting'[c] <=> j \in waiting[c]
        /\ meta'[j] = meta[j]
    BY <1>2, <1>6 DEF Inv, Shape
  <2>2. j < nextId' <=> j < nextId
    BY <1>1, <1>2, <1>6 DEF Ids
  <2>3. QED
    BY <1>2, <2>1, <2>2, SamePlace
<1>7. PlaceMap' = [PlaceMap EXCEPT ![i] = [is |-> "waiting", at |-> b, allowed |-> m.allowed]]
  BY <1>5, <1>6, OnePlace
<1>8. m.allowed \in SUBSET Backends
  BY PoolAssumption
<1>9. Pool!Queue(i, b, m.allowed)
  BY <1>4, <1>7 DEF Pool!Queue, PlaceMap
<1>10. QED
  BY <1>8, <1>9 DEF Pool!Next

\* What CallPool does to a place.
LEMMA PlaceChanges ==
    ASSUME NEW i, NEW b
    PROVE  /\ [Waiting(i, b) EXCEPT !.is = "running"] = Running(i, b)
           /\ [Waiting(i, b) EXCEPT !.is = "moving", !.at = 0] = Moving(i)
           /\ [Moving(i) EXCEPT !.is = "waiting", !.at = b] = Waiting(i, b)
<1>1. [Waiting(i, b) EXCEPT !.is = "running"] = Running(i, b)
  BY DEF Waiting, Running
<1>2. [Waiting(i, b) EXCEPT !.is = "moving", !.at = 0] = Moving(i)
  <2> DEFINE w == Waiting(i, b)
             x == [is |-> "moving", at |-> b, allowed |-> meta[i].allowed]
  <2>1. [w EXCEPT !.is = "moving"] = x
    BY DEF Waiting
  <2>2. [x EXCEPT !.at = 0] = Moving(i)
    BY DEF Moving
  <2> HIDE DEF w
  <2>3. [w EXCEPT !.is = "moving", !.at = 0] = [[w EXCEPT !.is = "moving"] EXCEPT !.at = 0]
    OBVIOUS
  <2>4. [w EXCEPT !.is = "moving", !.at = 0] = [x EXCEPT !.at = 0]
    BY <2>1, <2>3
  <2>5. QED
    BY <2>2, <2>4 DEF w
<1>3. [Moving(i) EXCEPT !.is = "waiting", !.at = b] = Waiting(i, b)
  <2> DEFINE w == Moving(i)
             x == [is |-> "waiting", at |-> 0, allowed |-> meta[i].allowed]
  <2>1. [w EXCEPT !.is = "waiting"] = x
    BY DEF Moving
  <2>2. [x EXCEPT !.at = b] = Waiting(i, b)
    BY DEF Waiting
  <2> HIDE DEF w
  <2>3. [w EXCEPT !.is = "waiting", !.at = b] = [[w EXCEPT !.is = "waiting"] EXCEPT !.at = b]
    OBVIOUS
  <2>4. [w EXCEPT !.is = "waiting", !.at = b] = [x EXCEPT !.at = b]
    BY <2>1, <2>3
  <2>5. QED
    BY <2>2, <2>4 DEF w
<1>4. QED
  BY <1>1, <1>2, <1>3

\* A call that is withdrawn or ends leaves.
LEMMA LeaveMaps ==
    ASSUME Inv, Inv', NEW i \in Ids, NEW b \in Backends,
           \/ i \in waiting[b] /\ waiting' = [waiting EXCEPT ![b] = @ \ {i}] /\ running' = running
           \/ i \in running[b] /\ running' = [running EXCEPT ![b] = @ \ {i}] /\ waiting' = waiting,
           meta' = [meta EXCEPT ![i] = NoMeta], UNCHANGED <<nextId, beat>>
    PROVE  Pool!Next
<1>1. CargoKept
  BY DEF CargoKept
<1>2. \A j \in Ids : Held(j)' <=> j # i /\ Held(j)
  BY <1>1, Withdrawn, Ended DEF Inv
<1>3. PlaceOf(i).is \in {"waiting", "running"}
  <2>1. PlaceOf(i) \in {Waiting(i, b), Running(i, b)}
    BY WherePlaced DEF Placed
  <2>2. QED
    BY <2>1 DEF Waiting, Running
<1>4. PlaceOf(i)' = Pool!Over
  <2>1. Held(i) /\ i < nextId
    <3>1. Held(i)
      BY DEF Held, At
    <3>2. QED
      BY <3>1 DEF Inv, Known, Shape, Ids
  <2>2. ~Held(i)' /\ i < nextId'
    BY <1>2, <2>1
  <2>3. Placed'
    BY WherePlacedNext
  <2>4. PlaceOf(i)' = (IF i < nextId THEN Pool!Over ELSE Pool!Unborn)'
    BY <2>2, <2>3 DEF Placed
  <2>5. QED
    BY <2>2, <2>4 DEF Pool!Over, Pool!Nowhere
<1>5. ASSUME NEW j \in Ids, j # i
      PROVE  PlaceOf(j)' = PlaceOf(j)
  <2> USE DEF Inv, Shape
  <2>1. \A c \in Backends : j \in waiting'[c] <=> j \in waiting[c]
    <3>1. CASE waiting' = waiting
      BY <3>1
    <3>2. CASE waiting' = [waiting EXCEPT ![b] = @ \ {i}]
      BY <1>5, <3>2
    <3>3. QED
      BY <3>1, <3>2
  <2>2. \A c \in Backends : j \in running'[c] <=> j \in running[c]
    <3>1. CASE running' = running
      BY <3>1
    <3>2. CASE running' = [running EXCEPT ![b] = @ \ {i}]
      BY <1>5, <3>2
    <3>3. QED
      BY <3>1, <3>2
  <2> HIDE DEF Inv, Shape
  <2>3. meta'[j] = meta[j]
    BY <1>5 DEF Inv, Shape
  <2>4. \A k \in Beats : beat'[k].cargo = j <=> beat[k].cargo = j
    OBVIOUS
  <2>5. QED
    BY <2>1, <2>2, <2>3, <2>4, SamePlace
<1>6. PlaceMap' = [PlaceMap EXCEPT ![i] = Pool!Over]
  BY <1>4, <1>5, OnePlace
<1>7. Pool!Leave(i)
  BY <1>3, <1>6 DEF Pool!Leave, PlaceMap
<1>8. QED
  BY <1>7 DEF Pool!Next

\* What runs at a backend in CallPool is what runs there.
LEMMA RunningAtIs ==
    ASSUME Inv, NEW b \in Backends
    PROVE  Pool!RunningAt(b) = running[b]
<1>1. \A i \in Ids : PlaceMap[i] = PlaceOf(i)
  BY DEF PlaceMap
<1>2. running[b] \subseteq Ids
  BY DEF Inv, Shape
<1>3. ASSUME NEW i \in running[b]
      PROVE  PlaceOf(i).is = "running" /\ PlaceOf(i).at = b
  <2>1. PlaceOf(i) = Running(i, b)
    BY <1>2, WherePlaced DEF Placed
  <2>2. QED
    BY <2>1 DEF Running
<1>4. ASSUME NEW i \in Ids, PlaceOf(i).is = "running", PlaceOf(i).at = b
      PROVE  i \in running[b]
  <2>1. CASE \E c \in Backends : i \in waiting[c]
    <3>1. PICK c \in Backends : i \in waiting[c]
      BY <2>1
    <3>2. PlaceOf(i) = Waiting(i, c)
      BY <3>1, WherePlaced DEF Placed
    <3>3. QED
      BY <1>4, <3>2 DEF Waiting
  <2>2. CASE \E c \in Backends : i \in running[c]
    <3>1. PICK c \in Backends : i \in running[c]
      BY <2>2
    <3>2. PlaceOf(i) = Running(i, c)
      BY <3>1, WherePlaced DEF Placed
    <3>3. QED
      BY <1>4, <3>1, <3>2 DEF Running
  <2>3. CASE \E k \in Beats : beat[k].cargo = i
    <3>1. PlaceOf(i) = Moving(i)
      BY <2>3, WherePlaced DEF Placed
    <3>2. QED
      BY <1>4, <3>1 DEF Moving
  <2>4. CASE ~Held(i)
    <3>1. PlaceOf(i) \in {Pool!Over, Pool!Unborn}
      BY <2>4, WherePlaced DEF Placed
    <3>2. QED
      BY <1>4, <3>1 DEF Pool!Over, Pool!Unborn
  <2>5. QED
    BY <2>1, <2>2, <2>3, <2>4 DEF Held, At
<1>5. QED
  BY <1>1, <1>2, <1>3, <1>4 DEF Pool!RunningAt, PlaceMap

\* A call starts below the ceiling.
LEMMA StartMaps ==
    ASSUME Inv, NEW b \in Backends, StartNext(b)
    PROVE  Pool!Next
<1>1. PICK p \in Placement(b, step[b].paused, step[b].held) :
          /\ waiting' = [waiting EXCEPT ![b] = @ \ {p[1]}]
          /\ running' = [running EXCEPT ![b] = @ \cup {p[1]}]
  BY DEF StartNext
<1>2. PICK i \in Ids : i = p[1]
  BY PlacementIsFree DEF Inv
<1>3. /\ i \in waiting[b] /\ Cardinality(running[b]) < tuner[b].level
      /\ UNCHANGED <<meta, nextId, beat>>
  BY <1>2, PlacementIsFree DEF Inv, StartNext
<1>4. PlaceOf(i) = Waiting(i, b)
  BY <1>3, WherePlaced DEF Placed
<1>5. PlaceOf(i)' = Running(i, b)
  <2>1. i \in running'[b]
    BY <1>1, <1>2 DEF Inv, Shape
  <2>2. Placed'
    BY StartNextInv, WherePlacedNext
  <2>3. PlaceOf(i)' = Running(i, b)'
    BY <2>1, <2>2 DEF Placed
  <2>4. QED
    BY <1>3, <2>3 DEF Running
<1>6. ASSUME NEW j \in Ids, j # i
      PROVE  PlaceOf(j)' = PlaceOf(j)
  <2>1. /\ \A c \in Backends : j \in waiting'[c] <=> j \in waiting[c]
        /\ \A c \in Backends : j \in running'[c] <=> j \in running[c]
    BY <1>1, <1>2, <1>6 DEF Inv, Shape
  <2>2. QED
    BY <1>3, <2>1, SamePlace
<1>7. PlaceMap' = [PlaceMap EXCEPT ![i] = Running(i, b)]
  BY <1>5, <1>6, OnePlace
<1>8. PlaceMap[i] = Waiting(i, b)
  BY <1>4 DEF PlaceMap
<1>9. Cardinality(Pool!RunningAt(b)) < Ceiling
  <2>1. tuner[b].level \in 1..Ceiling /\ Cardinality(running[b]) \in Nat
    <3>1. tuner[b].level \in 1..Ceiling
      BY DEF Inv, Shape, TunerRecord
    <3>2. IsFiniteSet(running[b])
      <4>1. running[b] \subseteq Ids /\ IsFiniteSet(Ids)
        BY FS_Interval, PoolAssumption DEF Ids, Inv, Shape
      <4>2. QED
        BY <4>1, FS_Subset
    <3>3. QED
      BY <3>1, <3>2, FS_CardinalityType
  <2>2. QED
    BY <1>3, <2>1, RunningAtIs, PoolAssumption
<1>10. Waiting(i, b).is = "waiting" /\ Waiting(i, b).at = b
  BY DEF Waiting
<1>11. Pool!Start(i)
  <2>1. PlaceMap' = [PlaceMap EXCEPT ![i] = [PlaceMap[i] EXCEPT !.is = "running"]]
    <3>1. [PlaceMap[i] EXCEPT !.is = "running"] = Running(i, b)
      BY <1>8 DEF Waiting, Running
    <3>2. QED
      BY <1>7, <3>1
  <2>2. PlaceMap[i].is = "waiting" /\ PlaceMap[i].at = b
    BY <1>8, <1>10
  <2>3. Pool!Cardinality(Pool!RunningAt(PlaceMap[i].at)) < Ceiling
    <3>1. Pool!RunningAt(PlaceMap[i].at) = running[b]
      BY <2>2, RunningAtIs
    <3>2. Pool!Cardinality(running[b]) = Cardinality(running[b])
      BY DEF Pool!Cardinality, Cardinality
    <3>3. QED
      BY <1>9, <3>1, <3>2, RunningAtIs
  <2>4. QED
    BY <2>1, <2>2, <2>3 DEF Pool!Start, PlaceMap
<1>12. QED
  BY <1>11 DEF Pool!Next

\* A pass takes a call, or nothing.
LEMMA TakeMaps ==
    ASSUME Inv, NEW k \in Beats, TakeWaiting(k)
    PROVE  Pool!Next \/ PlaceMap' = PlaceMap
<1> DEFINE r == beat[k]
           source == Heaviest(r.loads, r.sources)
           best == BestOf(Movable(source, r.target), value)
           left == IF r.sources = {source} THEN Resting
                   ELSE [r EXCEPT !.sources = r.sources \ {source}]
<1>1. r \in BeatRecord /\ Fits(r) /\ r.pc = "take"
  BY DEF TakeWaiting, Inv, Shape, Beating
<1>2. source \in Backends
  <2>1. /\ r.loads \in [Backends -> LoadRecord]
        /\ r.sources \in SUBSET Backends /\ r.sources # {}
    BY <1>1 DEF BeatRecord, Fits
  <2>2. QED
    BY <2>1, LoadsCompared
<1>3. /\ UNCHANGED <<running, meta, nextId>>
      /\ \/ beat' = [beat EXCEPT ![k] = left] /\ waiting' = waiting
         \/ \E i \in best :
              /\ waiting' = [waiting EXCEPT ![source] = @ \ {i}]
              /\ beat' = [beat EXCEPT ![k].pc = "put", ![k].source = source, ![k].cargo = i]
  BY DEF TakeWaiting
<1>4. best \subseteq waiting[source]
  BY DEF BestOf, Movable
<1>5. left.cargo = 0 /\ r.cargo = 0
  BY <1>1, RestingType DEF BeatRecord, Fits
<1> HIDE DEF source, best, left
<1>6. CASE beat' = [beat EXCEPT ![k] = left] /\ waiting' = waiting
  <2>1. CargoKept
    BY <1>5, <1>6 DEF CargoKept, Inv, Shape
  <2>2. QED
    BY <1>3, <1>6, <2>1, PlacesStutter
<1>7. ASSUME NEW i \in best,
             waiting' = [waiting EXCEPT ![source] = @ \ {i}],
             beat' = [beat EXCEPT ![k].pc = "put", ![k].source = source, ![k].cargo = i]
      PROVE  Pool!Next
  <2>1. i \in waiting[source] /\ i \in Ids
    BY <1>2, <1>4 DEF Inv, Shape
  <2>2. beat'[k].cargo = i /\ \A l \in Beats : l # k => beat'[l] = beat[l]
    BY <1>1, <1>7 DEF Inv, Shape, BeatRecord
  <2>3. PlaceOf(i) = Waiting(i, source)
    BY <1>2, <2>1, WherePlaced DEF Placed
  <2>4. PlaceOf(i)' = Moving(i)
    <3>1. Placed'
      BY TakeWaitingInv, WherePlacedNext
    <3>2. PlaceOf(i)' = Moving(i)'
      BY <2>1, <2>2, <3>1 DEF Placed
    <3>3. QED
      BY <1>3, <3>2 DEF Moving
  <2>5. ASSUME NEW j \in Ids, j # i
        PROVE  PlaceOf(j)' = PlaceOf(j)
    <3>1. \A c \in Backends : j \in waiting'[c] <=> j \in waiting[c]
      BY <1>7, <2>5 DEF Inv, Shape
    <3>2. \A l \in Beats : beat'[l].cargo = j <=> beat[l].cargo = j
      BY <1>5, <2>2, <2>5 DEF Ids
    <3>3. QED
      BY <1>3, <3>1, <3>2, SamePlace
  <2>6. PlaceMap' = [PlaceMap EXCEPT ![i] = Moving(i)]
    BY <2>1, <2>4, <2>5, OnePlace
  <2>7. PlaceMap[i] = Waiting(i, source) /\ Waiting(i, source).is = "waiting"
    BY <2>1, <2>3 DEF PlaceMap, Waiting
  <2>8. Pool!Take(i)
    <3>1. PlaceMap' = [PlaceMap EXCEPT ![i] = [PlaceMap[i] EXCEPT !.is = "moving", !.at = 0]]
      <4>1. [PlaceMap[i] EXCEPT !.is = "moving", !.at = 0] = Moving(i)
        BY <2>7, PlaceChanges
      <4>2. QED
        BY <2>6, <4>1
    <3>2. PlaceMap[i].is = "waiting"
      BY <2>7
    <3>3. QED
      BY <3>1, <3>2 DEF Pool!Take, Pool!Nowhere, PlaceMap
  <2>9. QED
    BY <2>1, <2>8 DEF Pool!Next
<1>8. QED
  BY <1>3, <1>6, <1>7

\* A pass puts the call it took, where it is allowed.
LEMMA PutMaps ==
    ASSUME Inv, Destined, NEW k \in Beats, PutWaiting(k)
    PROVE  Pool!Next
<1> DEFINE b == beat[k].target
<1>1. /\ beat[k] \in BeatRecord /\ Fits(beat[k]) /\ beat[k].pc = "put"
  BY DEF PutWaiting, Inv, Shape, Beating
<1>2. PICK i \in Ids : i = beat[k].cargo
  BY <1>1, PoolAssumption DEF BeatRecord, Fits, Ids
<1>3. /\ b \in Backends /\ b \in meta[i].allowed
      /\ waiting' = [waiting EXCEPT ![b] = @ \cup {i}]
      /\ UNCHANGED <<running, meta, nextId>>
  BY <1>1, <1>2 DEF Fits, Destined, PutWaiting
<1>4. beat'[k].cargo = 0 /\ \A l \in Beats : l # k => beat'[l] = beat[l]
  BY <1>1 DEF PutWaiting, Inv, Shape, BeatRecord
<1> HIDE DEF b
<1>5. PlaceOf(i) = Moving(i)
  BY <1>2, WherePlaced DEF Placed
<1>6. PlaceOf(i)' = Waiting(i, b)
  <2>1. Placed' /\ i \in waiting'[b]
    BY <1>3, PutWaitingInv, WherePlacedNext DEF Inv, Shape
  <2>2. PlaceOf(i)' = [is |-> "waiting", at |-> b, allowed |-> meta'[i].allowed]
    BY <1>3, <2>1 DEF Placed, Waiting
  <2>3. QED
    BY <1>3, <2>2 DEF Waiting
<1>7. ASSUME NEW j \in Ids, j # i
      PROVE  PlaceOf(j)' = PlaceOf(j)
  <2>1. \A c \in Backends : j \in waiting'[c] <=> j \in waiting[c]
    BY <1>3, <1>7 DEF Inv, Shape
  <2>2. \A l \in Beats : beat'[l].cargo = j <=> beat[l].cargo = j
    BY <1>2, <1>4, <1>7 DEF Ids
  <2>3. QED
    BY <1>3, <2>1, <2>2, SamePlace
<1>8. PlaceMap' = [PlaceMap EXCEPT ![i] = Waiting(i, b)]
  BY <1>6, <1>7, OnePlace
<1>9. /\ PlaceMap[i] = Moving(i)
      /\ Moving(i).is = "moving" /\ Moving(i).allowed = meta[i].allowed
  BY <1>5 DEF PlaceMap, Moving
<1>10. Pool!Give(i, b)
  <2>1. PlaceMap' = [PlaceMap EXCEPT ![i] = [PlaceMap[i] EXCEPT !.is = "waiting", !.at = b]]
    <3>1. [PlaceMap[i] EXCEPT !.is = "waiting", !.at = b] = Waiting(i, b)
      BY <1>9, PlaceChanges
    <3>2. QED
      BY <1>8, <3>1
  <2>2. PlaceMap[i].is = "moving" /\ b \in PlaceMap[i].allowed
    BY <1>3, <1>9
  <2>3. QED
    BY <2>1, <2>2 DEF Pool!Give, PlaceMap
<1>11. QED
  BY <1>3, <1>10 DEF Pool!Next

\* What a step is in CallPool, and where what it carries may go.
Maps == (Pool!Next \/ PlaceMap' = PlaceMap) /\ Destined'

\* Who is carried on has the target he had.
LEMMA DestinedKept ==
    ASSUME Destined,
           \A k \in Beats : beat'[k].pc = "put" =>
               /\ beat[k].pc = "put"
               /\ beat'[k].target = beat[k].target
               /\ beat'[k].cargo = beat[k].cargo
               /\ meta'[beat[k].cargo] = meta[beat[k].cargo]
    PROVE  Destined'
BY DEF Destined

\* A step that moves no call.
LEMMA QuietMaps ==
    ASSUME Destined, UNCHANGED <<waiting, running, meta, nextId, beat>>
    PROVE  Maps
<1>1. CargoKept
  BY DEF CargoKept
<1>2. PlaceMap' = PlaceMap
  BY <1>1, PlacesStutter
<1>3. Destined'
  BY DestinedKept
<1>4. QED
  BY <1>2, <1>3 DEF Maps

\* A step that gives a new meaning to an id nobody carries.
LEMMA DestinedAround ==
    ASSUME Inv, Destined, NEW i \in Ids, NEW m, \A k \in Beats : beat[k].cargo # i,
           meta' = [meta EXCEPT ![i] = m], beat' = beat
    PROVE  Destined'
<1>1. ASSUME NEW k \in Beats, beat[k].pc = "put"
      PROVE  meta'[beat[k].cargo] = meta[beat[k].cargo]
  <2>1. beat[k].cargo \in Ids
    BY <1>1, PoolAssumption DEF Inv, Shape, Beating, BeatRecord, Fits, Ids
  <2>2. QED
    BY <2>1 DEF Inv, Shape
<1>2. QED
  BY <1>1, DestinedKept

\* A beat's own step, but for the two that move a call.
LEMMA BeatMaps ==
    ASSUME Inv, Inv', Destined, NEW k \in Beats, beat[k].pc # "put",
           \A l \in Beats : l # k => beat'[l] = beat[l],
           CargoKept, UNCHANGED <<waiting, running, meta, nextId>>
    PROVE  Maps
<1>1. PlaceMap' = PlaceMap
  BY PlacesStutter
<1>2. beat'[k].pc # "put"
  BY DEF Inv, Beating, Fits, CargoKept
<1>3. Destined'
  BY <1>2, DestinedKept
<1>4. QED
  BY <1>1, <1>3 DEF Maps

\* Queueing a call maps to Queue.
LEMMA EnqueueIs ==
    ASSUME Inv, Destined, NEW b \in Backends, NEW m \in Metas, Enqueue(b, m)
    PROVE  Maps
<1>1. PICK i \in Ids : i = nextId
  BY DEF Enqueue
<1>2. meta' = [meta EXCEPT ![i] = m] /\ beat' = beat
  BY <1>1 DEF Enqueue
<1>3. \A k \in Beats : beat[k].cargo # i
  BY <1>1 DEF Inv, Known, Held, Ids
<1>4. QED
  BY <1>2, <1>3, DestinedAround, EnqueueMaps DEF Maps

\* Withdrawing a call maps to Leave,
LEMMA WithdrawIs ==
    ASSUME Inv, Inv', Destined, NEW b \in Backends, NEW i \in waiting[b], Withdraw(b, i),
           UNCHANGED <<running, nextId, beat>>
    PROVE  Maps
<1>1. i \in Ids
  BY DEF Inv, Shape
<1>2. meta' = [meta EXCEPT ![i] = NoMeta] /\ waiting' = [waiting EXCEPT ![b] = @ \ {i}]
  BY DEF Withdraw
<1>3. \A k \in Beats : beat[k].cargo # i
  BY DEF Inv, Alone, At
<1>4. Pool!Next
  BY <1>1, <1>2, LeaveMaps
<1>5. QED
  BY <1>1, <1>2, <1>3, <1>4, DestinedAround DEF Maps

\* and so does its end.
LEMMA FinishIs ==
    ASSUME Inv, Inv', Destined, NEW b \in Backends, NEW i \in Ids, NEW outcome, NEW accepted,
           Finish(b, i, outcome, accepted)
    PROVE  Maps
<1>1. /\ i \in running[b] /\ running' = [running EXCEPT ![b] = @ \ {i}]
      /\ meta' = [meta EXCEPT ![i] = NoMeta]
      /\ UNCHANGED <<waiting, nextId, beat>>
  BY DEF Finish
<1>2. \A k \in Beats : beat[k].cargo # i
  BY <1>1 DEF Inv, Alone, At
<1>3. Pool!Next
  BY <1>1, LeaveMaps
<1>4. QED
  BY <1>1, <1>2, <1>3, DestinedAround DEF Maps

\* Taking a call maps to Take, and the call may have that target.
LEMMA TakeIs ==
    ASSUME Inv, Destined, NEW k \in Beats, TakeWaiting(k)
    PROVE  Maps
<1> DEFINE r == beat[k]
           source == Heaviest(r.loads, r.sources)
           best == BestOf(Movable(source, r.target), value)
           left == IF r.sources = {source} THEN Resting
                   ELSE [r EXCEPT !.sources = r.sources \ {source}]
<1>1. r \in BeatRecord /\ r.pc = "take"
  BY DEF TakeWaiting, Inv, Shape
<1>2. /\ meta' = meta
      /\ \/ beat' = [beat EXCEPT ![k] = left]
         \/ \E i \in best :
              beat' = [beat EXCEPT ![k].pc = "put", ![k].source = source, ![k].cargo = i]
  BY DEF TakeWaiting
<1>3. \A i \in best : r.target \in meta[i].allowed
  BY DEF BestOf, Movable
<1>4. left.pc # "put"
  BY <1>1 DEF BeatRecord, Resting
<1> HIDE DEF source, best, left
<1>5. ASSUME beat' = [beat EXCEPT ![k] = left]
      PROVE  Destined'
  <2>1. beat'[k] = left /\ \A l \in Beats : l # k => beat'[l] = beat[l]
    BY <1>5 DEF Inv, Shape
  <2>2. QED
    BY <1>2, <1>4, <2>1, DestinedKept
<1>6. ASSUME NEW i \in best,
             beat' = [beat EXCEPT ![k].pc = "put", ![k].source = source, ![k].cargo = i]
      PROVE  Destined'
  <2>1. beat'[k].cargo = i /\ beat'[k].target = r.target
    BY <1>1, <1>6 DEF Inv, Shape, BeatRecord
  <2>2. \A l \in Beats : l # k => beat'[l] = beat[l]
    BY <1>6 DEF Inv, Shape
  <2>3. beat'[k].target \in meta[beat'[k].cargo].allowed
    BY <1>3, <1>6, <2>1
  <2> HIDE DEF r
  <2>4. \A l \in Beats : l # k /\ beat'[l].pc = "put" => beat'[l].target \in meta[beat'[l].cargo].allowed
    BY <2>2 DEF Destined
  <2>5. QED
    BY <1>2, <2>3, <2>4 DEF Destined
<1>7. Destined'
  BY <1>2, <1>5, <1>6
<1>8. QED
  BY <1>7, TakeMaps DEF Maps

\* Putting it maps to Give.
LEMMA PutIs ==
    ASSUME Inv, Destined, NEW k \in Beats, PutWaiting(k)
    PROVE  Maps
<1>1. /\ beat'[k].pc = "putting" /\ \A l \in Beats : l # k => beat'[l] = beat[l]
      /\ meta' = meta
  BY DEF PutWaiting, Inv, Shape, BeatRecord
<1>2. Destined'
  BY <1>1, DestinedKept
<1>3. QED
  BY <1>2, PutMaps DEF Maps

\* The steps of a pass.
LEMMA PassIs ==
    ASSUME Inv, Destined, NEW k \in Beats, BeginRebalance(k, Backends) \/ BeatStep(k)
    PROVE  Maps
<1>1. ASSUME BeginRebalance(k, Backends) \/ CountWaiting(k) \/ ReadLoad(k) \/ PickTarget(k)
      PROVE  Maps
  <2>1. Inv' /\ CargoKept
    BY <1>1, BeginRebalanceInv, CountWaitingInv, ReadLoadInv, PickTargetInv
  <2>2. beat[k].pc # "put" /\ UNCHANGED <<waiting, running, meta, nextId>>
    BY <1>1 DEF BeginRebalance, CountWaiting, ReadLoad, PickTarget, queueVars
  <2>3. \A l \in Beats : l # k => beat'[l] = beat[l]
    <3>1. CASE BeginRebalance(k, Backends)
      BY <3>1 DEF BeginRebalance, Inv, Shape
    <3>2. CASE CountWaiting(k)
      BY <3>2 DEF CountWaiting, Inv, Shape
    <3>3. CASE ReadLoad(k)
      BY <3>3 DEF ReadLoad, Inv, Shape
    <3>4. CASE PickTarget(k)
      BY <3>4 DEF PickTarget, Inv, Shape
    <3>5. QED
      BY <1>1, <3>1, <3>2, <3>3, <3>4
  <2>4. QED
    BY <2>1, <2>2, <2>3, BeatMaps
<1>2. QED
  BY <1>1, TakeIs, PutIs DEF BeatStep

\* A method that returns moves no call, though a beat may go on.
LEMMA StepDoneIs ==
    ASSUME Inv, Destined, NEW b \in Backends, StepDone(b)
    PROVE  Maps
<1> DEFINE n == step[b].for
<1>1. Inv' /\ CargoKept /\ UNCHANGED <<waiting, running, meta, nextId>>
  BY StepDoneInv DEF StepDone, queueVars
<1>2. CASE n < 0
  <2>1. PICK k \in Beats : k = -n
    BY <1>2 DEF Inv, Locks, StepDone
  <2>2. beat' = [beat EXCEPT ![k] = MoveOver(k)] /\ beat[k].pc = "putting"
    BY <1>2, <2>1 DEF Inv, Locks, StepDone
  <2>3. \A l \in Beats : l # k => beat'[l] = beat[l]
    BY <2>2 DEF Inv, Shape
  <2>4. QED
    BY <1>1, <2>2, <2>3, BeatMaps
<1>3. CASE ~(n < 0)
  <2>1. beat' = beat
    BY <1>3 DEF StepDone
  <2>2. QED
    BY <1>1, <2>1, QuietMaps
<1>4. QED
  BY <1>2, <1>3

\* A future that looks, and one that is dropped.
LEMMA FutureIs ==
    ASSUME Inv, Destined, NEW i \in Ids,
           FutureStep(i) \/ EndOfCall(i)
    PROVE  Maps
<1>1. Inv'
  BY NextInv DEF Next
<1>2. CASE Register(i)
  BY <1>2, QuietMaps DEF Register, queueVars
<1>3. ASSUME NEW b \in Backends, i \in waiting[b], Withdraw(b, i), UNCHANGED <<running, nextId, beat>>
      PROVE  Maps
  BY <1>1, <1>3, WithdrawIs
<1>4. ASSUME UNCHANGED <<waiting, running, meta, nextId, beat>>
      PROVE  Maps
  BY <1>4, QuietMaps
<1>5. future[i].home \in Backends /\ future[i].at \in Backends
  BY DEF Inv, Shape, FutureType
<1>6. CASE Look(i)
  <2> DEFINE b == IF future[i].pc = "place" THEN future[i].home ELSE future[i].at
  <2>1. b \in Backends
    BY <1>5
  <2>2. /\ UNCHANGED <<running, nextId, beat>>
        /\ \/ i \in waiting[b] /\ Withdraw(b, i)
           \/ UNCHANGED <<waiting, meta>>
    BY <1>6 DEF Look
  <2> HIDE DEF b
  <2>3. QED
    BY <1>3, <1>4, <2>1, <2>2
<1>7. CASE Abandon(i)
  <2> DEFINE b == IF future[i].pc = "dropHome" THEN future[i].home ELSE future[i].at
  <2>1. b \in Backends
    BY <1>5
  <2>2. /\ UNCHANGED <<running, nextId, beat>>
        /\ \/ i \in waiting[b] /\ Withdraw(b, i)
           \/ UNCHANGED <<waiting, meta>>
    BY <1>7 DEF Abandon
  <2> HIDE DEF b
  <2>3. QED
    BY <1>3, <1>4, <2>1, <2>2
<1>8. CASE EndOfCall(i)
  BY <1>1, <1>5, <1>8, FinishIs DEF EndOfCall, EndSlot
<1>9. CASE \E accepted \in BOOLEAN : FinishAbandoned(i, accepted)
  BY <1>1, <1>5, <1>9, FinishIs DEF FinishAbandoned
<1>10. QED
  BY <1>2, <1>6, <1>7, <1>8, <1>9 DEF FutureStep

\* Every step is one of CallPool's or none.
LEMMA StepMaps ==
    ASSUME Inv, Destined, [Next]_vars
    PROVE  Maps
<1>1. ASSUME NEW b \in Backends, LockStep(b)
      PROVE  Maps
  <2>1. CASE StartNext(b)
    <3>1. meta' = meta /\ beat' = beat
      BY <2>1 DEF StartNext
    <3>2. Destined'
      BY <3>1, DestinedKept
    <3>3. QED
      BY <2>1, <3>2, StartMaps DEF Maps
  <2>2. QED
    BY <1>1, <2>1, StepDoneIs DEF LockStep
<1>2. CASE Environment
  <2>1. UNCHANGED <<waiting, running, meta, nextId, beat>>
    BY <1>2 DEF Environment, DropPending, GoStale, SetPaused, GateNotify, HoldReserved,
                ClearReservedHold, TimerFires, Tick, queueVars
  <2>2. QED
    BY <2>1, QuietMaps
<1>3. CASE UNCHANGED vars
  BY <1>3, QuietMaps DEF vars, queueVars
<1>4. QED
  BY <1>1, <1>2, <1>3, EnqueueIs, FutureIs, PassIs DEF Next

\* A new pool is CallPool's.
LEMMA InitMaps ==
    ASSUME Init
    PROVE  Pool!Init /\ Destined
<1>1. Inv
  BY InitInv
<1>2. ASSUME NEW i \in Ids
      PROVE  PlaceOf(i) = Pool!Unborn
  <2>1. ~Held(i) /\ ~(i < nextId)
    BY <1>1 DEF Init, Inv, Known, Ids
  <2>2. QED
    BY <1>1, <2>1, WherePlaced DEF Placed
<1>3. Pool!Init
  BY <1>2 DEF Pool!Init
<1>4. Destined
  BY DEF Init, Destined, Resting
<1>5. QED
  BY <1>3, <1>4

-----------------------------------------------------------------------------
(* Whoever waits for a slot that could be had will be woken.               *)

\* Something that waits at b could start.
CanStart(b, isPaused, isHeld) ==
    /\ Cardinality(running[b]) < tuner[b].level
    /\ FreeBuckets(b) # {}
    /\ \E i \in Eligible(b, isPaused, isHeld) :
          \/ tuner[b].level < ReservedFrom
          \/ meta[i].lane # "reserved"
          \/ 0 \in FreeBuckets(b)

\* A poll would open a trial.
Opens(t, backlog, isPaused) ==
    /\ t.trial = NoTrial /\ t.ceiling > 1 /\ t.dueIn = 0 /\ ~isPaused
    /\ backlog >= Target(t)
    /\ HasBaseline(t, Window(Target(t)))

Backlog(b) == Cardinality(waiting[b]) + Cardinality(running[b])

Idle(b) == ~CanStart(b, paused, hold[b] > 0)

\* A hold that has just ended did not hide a trial that is due.
Polled(b) == hold[b] = 0 => ~Opens(tuner[b], Backlog(b), paused)

Looks(i, b) == WillLook(i, b) \/ future[i].pc \in {"enter", "done"}

AllLook(b) == \A i \in waiting[b] : Looks(i, b)

\* The method that holds the lock goes by what still is so.
Fresh(b) ==
    /\ step[b].paused = paused
    /\ Polled(b)
    /\ step[b].held => hold[b] > 0 \/ Idle(b)

Aware(b) ==
    \/ unsaid
    \/ 0 \in timers
    \/ AllLook(b)
    \/ step[b].on /\ (step[b].notify \/ Fresh(b))
    \/ ~step[b].on /\ Idle(b) /\ Polled(b)

Timed == \A b \in Backends : hold[b] > 0 => hold[b] \in timers

\* A clock read before a hold ended goes with a notification.
Warned ==
    \A i \in Ids, b \in Backends :
        future[i].late /\ future[i].pc \in {"place", "scan"} /\ hold[b] = 0 =>
            future[i].woken \/ 0 \in timers

\* Whoever has just been queued is answered by the method that queued it.
Entering ==
    \A i \in Ids : future[i].pc = "enter" => \E b \in Backends : step[b].on /\ step[b].for = i

Awake == (\A b \in Backends : Aware(b)) /\ Timed /\ Warned /\ Entering

\* Of calls that wait one is the best.
LEMMA BestIsSome ==
    ASSUME Shape, NEW S \in SUBSET Ids, S # {}
    PROVE  BestOf(S, value) # {}
<1> DEFINE V == {value[i] : i \in S}
<1>1. IsFiniteSet(S)
  <2>1. IsFiniteSet(Ids)
    BY FS_Interval, PoolAssumption DEF Ids
  <2>2. QED
    BY <2>1, FS_Subset
<1>2. IsFiniteSet(V)
  BY <1>1, ImageIsFinite
<1>3. V \in SUBSET Nat /\ V # {}
  BY DEF Shape
<1>4. PICK v \in V : \A w \in V : w <= v
  <2> HIDE DEF V
  <2> QED BY <1>2, <1>3, GreatestNat
<1> DEFINE I == {i \in S : value[i] = v}
<1>5. I \in SUBSET Nat /\ I # {}
  <2>1. Ids \in SUBSET Nat
    BY PoolAssumption DEF Ids
  <2>2. I \in SUBSET Ids
    OBVIOUS
  <2>3. PICK i \in S : value[i] = v
    BY <1>4
  <2>4. QED
    BY <2>1, <2>2, <2>3
<1>6. PICK i \in I : \A j \in I : i <= j
  <2> HIDE DEF I
  <2> QED BY <1>5, LeastNat
<1>7. ASSUME NEW j \in S \ {i}
      PROVE  value[i] > value[j] \/ (value[i] = value[j] /\ i < j)
  <2>1. value[j] <= v /\ value[j] \in Nat /\ v \in Nat /\ value[i] = v
    BY <1>3, <1>4 DEF Shape
  <2>2. CASE value[j] = v
    <3>1. j \in I /\ i # j /\ i \in Int /\ j \in Int
      BY <2>2 DEF Ids
    <3>2. i <= j
      BY <1>6, <3>1
    <3> HIDE DEF I
    <3>3. QED
      BY <2>1, <2>2, <3>1, <3>2
  <2>3. CASE value[j] # v
    BY <2>1, <2>3
  <2>4. QED
    BY <2>2, <2>3
<1>8. QED
  BY <1>7 DEF BestOf

\* The queue dispatches nothing exactly where nothing could start.
LEMMA PlacementOrNone ==
    ASSUME Shape, NEW b \in Backends, NEW isPaused, NEW isHeld
    PROVE  Placement(b, isPaused, isHeld) = {} <=> ~CanStart(b, isPaused, isHeld)
<1> DEFINE E == Eligible(b, isPaused, isHeld)
           F == FreeBuckets(b)
           lane == [i \in Ids |-> meta[i].lane]
           level == tuner[b].level
           R == {i \in E : lane[i] = "reserved"}
           N == NextPlacement(E, value, lane, F, level, ReservedFrom)
<1>1. E \subseteq Ids
  BY DEF Eligible, Shape
<1>2. \A i \in Ids : lane[i] = meta[i].lane
  OBVIOUS
<1>3. \A S \in SUBSET Ids : S # {} <=> BestOf(S, value) # {}
  <2>1. BestOf({}, value) = {}
    BY DEF BestOf
  <2>2. QED
    BY <2>1, BestIsSome
<1>4. Placement(b, isPaused, isHeld) = IF Cardinality(running[b]) < level THEN N ELSE {}
  BY DEF Placement
<1> HIDE DEF E, F, lane, level
<1>5. \A S, x : (S \X {x}) = {} <=> S = {}
  <2>1. ASSUME NEW S, NEW x, S # {}
        PROVE  S \X {x} # {}
    <3>1. PICK s \in S : TRUE
      BY <2>1
    <3>2. <<s, x>> \in S \X {x}
      BY <3>1
    <3>3. QED
      BY <3>2
  <2>2. ASSUME NEW S, NEW x, S = {}
        PROVE  S \X {x} = {}
    BY <2>2
  <2>3. QED
    BY <2>1, <2>2
<1>6. N = {} <=> ~(F # {} /\ \E i \in E : level < ReservedFrom \/ lane[i] # "reserved" \/ 0 \in F)
  <2>1. CASE F = {}
    BY <2>1 DEF NextPlacement
  <2>2. CASE F # {} /\ level < ReservedFrom
    <3>1. N = BestOf(E, value) \X {Minimum(F)}
      BY <2>2 DEF NextPlacement
    <3>2. E \in SUBSET Ids
      BY <1>1
    <3>3. N = {} <=> E = {}
      <4>1. E # {} <=> BestOf(E, value) # {}
        BY <1>3, <3>2
      <4>2. (BestOf(E, value) \X {Minimum(F)}) = {} <=> BestOf(E, value) = {}
        BY <1>5
      <4>3. QED
        BY <3>1, <4>1, <4>2
    <3>4. QED
      BY <2>2, <3>3
  <2>3. CASE F # {} /\ ~(level < ReservedFrom) /\ 0 \in F /\ R # {}
    <3>1. N = BestOf(R, value) \X {0}
      BY <2>3 DEF NextPlacement
    <3>2. R \in SUBSET Ids
      BY <1>1
    <3>3. BestOf(R, value) # {}
      BY <1>3, <2>3, <3>2
    <3>4. N # {}
      BY <1>5, <3>1, <3>3
    <3>5. \E i \in E : level < ReservedFrom \/ lane[i] # "reserved" \/ 0 \in F
      BY <2>3
    <3>6. QED
      BY <2>3, <3>4, <3>5
  <2>4. CASE F # {} /\ ~(level < ReservedFrom) /\ ~(0 \in F /\ R # {})
    <3> DEFINE x == Minimum(IF F \ {0} # {} THEN F \ {0} ELSE F)
    <3>1. N = BestOf(E \ R, value) \X {x}
      BY <2>4 DEF NextPlacement
    <3> HIDE DEF x
    <3>2. E \ R \in SUBSET Ids
      BY <1>1
    <3>3. N = {} <=> E \ R = {}
      <4>1. E \ R # {} <=> BestOf(E \ R, value) # {}
        BY <1>3, <3>2
      <4>2. (BestOf(E \ R, value) \X {x}) = {} <=> BestOf(E \ R, value) = {}
        BY <1>5
      <4>3. QED
        BY <3>1, <4>1, <4>2
    <3>4. QED
      BY <2>4, <3>3
  <2>5. QED
    BY <2>1, <2>2, <2>3, <2>4
<1>7. QED
  BY <1>1, <1>2, <1>4, <1>6 DEF CanStart, E, F, level

\* After a poll no trial is left that the same poll would open,
LEMMA PollSettles ==
    ASSUME NEW t, Sane(t), NEW backlog \in Nat, NEW isPaused
    PROVE  ~Opens(Poll(t, backlog, isPaused), backlog, isPaused)
<1> DEFINE turned == [t EXCEPT !.direction = Turned(t)]
           target == Target(t)
           opened == Poll(t, backlog, isPaused)
<1>1. t \in TunerRecord /\ t.level \in Nat /\ t.ceiling \in Nat /\ t.direction \in Direction
  BY PoolAssumption DEF Sane, TunerRecord
<1>2. CASE t.trial # NoTrial \/ t.ceiling <= 1 \/ t.dueIn > 0 \/ isPaused
  <2>1. Poll(t, backlog, isPaused) = t
    BY <1>2 DEF Poll
  <2>2. t.dueIn > 0 => t.dueIn # 0
    BY <1>1 DEF TunerRecord
  <2>3. t.ceiling <= 1 => ~(t.ceiling > 1)
    BY <1>1
  <2>4. QED
    BY <1>2, <2>1, <2>2, <2>3 DEF Opens
<1>3. CASE ~(t.trial # NoTrial \/ t.ceiling <= 1 \/ t.dueIn > 0 \/ isPaused)
  <2>1. t.ceiling > 1 /\ t.level \in 1..t.ceiling
    BY <1>1, <1>3 DEF TunerRecord
  <2>2. CASE backlog < target \/ ~HasBaseline(t, Window(target))
    <3>1. Poll(t, backlog, isPaused) = turned
      BY <1>3, <2>2 DEF Poll
    <3>2. /\ turned.level = t.level /\ turned.ceiling = t.ceiling
          /\ turned.direction = Turned(t) /\ turned.samples = t.samples
      BY <1>1 DEF TunerRecord
    <3>3. CanStep(t, Turned(t))
      BY <1>1, <2>1 DEF CanStep, Turned, Stepped, Flipped, Direction
    <3>4. \A d : CanStep(turned, d) <=> CanStep(t, d)
      BY <3>2 DEF CanStep, Stepped
    <3>5. Turned(turned) = Turned(t)
      BY <3>2, <3>3, <3>4 DEF Turned
    <3>6. Target(turned) = target
      BY <3>2, <3>4, <3>5 DEF Target, Stepped
    <3>7. HasBaseline(turned, Window(target)) <=> HasBaseline(t, Window(target))
      BY <3>2 DEF HasBaseline
    <3>8. target \in Int
      BY <1>1 DEF Target, Stepped
    <3> HIDE DEF turned, target
    <3>9. backlog < target => ~(backlog >= target)
      BY <3>8
    <3>10. QED
      BY <2>2, <3>1, <3>6, <3>7, <3>9 DEF Opens
  <2>3. CASE ~(backlog < target \/ ~HasBaseline(t, Window(target)))
    <3> DEFINE trial == [incumbent |-> t.level, level |-> target, window |-> Window(target),
                         dispatched |-> {}, completed |-> 0]
               told == [turned EXCEPT !.history = Change(t, target, "trial")]
               tried == [told EXCEPT !.trial = trial]
    <3>1. opened = [tried EXCEPT !.level = target]
      BY <1>3, <2>3 DEF Poll
    <3>2. turned.trial = t.trial /\ DOMAIN turned = DOMAIN t
      BY <1>1 DEF TunerRecord
    <3>3. DOMAIN t = {"ceiling", "level", "direction", "interval", "dueIn", "trial", "samples",
                      "history"}
      BY <1>1 DEF TunerRecord
    <3>4. DOMAIN told = DOMAIN t
      BY <3>2
    <3>5. tried.trial = trial /\ DOMAIN tried = DOMAIN t
      BY <3>3, <3>4
    <3>6. trial # NoTrial
      <4>1. trial.incumbent = t.level /\ NoTrial.incumbent = 0 /\ t.level # 0
        BY <2>1 DEF NoTrial
      <4>2. QED
        BY <4>1
    <3> HIDE DEF tried, trial
    <3>7. opened.trial = trial
      BY <3>1, <3>5
    <3> HIDE DEF opened
    <3>8. QED
      BY <3>6, <3>7 DEF Opens, opened
  <2>4. QED
    BY <2>2, <2>3
<1>4. QED
  BY <1>2, <1>3

\* and where it opens none it leaves the level alone.
LEMMA PollKeepsLevel ==
    ASSUME NEW t, Sane(t), NEW backlog \in Nat, NEW isPaused, ~Opens(t, backlog, isPaused)
    PROVE  Poll(t, backlog, isPaused).level = t.level
<1> DEFINE target == Target(t)
<1>1. t.level \in Nat /\ t.ceiling \in Nat /\ t.dueIn \in Nat /\ t \in TunerRecord
  BY PoolAssumption DEF Sane, TunerRecord
<1>2. target \in Int
  BY <1>1 DEF Target, Stepped
<1> HIDE DEF target
<1>3. t.trial # NoTrial \/ t.ceiling <= 1 \/ t.dueIn > 0 \/ isPaused \/ backlog < target
         \/ ~HasBaseline(t, Window(target))
  BY <1>1, <1>2 DEF Opens, target
<1>4. Poll(t, backlog, isPaused) = t
         \/ Poll(t, backlog, isPaused) = [t EXCEPT !.direction = Turned(t)]
  BY <1>3 DEF Poll, target
<1>5. QED
  BY <1>1, <1>4 DEF TunerRecord

\* A smaller backlog opens no more.
LEMMA OpensLess ==
    ASSUME NEW t, Sane(t), NEW m \in Nat, NEW n \in Nat, m <= n, NEW isPaused,
           Opens(t, m, isPaused)
    PROVE  Opens(t, n, isPaused)
<1>1. Target(t) \in Int
  BY PoolAssumption DEF Sane, TunerRecord, Target, Stepped
<1>2. QED
  BY <1>1 DEF Opens

\* Nothing new can start where no call joins, no bucket is freed and no hold
\* ends.
LEMMA IdleStays ==
    ASSUME NEW b \in Backends, Idle(b),
           waiting'[b] \subseteq waiting[b], running'[b] = running[b],
           \A i \in running[b] : runner'[i] = runner[i],
           tuner'[b].level = tuner[b].level,
           \A i \in waiting'[b] : meta'[i] = meta[i],
           stale' = stale, paused' = paused, hold[b] > 0 => hold'[b] > 0
    PROVE  Idle(b)'
<1> SUFFICES ASSUME CanStart(b, paused, hold[b] > 0)'
             PROVE  CanStart(b, paused, hold[b] > 0)
  BY DEF Idle
<1>1. FreeBuckets(b)' = FreeBuckets(b)
  BY DEF FreeBuckets
<1>2. \A i \in Eligible(b, paused, hold[b] > 0)' : /\ i \in Eligible(b, paused, hold[b] > 0)
                                                  /\ meta'[i] = meta[i]
  BY DEF Eligible, Urgent
<1>3. QED
  BY <1>1, <1>2 DEF CanStart

\* A smaller backlog leaves a polled tuner settled.
LEMMA PolledStays ==
    ASSUME Shape, NEW b \in Backends, Polled(b),
           waiting'[b] \subseteq waiting[b], running'[b] = running[b],
           tuner'[b] = tuner[b], paused' = paused, hold'[b] = 0 => hold[b] = 0
    PROVE  Polled(b)'
<1>1. /\ IsFiniteSet(waiting[b]) /\ Cardinality(waiting[b]) \in Nat
      /\ Cardinality(running[b]) \in Nat
  BY CountsAreNumbers
<1>2. /\ Cardinality(waiting'[b]) <= Cardinality(waiting[b])
      /\ Cardinality(waiting'[b]) \in Nat
  <2>1. IsFiniteSet(waiting'[b]) /\ Cardinality(waiting'[b]) <= Cardinality(waiting[b])
    BY <1>1, FS_Subset
  <2>2. QED
    BY <2>1, FS_CardinalityType
<1>3. PICK m \in Nat, n \in Nat : m = Backlog(b)' /\ n = Backlog(b) /\ m <= n
  BY <1>1, <1>2 DEF Backlog
<1>4. Sane(tuner[b])
  BY DEF Shape
<1>5. Opens(tuner[b], m, paused) => Opens(tuner[b], n, paused)
  BY <1>3, <1>4, OpensLess
<1>6. QED
  BY <1>3, <1>5 DEF Polled

\* Nobody hears less at a backend this step does not serve.
LEMMA AwareStays ==
    ASSUME Shape, NEW b \in Backends, Aware(b),
           waiting'[b] \subseteq waiting[b], running'[b] = running[b],
           \A i \in running[b] : runner'[i] = runner[i],
           tuner'[b] = tuner[b],
           \A i \in waiting'[b] : meta'[i] = meta[i],
           stale' = stale, paused' = paused, hold'[b] = hold[b], step'[b] = step[b],
           unsaid => unsaid', 0 \in timers => 0 \in timers',
           \A i \in waiting'[b] : Looks(i, b) => Looks(i, b)'
    PROVE  Aware(b)'
<1>1. Idle(b) => Idle(b)'
  BY IdleStays
<1>2. Polled(b) => Polled(b)'
  BY PolledStays
<1>3. Fresh(b) => Fresh(b)'
  BY <1>1, <1>2 DEF Fresh
<1>4. AllLook(b) => AllLook(b)'
  BY DEF AllLook
<1>5. QED
  BY <1>1, <1>2, <1>3, <1>4 DEF Aware

\* A future that is where it was, and no less woken, looks where it looked.
LEMMA LooksStay ==
    ASSUME NEW i \in Ids, NEW b \in Backends, Looks(i, b),
           future'[i].pc = future[i].pc, future'[i].at = future[i].at,
           future[i].woken => future'[i].woken
    PROVE  Looks(i, b)'
BY DEF Looks, WillLook

\* After a notification everyone who waits will look.
LEMMA AllHear ==
    ASSUME Inv, NEW b \in Backends, NEW i \in waiting[b],
           future[i].pc \in Listening => future[i].woken
    PROVE  Looks(i, b)
<1>1. i \in Ids /\ future[i] \in FutureType
  BY DEF Inv, Shape
<1>2. Held(i)
  BY DEF Held, At
<1>3. future[i].pc # "none"
  BY <1>1, <1>2, PoolAssumption DEF Inv, Known, Ids, Shape
<1>4. future[i].pc \notin {"slot", "dropFinish"}
  <2> SUFFICES ASSUME future[i].pc \in {"slot", "dropFinish"}
               PROVE  FALSE
    OBVIOUS
  <2>1. future[i].at \in Backends /\ i \in running[future[i].at]
    BY <1>1 DEF Inv, Kept, FutureType
  <2>2. QED
    BY <2>1 DEF Inv, Alone, At
<1>5. future[i].pc \in {"enter", "register", "place", "placing", "scan", "await", "dropHome",
                        "dropScan", "done"}
  BY <1>1, <1>3, <1>4 DEF FutureType
<1>6. QED
  BY <1>5 DEF Looks, WillLook, Listening

\* so right after it nobody is left out.
LEMMA AllHeard ==
    Inv => \A b \in Backends :
        (\A i \in waiting[b] : future[i].pc \in Listening => future[i].woken) => AllLook(b)
BY AllHear DEF AllLook

\* The same of the state after a step,
LEMMA AllHeardThen ==
    Inv' => \A b \in Backends :
        (\A i \in waiting'[b] : future'[i].pc \in Listening => future'[i].woken) => AllLook(b)'
<1>1. (Inv => \A b \in Backends :
        (\A i \in waiting[b] : future[i].pc \in Listening => future[i].woken) => AllLook(b))'
  BY AllHeard, PTL
<1>2. QED
  BY <1>1

\* and of one backend in it.
LEMMA AllHeardNext ==
    ASSUME Inv', NEW c \in Backends,
           \A i \in waiting'[c] : future'[i].pc \in Listening => future'[i].woken
    PROVE  AllLook(c)'
BY AllHeardThen

\* Where no tuner, lock, gate or timer changes and calls only leave queues.
LEMMA AwakeLess ==
    ASSUME Inv, Awake,
           \A b \in Backends : waiting'[b] \subseteq waiting[b],
           \A b \in Backends : \A i \in waiting'[b] :
               meta'[i] = meta[i] /\ (Looks(i, b) => Looks(i, b)'),
           \A i \in Ids : future'[i].pc = "enter" => future[i].pc = "enter",
           \A i \in Ids : future'[i].late /\ future'[i].pc \in {"place", "scan"} =>
               /\ future[i].late /\ future[i].pc \in {"place", "scan"}
               /\ future[i].woken => future'[i].woken,
           UNCHANGED <<running, runner, tuner, hold, step, paused, stale, unsaid, timers>>
    PROVE  Awake'
<1>1. \A b \in Backends : Aware(b)'
  BY AwareStays DEF Awake, Inv
<1>2. Timed'
  BY DEF Awake, Timed
<1>3. Warned'
  BY DEF Awake, Warned
<1>4. Entering'
  BY DEF Awake, Entering
<1>5. QED
  BY <1>1, <1>2, <1>3, <1>4 DEF Awake

\* Where one future moves on and no call moves.
LEMMA AwakeOne ==
    ASSUME Inv, Awake, NEW i \in Ids, NEW g, future' = [future EXCEPT ![i] = g],
           g.pc # "enter",
           g.late /\ g.pc \in {"place", "scan"} =>
               /\ future[i].late /\ future[i].pc \in {"place", "scan"}
               /\ future[i].woken => g.woken,
           \A b \in Backends : i \in waiting[b] /\ Looks(i, b) =>
               \/ g.pc \in {"dropHome", "dropScan", "register", "place", "enter", "done"}
               \/ g.woken
               \/ g.pc = "scan" /\ g.at <= b,
           UNCHANGED <<waiting, running, runner, meta, tuner, hold, step, paused, stale, unsaid,
                       timers>>
    PROVE  Awake'
<1>1. \A j \in Ids : future'[j] = IF j = i THEN g ELSE future[j]
  BY DEF Inv, Shape
<1>2. ASSUME NEW b \in Backends, NEW j \in waiting[b], Looks(j, b)
      PROVE  Looks(j, b)'
  <2>1. j \in Ids
    BY DEF Inv, Shape
  <2>2. CASE j = i
    <3>1. \/ g.pc \in {"dropHome", "dropScan", "register", "place", "enter", "done"}
          \/ g.woken
          \/ g.pc = "scan" /\ g.at <= b
      BY <1>2, <2>2
    <3>2. future'[j] = g
      BY <1>1, <2>1, <2>2
    <3>3. QED
      BY <3>1, <3>2 DEF Looks, WillLook
  <2>3. CASE j # i
    <3>1. future'[j] = future[j]
      BY <1>1, <2>1, <2>3
    <3>2. QED
      BY <1>2, <3>1 DEF Looks, WillLook
  <2>4. QED
    BY <2>2, <2>3
<1>3. \A j \in Ids : future'[j].pc = "enter" => future[j].pc = "enter"
  BY <1>1
<1>4. \A j \in Ids : future'[j].late /\ future'[j].pc \in {"place", "scan"} =>
               /\ future[j].late /\ future[j].pc \in {"place", "scan"}
               /\ future[j].woken => future'[j].woken
  BY <1>1
<1>5. QED
  BY <1>2, <1>3, <1>4, AwakeLess

\* Register: the future is not late, and about to look.
LEMMA AwakeRegister ==
    ASSUME Inv, Awake, NEW i \in Ids, Register(i)
    PROVE  Awake'
<1> DEFINE f == future[i]
           placed == [f EXCEPT !.pc = "place"]
           unwoken == [placed EXCEPT !.woken = FALSE]
           fresh == [unwoken EXCEPT !.late = FALSE]
<1>1. f \in FutureType
  BY DEF Inv, Shape
<1>2. placed \in FutureType /\ placed.pc = "place"
  BY <1>1, FutureAt
<1>3. future' = [future EXCEPT ![i] = fresh]
  BY DEF Register
<1> HIDE DEF placed
<1>4. unwoken \in FutureType /\ unwoken.pc = "place"
  BY <1>2 DEF FutureType
<1> HIDE DEF unwoken
<1>5. fresh.pc = "place" /\ ~fresh.late
  BY <1>4 DEF FutureType
<1> HIDE DEF fresh
<1>6. QED
  BY <1>3, <1>5, AwakeOne DEF Register, queueVars, gateVars

\* DropPending: a future that is dropped looks for its call.
LEMMA AwakeDropPending ==
    ASSUME Inv, Awake, NEW i \in Ids, DropPending(i)
    PROVE  Awake'
<1> DEFINE dropped == [future[i] EXCEPT !.pc = "dropHome"]
<1>1. dropped.pc = "dropHome"
  BY FutureAt DEF Inv, Shape
<1>2. future' = [future EXCEPT ![i] = dropped]
  BY DEF DropPending
<1> HIDE DEF dropped
<1>3. QED
  BY <1>1, <1>2, AwakeOne DEF DropPending, queueVars, gateVars

\* A call that leaves a queue leaves the others to look.
LEMMA AwakeWithdraw ==
    ASSUME Inv, Awake, NEW b \in Backends, NEW i \in Ids, i \in waiting[b], Withdraw(b, i),
           UNCHANGED <<running, runner, tuner, hold, step, paused, stale, unsaid, timers>>
    PROVE  Awake'
<1> DEFINE over == [NoFuture EXCEPT !.pc = "done"]
<1>1. /\ waiting' = [waiting EXCEPT ![b] = @ \ {i}]
      /\ meta' = [meta EXCEPT ![i] = NoMeta]
      /\ future' = [future EXCEPT ![i] = over]
  BY DEF Withdraw
<1>2. over.pc = "done"
  BY FutureDone
<1> HIDE DEF over
<1>3. \A j \in Ids : future'[j] = IF j = i THEN over ELSE future[j]
  BY <1>1 DEF Inv, Shape
<1>4. \A c \in Backends : waiting'[c] \subseteq waiting[c] /\ i \notin waiting'[c]
  <2>1. ASSUME NEW c \in Backends, c # b
        PROVE  waiting'[c] = waiting[c] /\ i \notin waiting[c]
    BY <1>1, <2>1 DEF Inv, Shape, Alone, At
  <2>2. waiting'[b] = waiting[b] \ {i}
    BY <1>1 DEF Inv, Shape
  <2>3. QED
    BY <2>1, <2>2
<1>5. \A j \in Ids : j # i => meta'[j] = meta[j] /\ future'[j] = future[j]
  BY <1>1, <1>3 DEF Inv, Shape
<1>6. ASSUME NEW c \in Backends, NEW j \in waiting'[c]
      PROVE  meta'[j] = meta[j] /\ (Looks(j, c) => Looks(j, c)')
  <2>1. j \in Ids /\ j # i
    BY <1>4 DEF Inv, Shape
  <2>2. QED
    BY <1>5, <2>1 DEF Looks, WillLook
<1>7. \A j \in Ids : future'[j].pc = "enter" => future[j].pc = "enter"
  BY <1>2, <1>3
<1>8. \A j \in Ids : future'[j].late /\ future'[j].pc \in {"place", "scan"} =>
               /\ future[j].late /\ future[j].pc \in {"place", "scan"}
               /\ future[j].woken => future'[j].woken
  BY <1>2, <1>3
<1>9. QED
  BY <1>4, <1>6, <1>7, <1>8, AwakeLess

\* The steps of a pass that put nothing down.
LEMMA AwakePass ==
    ASSUME Inv, Awake, NEW k \in Beats,
           \/ BeginRebalance(k, Backends) \/ CountWaiting(k) \/ ReadLoad(k) \/ PickTarget(k)
           \/ TakeWaiting(k)
    PROVE  Awake'
<1>1. UNCHANGED <<running, runner, meta, tuner, hold, step, future, paused, stale, unsaid, timers>>
  BY DEF BeginRebalance, CountWaiting, ReadLoad, PickTarget, TakeWaiting, queueVars, gateVars
<1>2. \A b \in Backends : waiting'[b] \subseteq waiting[b]
  <2>1. CASE TakeWaiting(k)
    BY <2>1 DEF TakeWaiting, Inv, Shape
  <2>2. CASE ~TakeWaiting(k)
    BY <2>2 DEF BeginRebalance, CountWaiting, ReadLoad, PickTarget, queueVars
  <2>3. QED
    BY <2>1, <2>2
<1>3. \A b \in Backends : \A i \in waiting'[b] :
          meta'[i] = meta[i] /\ (Looks(i, b) => Looks(i, b)')
  BY <1>1 DEF Looks, WillLook
<1>4. QED
  BY <1>1, <1>2, <1>3, AwakeLess

\* A method that takes b's lock leaves the other backends alone, and a hold
\* as it was or over.
LEMMA BeginStepOpens ==
    ASSUME Shape, NEW b \in Backends, NEW t, NEW backlog, NEW late, NEW n, NEW notify,
           BeginStep(b, t, backlog, late, n, notify)
    PROVE  /\ \A c \in Backends : c # b => /\ tuner'[c] = tuner[c]
                                           /\ hold'[c] = hold[c]
                                           /\ step'[c] = step[c]
           /\ hold'[b] \in {hold[b], NoHold}
           /\ tuner'[b] = Poll(t, backlog, paused)
           /\ step'[b].on /\ step'[b].for = n
<1> DEFINE isHeld == hold[b] # NoHold /\ hold[b] + late > 0
           opened == [on |-> TRUE, paused |-> paused, held |-> isHeld, for |-> n, notify |-> notify]
<1>1. /\ tuner' = [tuner EXCEPT ![b] = Poll(t, backlog, paused)]
      /\ hold' = [hold EXCEPT ![b] = IF isHeld THEN hold[b] ELSE NoHold]
      /\ step' = [step EXCEPT ![b] = opened]
  BY DEF BeginStep
<1>2. opened.on /\ opened.for = n
  OBVIOUS
<1> HIDE DEF opened, isHeld
<1>3. QED
  BY <1>1, <1>2 DEF Shape

\* Where it will notify, nobody need hear of it before,
LEMMA NotifyOpens ==
    ASSUME Shape, NEW b \in Backends, NEW t, NEW backlog, NEW late, NEW n,
           BeginStep(b, t, backlog, late, n, TRUE)
    PROVE  Aware(b)'
<1> DEFINE isHeld == hold[b] # NoHold /\ hold[b] + late > 0
           opened == [on |-> TRUE, paused |-> paused, held |-> isHeld, for |-> n, notify |-> TRUE]
<1>1. step' = [step EXCEPT ![b] = opened]
  BY DEF BeginStep
<1>2. opened.on /\ opened.notify
  OBVIOUS
<1> HIDE DEF opened
<1>3. step'[b].on /\ step'[b].notify
  BY <1>1, <1>2 DEF Shape
<1>4. QED
  BY <1>3 DEF Aware

\* and where it read the clock under the lock it goes by what is so.
LEMMA FreshOpens ==
    ASSUME Shape, NEW b \in Backends, NEW backlog \in Nat, NEW n, NEW notify,
           BeginStep(b, tuner[b], backlog, 0, n, notify), Backlog(b)' = backlog, paused' = paused
    PROVE  Aware(b)'
<1> DEFINE isHeld == hold[b] # NoHold /\ hold[b] + 0 > 0
           opened == [on |-> TRUE, paused |-> paused, held |-> isHeld, for |-> n,
                      notify |-> notify]
<1>1. /\ step' = [step EXCEPT ![b] = opened]
      /\ hold' = [hold EXCEPT ![b] = IF isHeld THEN hold[b] ELSE NoHold]
      /\ tuner' = [tuner EXCEPT ![b] = Poll(tuner[b], backlog, paused)]
  BY DEF BeginStep
<1>2. /\ step'[b] = opened
      /\ hold'[b] = IF isHeld THEN hold[b] ELSE NoHold
      /\ tuner'[b] = Poll(tuner[b], backlog, paused)
  <2> HIDE DEF opened, isHeld
  <2>1. QED
    BY <1>1 DEF Shape
<1>3. step'[b].on /\ step'[b].paused = paused'
  BY <1>2
<1>4. step'[b].held => hold'[b] > 0
  <2>1. hold[b] \in Nat \cup {NoHold, Elapsed}
    BY DEF Shape
  <2>2. step'[b].held => isHeld
    <3>1. opened.held => isHeld
      BY Zenon
    <3> HIDE DEF opened, isHeld
    <3>2. QED
      BY <1>2, <3>1
  <2>3. isHeld => hold[b] > 0
    BY <2>1 DEF NoHold, Elapsed
  <2>4. QED
    BY <1>2, <2>2, <2>3
<1>5. Polled(b)'
  <2>1. ~Opens(Poll(tuner[b], backlog, paused), backlog, paused)
    BY PollSettles DEF Shape
  <2>2. QED
    BY <1>2, <2>1 DEF Polled
<1>6. QED
  BY <1>3, <1>4, <1>5 DEF Aware, Fresh

\* Awake holds around a method that takes a lock, if the future it answers,
\* if any, is all that moves, and b itself is seen to.
LEMMA AwakeAround ==
    ASSUME Inv, Awake, NEW b \in Backends, Free(b), Aware(b)',
           \A c \in Backends : c # b => /\ waiting'[c] = waiting[c]
                                        /\ running'[c] = running[c]
                                        /\ \A i \in running[c] : runner'[i] = runner[i]
                                        /\ tuner'[c] = tuner[c]
                                        /\ hold'[c] = hold[c]
                                        /\ step'[c] = step[c]
                                        /\ \A i \in waiting[c] : meta'[i] = meta[i]
                                        /\ \A i \in waiting[c] : Looks(i, c) => Looks(i, c)',
           hold'[b] \in {hold[b], NoHold},
           \A i \in Ids : future'[i].pc = "enter" =>
               future[i].pc = "enter" \/ (step'[b].on /\ step'[b].for = i),
           \A i \in Ids : future'[i].late /\ future'[i].pc \in {"place", "scan"} =>
               /\ future[i].late /\ future[i].pc \in {"place", "scan"}
               /\ future[i].woken => future'[i].woken,
           UNCHANGED <<paused, stale, unsaid, timers>>
    PROVE  Awake'
<1>1. \A c \in Backends : Aware(c)'
  <2> SUFFICES ASSUME NEW c \in Backends, c # b
               PROVE  Aware(c)'
    OBVIOUS
  <2>1. Aware(c) /\ Shape
    BY DEF Awake, Inv
  <2>2. QED
    BY <2>1, AwareStays
<1>2. \A c \in Backends : hold'[c] \in {hold[c], NoHold}
  OBVIOUS
<1>3. Timed'
  BY <1>2 DEF Awake, Timed, NoHold
<1>4. Warned'
  BY <1>2 DEF Awake, Warned, NoHold
<1>5. Entering'
  <2> SUFFICES ASSUME NEW i \in Ids, future'[i].pc = "enter"
               PROVE  \E c \in Backends : step'[c].on /\ step'[c].for = i
    BY DEF Entering
  <2>1. CASE step'[b].on /\ step'[b].for = i
    BY <2>1
  <2>2. CASE future[i].pc = "enter"
    <3>1. PICK c \in Backends : step[c].on /\ step[c].for = i
      BY <2>2 DEF Awake, Entering
    <3>2. c # b
      BY <3>1 DEF Free
    <3>3. step'[c] = step[c]
      BY <3>2
    <3>4. QED
      BY <3>1, <3>3
  <2>3. QED
    BY <2>1, <2>2
<1>6. QED
  BY <1>1, <1>3, <1>4, <1>5 DEF Awake

\* Whoever joins or leaves does so at one backend: at the others a future
\* that is where it was looks where it looked.
LEMMA LooksElsewhere ==
    ASSUME Shape, NEW c \in Backends, NEW i \in Ids, i \notin waiting[c],
           \A j \in Ids : j # i => future'[j] = future[j]
    PROVE  \A j \in waiting[c] : Looks(j, c) => Looks(j, c)'
<1> SUFFICES ASSUME NEW j \in waiting[c], Looks(j, c)
             PROVE  Looks(j, c)'
  OBVIOUS
<1>1. j \in Ids /\ j # i
  BY DEF Shape
<1>2. future'[j] = future[j]
  BY <1>1
<1>3. QED
  BY <1>2 DEF Looks, WillLook

\* A call that is queued is looked at by the method that queued it.
LEMMA AwakeEnqueue ==
    ASSUME Inv, Awake, NEW b \in Backends, NEW m \in Metas, Enqueue(b, m)
    PROVE  Awake'
<1> DEFINE entered == [NoFuture EXCEPT !.pc = "enter", !.home = b]
           backlog == Cardinality(waiting[b]) + 1 + Cardinality(running[b])
<1>1. PICK i \in Ids : i = nextId
  BY DEF Enqueue
<1>2. /\ Free(b)
      /\ waiting' = [waiting EXCEPT ![b] = @ \cup {i}]
      /\ meta' = [meta EXCEPT ![i] = m]
      /\ future' = [future EXCEPT ![i] = entered]
      /\ BeginStep(b, tuner[b], backlog, 0, i, FALSE)
      /\ UNCHANGED <<running, runner, paused, stale, unsaid, timers>>
  BY <1>1 DEF Enqueue, gateVars
<1>3. entered.pc = "enter"
  BY FutureEntered
<1> HIDE DEF entered
<1>4. \A j \in Ids : future'[j] = IF j = i THEN entered ELSE future[j]
  BY <1>2 DEF Inv, Shape
<1>5. ~Held(i)
  BY <1>1 DEF Inv, Known, Ids
<1>6. \A c \in Backends : i \notin waiting[c]
  BY <1>5 DEF Held, At
<1>7. /\ IsFiniteSet(waiting[b]) /\ Cardinality(waiting[b]) \in Nat
      /\ Cardinality(running[b]) \in Nat
  BY CountsAreNumbers DEF Inv
<1>8. backlog \in Nat /\ Backlog(b)' = backlog
  <2>1. waiting'[b] = waiting[b] \cup {i} /\ running'[b] = running[b]
    BY <1>2 DEF Inv, Shape
  <2>2. Cardinality(waiting[b] \cup {i}) = Cardinality(waiting[b]) + 1
    BY <1>6, <1>7, FS_AddElement
  <2>3. QED
    BY <1>7, <2>1, <2>2 DEF Backlog
<1> HIDE DEF backlog
<1>9. Aware(b)'
  BY <1>2, <1>8, FreshOpens DEF Inv
<1>10. /\ \A c \in Backends : c # b => /\ tuner'[c] = tuner[c]
                                       /\ hold'[c] = hold[c]
                                       /\ step'[c] = step[c]
       /\ hold'[b] \in {hold[b], NoHold}
       /\ step'[b].on /\ step'[b].for = i
  <2>1. PICK notify \in BOOLEAN : BeginStep(b, tuner[b], backlog, 0, i, notify)
    BY <1>2
  <2>2. Shape
    BY DEF Inv
  <2>3. QED
    BY <2>1, <2>2, BeginStepOpens
<1>11. \A c \in Backends : c # b => waiting'[c] = waiting[c]
  BY <1>2 DEF Inv, Shape
<1>12. \A c \in Backends : \A j \in waiting[c] : meta'[j] = meta[j]
  BY <1>2, <1>6 DEF Inv, Shape
<1>13. \A c \in Backends : \A j \in waiting[c] : Looks(j, c) => Looks(j, c)'
  BY <1>4, <1>6, LooksElsewhere DEF Inv
<1>14. \A j \in Ids : future'[j].pc = "enter" =>
           future[j].pc = "enter" \/ (step'[b].on /\ step'[b].for = j)
  BY <1>4, <1>10
<1>15. \A j \in Ids : future'[j].late /\ future'[j].pc \in {"place", "scan"} =>
               /\ future[j].late /\ future[j].pc \in {"place", "scan"}
               /\ future[j].woken => future'[j].woken
  BY <1>3, <1>4
<1>16. QED
  BY <1>2, <1>9, <1>10, <1>11, <1>12, <1>13, <1>14, <1>15, AwakeAround

\* A call that ends is told of by the method that ended it.
LEMMA AwakeFinish ==
    ASSUME Inv, Awake, NEW i \in Ids, NEW b \in Backends, NEW outcome, NEW accepted,
           Finish(b, i, outcome, accepted)
    PROVE  Awake'
<1> DEFINE over == [NoFuture EXCEPT !.pc = "done"]
           told == OnComplete(tuner[b], i, runner[i].level, outcome, accepted)
           backlog == Cardinality(waiting[b]) + Cardinality(running[b]) - 1
<1>1. /\ Free(b) /\ i \in running[b]
      /\ running' = [running EXCEPT ![b] = @ \ {i}]
      /\ runner' = [runner EXCEPT ![i] = NoRunner]
      /\ BeginStep(b, told, backlog, 0, 0, TRUE)
      /\ meta' = [meta EXCEPT ![i] = NoMeta]
      /\ future' = [future EXCEPT ![i] = over]
      /\ UNCHANGED <<waiting, paused, stale, unsaid, timers>>
  BY DEF Finish, gateVars
<1>2. over.pc = "done"
  BY FutureDone
<1> HIDE DEF over, told, backlog
<1>3. \A j \in Ids : future'[j] = IF j = i THEN over ELSE future[j]
  BY <1>1 DEF Inv, Shape
<1>4. Aware(b)'
  BY <1>1, NotifyOpens DEF Inv
<1>5. /\ \A c \in Backends : c # b => /\ tuner'[c] = tuner[c]
                                      /\ hold'[c] = hold[c]
                                      /\ step'[c] = step[c]
      /\ hold'[b] \in {hold[b], NoHold}
  BY <1>1, BeginStepOpens DEF Inv
<1>6. \A c \in Backends : i \notin waiting[c] /\ (c # b => i \notin running[c])
  BY <1>1 DEF Inv, Alone, At
<1>7. \A c \in Backends : c # b => /\ running'[c] = running[c]
                                   /\ \A j \in running[c] : runner'[j] = runner[j]
  BY <1>1, <1>6 DEF Inv, Shape
<1>8. \A c \in Backends : \A j \in waiting[c] : meta'[j] = meta[j]
  BY <1>1, <1>6 DEF Inv, Shape
<1>9. \A c \in Backends : \A j \in waiting[c] : Looks(j, c) => Looks(j, c)'
  BY <1>3, <1>6, LooksElsewhere DEF Inv
<1>10. \A j \in Ids : future'[j].pc = "enter" =>
           future[j].pc = "enter" \/ (step'[b].on /\ step'[b].for = j)
  BY <1>2, <1>3
<1>11. \A j \in Ids : future'[j].late /\ future'[j].pc \in {"place", "scan"} =>
               /\ future[j].late /\ future[j].pc \in {"place", "scan"}
               /\ future[j].woken => future'[j].woken
  BY <1>2, <1>3
<1>12. QED
  BY <1>1, <1>4, <1>5, <1>7, <1>8, <1>9, <1>10, <1>11, AwakeAround

\* A call that is put down is told of by the pass.
LEMMA AwakePut ==
    ASSUME Inv, Awake, NEW k \in Beats, PutWaiting(k)
    PROVE  Awake'
<1>1. PICK b \in Backends : b = beat[k].target
  BY DEF PutWaiting, Inv, Beating, Fits
<1> DEFINE backlog == Cardinality(waiting[b]) + 1 + Cardinality(running[b])
<1>2. /\ Free(b)
      /\ waiting' = [waiting EXCEPT ![b] = @ \cup {beat[k].cargo}]
      /\ BeginStep(b, tuner[b], backlog, 0, -k, TRUE)
      /\ UNCHANGED <<running, runner, meta, future, paused, stale, unsaid, timers>>
  BY <1>1 DEF PutWaiting, gateVars
<1> HIDE DEF backlog
<1>3. Aware(b)'
  BY <1>1, <1>2, NotifyOpens DEF Inv
<1>4. /\ \A c \in Backends : c # b => /\ tuner'[c] = tuner[c]
                                      /\ hold'[c] = hold[c]
                                      /\ step'[c] = step[c]
      /\ hold'[b] \in {hold[b], NoHold}
  BY <1>1, <1>2, BeginStepOpens DEF Inv
<1>5. \A c \in Backends : c # b => waiting'[c] = waiting[c]
  BY <1>2 DEF Inv, Shape
<1>6. \A c \in Backends : \A j \in waiting[c] : Looks(j, c) => Looks(j, c)'
  BY <1>2 DEF Looks, WillLook
<1>7. QED
  BY <1>1, <1>2, <1>3, <1>4, <1>5, <1>6, AwakeAround

\* A hold that is cleared is told of by the method that cleared it.
LEMMA AwakeClear ==
    ASSUME Inv, Awake, NEW b \in Backends, ClearReservedHold(b)
    PROVE  Awake'
<1> DEFINE polled == Poll(tuner[b], Cardinality(waiting[b]) + Cardinality(running[b]), paused)
           opened == [on |-> TRUE, paused |-> paused, held |-> FALSE, for |-> 0, notify |-> TRUE]
<1>1. /\ Free(b)
      /\ tuner' = [tuner EXCEPT ![b] = polled]
      /\ hold' = [hold EXCEPT ![b] = NoHold]
      /\ step' = [step EXCEPT ![b] = opened]
      /\ UNCHANGED <<waiting, running, runner, meta, future, paused, stale, unsaid, timers>>
  BY DEF ClearReservedHold, queueVars, gateVars
<1>2. opened.on /\ opened.notify
  OBVIOUS
<1> HIDE DEF polled, opened
<1>3. Aware(b)'
  BY <1>1, <1>2 DEF Inv, Shape, Aware
<1>4. /\ \A c \in Backends : c # b => /\ tuner'[c] = tuner[c]
                                      /\ hold'[c] = hold[c]
                                      /\ step'[c] = step[c]
      /\ hold'[b] \in {hold[b], NoHold}
  BY <1>1 DEF Inv, Shape
<1>5. \A c \in Backends : \A j \in waiting[c] : Looks(j, c) => Looks(j, c)'
  BY <1>1 DEF Looks, WillLook
<1>6. QED
  BY <1>1, <1>3, <1>4, <1>5, AwakeAround

\* A look whose clock was read before the hold at b ended still sees it; then
\* the look itself is followed by another, or there was nothing to start.
LEMMA LateOpens ==
    ASSUME Inv, Awake, NEW b \in Backends, NEW i \in waiting[b], Free(b), NEW backlog \in Nat,
           Backlog(b) = backlog, BeginStep(b, tuner[b], backlog, 1, i, FALSE),
           hold[b] = 0, 0 \notin timers, future[i].woken, future'[i].woken,
           \A j \in Ids : j # i => future'[j] = future[j],
           UNCHANGED <<waiting, running, runner, meta, paused, stale, unsaid, timers>>
    PROVE  Aware(b)'
<1> DEFINE opened == [on |-> TRUE, paused |-> paused, held |-> TRUE, for |-> i, notify |-> FALSE]
<1>1. /\ step' = [step EXCEPT ![b] = opened]
      /\ hold' = [hold EXCEPT ![b] = hold[b]]
      /\ tuner' = [tuner EXCEPT ![b] = Poll(tuner[b], backlog, paused)]
  <2> DEFINE isHeld == hold[b] # NoHold /\ hold[b] + 1 > 0
  <2>1. isHeld = TRUE
    BY DEF NoHold
  <2>2. /\ step' = [step EXCEPT ![b] = [on |-> TRUE, paused |-> paused, held |-> isHeld,
                                       for |-> i, notify |-> FALSE]]
        /\ hold' = [hold EXCEPT ![b] = IF isHeld THEN hold[b] ELSE NoHold]
        /\ tuner' = [tuner EXCEPT ![b] = Poll(tuner[b], backlog, paused)]
    BY DEF BeginStep
  <2> HIDE DEF isHeld
  <2>3. QED
    BY <2>1, <2>2, Zenon
<1>2. opened.on /\ opened.paused = paused
  OBVIOUS
<1> HIDE DEF opened
<1>3. /\ step'[b].on /\ step'[b].paused = paused'
      /\ hold'[b] = 0
      /\ tuner'[b] = Poll(tuner[b], backlog, paused)
  BY <1>1, <1>2 DEF Inv, Shape
<1>4. CASE unsaid
  BY <1>4 DEF Aware
<1>5. CASE AllLook(b)
  <2>1. ASSUME NEW j \in waiting[b]
        PROVE  Looks(j, b)'
    <3>1. j \in Ids
      BY DEF Inv, Shape
    <3>2. CASE j = i
      BY <3>2 DEF Looks, WillLook
    <3>3. CASE j # i
      <4>1. Looks(j, b) /\ future'[j] = future[j]
        BY <1>5, <3>1, <3>3 DEF AllLook
      <4>2. QED
        BY <4>1 DEF Looks, WillLook
    <3>4. QED
      BY <3>2, <3>3
  <2>2. AllLook(b)'
    BY <2>1 DEF AllLook
  <2>3. QED
    BY <2>2 DEF Aware
<1>6. CASE Idle(b) /\ Polled(b)
  <2>1. ~Opens(tuner[b], backlog, paused)
    BY <1>6 DEF Polled
  <2>2. Poll(tuner[b], backlog, paused).level = tuner[b].level
    BY <2>1, PollKeepsLevel DEF Inv, Shape
  <2>3. Idle(b)'
    BY <1>3, <1>6, <2>2, IdleStays
  <2>4. ~Opens(Poll(tuner[b], backlog, paused), backlog, paused)
    BY PollSettles DEF Inv, Shape
  <2>5. Backlog(b)' = backlog
    BY DEF Backlog
  <2>6. Polled(b)'
    BY <1>3, <2>4, <2>5 DEF Polled
  <2>7. Fresh(b)'
    BY <1>3, <2>3, <2>6 DEF Fresh
  <2>8. QED
    BY <1>3, <2>7 DEF Aware
<1>7. QED
  BY <1>4, <1>5, <1>6 DEF Awake, Aware, Free

\* A look at a clock that was read in time, or late, finds out what is so.
LEMMA LookOpens ==
    ASSUME Inv, Awake, NEW b \in Backends, NEW i \in waiting[b], Free(b), NEW backlog \in Nat,
           Backlog(b) = backlog, NEW late \in {0, 1}, late = 1 => future[i].late,
           BeginStep(b, tuner[b], backlog, late, i, FALSE),
           future[i].pc \in {"place", "scan"}, future[i].woken => future'[i].woken,
           \A j \in Ids : j # i => future'[j] = future[j],
           UNCHANGED <<waiting, running, runner, meta, paused, stale, unsaid, timers>>
    PROVE  Aware(b)'
<1>1. Shape /\ hold[b] \in Nat \cup {NoHold, Elapsed} /\ i \in Ids
  BY DEF Inv, Shape
<1>2. Backlog(b)' = backlog
  BY DEF Backlog
<1>3. CASE late = 0 \/ hold[b] # 0
  <2>1. hold[b] + late > 0 <=> hold[b] + 0 > 0
    BY <1>1, <1>3 DEF NoHold, Elapsed
  <2>2. BeginStep(b, tuner[b], backlog, 0, i, FALSE)
    <3> DEFINE isHeld == hold[b] # NoHold /\ hold[b] + late > 0
               nowHeld == hold[b] # NoHold /\ hold[b] + 0 > 0
    <3>1. isHeld = nowHeld
      BY <2>1
    <3>2. /\ tuner' = [tuner EXCEPT ![b] = Poll(tuner[b], backlog, paused)]
          /\ hold' = [hold EXCEPT ![b] = IF isHeld THEN @ ELSE NoHold]
          /\ step' = [step EXCEPT ![b] = [on |-> TRUE, paused |-> paused, held |-> isHeld,
                                          for |-> i, notify |-> FALSE]]
      BY DEF BeginStep
    <3> HIDE DEF isHeld
    <3>3. /\ tuner' = [tuner EXCEPT ![b] = Poll(tuner[b], backlog, paused)]
          /\ hold' = [hold EXCEPT ![b] = IF nowHeld THEN @ ELSE NoHold]
          /\ step' = [step EXCEPT ![b] = [on |-> TRUE, paused |-> paused, held |-> nowHeld,
                                          for |-> i, notify |-> FALSE]]
      BY <3>1, <3>2, Zenon
    <3>4. QED
      BY <3>3 DEF BeginStep
  <2>3. QED
    BY <1>1, <1>2, <2>2, FreshOpens
<1>4. CASE late = 1 /\ hold[b] = 0
  <2>1. BeginStep(b, tuner[b], backlog, 1, i, FALSE)
    BY <1>4
  <2>2. future[i].woken \/ 0 \in timers
    BY <1>1, <1>4 DEF Awake, Warned
  <2>3. CASE 0 \in timers
    BY <2>3 DEF Aware
  <2>4. CASE future[i].woken /\ 0 \notin timers
    BY <1>4, <2>1, <2>4, LateOpens
  <2>5. QED
    BY <2>2, <2>3, <2>4
<1>5. QED
  BY <1>3, <1>4

\* Looking on at another member keeps the clock as it was read.
LEMMA LateStays ==
    ASSUME NEW f \in FutureType, f.pc \in {"place", "scan"}, NotHere(f).late
    PROVE  f.late
<1> DEFINE moved == [f EXCEPT !.pc = "scan"]
           waits == [f EXCEPT !.pc = "await"]
<1>1. CASE f.pc = "place"
  <2>1. moved \in FutureType /\ (moved.late => f.late)
    BY DEF FutureType
  <2>2. NotHere(f) = [moved EXCEPT !.at = 1]
    BY <1>1 DEF NotHere
  <2> HIDE DEF moved
  <2>3. [moved EXCEPT !.at = 1].late => moved.late
    BY <2>1 DEF FutureType
  <2>4. QED
    BY <2>1, <2>2, <2>3
<1>2. CASE f.pc = "scan" /\ f.at < NumBackends
  <2>1. NotHere(f) = [f EXCEPT !.at = f.at + 1]
    BY <1>2, PoolAssumption DEF NotHere, FutureType, Backends
  <2>2. [f EXCEPT !.at = f.at + 1].late => f.late
    BY DEF FutureType
  <2>3. QED
    BY <2>1, <2>2
<1>3. CASE f.pc = "scan" /\ f.at = NumBackends
  <2>1. NotHere(f) = waits
    BY <1>3, PoolAssumption DEF NotHere
  <2>2. waits.late => f.late
    BY DEF FutureType
  <2>3. QED
    BY <2>1, <2>2
<1>4. f.at < NumBackends \/ f.at = NumBackends
  BY PoolAssumption DEF FutureType, Backends
<1>5. QED
  BY <1>1, <1>2, <1>3, <1>4

\* A future looks at one member: it moves on, or the member is polled.
LEMMA AwakeLook ==
    ASSUME Inv, Awake, NEW i \in Ids, Look(i)
    PROVE  Awake'
<1> DEFINE f == future[i]
<1>1. PICK b \in Backends : b = IF f.pc = "place" THEN f.home ELSE f.at
  BY DEF Inv, Shape, FutureType
<1> DEFINE placing == [f EXCEPT !.pc = "placing"]
           backlog == Cardinality(waiting[b]) + Cardinality(running[b])
<1>2. f \in FutureType /\ f.pc \in {"place", "scan"}
  BY DEF Look, Inv, Shape
<1>3. /\ Free(b)
      /\ \/ /\ i \in running[b]
            /\ future' = Claimed(future, i, b)
            /\ UNCHANGED <<waiting, value, meta, tuner, hold, step>>
         \/ /\ i \notin running[b] \cup waiting[b]
            /\ future' = [future EXCEPT ![i] = NotHere(f)]
            /\ UNCHANGED <<waiting, value, meta, tuner, hold, step>>
         \/ /\ i \in waiting[b] \cap stale
            /\ Withdraw(b, i)
            /\ UNCHANGED <<tuner, hold, step>>
         \/ /\ i \in waiting[b] \ stale
            /\ future' = [future EXCEPT ![i].pc = "placing"]
            /\ \E late \in IF f.late THEN {0, 1} ELSE {0} :
                  BeginStep(b, tuner[b], backlog, late, i, FALSE)
            /\ UNCHANGED <<waiting, value, meta>>
      /\ UNCHANGED <<running, runner, nextId, pace, gateVars, timers, beat>>
  BY <1>1 DEF Look
<1>4. CASE /\ i \in running[b]
           /\ future' = Claimed(future, i, b)
           /\ UNCHANGED <<waiting, value, meta, tuner, hold, step>>
  <2> DEFINE placed == [f EXCEPT !.pc = "slot"]
             slot == [placed EXCEPT !.at = b]
  <2>1. future' = [future EXCEPT ![i] = slot]
    BY <1>4 DEF Claimed
  <2>2. placed \in FutureType /\ placed.pc = "slot"
    BY <1>2, FutureAt
  <2> HIDE DEF placed
  <2>3. slot.pc = "slot"
    BY <2>2 DEF FutureType
  <2> HIDE DEF slot
  <2>4. \A c \in Backends : i \notin waiting[c]
    BY <1>4 DEF Inv, Alone, At
  <2>5. QED
    BY <1>3, <1>4, <2>1, <2>3, <2>4, AwakeOne DEF gateVars
<1>5. CASE /\ i \notin running[b] \cup waiting[b]
           /\ future' = [future EXCEPT ![i] = NotHere(f)]
           /\ UNCHANGED <<waiting, value, meta, tuner, hold, step>>
  <2> DEFINE g == NotHere(f)
  <2>1. /\ g \in FutureType
        /\ f.pc = "place" => g.pc = "scan" /\ g.at = 1
        /\ f.pc = "scan" /\ f.at < NumBackends => g.pc = "scan" /\ g.at = f.at + 1
        /\ g.pc \in {"scan", "await"}
        /\ f.woken => g.woken
    BY <1>2, NotHereMoves
  <2>2. g.late => f.late
    BY <1>2, LateStays
  <2>3. future' = [future EXCEPT ![i] = g]
    BY <1>5
  <2> HIDE DEF g
  <2>4. ASSUME NEW c \in Backends, i \in waiting[c], Looks(i, c)
        PROVE  g.woken \/ (g.pc = "scan" /\ g.at <= c)
    <3>1. c # b
      BY <1>5, <2>4
    <3>2. CASE f.pc = "place"
      BY <2>1, <3>2, PoolAssumption DEF Backends
    <3>3. CASE f.pc = "scan" /\ ~f.woken
      <4>1. f.at <= c /\ f.at = b
        BY <1>1, <2>4, <3>3 DEF Looks, WillLook
      <4>2. f.at < c /\ f.at \in Int /\ c \in Int /\ c <= NumBackends /\ NumBackends \in Int
        BY <3>1, <4>1, PoolAssumption DEF Backends
      <4>3. f.at < NumBackends /\ f.at + 1 <= c
        BY <4>2
      <4>4. QED
        BY <2>1, <3>3, <4>3
    <3>4. QED
      BY <1>2, <2>1, <3>2, <3>3
  <2>5. g.pc # "enter"
    BY <2>1
  <2>6. g.late /\ g.pc \in {"place", "scan"} =>
               /\ future[i].late /\ future[i].pc \in {"place", "scan"}
               /\ future[i].woken => g.woken
    BY <1>2, <2>1, <2>2
  <2>7. UNCHANGED <<waiting, running, runner, meta, tuner, hold, step, paused, stale, unsaid,
                    timers>>
    BY <1>3, <1>5 DEF gateVars
  <2> HIDE DEF f
  <2>8. QED
    BY <2>3, <2>4, <2>5, <2>6, <2>7, AwakeOne
<1>6. CASE /\ i \in waiting[b] \cap stale
           /\ Withdraw(b, i)
           /\ UNCHANGED <<tuner, hold, step>>
  BY <1>3, <1>6, AwakeWithdraw DEF gateVars
<1>7. CASE /\ i \in waiting[b] \ stale
           /\ future' = [future EXCEPT ![i].pc = "placing"]
           /\ \E late \in IF f.late THEN {0, 1} ELSE {0} :
                  BeginStep(b, tuner[b], backlog, late, i, FALSE)
           /\ UNCHANGED <<waiting, value, meta>>
  <2>1. PICK late \in {0, 1} : /\ late = 1 => f.late
                               /\ BeginStep(b, tuner[b], backlog, late, i, FALSE)
    <3> HIDE DEF backlog
    <3>1. CASE f.late
      <4>1. (IF f.late THEN {0, 1} ELSE {0}) = {0, 1}
        BY <3>1
      <4>2. PICK late \in {0, 1} : BeginStep(b, tuner[b], backlog, late, i, FALSE)
        BY <1>7, <4>1
      <4>3. QED
        BY <3>1, <4>2
    <3>2. CASE ~f.late
      <4>1. BeginStep(b, tuner[b], backlog, 0, i, FALSE)
        BY <1>7, <3>2
      <4>2. 0 = 1 => f.late
        OBVIOUS
      <4>3. WITNESS 0 \in {0, 1}
      <4>4. QED
        BY <4>1, <4>2
    <3>3. QED
      BY <3>1, <3>2
  <2>2. placing.pc = "placing" /\ (f.woken => placing.woken)
    BY <1>2 DEF FutureType
  <2>3. future' = [future EXCEPT ![i] = placing]
    BY <1>7
  <2> HIDE DEF placing
  <2>4. \A j \in Ids : future'[j] = IF j = i THEN placing ELSE future[j]
    BY <2>3 DEF Inv, Shape
  <2>5. backlog \in Nat /\ Backlog(b) = backlog
    BY CountsAreNumbers DEF Backlog, Inv
  <2> HIDE DEF backlog
  <2>6. UNCHANGED <<waiting, running, runner, meta, paused, stale, unsaid, timers>>
    BY <1>3, <1>7 DEF gateVars
  <2>7. f.woken => future'[i].woken
    BY <2>2, <2>4
  <2>8. Aware(b)'
    <3>1. \A j \in Ids : j # i => future'[j] = future[j]
      BY <2>4
    <3>2. i \in waiting[b] /\ Free(b)
      BY <1>3, <1>7
    <3>3. QED
      BY <1>2, <2>1, <2>5, <2>6, <2>7, <3>1, <3>2, LookOpens
  <2>9. /\ \A c \in Backends : c # b => /\ tuner'[c] = tuner[c]
                                        /\ hold'[c] = hold[c]
                                        /\ step'[c] = step[c]
        /\ hold'[b] \in {hold[b], NoHold}
    BY <2>1, BeginStepOpens DEF Inv
  <2>10. \A c \in Backends : c # b => i \notin waiting[c]
    BY <1>7 DEF Inv, Alone, At
  <2>11. \A c \in Backends : c # b => \A j \in waiting[c] : Looks(j, c) => Looks(j, c)'
    BY <2>4, <2>10, LooksElsewhere DEF Inv
  <2>12. \A j \in Ids : future'[j].pc = "enter" =>
            future[j].pc = "enter" \/ (step'[b].on /\ step'[b].for = j)
    BY <2>2, <2>4
  <2>13. \A j \in Ids : future'[j].late /\ future'[j].pc \in {"place", "scan"} =>
               /\ future[j].late /\ future[j].pc \in {"place", "scan"}
               /\ future[j].woken => future'[j].woken
    BY <2>2, <2>4
  <2>14. Free(b)
    BY <1>3
  <2>15. QED
    BY <2>6, <2>8, <2>9, <2>11, <2>12, <2>13, <2>14, AwakeAround
<1>8. QED
  BY <1>3, <1>4, <1>5, <1>6, <1>7

\* A dropped future looks on until a member held its call.
LEMMA AwakeAbandon ==
    ASSUME Inv, Awake, NEW i \in Ids, Abandon(i)
    PROVE  Awake'
<1> DEFINE f == future[i]
           ending == [f EXCEPT !.pc = "dropFinish"]
           moved == [f EXCEPT !.pc = "dropScan"]
           further == [f EXCEPT !.at = f.at + 1]
           over == [NoFuture EXCEPT !.pc = "done"]
<1>1. PICK b \in Backends : b = IF f.pc = "dropHome" THEN f.home ELSE f.at
  BY DEF Inv, Shape, FutureType
<1>2. f \in FutureType /\ f.pc \in {"dropHome", "dropScan"}
  BY DEF Abandon, Inv, Shape
<1>3. PICK first : first = 1
  OBVIOUS
<1>4. /\ Free(b)
      /\ \/ i \in waiting[b] /\ Withdraw(b, i)
         \/ /\ i \in running[b]
            /\ future' = [future EXCEPT ![i] = [ending EXCEPT !.at = b]]
            /\ UNCHANGED <<waiting, value, meta>>
         \/ /\ i \notin waiting[b] \cup running[b]
            /\ future' = [future EXCEPT ![i] =
                    IF f.pc = "dropHome" THEN [moved EXCEPT !.at = first]
                    ELSE IF f.at < NumBackends THEN further
                    ELSE over]
            /\ UNCHANGED <<waiting, value, meta>>
      /\ UNCHANGED <<running, runner, tuner, hold, step, paused, stale, unsaid, timers>>
  BY <1>1, <1>3 DEF Abandon, gateVars
<1>5. ending \in FutureType /\ ending.pc = "dropFinish"
  BY <1>2, FutureAt
<1>6. moved \in FutureType /\ moved.pc = "dropScan"
  BY <1>2, FutureAt
<1>7. over.pc = "done"
  BY FutureDone
<1>8. further.pc = f.pc
  BY <1>2 DEF FutureType
<1> HIDE DEF ending, moved, further, over
<1>9. CASE i \in waiting[b] /\ Withdraw(b, i)
  BY <1>4, <1>9, AwakeWithdraw
<1>10. CASE /\ i \in running[b]
            /\ future' = [future EXCEPT ![i] = [ending EXCEPT !.at = b]]
            /\ UNCHANGED <<waiting, value, meta>>
  <2> DEFINE g == [ending EXCEPT !.at = b]
  <2>1. g.pc = "dropFinish"
    BY <1>5 DEF FutureType
  <2>2. \A c \in Backends : i \notin waiting[c]
    BY <1>10 DEF Inv, Alone, At
  <2>3. future' = [future EXCEPT ![i] = g]
    BY <1>10
  <2> HIDE DEF g
  <2>4. QED
    BY <1>4, <1>10, <2>1, <2>2, <2>3, AwakeOne
<1>11. CASE /\ i \notin waiting[b] \cup running[b]
            /\ future' = [future EXCEPT ![i] =
                    IF f.pc = "dropHome" THEN [moved EXCEPT !.at = first]
                    ELSE IF f.at < NumBackends THEN further
                    ELSE over]
            /\ UNCHANGED <<waiting, value, meta>>
  <2> DEFINE g == IF f.pc = "dropHome" THEN [moved EXCEPT !.at = first]
                  ELSE IF f.at < NumBackends THEN further
                  ELSE over
  <2>1. [moved EXCEPT !.at = first].pc = "dropScan"
    BY <1>6 DEF FutureType
  <2>2. g.pc \in {"dropScan", "done"}
    BY <1>2, <1>7, <1>8, <2>1
  <2>3. future' = [future EXCEPT ![i] = g]
    BY <1>11
  <2> HIDE DEF g
  <2>4. QED
    BY <1>4, <1>11, <2>2, <2>3, AwakeOne
<1>12. QED
  BY <1>4, <1>9, <1>10, <1>11

\* A notification makes nobody late.
LEMMA WokenNotLate ==
    ASSUME NEW f \in [Ids -> FutureType], NEW i \in Ids, Woken(f)[i].late
    PROVE  f[i].late
<1>1. [f[i] EXCEPT !.woken = TRUE].late => f[i].late
  BY DEF FutureType
<1>2. Woken(f)[i] \in {f[i], [f[i] EXCEPT !.woken = TRUE]}
  BY DEF Woken
<1>3. QED
  BY <1>1, <1>2

\* A notification keeps whoever is awake awake, and all the queues look.
LEMMA AwakeNotified ==
    ASSUME Inv, Inv', Awake, future' = Woken(future), step' = step,
           \A b \in Backends : hold'[b] = hold[b] /\ (hold[b] > 0 => hold[b] \in timers')
    PROVE  Awake'
<1>1. future \in [Ids -> FutureType]
  BY DEF Inv, Shape
<1>2. \A i \in Ids : /\ future'[i].pc = future[i].pc
                     /\ future[i].woken => future'[i].woken
                     /\ future[i].pc \in Listening => future'[i].woken
  BY <1>1, WokenMovesNobody
<1>3. \A b \in Backends : Aware(b)'
  <2> SUFFICES ASSUME NEW b \in Backends
               PROVE  Aware(b)'
    OBVIOUS
  <2>1. waiting'[b] \in SUBSET Ids
    BY DEF Inv, Shape
  <2>2. AllLook(b)'
    BY <1>2, <2>1, AllHeardNext
  <2>3. QED
    BY <2>2 DEF Aware
<1>4. Timed'
  BY DEF Timed
<1>5. Warned'
  BY <1>2 DEF Warned, Listening
<1>6. Entering'
  BY <1>2 DEF Awake, Entering
<1>7. QED
  BY <1>3, <1>4, <1>5, <1>6 DEF Awake

\* A start is told of at once.
LEMMA AwakeStart ==
    ASSUME Inv, Awake, NEW b \in Backends, StartNext(b)
    PROVE  Awake'
<1>1. Inv'
  BY StartNextInv
<1>2. future' = Woken(future) /\ step' = step /\ hold' = hold /\ timers' = timers
  BY DEF StartNext
<1>3. QED
  BY <1>1, <1>2, AwakeNotified DEF Awake, Timed

\* A gate that changed has yet to say so; a gate or timer that says so is heard.
LEMMA AwakeGate ==
    ASSUME Inv, Awake,
           \/ \E v \in BOOLEAN : SetPaused(v)
           \/ \E i \in Ids : GoStale(i)
           \/ GateNotify
           \/ TimerFires
    PROVE  Awake'
<1>1. CASE (\E v \in BOOLEAN : SetPaused(v)) \/ (\E i \in Ids : GoStale(i))
  <2>1. unsaid' /\ UNCHANGED <<hold, step, future, timers>>
    BY <1>1 DEF SetPaused, GoStale
  <2>2. \A b \in Backends : Aware(b)'
    BY <2>1 DEF Aware
  <2>3. QED
    BY <2>1, <2>2 DEF Awake, Timed, Warned, Entering
<1>2. CASE GateNotify
  <2>1. Inv'
    BY <1>2, GateInv
  <2>2. future' = Woken(future) /\ step' = step /\ hold' = hold /\ timers' = timers
    BY <1>2 DEF GateNotify
  <2>3. QED
    BY <2>1, <2>2, AwakeNotified DEF Awake, Timed
<1>3. CASE TimerFires
  <2>1. Inv'
    BY <1>3, GateInv
  <2>2. future' = Woken(future) /\ step' = step /\ hold' = hold /\ timers' = timers \ {0}
    BY <1>3 DEF TimerFires
  <2>3. \A b \in Backends : hold[b] > 0 => hold[b] \in timers'
    <3>1. \A b \in Backends : hold[b] > 0 => hold[b] # 0
      BY DEF Inv, Shape, NoHold, Elapsed
    <3>2. QED
      BY <2>2, <3>1 DEF Awake, Timed
  <2>4. QED
    BY <2>1, <2>2, <2>3, AwakeNotified
<1>4. QED
  BY <1>1, <1>2, <1>3

\* An answer leaves an awake future awake.
LEMMA AnswerKeepsAwake ==
    ASSUME NEW f \in [Ids -> FutureType], NEW i \in Ids, NEW b \in Backends,
           f[i].pc \in {"enter", "placing"}, f[i].woken
    PROVE  Answered(f, i, b)[i].woken
<1> DEFINE registers == [f[i] EXCEPT !.pc = "register"]
           slot == [f[i] EXCEPT !.pc = "slot"]
           waits == [f[i] EXCEPT !.pc = "await"]
<1>1. f[i] \in FutureType
  OBVIOUS
<1>2. registers.woken /\ waits.woken
  BY <1>1 DEF FutureType
<1>3. slot \in FutureType /\ slot.woken
  BY <1>1 DEF FutureType
<1>4. CASE f[i].pc = "enter"
  <2>1. Answered(f, i, b) = [f EXCEPT ![i] = registers]
    BY <1>4 DEF Answered
  <2> HIDE DEF registers
  <2>2. QED
    BY <1>2, <2>1
<1>5. CASE f[i].pc = "placing" /\ i \in running[b]
  <2>1. Answered(f, i, b) = [f EXCEPT ![i] = [slot EXCEPT !.at = b]]
    BY <1>5 DEF Answered, Claimed
  <2> HIDE DEF slot
  <2>2. [slot EXCEPT !.at = b].woken
    BY <1>3 DEF FutureType
  <2>3. QED
    BY <2>1, <2>2
<1>6. CASE f[i].pc = "placing" /\ i \notin running[b]
  <2>1. Answered(f, i, b) = [f EXCEPT ![i] = waits]
    BY <1>6 DEF Answered
  <2> HIDE DEF waits
  <2>2. QED
    BY <1>2, <2>1
<1>7. QED
  BY <1>4, <1>5, <1>6

\* What the futures hear of a method that returns.
LEMMA StepHears ==
    ASSUME Inv, NEW b \in Backends, StepDone(b)
    PROVE  \A i \in Ids :
              /\ future[i].woken => future'[i].woken
              /\ step[b].notify /\ future[i].pc \in Listening => future'[i].woken
              /\ \/ /\ future'[i].pc = future[i].pc
                    /\ future'[i].at = future[i].at
                    /\ future'[i].late => future[i].late
                    /\ i # step[b].for
                 \/ future'[i].pc = "register"
                 \/ future'[i].pc = "await" /\ future[i].pc = "placing"
                 \/ future'[i].pc = "slot" /\ i \in running[b]
<1> DEFINE n == step[b].for
           told == IF step[b].notify THEN Woken(future) ELSE future
<1>1. future' = IF n > 0 THEN Answered(told, n, b) ELSE told
  BY DEF StepDone
<1>2. n > 0 => n \in Ids /\ future[n].pc \in {"enter", "placing"}
  BY DEF StepDone, Inv, Locks
<1>3. future \in [Ids -> FutureType]
  BY DEF Inv, Shape
<1>4. /\ told \in [Ids -> FutureType]
      /\ \A i \in Ids : /\ told[i].pc = future[i].pc /\ told[i].at = future[i].at
                        /\ future[i].woken => told[i].woken
                        /\ step[b].notify /\ future[i].pc \in Listening => told[i].woken
                        /\ told[i].late => future[i].late
  BY <1>3, WokenMovesNobody, WokenNotLate
<1> HIDE DEF told
<1>5. \A i \in Ids : i > 0
  BY DEF Ids
<1>6. CASE n > 0
  <2> HIDE DEF n
  <2>1. n \in Ids /\ told[n].pc \in {"enter", "placing"} /\ future' = Answered(told, n, b)
    BY <1>1, <1>2, <1>4, <1>6
  <2>2. told[n].woken => future'[n].woken
    BY <1>4, <2>1, AnswerKeepsAwake
  <2>3. /\ \A i \in Ids : i # n => future'[i] = told[i]
        /\ \/ future'[n].pc = "register"
           \/ future'[n].pc = "await" /\ told[n].pc = "placing"
           \/ future'[n].pc = "slot" /\ n \in running[b]
    BY <1>4, <2>1, AnswerMoves
  <2>4. ASSUME NEW i \in Ids, i # n
        PROVE  /\ future[i].woken => future'[i].woken
               /\ step[b].notify /\ future[i].pc \in Listening => future'[i].woken
               /\ future'[i].pc = future[i].pc
               /\ future'[i].at = future[i].at
               /\ future'[i].late => future[i].late
    BY <1>4, <2>3, <2>4
  <2>5. /\ future[n].woken => future'[n].woken
        /\ step[b].notify /\ future[n].pc \in Listening => future'[n].woken
    BY <1>4, <2>1, <2>2
  <2>6. told[n].pc = future[n].pc
    BY <1>4, <2>1
  <2>7. QED
    BY <2>3, <2>4, <2>5, <2>6 DEF n
<1>7. CASE ~(n > 0)
  <2>1. future' = told
    BY <1>1, <1>7
  <2>2. \A i \in Ids : i # n
    BY <1>5, <1>7
  <2>3. QED
    BY <1>4, <2>1, <2>2
<1>8. QED
  BY <1>6, <1>7

\* A method that ends without a word goes by what is so: nothing is left that
\* could start.
LEMMA NothingLeft ==
    ASSUME Inv, NEW b \in Backends, Fresh(b),
           Placement(b, step[b].paused, step[b].held) = {}
    PROVE  Idle(b)
<1>1. ~CanStart(b, step[b].paused, step[b].held)
  <2>1. PICK isPaused, isHeld : isPaused = step[b].paused /\ isHeld = step[b].held
    OBVIOUS
  <2>2. Placement(b, isPaused, isHeld) = {}
    BY <2>1
  <2>3. ~CanStart(b, isPaused, isHeld)
    BY <2>2, PlacementOrNone DEF Inv
  <2>4. QED
    BY <2>1, <2>3
<1>2. CASE step[b].held => hold[b] > 0
  <2>1. step[b].paused => paused
    BY DEF Fresh
  <2>2. \A i \in Eligible(b, paused, hold[b] > 0) : i \in Eligible(b, step[b].paused, step[b].held)
    BY <1>2, <2>1 DEF Eligible
  <2>3. QED
    BY <1>1, <2>2 DEF Idle, CanStart
<1>3. CASE ~(step[b].held => hold[b] > 0)
  BY <1>3 DEF Fresh
<1>4. QED
  BY <1>2, <1>3

\* A method returns: it notifies, or nothing was left that could start.
LEMMA AwakeStepDone ==
    ASSUME Inv, Awake, NEW b \in Backends, StepDone(b)
    PROVE  Awake'
<1>1. /\ step[b].on /\ step' = [step EXCEPT ![b] = Unlocked]
      /\ Placement(b, step[b].paused, step[b].held) = {}
      /\ UNCHANGED <<waiting, running, runner, value, meta, tuner, hold, paused, stale, unsaid,
                     timers>>
  BY DEF StepDone, queueVars, gateVars
<1>2. ~step'[b].on /\ \A c \in Backends : c # b => step'[c] = step[c]
  BY <1>1, StepClosed DEF Inv, Shape
<1>3. Inv'
  BY StepDoneInv
<1>4. ASSUME NEW c \in Backends, NEW i \in waiting[c], Looks(i, c)
      PROVE  Looks(i, c)'
  <2>1. i \in Ids /\ i \notin running[b]
    <3>1. i \in Ids
      BY DEF Inv, Shape
    <3>2. i \notin running[b]
      BY DEF Inv, Alone, At
    <3>3. QED
      BY <3>1, <3>2
  <2>2. /\ future[i].woken => future'[i].woken
        /\ \/ /\ future'[i].pc = future[i].pc
              /\ future'[i].at = future[i].at
           \/ future'[i].pc = "register"
           \/ future'[i].pc = "await" /\ future[i].pc = "placing"
    BY <2>1, StepHears
  <2>3. QED
    BY <1>4, <2>2 DEF Looks, WillLook
<1>5. \A c \in Backends : Aware(c)'
  <2>1. ASSUME NEW c \in Backends, c # b
        PROVE  Aware(c)'
    <3>1. Aware(c) /\ Shape
      BY DEF Awake, Inv
    <3>2. step'[c] = step[c]
      BY <1>2, <2>1
    <3>3. QED
      BY <1>1, <1>4, <3>1, <3>2, AwareStays
  <2>2. Aware(b)'
    <3>1. CASE step[b].notify
      <4>1. ASSUME NEW i \in waiting'[b], future'[i].pc \in Listening
            PROVE  future'[i].woken
        <5>1. i \in Ids
          BY <1>1 DEF Inv, Shape
        <5>2. future[i].pc \in Listening
          BY <4>1, <5>1, StepHears DEF Listening
        <5>3. QED
          BY <3>1, <5>1, <5>2, StepHears
      <4>2. AllLook(b)'
        BY <1>3, <4>1, AllHeardNext
      <4>3. QED
        BY <4>2 DEF Aware
    <3>2. CASE AllLook(b)
      <4>1. AllLook(b)'
        BY <1>1, <1>4, <3>2 DEF AllLook
      <4>2. QED
        BY <4>1 DEF Aware
    <3>3. CASE Fresh(b)
      <4>1. Idle(b)
        BY <1>1, <3>3, NothingLeft
      <4>2. Idle(b)'
        BY <1>1, <4>1, IdleStays
      <4>3. Polled(b) /\ Shape
        BY <3>3 DEF Fresh, Inv
      <4>4. Polled(b)'
        BY <1>1, <4>3, PolledStays
      <4>5. QED
        BY <1>2, <4>2, <4>4 DEF Aware
    <3>4. CASE unsaid \/ 0 \in timers
      BY <1>1, <3>4 DEF Aware
    <3>5. QED
      BY <1>1, <3>1, <3>2, <3>3, <3>4 DEF Awake, Aware
  <2>3. QED
    BY <2>1, <2>2
<1>6. Timed'
  BY <1>1 DEF Awake, Timed
<1>7. Warned'
  <2> SUFFICES ASSUME NEW i \in Ids, NEW c \in Backends, future'[i].late,
                      future'[i].pc \in {"place", "scan"}, hold'[c] = 0
               PROVE  future'[i].woken \/ 0 \in timers'
    BY DEF Warned
  <2>1. /\ future[i].late /\ future[i].pc \in {"place", "scan"}
        /\ future[i].woken => future'[i].woken
    BY StepHears
  <2>2. QED
    BY <1>1, <2>1 DEF Awake, Warned
<1>8. Entering'
  <2> SUFFICES ASSUME NEW i \in Ids, future'[i].pc = "enter"
               PROVE  \E c \in Backends : step'[c].on /\ step'[c].for = i
    BY DEF Entering
  <2>1. future[i].pc = "enter" /\ i # step[b].for
    BY StepHears
  <2>2. PICK c \in Backends : step[c].on /\ step[c].for = i
    BY <2>1 DEF Awake, Entering
  <2>3. step'[c] = step[c]
    BY <1>2, <2>1, <2>2
  <2>4. QED
    BY <2>2, <2>3
<1>9. QED
  BY <1>5, <1>6, <1>7, <1>8 DEF Awake

\* A new hold keeps more calls waiting, and its timer is set.
LEMMA AwakeHold ==
    ASSUME Inv, Awake, NEW b \in Backends, NEW ticks \in HoldTicks, HoldReserved(b, ticks)
    PROVE  Awake'
<1>1. ticks \in Nat /\ ticks > 0
  BY PoolAssumption
<1>2. /\ ~step[b].on /\ hold' = [hold EXCEPT ![b] = ticks] /\ timers' = timers \cup {ticks}
      /\ UNCHANGED <<waiting, running, runner, value, meta, tuner, step, future, paused, stale,
                     unsaid>>
  BY DEF HoldReserved, Free, queueVars, gateVars
<1>3. \A c \in Backends : hold'[c] = IF c = b THEN ticks ELSE hold[c]
  BY <1>2 DEF Inv, Shape
<1>4. \A c \in Backends, i \in Ids : Looks(i, c) => Looks(i, c)'
  BY <1>2 DEF Looks, WillLook
<1>5. \A c \in Backends : waiting[c] \in SUBSET Ids
  BY DEF Inv, Shape
<1>6. ASSUME NEW c \in Backends, c # b
      PROVE  Aware(c)'
  <2>1. Aware(c) /\ Shape
    BY DEF Awake, Inv
  <2>2. hold'[c] = hold[c] /\ \A i \in waiting[c] : Looks(i, c) => Looks(i, c)'
    BY <1>3, <1>4, <1>5, <1>6
  <2>3. QED
    BY <1>2, <2>1, <2>2, AwareStays
<1>7. Aware(b)'
  <2>1. Idle(b) => Idle(b)'
    BY <1>1, <1>2, <1>3, IdleStays
  <2>2. Polled(b)'
    BY <1>1, <1>3 DEF Polled
  <2>3. AllLook(b) => AllLook(b)'
    BY <1>2, <1>4, <1>5 DEF AllLook
  <2>4. QED
    BY <1>2, <2>1, <2>2, <2>3 DEF Awake, Aware
<1>8. Timed'
  BY <1>2, <1>3 DEF Awake, Timed
<1>9. Warned'
  BY <1>1, <1>2, <1>3 DEF Awake, Warned
<1>10. Entering'
  BY <1>2 DEF Awake, Entering
<1>11. QED
  BY <1>6, <1>7, <1>8, <1>9, <1>10 DEF Awake

\* A hold that ends does so with its timer due.
LEMMA AwakeTick ==
    ASSUME Inv, Awake, Tick
    PROVE  Awake'
<1>1. /\ tuner' = [b \in Backends |-> Elapse(tuner[b])]
      /\ hold' = [b \in Backends |-> HoldLess(hold[b])]
      /\ timers' = {OneLess(t) : t \in timers}
      /\ UNCHANGED <<waiting, running, runner, value, meta, step, paused, stale, unsaid>>
  BY DEF Tick, queueVars, gateVars
<1>2. \A i \in Ids : /\ future'[i].pc = future[i].pc
                     /\ future'[i].at = future[i].at
                     /\ future[i].woken => future'[i].woken
  <2>1. \A i \in Ids : /\ [future[i] EXCEPT !.late = TRUE].pc = future[i].pc
                       /\ [future[i] EXCEPT !.late = TRUE].at = future[i].at
                       /\ future[i].woken => [future[i] EXCEPT !.late = TRUE].woken
    BY DEF Inv, Shape, FutureType
  <2>2. QED
    BY <2>1 DEF Tick
<1>3. \A b \in Backends : tuner'[b].level = tuner[b].level
  <2>1. \A b \in Backends : Elapse(tuner[b]).level = tuner[b].level
    BY DEF Inv, Shape, TunerRecord, Elapse
  <2>2. QED
    BY <1>1, <2>1
<1>4. \A b \in Backends : /\ hold[b] > 0 => hold'[b] = hold[b] - 1 /\ hold[b] \in Nat
                          /\ ~(hold[b] > 0) => hold'[b] < 0
  <2>1. \A n \in Nat \cup {NoHold, Elapsed} :
            /\ n > 0 => HoldLess(n) = n - 1 /\ n \in Nat
            /\ ~(n > 0) => HoldLess(n) < 0
    BY DEF HoldLess, NoHold, Elapsed
  <2>2. QED
    BY <1>1, <2>1 DEF Inv, Shape
<1>5. \A t \in timers : OneLess(t) \in timers'
  BY <1>1
<1>6. 0 \in timers => 0 \in timers'
  BY <1>5 DEF OneLess
<1>7. \A b \in Backends : hold'[b] = 0 => 0 \in timers'
  <2> SUFFICES ASSUME NEW b \in Backends, hold'[b] = 0
               PROVE  0 \in timers'
    OBVIOUS
  <2>1. hold[b] = 1
    BY <1>4
  <2>2. 1 \in timers
    BY <2>1 DEF Awake, Timed
  <2>3. OneLess(1) = 0
    BY DEF OneLess
  <2>4. QED
    BY <1>5, <2>2, <2>3
<1>8. ASSUME NEW b \in Backends
      PROVE  Aware(b)'
  <2>1. CASE hold'[b] = 0
    BY <1>7, <2>1 DEF Aware
  <2>2. CASE hold'[b] # 0
    <3>1. hold[b] > 0 => hold'[b] > 0
      BY <1>4, <2>2
    <3>2. Idle(b) => Idle(b)'
      BY <1>1, <1>3, <3>1, IdleStays
    <3>3. Polled(b)'
      BY <2>2 DEF Polled
    <3>4. Fresh(b) => Fresh(b)'
      BY <1>1, <3>1, <3>2, <3>3 DEF Fresh
    <3>5. AllLook(b) => AllLook(b)'
      <4>1. waiting[b] \in SUBSET Ids
        BY DEF Inv, Shape
      <4>2. QED
        BY <1>1, <1>2, <4>1 DEF AllLook, Looks, WillLook
    <3>6. QED
      BY <1>1, <1>6, <3>2, <3>3, <3>4, <3>5 DEF Awake, Aware
  <2>3. QED
    BY <2>1, <2>2
<1>9. Timed'
  <2> SUFFICES ASSUME NEW b \in Backends, hold'[b] > 0
               PROVE  hold'[b] \in timers'
    BY DEF Timed
  <2>1. hold[b] > 0
    <3>1. hold[b] \in Nat \cup {NoHold, Elapsed} /\ hold'[b] = HoldLess(hold[b])
      BY <1>1 DEF Inv, Shape
    <3>2. QED
      BY <3>1 DEF HoldLess, NoHold, Elapsed
  <2>2. hold[b] \in timers /\ hold[b] \in Nat /\ hold'[b] = hold[b] - 1
    BY <1>4, <2>1 DEF Awake, Timed
  <2>3. OneLess(hold[b]) = hold'[b]
    BY <2>1, <2>2 DEF OneLess
  <2>4. QED
    BY <1>5, <2>2, <2>3
<1>10. Warned'
  BY <1>7 DEF Warned
<1>11. Entering'
  BY <1>1, <1>2 DEF Awake, Entering
<1>12. QED
  BY <1>8, <1>9, <1>10, <1>11 DEF Awake

\* Nobody waits at first,
LEMMA AwakeInit == Init => Awake
<1> SUFFICES ASSUME Init
             PROVE  Awake
  OBVIOUS
<1>1. \A b \in Backends : waiting[b] = {} /\ hold[b] = NoHold
  BY DEF Init
<1>2. \A b \in Backends : Aware(b)
  BY <1>1 DEF Aware, AllLook
<1>3. \A b \in Backends : ~(hold[b] > 0) /\ hold[b] # 0
  BY <1>1 DEF NoHold
<1>4. \A i \in Ids : future[i].pc = "none"
  BY NoFutureType DEF Init
<1>5. QED
  BY <1>2, <1>3, <1>4 DEF Awake, Timed, Warned, Entering

\* and every step of the pool keeps everyone awake.
LEMMA AwakeNext ==
    ASSUME Inv, Awake, [Next]_vars
    PROVE  Awake'
<1>1. ASSUME NEW b \in Backends, NEW m \in Metas, Enqueue(b, m) PROVE Awake'
  BY <1>1, AwakeEnqueue
<1>2. ASSUME NEW i \in Ids, FutureStep(i) PROVE Awake'
  <2>1. ASSUME NEW accepted \in BOOLEAN, FinishAbandoned(i, accepted) PROVE Awake'
    <3>1. future[i].at \in Backends
      BY DEF Inv, Shape, FutureType
    <3>2. QED
      BY <2>1, <3>1, AwakeFinish DEF FinishAbandoned
  <2>2. QED
    BY <1>2, <2>1, AwakeRegister, AwakeLook, AwakeAbandon DEF FutureStep
<1>3. ASSUME NEW i \in Ids, EndOfCall(i) PROVE Awake'
  <2>1. PICK outcome \in Outcome, accepted \in BOOLEAN : EndSlot(i, outcome, accepted)
    BY <1>3 DEF EndOfCall
  <2>2. future[i].at \in Backends
    BY DEF Inv, Shape, FutureType
  <2>3. QED
    BY <2>1, <2>2, AwakeFinish DEF EndSlot
<1>4. ASSUME NEW b \in Backends, LockStep(b) PROVE Awake'
  BY <1>4, AwakeStart, AwakeStepDone DEF LockStep
<1>5. ASSUME NEW k \in Beats, BeginRebalance(k, Backends) \/ BeatStep(k) PROVE Awake'
  BY <1>5, AwakePass, AwakePut DEF BeatStep
<1>6. ASSUME Environment PROVE Awake'
  BY <1>6, AwakeDropPending, AwakeGate, AwakeHold, AwakeClear, AwakeTick DEF Environment
<1>7. ASSUME UNCHANGED vars PROVE Awake'
  <2>1. \A b \in Backends, i \in Ids : Looks(i, b) => Looks(i, b)'
    BY <1>7 DEF vars, Looks, WillLook
  <2>2. \A b \in Backends : waiting[b] \in SUBSET Ids
    BY DEF Inv, Shape
  <2>3. QED
    BY <1>7, <2>1, <2>2, AwakeLess DEF vars, queueVars, gateVars
<1>8. QED
  BY <1>1, <1>2, <1>3, <1>4, <1>5, <1>6, <1>7 DEF Next

\* Whoever waits where a call could start is on his way there.
LEMMA AwakeIsEnough ==
    Tracked /\ Inv /\ Trace /\ Awake => BehindTheGate
<1> SUFFICES ASSUME Tracked, Inv, Trace, Awake
             PROVE  BehindTheGate
  OBVIOUS
<1>1. \A i \in Ids : future[i].pc \in {"none", "done"} => ~Held(i)
  BY PoolAssumption DEF Inv, Known, Shape, Ids, Trace, Traced
<1>2. NothingHoldsTheDead
  <2> SUFFICES ASSUME NEW i \in Ids, future[i].pc \in {"none", "done"}
               PROVE  Holders(i) = {}
    BY DEF NothingHoldsTheDead
  <2>1. ~Held(i)
    BY <1>1
  <2>2. QED
    BY <2>1 DEF Holders, Held, At
<1>3. NoLostWakeup
  <2> SUFFICES ASSUME NEW b \in Backends, Free(b), Placement(b, paused, hold[b] > 0) # {},
                      ~unsaid, 0 \notin timers
               PROVE  \E i \in waiting[b] : WillLook(i, b)
    BY DEF NoLostWakeup
  <2>1. ~Idle(b)
    <3>1. PICK isPaused, isHeld : isPaused = paused /\ isHeld = (hold[b] > 0)
      OBVIOUS
    <3>2. Placement(b, isPaused, isHeld) # {}
      BY <3>1
    <3>3. CanStart(b, isPaused, isHeld)
      BY <3>2, PlacementOrNone DEF Inv
    <3>4. QED
      BY <3>1, <3>3 DEF Idle
  <2>2. AllLook(b)
    BY <2>1 DEF Awake, Aware, Free
  <2>3. PICK i : i \in waiting[b]
    <3>1. \E i \in Eligible(b, paused, hold[b] > 0) : TRUE
      BY <2>1 DEF Idle, CanStart
    <3>2. QED
      BY <3>1 DEF Eligible
  <2>4. i \in Ids /\ Held(i)
    BY <2>3 DEF Inv, Shape, Held, At
  <2>5. future[i].pc # "done"
    BY <1>1, <2>4
  <2>6. future[i].pc # "enter"
    <3> SUFFICES ASSUME future[i].pc = "enter"
                 PROVE  FALSE
      OBVIOUS
    <3>1. PICK c \in Backends : step[c].on /\ step[c].for = i
      BY <2>4 DEF Awake, Entering
    <3>2. i \in At(c)
      <4>1. i > 0
        BY <2>4 DEF Ids
      <4>2. QED
        BY <3>1, <4>1 DEF Inv, Locks
    <3>3. c = b
      BY <2>3, <3>2 DEF Inv, Alone, At
    <3>4. QED
      BY <3>1, <3>3 DEF Free
  <2>7. QED
    BY <2>2, <2>3, <2>5, <2>6 DEF AllLook, Looks
<1>4. QED
  BY <1>2, <1>3 DEF BehindTheGate

-----------------------------------------------------------------------------
(* Theorems.                                                               *)

\* The invariant holds throughout.
LEMMA InvHolds == Spec => []Inv
<1>1. Init => Inv
  BY InitInv
<1>2. Inv /\ [Next]_vars => Inv'
  BY NextInv
<1>3. QED
  BY <1>1, <1>2, PTL DEF Spec

\* Every queue, future and tuner is what the Rust types allow, and no level
\* leaves [1, ceiling], for any number of backends and calls.
THEOREM PoolTypeCorrect == Spec => []TypeOK
<1>1. Inv => TypeOK
  BY DEF Inv, Shape, TypeOK, TunerRecord
<1>2. QED
  BY <1>1, InvHolds, PTL

\* and stay so.
LEMMA TraceHolds == Spec => [](Inv /\ Trace)
<1>1. Init => Inv /\ Trace
  BY InitInv, TraceInit
<1>2. Inv /\ Trace /\ [Next]_vars => Inv' /\ Trace'
  BY NextInv, TraceNext
<1>3. QED
  BY <1>1, <1>2, PTL DEF Spec

\* Wherever scans, starts, withdrawals, drops and rebalance passes
\* interleave, a call is in one place at most, a call that is waited for is
\* in one, and a slot's call runs where the slot says (queue.rs place,
\* await_placement, move_waiting, PendingCall::drop).
THEOREM CallsHeldOnce == Spec => []HeldOnce
<1>1. Inv => HeldOnce
  BY OncePlaced
<1>2. QED
  BY <1>1, InvHolds, PTL

\* A started call is claimed by a future on its way to it, and a call that is
\* over has no place, in every pool whose calls are not both dropped and
\* moved: a drop that looks for its call one lock at a time can miss one that
\* a pass carries past it (queue.rs await_placement, PendingCall::drop,
\* move_waiting).
THEOREM StartsAreSeen ==
    ASSUME Tracked
    PROVE  Spec => [](HeldAndSeen /\ NothingHoldsTheDead)
<1>1. Inv => HeldOnce
  BY OncePlaced
<1>2. Inv /\ Trace => NothingHoldsTheDead
  <2> SUFFICES ASSUME Inv, Trace, NEW i \in Ids, future[i].pc \in {"none", "done"}
               PROVE  Holders(i) = {}
    BY DEF NothingHoldsTheDead
  <2>1. ~Held(i)
    BY DEF Inv, Known, Trace, Traced
  <2>2. QED
    BY <2>1, HoldersCount
<1>3. Inv /\ Trace => StartIsSeen
  <2> SUFFICES ASSUME Inv, Trace, NEW b \in Backends, NEW i \in running[b]
               PROVE  \/ future[i].pc \in {"enter", "placing", "slot", "dropFinish"}
                      \/ WillLook(i, b)
    BY DEF StartIsSeen
  <2>1. i \in Ids /\ Held(i)
    BY DEF Inv, Shape, Held, At
  <2>2. future[i].pc # "done"
    BY <2>1 DEF Trace, Traced
  <2>3. QED
    BY <2>1, <2>2 DEF Trace, Traced, Sees
<1>4. Inv /\ Trace => HeldAndSeen /\ NothingHoldsTheDead
  BY <1>1, <1>2, <1>3 DEF HeldAndSeen
<1>5. QED
  BY <1>4, TraceHolds, PTL

\* Buckets, lanes and trials stay in order.
LEMMA TidyHolds == Spec => [](Inv /\ Tidy)
<1>1. Init => Inv /\ Tidy
  BY InitInv, TidyInit
<1>2. Inv /\ Tidy /\ [Next]_vars => Inv' /\ Tidy'
  BY NextInv, TidyNext
<1>3. QED
  BY <1>1, <1>2, PTL DEF Spec

\* Whatever the tuner does to the level under the running calls, no two calls
\* of a backend share a bucket, no more run than its ceiling, a reserved call
\* keeps to the reserved bucket, and a trial has counted exactly those of its
\* calls that ended (queue.rs next_placement, dispatch, finish; tuner.rs
\* on_dispatch, on_complete).
THEOREM BucketsHold == Spec => []AcrossLevels
<1>1. Inv /\ Tidy => AcrossLevels
  BY DEF Tidy, Bucketed, Accounted, AcrossLevels, BucketsDistinct, ReservedStaysInItsBucket,
         TrialsAccounted
<1>2. QED
  BY <1>1, TidyHolds, PTL

\* Locks, scans, moves and drops together do to a call only what CallPool
\* allows: one place at a time, only to a backend it is allowed on, never
\* moved once started, never started twice, never above the ceiling
\* (queue.rs dispatch, place, abandon, move_waiting).
THEOREM PoolImplements == Spec => ImplementsCallPool
<1>1. Init => Pool!Init /\ Destined
  BY InitMaps
<1>2. Inv /\ Destined /\ [Next]_vars => Destined' /\ [Pool!Next]_PlaceMap
  BY StepMaps DEF Maps
<1>3. QED
  BY <1>1, <1>2, InvHolds, PTL DEF Spec, ImplementsCallPool, Pool!Spec, PlaceMap

\* No wake-up is lost: behind the gate nothing is held for a future that is
\* gone, and wherever a call could start somebody will look or be told to,
\* however pauses, holds, moves and the tuners' trials interleave with the
\* futures' scans (queue.rs await_placement, hold_reserved_for, step).
THEOREM NoWakeupIsLost ==
    ASSUME Tracked
    PROVE  Spec => []BehindTheGate
<1>1. Init => Inv /\ Awake
  BY InitInv, AwakeInit
<1>2. Inv /\ Awake /\ [Next]_vars => (Inv /\ Awake)'
  BY NextInv, AwakeNext
<1>3. Spec => [](Inv /\ Awake)
  BY <1>1, <1>2, PTL DEF Spec
<1>4. Inv /\ Trace /\ Awake => BehindTheGate
  BY AwakeIsEnough
<1>5. QED
  BY <1>3, <1>4, TraceHolds, PTL
=============================================================================
