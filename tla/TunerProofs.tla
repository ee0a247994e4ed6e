---------------------------- MODULE TunerProofs ----------------------------
(***************************************************************************)
(* What the tuner keeps true on every backend: any ceiling, any capacity   *)
(* of its rings, any set of calls.                                         *)
(***************************************************************************)
EXTENDS Tuner, TLAPS, FiniteSetTheorems

\* A ring keeps holding what it held, whichever end it drops.
LEMMA PushRingType ==
    ASSUME NEW S, NEW ring \in Seq(S), NEW capacity \in Nat \ {0}, NEW entry \in S
    PROVE  PushRing(ring, capacity, entry) \in Seq(S)
BY DEF PushRing

\* The level an experiment tries is within the clamp [1, ceiling].
LEMMA TargetInRange ==
    ASSUME NEW t \in TunerType
    PROVE  /\ Turned(t) \in Direction
           /\ Target(t) \in 1..Ceiling
           /\ Window(Target(t)) \in Nat \ {0}
           /\ Ceiling > 1 => Target(t) - t.level \in {-1, 1}
BY TunerEnvironment, SMTT(30)
   DEF TunerType, Turned, Target, CanStep, Stepped, Flipped, Direction, Window

\* Polling keeps the tuner's type, whether or not an experiment starts.
LEMMA PollType ==
    ASSUME NEW t \in TunerType, NEW backlog \in Nat, NEW paused \in BOOLEAN
    PROVE  Poll(t, backlog, paused) \in TunerType
<1>1. Change(t, Target(t), "trial") \in Seq(HistoryType)
  BY PushRingType, TargetInRange, TunerAssumption
     DEF Change, TunerType, HistoryType, ChangeReason
<1>2. [incumbent |-> t.level, level |-> Target(t), window |-> Window(Target(t)),
       dispatched |-> {}, completed |-> 0] \in TrialType
  BY TargetInRange, TunerEnvironment DEF TunerType, TrialType
<1>3. QED
  BY <1>1, <1>2, TargetInRange DEF Poll, TunerType

\* Ending a trial leaves a well-typed tuner at one of the trial's two levels.
LEMMA ConcludeType ==
    ASSUME NEW t \in TunerType, t.trial.level \in 1..Ceiling,
           t.trial.incumbent \in 1..Ceiling,
           NEW accepted \in BOOLEAN, NEW reason \in ChangeReason
    PROVE  Conclude(t, accepted, reason) \in TunerType
<1> DEFINE to == IF accepted THEN t.trial.level ELSE t.trial.incumbent
<1>1. to \in 1..Ceiling
  OBVIOUS
<1>2. Change(t, to, reason) \in Seq(HistoryType)
  BY <1>1, PushRingType, TunerAssumption DEF Change, TunerType, HistoryType
<1>3. NoTrial \in TrialType
  BY DEF NoTrial, TrialType
<1>4. \A n \in 1..ExperimentCap :
         (IF 2 * n < ExperimentCap THEN 2 * n ELSE ExperimentCap) \in 1..ExperimentCap
  BY TunerAssumption
<1>5. /\ t.interval \in 1..ExperimentCap
      /\ (IF accepted THEN t.direction ELSE Flipped(t.direction)) \in Direction
  BY DEF TunerType, Direction, Flipped
<1>6. (IF 2 * t.interval < ExperimentCap THEN 2 * t.interval ELSE ExperimentCap)
         \in 1..ExperimentCap
  BY <1>4, <1>5
<1>7. 1..ExperimentCap \subseteq 0..ExperimentCap
  OBVIOUS
<1> HIDE DEF to
<1>8. QED
  BY <1>1, <1>2, <1>3, <1>5, <1>6, <1>7 DEF Conclude, TunerType, to

-----------------------------------------------------------------------------
\* Counting: the calls of a window that no longer run.
LEMMA CountOneMore ==
    ASSUME NEW D, IsFiniteSet(D), NEW R, NEW x \in D, x \in R
    PROVE  Cardinality(D \ (R \ {x})) = Cardinality(D \ R) + 1
<1>1. D \ (R \ {x}) = (D \ R) \cup {x}
  OBVIOUS
<1>2. IsFiniteSet(D \ R)
  BY FS_Difference
<1>3. QED
  BY <1>1, <1>2, FS_AddElement

\* When as many calls as the window holds no longer run, none of them runs.
LEMMA AllCounted ==
    ASSUME NEW D, IsFiniteSet(D), NEW R,
           Cardinality(D \ R) >= Cardinality(D)
    PROVE  D \cap R = {}
<1>1. /\ D \ R \subseteq D
      /\ Cardinality(D \ R) = Cardinality(D) => D \ R = D
      /\ Cardinality(D \ R) <= Cardinality(D)
  BY FS_Subset
<1>2. Cardinality(D) \in Nat /\ Cardinality(D \ R) \in Nat
  BY FS_CardinalityType, FS_Subset
<1>3. QED
  BY <1>1, <1>2

\* A window holds finitely many calls.
LEMMA WindowFinite ==
    ASSUME NEW D \in SUBSET Ids
    PROVE  IsFiniteSet(D) /\ Cardinality(D) \in Nat
BY FS_Subset, FS_CardinalityType, TunerEnvironment

-----------------------------------------------------------------------------
Inv == TypeOK /\ TrialAccounted

\* A tuner is built well-typed and without a trial.
LEMMA InitInv == Init => Inv
<1> SUFFICES ASSUME Init PROVE Inv
  OBVIOUS
<1>1. NewTuner(Ceiling) \in TunerType
  BY TunerAssumption, TunerEnvironment
     DEF NewTuner, TunerType, NoTrial, TrialType, Direction
<1>2. QED
  BY <1>1, TunerEnvironment DEF Init, Inv, TypeOK, TrialAccounted, NewTuner

\* DoPoll: a trial opens one step away with an empty window.
LEMMA PollInv ==
    ASSUME Inv, NEW backlog \in 0..MaxBacklog, NEW paused \in BOOLEAN,
           DoPoll(backlog, paused)
    PROVE  Inv'
<1>1. tuner \in TunerType /\ backlog \in Nat
  BY TunerEnvironment DEF Inv, TypeOK
<1>2. TypeOK'
  BY <1>1, PollType DEF Inv, TypeOK, DoPoll
<1>3. Running' = Running
  BY DEF DoPoll, Running
<1>4. CASE tuner'.trial = tuner.trial /\ tuner'.level = tuner.level
  BY <1>2, <1>3, <1>4 DEF Inv, TrialAccounted
<1>5. CASE ~(tuner'.trial = tuner.trial /\ tuner'.level = tuner.level)
  <2>1. /\ tuner.trial = NoTrial
        /\ Ceiling > 1
        /\ tuner' = [[tuner EXCEPT !.direction = Turned(tuner)] EXCEPT
                      !.history = Change(tuner, Target(tuner), "trial"),
                      !.trial = [incumbent |-> tuner.level, level |-> Target(tuner),
                                 window |-> Window(Target(tuner)),
                                 dispatched |-> {}, completed |-> 0],
                      !.level = Target(tuner)]
    BY <1>1, <1>5, TunerEnvironment DEF DoPoll, Poll, TunerType
  <2>2. /\ tuner'.trial = [incumbent |-> tuner.level, level |-> Target(tuner),
                           window |-> Window(Target(tuner)),
                           dispatched |-> {}, completed |-> 0]
        /\ tuner'.level = Target(tuner)
    BY <2>1, <1>1 DEF TunerType
  <2>3. /\ Target(tuner) - tuner.level \in {-1, 1}
        /\ Window(Target(tuner)) \in Nat \ {0}
        /\ tuner.level \in 1..Ceiling
    BY <1>1, <2>1, TargetInRange DEF TunerType
  <2>4. Cardinality({}) = 0 /\ {} \ Running' = {}
    BY FS_EmptySet
  <2>5. TrialAccounted'
    BY <2>2, <2>3, <2>4 DEF TrialAccounted
  <2>6. QED
    BY <1>2, <2>5 DEF Inv
<1>6. QED
  BY <1>2, <1>4, <1>5 DEF Inv

\* Dispatch: the call joins the window and the running calls together.
LEMMA DispatchInv ==
    ASSUME Inv, NEW id \in Ids, Dispatch(id)
    PROVE  Inv'
<1>1. /\ tuner \in TunerType
      /\ running \in [Ids -> 0..Ceiling]
      /\ tuner.level \in 1..Ceiling
      /\ tuner.trial \in TrialType
  BY DEF Inv, TypeOK, TunerType
<1>2. Running' = Running \cup {id} /\ id \notin Running /\ id \notin tuner.trial.dispatched
  BY <1>1 DEF Dispatch, Running
<1>3. running' \in [Ids -> 0..Ceiling]
  BY <1>1 DEF Dispatch
<1>4. CASE tuner' = tuner
  <2>1. tuner.trial.dispatched \ Running' = tuner.trial.dispatched \ Running
    BY <1>2
  <2>2. QED
    BY <1>3, <1>4, <2>1 DEF Inv, TypeOK, TrialAccounted
<1>5. CASE tuner' # tuner
  <2> DEFINE D == tuner.trial.dispatched
  <2>1. /\ tuner.trial # NoTrial
        /\ Cardinality(D) < tuner.trial.window
        /\ tuner' = [tuner EXCEPT !.trial.dispatched = D \cup {id}]
    BY <1>5 DEF Dispatch, OnDispatch
  <2>2. /\ tuner' \in TunerType
        /\ tuner'.level = tuner.level
        /\ tuner'.trial = [tuner.trial EXCEPT !.dispatched = D \cup {id}]
    BY <1>1, <2>1 DEF TunerType, TrialType
  <2>3. IsFiniteSet(D) /\ Cardinality(D) \in Nat
    BY <1>1, WindowFinite DEF TrialType
  <2>4. Cardinality(D \cup {id}) = Cardinality(D) + 1
    BY <1>2, <2>3, FS_AddElement
  <2>5. (D \cup {id}) \ Running' = D \ Running
    BY <1>2
  <2>6. /\ tuner'.trial.dispatched = D \cup {id}
        /\ tuner'.trial.level = tuner.trial.level
        /\ tuner'.trial.incumbent = tuner.trial.incumbent
        /\ tuner'.trial.window = tuner.trial.window
        /\ tuner'.trial.completed = tuner.trial.completed
        /\ tuner.trial.window \in Nat
    BY <1>1, <2>2 DEF TrialType
  <2>t. /\ tuner.trial.level = tuner.level
        /\ tuner.trial.incumbent \in 1..Ceiling
        /\ tuner.trial.level - tuner.trial.incumbent \in {-1, 1}
        /\ tuner.trial.window = Window(tuner.trial.level)
        /\ tuner.trial.completed = Cardinality(D \ Running)
        /\ tuner.trial.completed < tuner.trial.window
    BY <2>1 DEF Inv, TrialAccounted
  <2>7. TrialAccounted'
    <3>0. Cardinality(D) + 1 <= tuner.trial.window
      BY <2>1, <2>3, <2>6
    <3>1. Cardinality(tuner'.trial.dispatched) <= tuner'.trial.window
      BY <3>0, <2>4, <2>6, Zenon
    <3>2. tuner'.trial.completed = Cardinality(tuner'.trial.dispatched \ Running')
      BY <2>5, <2>6, <2>t
    <3>3. QED
      BY <3>1, <3>2, <2>2, <2>6, <2>t DEF TrialAccounted
  <2>8. QED
    BY <1>3, <2>2, <2>7 DEF Inv, TypeOK
<1>6. QED
  BY <1>4, <1>5

\* Tick: only the countdown to the next experiment moves.
LEMMA TickInv ==
    ASSUME Inv, Tick
    PROVE  Inv'
<1>0. /\ tuner \in TunerType
      /\ tuner' = [tuner EXCEPT !.dueIn = tuner.dueIn - 1]
      /\ tuner.dueIn - 1 \in 0..ExperimentCap
  BY TunerAssumption DEF Inv, TypeOK, TunerType, Tick, Elapse
<1>1. tuner' \in TunerType
  BY <1>0 DEF TunerType
<1>2. /\ tuner'.trial = tuner.trial
      /\ tuner'.level = tuner.level
      /\ running' = running
  BY DEF Inv, TypeOK, TunerType, Tick, Elapse
<1>3. QED
  BY <1>1, <1>2 DEF Inv, TypeOK, TrialAccounted, Running

-----------------------------------------------------------------------------
\* What on_complete does to a trial that is being measured, in its three ways
\* out: a failure reverts it, a window still open counts the call, and a
\* window that is whole is judged.
LEMMA CompleteCases ==
    ASSUME Inv, NEW id \in Ids, NEW outcome \in Outcome, NEW accepted \in BOOLEAN,
           Complete(id, outcome, accepted), tuner.trial # NoTrial
    PROVE  LET sampled == Sampled(tuner, running[id], outcome)
               measured == Measured(sampled, id)
           IN  /\ sampled \in TunerType
               /\ sampled.trial = tuner.trial
               /\ sampled.level = tuner.level
               /\ sampled.history = tuner.history
               /\ measured \in TunerType
               /\ measured.level = tuner.level
               /\ measured.history = tuner.history
               /\ measured.samples = sampled.samples
               /\ measured.trial.level = tuner.trial.level
               /\ measured.trial.incumbent = tuner.trial.incumbent
               /\ measured.trial.window = tuner.trial.window
               /\ measured.trial.dispatched = tuner.trial.dispatched
               /\ measured.trial.completed = Cardinality(tuner.trial.dispatched \ Running')
               /\ tuner' = IF outcome = "failed" THEN Conclude(sampled, FALSE, "failed")
                           ELSE IF measured.trial.completed < measured.trial.window
                                THEN measured
                                ELSE Conclude(measured, accepted,
                                              IF accepted THEN "kept" ELSE "rejected")
<1> DEFINE sampled == Sampled(tuner, running[id], outcome)
           measured == Measured(sampled, id)
<1> HIDE DEF sampled, measured
<1>0. tuner' = IF outcome = "failed" THEN Conclude(sampled, FALSE, "failed")
               ELSE IF measured.trial.completed < measured.trial.window
                    THEN measured
                    ELSE Conclude(measured, accepted,
                                  IF accepted THEN "kept" ELSE "rejected")
  BY DEF Complete, OnComplete, sampled, measured
<1>1. /\ tuner \in TunerType
      /\ running \in [Ids -> 0..Ceiling]
      /\ tuner.trial \in TrialType
      /\ tuner.samples \in Seq(SampleType)
  BY DEF Inv, TypeOK, TunerType
<1>2. Running' = Running \ {id} /\ id \in Running
  BY <1>1 DEF Complete, Running
<1>3. [level |-> running[id], outcome |-> outcome] \in SampleType
  BY <1>1, <1>2 DEF SampleType, Running
<1>4. PushRing(tuner.samples, SampleCapacity,
               [level |-> running[id], outcome |-> outcome]) \in Seq(SampleType)
  BY <1>1, <1>3, PushRingType, TunerAssumption
<1>5. /\ sampled \in TunerType
      /\ sampled.trial = tuner.trial
      /\ sampled.level = tuner.level
      /\ sampled.history = tuner.history
  BY <1>1, <1>4 DEF TunerType, Sampled, sampled
<1>6. /\ IsFiniteSet(tuner.trial.dispatched)
      /\ Cardinality(tuner.trial.dispatched \ Running) \in Nat
  BY <1>1, WindowFinite DEF TrialType
<1>7. tuner.trial.completed = Cardinality(tuner.trial.dispatched \ Running)
  BY DEF Inv, TrialAccounted
<1>8. CASE id \in tuner.trial.dispatched
  <2>1. measured = [sampled EXCEPT !.trial.completed = tuner.trial.completed + 1]
    BY <1>5, <1>8 DEF Measured, measured
  <2>2. Cardinality(tuner.trial.dispatched \ Running') = tuner.trial.completed + 1
    BY <1>2, <1>6, <1>7, <1>8, CountOneMore
  <2>0. /\ sampled.trial \in TrialType
        /\ [sampled.trial EXCEPT !.completed = tuner.trial.completed + 1] \in TrialType
    <3>1. tuner.trial.completed + 1 \in Nat
      BY <1>1 DEF TrialType
    <3>2. QED
      BY <1>5, <1>1, <3>1 DEF TrialType
  <2>3. /\ measured \in TunerType
        /\ measured.level = sampled.level
        /\ measured.history = sampled.history
        /\ measured.samples = sampled.samples
        /\ measured.trial = [tuner.trial EXCEPT !.completed = tuner.trial.completed + 1]
    BY <1>5, <2>0, <2>1 DEF TunerType
  <2>4. /\ measured.trial.level = tuner.trial.level
        /\ measured.trial.incumbent = tuner.trial.incumbent
        /\ measured.trial.window = tuner.trial.window
        /\ measured.trial.dispatched = tuner.trial.dispatched
        /\ measured.trial.completed = tuner.trial.completed + 1
    BY <1>1, <2>3 DEF TrialType
  <2>5. QED
    BY <1>0, <1>5, <2>2, <2>3, <2>4 DEF sampled, measured
<1>9. CASE id \notin tuner.trial.dispatched
  <2>1. measured = sampled
    BY <1>5, <1>9 DEF Measured, measured
  <2>2. tuner.trial.dispatched \ Running' = tuner.trial.dispatched \ Running
    BY <1>2, <1>9
  <2>3. QED
    BY <1>0, <1>5, <1>7, <2>1, <2>2 DEF sampled, measured
<1>10. QED
  BY <1>8, <1>9

\* Ending a trial leaves no trial and one of its two levels in force.
LEMMA ConcludeFields ==
    ASSUME NEW t \in TunerType, NEW accepted \in BOOLEAN, NEW reason \in ChangeReason
    PROVE  /\ Conclude(t, accepted, reason).trial = NoTrial
           /\ Conclude(t, accepted, reason).level =
                 IF accepted THEN t.trial.level ELSE t.trial.incumbent
           /\ Conclude(t, accepted, reason).samples = t.samples
           /\ Conclude(t, accepted, reason).history =
                 Change(t, IF accepted THEN t.trial.level ELSE t.trial.incumbent, reason)
BY DEF Conclude, TunerType

\* Complete: the call leaves the running calls and, if the window holds it,
\* is counted in the same step; a whole window ends the trial.
LEMMA CompleteInv ==
    ASSUME Inv, NEW id \in Ids, NEW outcome \in Outcome, NEW accepted \in BOOLEAN,
           Complete(id, outcome, accepted)
    PROVE  Inv'
<1> DEFINE sampled == Sampled(tuner, running[id], outcome)
           measured == Measured(sampled, id)
<1>1. /\ tuner \in TunerType
      /\ running \in [Ids -> 0..Ceiling]
      /\ tuner.trial \in TrialType
      /\ tuner.samples \in Seq(SampleType)
  BY DEF Inv, TypeOK, TunerType
<1>2. running' \in [Ids -> 0..Ceiling]
  BY <1>1, TunerEnvironment DEF Complete
<1>3. CASE tuner.trial = NoTrial
  <2>1. [level |-> running[id], outcome |-> outcome] \in SampleType
    BY <1>1 DEF SampleType, Running, Complete
  <2>2. PushRing(tuner.samples, SampleCapacity,
                 [level |-> running[id], outcome |-> outcome]) \in Seq(SampleType)
    BY <1>1, <2>1, PushRingType, TunerAssumption
  <2>3. tuner' = sampled
    BY <1>3 DEF Complete, OnComplete
  <2>4. tuner' \in TunerType /\ tuner'.trial = NoTrial
    BY <1>1, <1>3, <2>2, <2>3 DEF TunerType, Sampled
  <2>5. QED
    BY <1>2, <2>4 DEF Inv, TypeOK, TrialAccounted
<1>4. CASE tuner.trial # NoTrial
  <2>1. /\ sampled \in TunerType
        /\ sampled.trial = tuner.trial
        /\ measured \in TunerType
        /\ measured.level = tuner.level
        /\ measured.trial.level = tuner.trial.level
        /\ measured.trial.incumbent = tuner.trial.incumbent
        /\ measured.trial.window = tuner.trial.window
        /\ measured.trial.dispatched = tuner.trial.dispatched
        /\ measured.trial.completed = Cardinality(tuner.trial.dispatched \ Running')
        /\ tuner' = IF outcome = "failed" THEN Conclude(sampled, FALSE, "failed")
                    ELSE IF measured.trial.completed < measured.trial.window
                         THEN measured
                         ELSE Conclude(measured, accepted,
                                       IF accepted THEN "kept" ELSE "rejected")
    BY <1>4, CompleteCases
  <2> HIDE DEF sampled, measured
  <2>2. /\ tuner.trial.level = tuner.level
        /\ tuner.level \in 1..Ceiling
        /\ tuner.trial.incumbent \in 1..Ceiling
        /\ tuner.trial.level - tuner.trial.incumbent \in {-1, 1}
        /\ tuner.trial.window = Window(tuner.trial.level)
        /\ Cardinality(tuner.trial.dispatched) <= tuner.trial.window
    BY <1>1, <1>4 DEF Inv, TrialAccounted, TunerType
  <2>3. CASE outcome = "failed"
    <3>1. tuner' = Conclude(sampled, FALSE, "failed")
      BY <2>1, <2>3
    <3>2. tuner' \in TunerType
      BY <3>1, <2>1, <2>2, ConcludeType DEF ChangeReason
    <3>3. tuner'.trial = NoTrial
      BY <3>1, <2>1, ConcludeFields, ZenonT(30) DEF ChangeReason
    <3>4. QED
      BY <1>2, <3>2, <3>3 DEF Inv, TypeOK, TrialAccounted
  <2>4. CASE outcome # "failed" /\ measured.trial.completed < measured.trial.window
    <3>1. tuner' = measured
      BY <2>1, <2>4
    <3>2. TrialAccounted'
      BY <3>1, <2>1, <2>2, <2>4 DEF TrialAccounted
    <3>3. QED
      BY <1>2, <2>1, <3>1, <3>2 DEF Inv, TypeOK
  <2>5. CASE outcome # "failed" /\ ~(measured.trial.completed < measured.trial.window)
    <3>1. PICK reason \in ChangeReason : tuner' = Conclude(measured, accepted, reason)
      BY <2>1, <2>5 DEF ChangeReason
    <3>3. tuner' \in TunerType
      BY <3>1, <2>1, <2>2, ConcludeType
    <3>4. tuner'.trial = NoTrial
      <4>1. measured \in TunerType
        BY <2>1
      <4>2. Conclude(measured, accepted, reason).trial = NoTrial
        BY <4>1, ConcludeFields, Zenon
      <4>3. QED
        BY <4>2, <3>1, Zenon
    <3>5. QED
      BY <1>2, <3>3, <3>4 DEF Inv, TypeOK, TrialAccounted
  <2>6. QED
    BY <2>3, <2>4, <2>5
<1>5. QED
  BY <1>3, <1>4

\* Every method of the tuner, and the clock, keeps the invariant.
LEMMA NextInv == Inv /\ [Next]_vars => Inv'
<1> SUFFICES ASSUME Inv, [Next]_vars PROVE Inv'
  OBVIOUS
<1>1. CASE UNCHANGED vars
  BY <1>1 DEF Inv, TypeOK, TrialAccounted, Running, vars
<1>2. CASE Next
  BY <1>2, PollInv, DispatchInv, CompleteInv, TickInv DEF Next
<1>3. QED
  BY <1>1, <1>2

\* The tuner's fields, and every level it records, stay within [1, ceiling]
\* whatever the ceiling, the rings' capacities and the order of calls.
THEOREM TypeCorrect == Spec => []TypeOK
<1>1. Inv => TypeOK
  BY DEF Inv
<1>2. QED
  BY <1>1, InitInv, NextInv, PTL DEF Spec

\* A trial counts each call of its window exactly when it stops running, so
\* none is missed or counted twice, on every backend.
THEOREM TrialCorrect == Spec => []TrialAccounted
<1>1. Inv => TrialAccounted
  BY DEF Inv
<1>2. QED
  BY <1>1, InitInv, NextInv, PTL DEF Spec

-----------------------------------------------------------------------------
\* A step of the tuner that changes the level opens or ends a trial, and ends
\* it at once only after a failure or with its whole window accounted for.
LEMMA LevelStepHolds ==
    ASSUME Inv, Next
    PROVE  LevelStep
<1>1. /\ tuner \in TunerType
      /\ running \in [Ids -> 0..Ceiling]
      /\ tuner.level \in 1..Ceiling
  BY DEF Inv, TypeOK, TunerType
<1>2. ASSUME NEW backlog \in 0..MaxBacklog, NEW paused \in BOOLEAN,
             DoPoll(backlog, paused)
      PROVE  LevelStep
  <2>1. CASE tuner'.trial = tuner.trial /\ tuner'.level = tuner.level
    BY <2>1 DEF LevelStep
  <2>2. CASE ~(tuner'.trial = tuner.trial /\ tuner'.level = tuner.level)
    <3>1. /\ tuner.trial = NoTrial
          /\ tuner'.trial = [incumbent |-> tuner.level, level |-> Target(tuner),
                             window |-> Window(Target(tuner)),
                             dispatched |-> {}, completed |-> 0]
      BY <1>1, <1>2, <2>2 DEF DoPoll, Poll, TunerType
    <3>2. Target(tuner) # 0
      BY <1>1, TargetInRange
    <3>3. tuner'.trial # NoTrial
      BY <3>1, <3>2 DEF NoTrial
    <3>4. QED
      BY <3>1, <3>3 DEF LevelStep
  <2>3. QED
    BY <2>1, <2>2
<1>3. ASSUME NEW id \in Ids, Dispatch(id)
      PROVE  LevelStep
  <2>1. tuner'.level = tuner.level
    BY <1>1, <1>3 DEF Dispatch, OnDispatch, TunerType
  <2>2. tuner.trial # NoTrial => tuner'.trial # NoTrial
    <3>1. SUFFICES ASSUME tuner.trial # NoTrial PROVE tuner'.trial.level # 0
      BY DEF NoTrial
    <3>2. tuner.trial.level # 0
      BY <1>1, <3>1 DEF Inv, TrialAccounted
    <3>3. tuner'.trial.level = tuner.trial.level
      BY <1>1, <1>3 DEF Dispatch, OnDispatch, TunerType, TrialType
    <3>4. QED
      BY <3>2, <3>3
  <2>3. QED
    BY <2>1, <2>2 DEF LevelStep
<1>4. ASSUME NEW id \in Ids, NEW outcome \in Outcome, NEW accepted \in BOOLEAN,
             Complete(id, outcome, accepted)
      PROVE  LevelStep
  <2> DEFINE sampled == Sampled(tuner, running[id], outcome)
             measured == Measured(sampled, id)
             D == tuner.trial.dispatched
  <2>1. CASE tuner.trial = NoTrial
    <3>1. tuner' = sampled
      BY <2>1, <1>4 DEF Complete, OnComplete
    <3>2. tuner'.level = tuner.level
      BY <1>1, <3>1 DEF Sampled, TunerType
    <3>3. QED
      BY <2>1, <3>2 DEF LevelStep
  <2>2. CASE tuner.trial # NoTrial
    <3>1. /\ sampled \in TunerType
          /\ sampled.trial = tuner.trial
          /\ measured \in TunerType
          /\ measured.level = tuner.level
          /\ measured.trial.level = tuner.trial.level
          /\ measured.trial.window = tuner.trial.window
          /\ measured.trial.completed = Cardinality(D \ Running')
          /\ tuner' = IF outcome = "failed" THEN Conclude(sampled, FALSE, "failed")
                      ELSE IF measured.trial.completed < measured.trial.window
                           THEN measured
                           ELSE Conclude(measured, accepted,
                                         IF accepted THEN "kept" ELSE "rejected")
      BY <1>4, <2>2, CompleteCases
    <3>2. /\ tuner.trial.level # 0
          /\ Cardinality(D) <= tuner.trial.window
          /\ tuner.trial.window \in Nat
          /\ D \in SUBSET Ids
      BY <1>1, <2>2 DEF Inv, TrialAccounted, TunerType, TrialType
    <3>3. CASE outcome = "failed"
      <4>1. tuner' = Conclude(sampled, FALSE, "failed")
        BY <3>1, <3>3
      <4>2. /\ tuner'.level = tuner.trial.incumbent
            /\ tuner'.trial = NoTrial
            /\ tuner'.samples = sampled.samples
        BY <4>1, <3>1, ConcludeFields, ZenonT(30) DEF ChangeReason
      <4>3. sampled.samples = PushRing(tuner.samples, SampleCapacity,
                                       [level |-> running[id], outcome |-> outcome])
        BY <1>1 DEF Sampled, TunerType
      <4>4. sampled.samples[Len(sampled.samples)] = [level |-> running[id], outcome |-> outcome]
        <5>1. tuner.samples \in Seq(SampleType)
          BY <1>1 DEF TunerType
        <5>2. QED
          BY <4>3, <5>1 DEF PushRing
      <4>5. tuner'.samples[Len(tuner'.samples)].outcome = "failed"
        BY <4>2, <4>4, <3>3
      <4>6. QED
        BY <2>2, <4>2, <4>5 DEF LevelStep
    <3>4. CASE outcome # "failed" /\ measured.trial.completed < measured.trial.window
      <4>1. tuner' = measured
        BY <3>1, <3>4
      <4>2. tuner'.level = tuner.level /\ tuner'.trial.level # 0
        BY <3>1, <3>2, <4>1
      <4>3. tuner'.trial # NoTrial
        BY <4>2 DEF NoTrial
      <4>4. QED
        BY <4>2, <4>3 DEF LevelStep
    <3>5. CASE outcome # "failed" /\ ~(measured.trial.completed < measured.trial.window)
      <4>1. /\ IsFiniteSet(D)
            /\ Cardinality(D) \in Nat
            /\ Cardinality(D \ Running') \in Nat
        BY <3>2, WindowFinite
      <4>2. Cardinality(D \ Running') >= tuner.trial.window
        BY <3>1, <3>2, <3>5, <4>1
      <4>3. Cardinality(D \ Running') <= Cardinality(D)
        BY <4>1, FS_Subset
      <4>4. Cardinality(D) = tuner.trial.window
        BY <4>1, <4>2, <4>3, <3>2
      <4>5. D \cap Running' = {}
        BY <4>1, <4>2, <4>4, AllCounted
      <4>6. running' \in [Ids -> 0..Ceiling]
        BY <1>1, <1>4, TunerEnvironment DEF Complete
      <4>7. \A x \in D : running'[x] = 0
        BY <3>2, <4>5, <4>6 DEF Running
      <4>8. PICK reason \in ChangeReason : tuner' = Conclude(measured, accepted, reason)
        BY <3>1, <3>5 DEF ChangeReason
      <4>9. tuner'.trial = NoTrial
        <5>1. measured \in TunerType
          BY <3>1
        <5>2. Conclude(measured, accepted, reason).trial = NoTrial
          BY <5>1, ConcludeFields, Zenon
        <5>3. QED
          BY <5>2, <4>8, Zenon
      <4>10. QED
        BY <2>2, <4>4, <4>7, <4>9 DEF LevelStep
    <3>6. QED
      BY <3>3, <3>4, <3>5
  <2>3. QED
    BY <2>1, <2>2
<1>5. ASSUME Tick
      PROVE  LevelStep
  BY <1>1, <1>5 DEF Tick, Elapse, LevelStep, TunerType
<1>6. QED
  BY <1>2, <1>3, <1>4, <1>5 DEF Next

\* No backend raises or lowers its level but through a trial that ran its
\* whole window, and a failure always gives the incumbent level back.
THEOREM LevelCorrect == Spec => LevelIsEarned
<1>1. Inv /\ [Next]_vars => [LevelStep]_vars
  BY LevelStepHolds
<1>2. QED
  BY <1>1, InitInv, NextInv, PTL DEF Spec, LevelIsEarned

-----------------------------------------------------------------------------
\* A ring that starts each change where the last one ended keeps doing so.
LEMMA RingLinked ==
    ASSUME NEW h \in Seq(HistoryType), Len(h) <= HistoryCapacity, Linked(h),
           NEW entry \in HistoryType,
           Len(h) > 0 => h[Len(h)].to = entry.from
    PROVE  LET r == PushRing(h, HistoryCapacity, entry)
           IN  /\ Len(r) <= HistoryCapacity
               /\ Len(r) > 0
               /\ r[Len(r)] = entry
               /\ Linked(r)
<1>1. CASE Len(h) = HistoryCapacity
  <2> DEFINE t == Tail(h)
             r == Append(t, entry)
  <2>1. /\ t \in Seq(HistoryType)
        /\ Len(t) = Len(h) - 1
        /\ \A i \in 1..Len(t) : t[i] = h[i + 1]
    BY <1>1, TunerAssumption
  <2>2. /\ Len(r) = Len(h)
        /\ r[Len(r)] = entry
        /\ \A i \in 1..Len(t) : r[i] = h[i + 1]
    BY <2>1
  <2>h. /\ Len(h) \in Nat \ {0}
        /\ h[Len(h)].to = entry.from
    BY <1>1, TunerAssumption
  <2>n. PushRing(h, HistoryCapacity, entry) = r
    BY <1>1 DEF PushRing
  <2> HIDE DEF t, r
  <2>3. ASSUME NEW i \in 1..(Len(r) - 1) PROVE r[i].to = r[i + 1].from
    <3>1. CASE i < Len(t)
      <4>1. r[i] = h[i + 1] /\ r[i + 1] = h[(i + 1) + 1]
        BY <2>1, <2>2, <2>h, <3>1
      <4>2. h[i + 1].to = h[(i + 1) + 1].from
        BY <2>1, <2>2, <2>h, <3>1 DEF Linked
      <4>3. QED
        BY <4>1, <4>2
    <3>2. CASE i = Len(t)
      <4>1. i + 1 = Len(h) /\ r[i] = h[i + 1] /\ r[i + 1] = entry
        BY <2>1, <2>2, <2>h, <3>2
      <4>2. QED
        BY <4>1, <2>h
    <3>3. QED
      BY <2>1, <2>2, <2>h, <3>1, <3>2
  <2>5. QED
    BY <1>1, <2>2, <2>h, <2>3, <2>n, TunerAssumption DEF Linked
<1>2. CASE Len(h) # HistoryCapacity
  <2> DEFINE r == Append(h, entry)
  <2>1. /\ Len(r) = Len(h) + 1
        /\ r[Len(r)] = entry
        /\ \A i \in 1..Len(h) : r[i] = h[i]
    OBVIOUS
  <2>2. ASSUME NEW i \in 1..(Len(r) - 1) PROVE r[i].to = r[i + 1].from
    <3>1. CASE i < Len(h)
      BY <2>1, <3>1 DEF Linked
    <3>2. CASE i = Len(h)
      BY <2>1, <3>2
    <3>3. QED
      BY <2>1, <3>1, <3>2
  <2>3. PushRing(h, HistoryCapacity, entry) = r
    BY <1>2 DEF PushRing
  <2>4. Len(h) \in Nat
    OBVIOUS
  <2> HIDE DEF r
  <2>5. QED
    BY <1>2, <2>1, <2>2, <2>3, <2>4, TunerAssumption DEF Linked
<1>3. QED
  BY <1>1, <1>2

\* What a change does to a history that told one story so far.
LEMMA ChangeLinked ==
    ASSUME NEW t \in TunerType, NEW to \in 1..Ceiling, NEW reason \in ChangeReason,
           Len(t.history) <= HistoryCapacity, Linked(t.history),
           Len(t.history) > 0 => t.history[Len(t.history)].to = t.level
    PROVE  LET r == Change(t, to, reason)
           IN  /\ Len(r) <= HistoryCapacity
               /\ Len(r) > 0
               /\ r[Len(r)] = [from |-> t.level, to |-> to, reason |-> reason]
               /\ Linked(r)
<1>1. [from |-> t.level, to |-> to, reason |-> reason] \in HistoryType
  BY DEF HistoryType, TunerType
<1>2. t.history \in Seq(HistoryType)
  BY DEF TunerType
<1>3. QED
  BY <1>1, <1>2, RingLinked DEF Change

\* Every method keeps the history one unbroken story.
LEMMA HistoryStep == Inv /\ HistoryConnected /\ [Next]_vars => HistoryConnected'
<1> SUFFICES ASSUME Inv, HistoryConnected, [Next]_vars PROVE HistoryConnected'
  OBVIOUS
<1>1. /\ tuner \in TunerType
      /\ tuner.level \in 1..Ceiling
      /\ Len(tuner.history) <= HistoryCapacity
      /\ Linked(tuner.history)
      /\ Len(tuner.history) > 0 => tuner.history[Len(tuner.history)].to = tuner.level
  BY DEF Inv, TypeOK, TunerType, HistoryConnected
<1>2. CASE /\ tuner'.history = tuner.history
           /\ tuner'.level = tuner.level
           /\ tuner'.trial = NoTrial <=> tuner.trial = NoTrial
  BY <1>2 DEF HistoryConnected
<1>3. ASSUME NEW backlog \in 0..MaxBacklog, NEW paused \in BOOLEAN,
             DoPoll(backlog, paused)
      PROVE  HistoryConnected'
  <2>1. CASE tuner' = tuner \/ tuner' = [tuner EXCEPT !.direction = Turned(tuner)]
    BY <1>1, <1>2, <2>1 DEF TunerType
  <2>2. CASE ~(tuner' = tuner \/ tuner' = [tuner EXCEPT !.direction = Turned(tuner)])
    <3>1. /\ tuner'.trial.level = Target(tuner)
          /\ tuner'.level = Target(tuner)
          /\ tuner'.history = Change(tuner, Target(tuner), "trial")
      BY <1>1, <1>3, <2>2 DEF DoPoll, Poll, TunerType
    <3>2. Target(tuner) \in 1..Ceiling
      BY <1>1, TargetInRange
    <3>3. tuner'.trial # NoTrial
      BY <3>1, <3>2 DEF NoTrial
    <3>4. /\ Len(tuner'.history) <= HistoryCapacity
          /\ Len(tuner'.history) > 0
          /\ tuner'.history[Len(tuner'.history)] =
               [from |-> tuner.level, to |-> Target(tuner), reason |-> "trial"]
          /\ Linked(tuner'.history)
      BY <1>1, <3>1, <3>2, ChangeLinked DEF ChangeReason
    <3>5. QED
      BY <3>1, <3>3, <3>4 DEF HistoryConnected
  <2>3. QED
    BY <2>1, <2>2
<1>4. ASSUME NEW id \in Ids, Dispatch(id)
      PROVE  HistoryConnected'
  <2>1. tuner'.history = tuner.history /\ tuner'.level = tuner.level
    BY <1>1, <1>4 DEF Dispatch, OnDispatch, TunerType
  <2>2. tuner'.trial = NoTrial <=> tuner.trial = NoTrial
    <3>1. CASE tuner.trial = NoTrial
      BY <1>4, <3>1 DEF Dispatch, OnDispatch
    <3>2. CASE tuner.trial # NoTrial
      <4>1. tuner.trial.level # 0
        BY <1>1, <3>2 DEF Inv, TrialAccounted
      <4>2. tuner'.trial.level = tuner.trial.level
        BY <1>1, <1>4 DEF Dispatch, OnDispatch, TunerType, TrialType
      <4>3. QED
        BY <3>2, <4>1, <4>2 DEF NoTrial
    <3>3. QED
      BY <3>1, <3>2
  <2>3. QED
    BY <1>2, <2>1, <2>2
<1>5. ASSUME NEW id \in Ids, NEW outcome \in Outcome, NEW accepted \in BOOLEAN,
             Complete(id, outcome, accepted)
      PROVE  HistoryConnected'
  <2> DEFINE sampled == Sampled(tuner, running[id], outcome)
             measured == Measured(sampled, id)
  <2>1. CASE tuner.trial = NoTrial
    <3>1. tuner' = sampled
      BY <2>1, <1>5 DEF Complete, OnComplete
    <3>2. QED
      BY <1>1, <1>2, <2>1, <3>1 DEF Sampled, TunerType
  <2>2. CASE tuner.trial # NoTrial
    <3>1. /\ sampled \in TunerType
          /\ sampled.trial = tuner.trial
          /\ sampled.level = tuner.level
          /\ sampled.history = tuner.history
          /\ measured \in TunerType
          /\ measured.level = tuner.level
          /\ measured.history = tuner.history
          /\ measured.trial.level = tuner.trial.level
          /\ measured.trial.incumbent = tuner.trial.incumbent
          /\ tuner' = IF outcome = "failed" THEN Conclude(sampled, FALSE, "failed")
                      ELSE IF measured.trial.completed < measured.trial.window
                           THEN measured
                           ELSE Conclude(measured, accepted,
                                         IF accepted THEN "kept" ELSE "rejected")
      BY <1>5, <2>2, CompleteCases
    <3>2. tuner.trial.level \in 1..Ceiling /\ tuner.trial.incumbent \in 1..Ceiling
      BY <1>1, <2>2 DEF Inv, TrialAccounted
    <3> HIDE DEF sampled, measured
    <3>3. CASE tuner' = measured
      <4>m. measured.trial.level = tuner.trial.level
        BY <3>1
      <4>0. tuner'.trial.level # 0
        BY <4>m, <3>2, <3>3
      <4>1. tuner'.trial # NoTrial
        BY <4>0 DEF NoTrial
      <4>2. QED
        BY <1>2, <2>2, <3>1, <3>3, <4>1
    <3>4. ASSUME NEW t \in TunerType, NEW judged \in BOOLEAN,
                 NEW reason \in ChangeReason \ {"trial"},
                 tuner' = Conclude(t, judged, reason),
                 t.level = tuner.level, t.history = tuner.history,
                 t.trial.level = tuner.trial.level,
                 t.trial.incumbent = tuner.trial.incumbent
          PROVE  HistoryConnected'
      <4> DEFINE to == IF judged THEN t.trial.level ELSE t.trial.incumbent
      <4>1. to \in 1..Ceiling
        BY <3>2, <3>4
      <4>2. /\ tuner'.trial = NoTrial
            /\ tuner'.level = to
            /\ tuner'.history = Change(t, to, reason)
        <5>1. /\ Conclude(t, judged, reason).trial = NoTrial
              /\ Conclude(t, judged, reason).level = to
              /\ Conclude(t, judged, reason).history = Change(t, to, reason)
          BY ConcludeFields, Zenon
        <5>2. QED
          BY <5>1, <3>4, Zenon
      <4> HIDE DEF to
      <4>3. /\ Len(tuner'.history) <= HistoryCapacity
            /\ Len(tuner'.history) > 0
            /\ tuner'.history[Len(tuner'.history)] =
                 [from |-> t.level, to |-> to, reason |-> reason]
            /\ Linked(tuner'.history)
        BY <1>1, <3>4, <4>1, <4>2, ChangeLinked
      <4>4. QED
        BY <4>2, <4>3 DEF HistoryConnected
    <3>5. CASE outcome = "failed"
      BY <3>1, <3>4, <3>5 DEF ChangeReason
    <3>6. CASE outcome # "failed" /\ tuner' # measured
      <4>1. PICK reason \in ChangeReason \ {"trial"} :
               tuner' = Conclude(measured, accepted, reason)
        BY <3>1, <3>6 DEF ChangeReason
      <4>2. QED
        BY <3>1, <3>4, <4>1, Zenon
    <3>7. QED
      BY <3>3, <3>5, <3>6
  <2>3. QED
    BY <2>1, <2>2
<1>6. CASE Tick
  BY <1>1, <1>2, <1>6 DEF Tick, Elapse, TunerType
<1>7. CASE UNCHANGED vars
  BY <1>2, <1>7 DEF vars
<1>8. QED
  BY <1>3, <1>4, <1>5, <1>6, <1>7 DEF Next

\* The level changes a snapshot shows never contradict one another or the
\* level in force, however many the ring has dropped.
THEOREM HistoryCorrect == Spec => []HistoryConnected
<1>1. Init => HistoryConnected
  BY TunerAssumption DEF Init, NewTuner, HistoryConnected, Linked
<1>2. QED
  BY <1>1, InitInv, NextInv, HistoryStep, PTL DEF Spec

-----------------------------------------------------------------------------
\* Any three changes of r in a row, and its last two, were in a row in h, whose
\* length is n, or end in the entry that was pushed.
Follows(r, h, n, entry) ==
    /\ Len(r) \in 1..(n + 1)
    /\ r[Len(r)] = entry
    /\ Len(r) > 1 => n > 0 /\ r[Len(r) - 1] = h[n]
    /\ \A i \in 1..(Len(r) - 2) :
          \/ \E j \in 1..(n - 2) :
                r[i] = h[j] /\ r[i + 1] = h[j + 1] /\ r[i + 2] = h[j + 2]
          \/ n > 1 /\ r[i] = h[n - 1] /\ r[i + 1] = h[n] /\ r[i + 2] = entry

\* A push keeps what was in a row in a row.
LEMMA RingRuns ==
    ASSUME NEW h \in Seq(HistoryType), Len(h) <= HistoryCapacity, NEW entry \in HistoryType,
           NEW n, n = Len(h), NEW r, r = PushRing(h, HistoryCapacity, entry)
    PROVE  Follows(r, h, n, entry)
<1> DEFINE kept == IF Len(h) = HistoryCapacity THEN Tail(h) ELSE h
           gone == IF Len(h) = HistoryCapacity THEN 1 ELSE 0
<1>1. /\ n \in Nat /\ gone \in {0, 1} /\ gone <= n
      /\ kept \in Seq(HistoryType) /\ Len(kept) = n - gone
      /\ \A i \in 1..(n - gone) : kept[i] = h[i + gone]
  BY TunerAssumption
<1>3. r = Append(kept, entry)
  BY DEF PushRing
<1> HIDE DEF kept, gone
<1>2. /\ Len(r) = n - gone + 1
      /\ r[n - gone + 1] = entry
      /\ \A i \in 1..(n - gone) : r[i] = h[i + gone]
  BY <1>1, <1>3
<1>4. Len(r) > 1 => n > 0 /\ r[Len(r) - 1] = h[n]
  BY <1>1, <1>2
<1>5. ASSUME NEW i \in 1..(Len(r) - 2)
      PROVE  \/ \E j \in 1..(n - 2) :
                   r[i] = h[j] /\ r[i + 1] = h[j + 1] /\ r[i + 2] = h[j + 2]
             \/ n > 1 /\ r[i] = h[n - 1] /\ r[i + 1] = h[n] /\ r[i + 2] = entry
  <2> DEFINE j == i + gone
  <2>0. i \in 1..(n - gone) /\ i + 1 \in 1..(n - gone) /\ (i + 1) + gone = j + 1
    BY <1>1, <1>2
  <2>1. i + 1 <= n - gone /\ r[i] = h[j] /\ r[i + 1] = h[j + 1]
    <3>1. r[i + 1] = h[(i + 1) + gone]
      BY <1>2, <2>0
    <3>2. QED
      BY <1>2, <2>0, <3>1
  <2>2. CASE i + 2 <= n - gone
    <3>1. j \in 1..(n - 2) /\ r[i + 2] = h[j + 2]
      BY <1>1, <1>2, <2>2
    <3>2. QED
      BY <2>1, <3>1
  <2>3. CASE ~(i + 2 <= n - gone)
    <3>1. i + 2 = n - gone + 1 /\ j = n - 1 /\ j + 1 = n /\ n > 1
      BY <1>1, <2>1, <2>3
    <3>2. QED
      BY <1>2, <2>1, <3>1
  <2>4. QED
    BY <2>2, <2>3
<1>6. QED
  BY <1>1, <1>2, <1>4, <1>5 DEF Follows

\* What the climb remembers: a trial goes the tuner's way from its incumbent,
\* and after one that failed the tuner is back there and, between the ends,
\* will not step to the same neighbour.
Climbing ==
    LET h == tuner.history
        n == Len(h)
    IN  /\ RejectedIsNotRetriedNext
        /\ tuner.trial # NoTrial =>
              /\ h[n].from = tuner.trial.incumbent
              /\ tuner.direction = "up" <=> tuner.trial.level > tuner.trial.incumbent
        /\ tuner.trial = NoTrial /\ n > 1 /\ h[n].reason \in {"rejected", "failed"} =>
              /\ h[n - 1].from = tuner.level
              /\ tuner.level \in 2..(Ceiling - 1) =>
                    h[n - 1].to # Stepped(tuner, tuner.direction)

\* Measuring a trial does not turn the climb,
LEMMA MeasuringKeepsDirection ==
    ASSUME NEW t \in TunerType, NEW id, NEW level, NEW outcome
    PROVE  /\ Sampled(t, level, outcome).direction = t.direction
           /\ Measured(Sampled(t, level, outcome), id).direction = t.direction
BY DEF Sampled, Measured, TunerType

\* judging it does where it is rejected.
LEMMA ConcludeDirection ==
    ASSUME NEW t \in TunerType, NEW accepted \in BOOLEAN, NEW reason
    PROVE  Conclude(t, accepted, reason).direction =
              IF accepted THEN t.direction ELSE Flipped(t.direction)
BY DEF Conclude, TunerType

\* Every method keeps the climb in mind.
LEMMA ClimbStep == Inv /\ HistoryConnected /\ Climbing /\ [Next]_vars => Climbing'
<1> SUFFICES ASSUME Inv, HistoryConnected, Climbing, [Next]_vars PROVE Climbing'
  OBVIOUS
<1> DEFINE h == tuner.history
           n == Len(h)
<1>1. /\ tuner \in TunerType /\ tuner.level \in 1..Ceiling /\ tuner.direction \in Direction
      /\ tuner.ceiling = Ceiling /\ Ceiling \in Nat
      /\ h \in Seq(HistoryType) /\ n <= HistoryCapacity /\ n \in Nat
      /\ n > 0 => h[n].to = tuner.level
      /\ tuner.trial # NoTrial <=> n > 0 /\ h[n].reason = "trial"
  BY TunerEnvironment DEF Inv, TypeOK, TunerType, HistoryConnected
<1>2. CASE /\ tuner'.history = tuner.history
           /\ tuner'.level = tuner.level
           /\ tuner'.direction = tuner.direction
           /\ tuner'.trial = NoTrial <=> tuner.trial = NoTrial
           /\ tuner'.trial.level = tuner.trial.level
           /\ tuner'.trial.incumbent = tuner.trial.incumbent
  BY <1>2 DEF Climbing, RejectedIsNotRetriedNext, Stepped
<1>3. ASSUME NEW entry \in HistoryType, tuner'.history = PushRing(h, HistoryCapacity, entry),
             /\ entry.reason = "trial" /\ n > 1
             /\ h[n - 1].reason = "trial" /\ h[n].reason \in {"rejected", "failed"}
             /\ h[n - 1].from \in 2..(Ceiling - 1)
             => entry.to # h[n - 1].to
      PROVE  /\ RejectedIsNotRetriedNext'
             /\ Len(tuner'.history) > 0
             /\ tuner'.history[Len(tuner'.history)] = entry
             /\ Len(tuner'.history) > 1 =>
                  n > 0 /\ tuner'.history[Len(tuner'.history) - 1] = h[n]
  <2> DEFINE r == tuner'.history
  <2> HIDE DEF r, h, n
  <2>0. n = Len(h) /\ r = PushRing(h, HistoryCapacity, entry)
    BY <1>3 DEF r, h, n
  <2>1. Follows(r, h, n, entry)
    BY <1>1, <2>0, RingRuns
  <2>2. \A j \in 1..(n - 2) :
           /\ h[j].reason = "trial" /\ h[j + 2].reason = "trial"
           /\ h[j + 1].reason \in {"rejected", "failed"}
           /\ h[j].from \in 2..(Ceiling - 1)
           => h[j + 2].to # h[j].to
    BY DEF Climbing, RejectedIsNotRetriedNext, h, n
  <2>3. ASSUME NEW i \in 1..(Len(r) - 2),
               r[i].reason = "trial", r[i + 2].reason = "trial",
               r[i + 1].reason \in {"rejected", "failed"},
               r[i].from \in 2..(Ceiling - 1)
        PROVE  r[i + 2].to # r[i].to
    BY <1>3, <2>1, <2>2, <2>3 DEF Follows
  <2>4. RejectedIsNotRetriedNext'
    BY <2>3 DEF RejectedIsNotRetriedNext, r
  <2>5. QED
    BY <1>1, <2>1, <2>4 DEF r, Follows
<1>4. ASSUME NEW backlog \in 0..MaxBacklog, NEW paused \in BOOLEAN,
             DoPoll(backlog, paused)
      PROVE  Climbing'
  <2>1. CASE tuner' = tuner
    BY <1>2, <2>1
  <2>2. CASE tuner' # tuner /\ tuner' = [tuner EXCEPT !.direction = Turned(tuner)]
    <3>1. /\ tuner'.history = h /\ tuner'.level = tuner.level /\ tuner'.trial = tuner.trial
          /\ tuner'.direction = Turned(tuner)
      BY <1>1, <2>2 DEF TunerType
    <3>2. tuner.trial = NoTrial
      BY <1>4, <2>2 DEF DoPoll, Poll
    <3>3. tuner.level \in 2..(Ceiling - 1) => Turned(tuner) = tuner.direction
      BY <1>1 DEF Turned, CanStep, Stepped, Direction
    <3>4. QED
      BY <3>1, <3>2, <3>3 DEF Climbing, RejectedIsNotRetriedNext, Stepped
  <2>3. CASE ~(tuner' = tuner \/ tuner' = [tuner EXCEPT !.direction = Turned(tuner)])
    <3> DEFINE entry == [from |-> tuner.level, to |-> Target(tuner), reason |-> "trial"]
    <3>0. /\ tuner.trial = NoTrial /\ Ceiling > 1
          /\ tuner' = [[tuner EXCEPT !.direction = Turned(tuner)] EXCEPT
                         !.history = Change(tuner, Target(tuner), "trial"),
                         !.trial = [incumbent |-> tuner.level, level |-> Target(tuner),
                                    window |-> Window(Target(tuner)),
                                    dispatched |-> {}, completed |-> 0],
                         !.level = Target(tuner)]
      BY <1>1, <1>4, <2>3 DEF DoPoll, Poll
    <3>1. /\ tuner'.trial.level = Target(tuner) /\ tuner'.trial.incumbent = tuner.level
          /\ tuner'.history = PushRing(h, HistoryCapacity, entry)
          /\ tuner'.direction = Turned(tuner)
          /\ tuner.trial = NoTrial /\ Ceiling > 1
      BY <1>1, <3>0 DEF Change, TunerType
    <3>2. Target(tuner) \in 1..Ceiling /\ Target(tuner) - tuner.level \in {-1, 1}
      BY <1>1, <3>1, TargetInRange
    <3>3. tuner'.trial # NoTrial
      BY <3>1, <3>2 DEF NoTrial
    <3>4. tuner'.direction = "up" <=> tuner'.trial.level > tuner'.trial.incumbent
      BY <1>1, <3>1, <3>2 DEF Target, Stepped, CanStep
    <3>5. entry \in HistoryType
      BY <1>1, <3>2 DEF HistoryType, ChangeReason
    <3>6. ASSUME n > 1, h[n].reason \in {"rejected", "failed"}, h[n - 1].from \in 2..(Ceiling - 1)
          PROVE  entry.to # h[n - 1].to
      <4>1. h[n - 1].from = tuner.level /\ h[n - 1].to # Stepped(tuner, tuner.direction)
        BY <3>1, <3>6 DEF Climbing
      <4>2. Target(tuner) = Stepped(tuner, tuner.direction)
        BY <1>1, <3>6, <4>1 DEF Target, Turned, CanStep, Stepped, Direction
      <4>3. QED
        BY <4>1, <4>2
    <3> HIDE DEF h, n
    <3>7. /\ RejectedIsNotRetriedNext'
          /\ Len(tuner'.history) > 0
          /\ tuner'.history[Len(tuner'.history)] = entry
      BY <1>3, <3>1, <3>5, <3>6
    <3>8. QED
      BY <3>1, <3>3, <3>4, <3>7 DEF Climbing
  <2>4. QED
    BY <2>1, <2>2, <2>3
<1>5. ASSUME NEW id \in Ids, Dispatch(id)
      PROVE  Climbing'
  <2>1. /\ tuner'.history = tuner.history /\ tuner'.level = tuner.level
        /\ tuner'.direction = tuner.direction
        /\ tuner'.trial.level = tuner.trial.level
        /\ tuner'.trial.incumbent = tuner.trial.incumbent
    BY <1>1, <1>5 DEF Dispatch, OnDispatch, TunerType, TrialType
  <2>2. tuner'.trial = NoTrial <=> tuner.trial = NoTrial
    <3>1. CASE tuner.trial = NoTrial
      BY <1>5, <3>1 DEF Dispatch, OnDispatch
    <3>2. CASE tuner.trial # NoTrial
      <4>1. tuner.trial.level # 0
        BY <1>1, <3>2 DEF Inv, TrialAccounted
      <4>2. QED
        BY <2>1, <3>2, <4>1 DEF NoTrial
    <3>3. QED
      BY <3>1, <3>2
  <2>3. QED
    BY <1>2, <2>1, <2>2
<1>6. ASSUME NEW id \in Ids, NEW outcome \in Outcome, NEW accepted \in BOOLEAN,
             Complete(id, outcome, accepted)
      PROVE  Climbing'
  <2> DEFINE sampled == Sampled(tuner, running[id], outcome)
             measured == Measured(sampled, id)
  <2>1. CASE tuner.trial = NoTrial
    <3>1. tuner' = sampled
      BY <2>1, <1>6 DEF Complete, OnComplete
    <3>2. QED
      BY <1>1, <1>2, <2>1, <3>1 DEF Sampled, TunerType
  <2>2. CASE tuner.trial # NoTrial
    <3>1. /\ sampled \in TunerType
          /\ sampled.trial = tuner.trial
          /\ sampled.level = tuner.level
          /\ sampled.history = tuner.history
          /\ measured \in TunerType
          /\ measured.level = tuner.level
          /\ measured.history = tuner.history
          /\ measured.trial.level = tuner.trial.level
          /\ measured.trial.incumbent = tuner.trial.incumbent
          /\ tuner' = IF outcome = "failed" THEN Conclude(sampled, FALSE, "failed")
                      ELSE IF measured.trial.completed < measured.trial.window
                           THEN measured
                           ELSE Conclude(measured, accepted,
                                         IF accepted THEN "kept" ELSE "rejected")
      BY <1>6, <2>2, CompleteCases
    <3>2. sampled.direction = tuner.direction /\ measured.direction = tuner.direction
      BY <1>1, MeasuringKeepsDirection
    <3>3. /\ tuner.trial.level \in 1..Ceiling /\ tuner.trial.incumbent \in 1..Ceiling
          /\ tuner.trial.level = tuner.level
          /\ tuner.trial.level - tuner.trial.incumbent \in {-1, 1}
      BY <1>1, <2>2 DEF Inv, TrialAccounted
    <3>4. /\ n > 0 /\ h[n].from = tuner.trial.incumbent /\ h[n].to = tuner.trial.level
          /\ h[n].reason = "trial"
          /\ tuner.direction = "up" <=> tuner.trial.level > tuner.trial.incumbent
      BY <1>1, <2>2, <3>3 DEF Climbing
    <3> HIDE DEF sampled, measured, h, n
    <3>5. CASE tuner' = measured
      <4>m. measured.trial.level = tuner.trial.level
        BY <3>1
      <4>0. tuner'.trial.level # 0
        BY <4>m, <3>3, <3>5
      <4>1. tuner'.trial # NoTrial
        BY <4>0 DEF NoTrial
      <4>2. QED
        BY <1>2, <2>2, <3>1, <3>2, <3>5, <4>1
    <3>6. ASSUME NEW t \in TunerType, NEW judged \in BOOLEAN,
                 NEW reason \in ChangeReason \ {"trial"},
                 judged <=> reason = "kept",
                 tuner' = Conclude(t, judged, reason),
                 t.level = tuner.level, t.history = tuner.history,
                 t.direction = tuner.direction,
                 t.trial.level = tuner.trial.level,
                 t.trial.incumbent = tuner.trial.incumbent
          PROVE  Climbing'
      <4> DEFINE to == IF judged THEN t.trial.level ELSE t.trial.incumbent
                 entry == [from |-> t.level, to |-> to, reason |-> reason]
      <4>1. to \in 1..Ceiling
        BY <3>3, <3>6
      <4>2. /\ tuner'.trial = NoTrial
            /\ tuner'.level = to
            /\ tuner'.history = Change(t, to, reason)
            /\ tuner'.direction = IF judged THEN t.direction ELSE Flipped(t.direction)
        <5>1. /\ Conclude(t, judged, reason).trial = NoTrial
              /\ Conclude(t, judged, reason).level = to
              /\ Conclude(t, judged, reason).history = Change(t, to, reason)
              /\ Conclude(t, judged, reason).direction =
                    IF judged THEN t.direction ELSE Flipped(t.direction)
          BY ConcludeFields, ConcludeDirection, Zenon
        <5>2. QED
          BY <5>1, <3>6, Zenon
      <4>3. ~judged => to = tuner.trial.incumbent
        BY <3>6
      <4> HIDE DEF to
      <4>4. entry \in HistoryType
        BY <1>1, <3>6, <4>1 DEF HistoryType
      <4>5. tuner'.history = PushRing(h, HistoryCapacity, entry)
        BY <3>6, <4>2 DEF Change, h
      <4>6. entry.reason = reason
        OBVIOUS
      <4> HIDE DEF entry
      <4>7. /\ RejectedIsNotRetriedNext'
            /\ Len(tuner'.history) > 0
            /\ tuner'.history[Len(tuner'.history)] = entry
            /\ Len(tuner'.history) > 1 =>
                  n > 0 /\ tuner'.history[Len(tuner'.history) - 1] = h[n]
        BY <1>3, <3>6, <4>4, <4>5, <4>6
      <4>8. ASSUME Len(tuner'.history) > 1, reason \in {"rejected", "failed"}
            PROVE  /\ h[n].from = tuner'.level
                   /\ h[n].to # Stepped(tuner', tuner'.direction)
        <5>1. ~judged
          BY <3>6, <4>8
        <5>2. tuner'.level = tuner.trial.incumbent /\ tuner'.direction = Flipped(tuner.direction)
          BY <3>6, <4>2, <4>3, <5>1
        <5>3. QED
          BY <1>1, <3>3, <3>4, <5>2 DEF Stepped, Flipped, Direction
      <4>9. QED
        BY <4>2, <4>6, <4>7, <4>8 DEF Climbing
    <3>7. CASE outcome = "failed"
      BY <3>1, <3>2, <3>6, <3>7 DEF ChangeReason
    <3>8. CASE outcome # "failed" /\ tuner' # measured
      <4>1. PICK reason \in ChangeReason \ {"trial"} :
               tuner' = Conclude(measured, accepted, reason) /\ (accepted <=> reason = "kept")
        BY <3>1, <3>8 DEF ChangeReason
      <4>2. QED
        BY <3>1, <3>2, <3>6, <4>1, Zenon
    <3>9. QED
      BY <3>5, <3>7, <3>8
  <2>3. QED
    BY <2>1, <2>2
<1>7. CASE Tick
  BY <1>1, <1>2, <1>7 DEF Tick, Elapse, TunerType
<1>8. CASE UNCHANGED vars
  BY <1>2, <1>8 DEF vars
<1>9. QED
  BY <1>4, <1>5, <1>6, <1>7, <1>8 DEF Next

\* Hill climbing turns: between the two ends, the neighbour a trial gave up is
\* not the next one tried from the same incumbent, however polls, ends and
\* failures interleave and whatever the ring has dropped (tuner.rs conclude,
\* target).
THEOREM ClimbTurns == Spec => []RejectedIsNotRetriedNext
<1>1. Init => HistoryConnected
  BY TunerAssumption DEF Init, NewTuner, HistoryConnected, Linked
<1>2. Init => Climbing
  BY DEF Init, NewTuner, Climbing, RejectedIsNotRetriedNext
<1>3. Climbing => RejectedIsNotRetriedNext
  BY DEF Climbing
<1>4. QED
  BY <1>1, <1>2, <1>3, InitInv, NextInv, HistoryStep, ClimbStep, PTL DEF Spec
=============================================================================
