------------------------------ MODULE MCTuner ------------------------------
(***************************************************************************)
(* What a scheduler learns from the calls that end: its tuner, on a        *)
(* backend of three slots, and the pace of that backend.  The two share    *)
(* no state, so a behaviour exercises one of them, its `part`.             *)
(***************************************************************************)
EXTENDS Tuner

CONSTANTS Assumed, PaceShift, Runs, MaxShifts

VARIABLES mean, run, shifts, part

pace == INSTANCE Pace

allVars == <<tuner, running, mean, run, shifts, part>>

\* The idle one has nothing to choose.
EitherInit ==
    /\ Init /\ pace!Init
    /\ \/ part = "tuner" /\ run = CHOOSE r \in Runs : TRUE
       \/ part = "pace"

TunerStep(A) == part = "tuner" /\ A /\ UNCHANGED <<mean, run, shifts, part>>
PaceStep(A) == part = "pace" /\ A /\ UNCHANGED <<tuner, running, part>>

EitherNext ==
    \/ TunerStep(Next)
    \/ PaceStep(pace!Next)

\* The fairness of Tuner and of Pace, each for its own part.
EitherSpec ==
    /\ EitherInit /\ [][EitherNext]_allVars
    /\ WF_allVars(TunerStep(\E id \in Ids : Dispatch(id)))
    /\ \A id \in Ids :
          WF_allVars(TunerStep(\E outcome \in Outcome, accepted \in BOOLEAN :
                                  Complete(id, outcome, accepted)))
    /\ WF_allVars(PaceStep(pace!Record))

\* A trial comes to an end (Tuner).
TunerTrialsEnd == part = "tuner" => TrialsEnd

\* Every call moves the mean towards its own duration and never past it, and
\* the mean follows a steady duration to within half a step (Pace).
PaceConverges == /\ pace!NoOvershoot
                 /\ part = "pace" => pace!PaceFollows
=============================================================================
