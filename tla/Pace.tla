-------------------------------- MODULE Pace --------------------------------
(***************************************************************************)
(* The mean call duration a pool weighs a backend's queue by (Pace in      *)
(* services/scheduler/queue.rs), in milliseconds, of a backend whose calls *)
(* take `run` and that is now and then replaced by a faster or slower one. *)
(***************************************************************************)
EXTENDS Integers

CONSTANTS Assumed,     \* ASSUMED_CALL_MS
          PaceShift,   \* PACE_SHIFT, as the power of two it stands for
          Runs,        \* durations a call may take
          MaxShifts    \* bound: how often the backend's speed changes

VARIABLES mean,     \* Pace::mean_ms
          run,      \* how long the calls take now
          shifts

paceVars == <<mean, run, shifts>>

\* Slip: the step is truncated instead of rounded.
StepTruncated(gap) == gap \div PaceShift

\* (gap + half) >> shift rounds towards minus infinity, as \div does.
Step(gap) == (gap + PaceShift \div 2) \div PaceShift

AtLeastOne(n) == IF n < 1 THEN 1 ELSE n

Init == mean = Assumed /\ run \in Runs /\ shifts = 0

Record == /\ mean' = AtLeastOne(mean + Step(run - mean))
          /\ UNCHANGED <<run, shifts>>

Shift == /\ shifts < MaxShifts
         /\ shifts' = shifts + 1
         /\ run' \in Runs \ {run}
         /\ UNCHANGED mean

Next == Record \/ Shift

\* Calls keep finishing.
Spec == Init /\ [][Next]_paceVars /\ WF_paceVars(Record)

-----------------------------------------------------------------------------
Smaller(a, b) == IF a < b THEN a ELSE b
Larger(a, b) == IF a < b THEN b ELSE a

\* A call moves the mean towards its own duration and never past it, so one
\* outlier cannot send the pace beyond what was ever measured (record).
NoOvershoot ==
    [][mean' # mean => mean' \in Smaller(mean, AtLeastOne(run))..Larger(mean, run)]_paceVars

\* Half a step away is as far as the mean may stay from a steady duration.
PaceFollows == <>[](mean - run <= PaceShift \div 2 /\ run - mean < PaceShift \div 2)
=============================================================================
