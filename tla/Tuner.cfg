\* Three slots for the tuner; speeds on both sides of the assumed one, and
\* no duration at all, for the pace.
SPECIFICATION EitherSpec
CONSTANTS
    FirstExperiment = 1
    ExperimentCap = 2
    SampleCapacity = 2
    HistoryCapacity = 3
    Ids = {1, 2, 3, 4}
    Ceiling = 3
    MaxBacklog = 3
    Assumed = 40
    PaceShift = 8
    Runs = {0, 1, 20, 37, 90}
    MaxShifts = 2
INVARIANTS TypeOK TrialAccounted HistoryConnected RejectedIsNotRetriedNext
PROPERTIES LevelIsEarned TunerTrialsEnd 
CHECK_DEADLOCK FALSE
