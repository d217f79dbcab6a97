CONSTANTS
    Connectors = {c1, c2}
    Intervals = {0, 1, 2}
    Starts = {1}
    None = none
    Same = same
    SCHEDULE_MIN_MINUTES = 1
    MAX_FAILURES = 2
    MAX_BACKOFF_FACTOR = 2
    MaxTime = 3
    MaxOps = 3
SPECIFICATION FairSpec
INVARIANTS PullExclusive GivesUpAfterMax
PROPERTIES SpacedAttempts TickEnds
CHECK_DEADLOCK FALSE
