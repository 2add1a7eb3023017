\* A slot that passes between the check whether a Scan is due and the delay.
CONSTANTS
    Configs <- S8
    Day = 4
    MaxTime = 2
    Quiet = TRUE
SPECIFICATION FairSpec
PROPERTIES RepeatedAtIntervals
CHECK_DEADLOCK FALSE
