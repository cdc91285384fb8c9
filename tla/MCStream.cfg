SPECIFICATION Spec
CONSTANTS
    NumFrames = 1
    MaxOffset = 2
    MaxTime = 2
    ReadDeadlines = {0, 2}
    WriteDeadlines = {2}
CHECK_DEADLOCK FALSE
INVARIANT
    WriteReportsSent
PROPERTIES
    FinalOffsetStands
    CallersWake
