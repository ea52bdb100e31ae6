SPECIFICATION FairSpec
CONSTANTS
    Callers = {1, 2}
    Works <- SmallWorks
    Defaults <- SmallDefaults
    Codes = {0, 8}
    Contents <- SmallContents
    Grace = 5
    Nesting = 2
INVARIANT ServerInStep
INVARIANT AnswersReadBack
INVARIANT DataReadBack
INVARIANT WaitsLongEnough
INVARIANT UnitsKept
PROPERTY AnsweredCallsReturn
CHECK_DEADLOCK FALSE
