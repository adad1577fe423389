\* One caller, whose calls never overlap: up to six calls, one lost answer or restart.
SPECIFICATION Spec
CONSTANTS
    Callers = {c1}
    Requests <- MCRequests
    Expected <- MCExpected
    MaxCalls = 6
    MaxRefs = 2
    MaxFaults = 1
INVARIANTS CompletionIsSafeToRetry
CHECK_DEADLOCK FALSE
