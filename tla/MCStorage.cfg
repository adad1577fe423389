\* Two processes with two overlapping requests.
SPECIFICATION MCSpec
CONSTANTS
    p1 = p1  p2 = p2  c1 = c1  c2 = c2 d1 = d1  d2 = d2  o1 = o1  o2 = o2
    Callers = {p1, p2}
    Locators = {"l1"}
    Uploads = {"u1"}
    Chunks = {d1, d2}
    Media = {"m1"}
    MaxParts = 2
    Bodies <- MCBodies
SYMMETRY Symmetry
INVARIANTS StaleForAReason HistoryCoversProfile
    AcknowledgedTenantChangeIsKept TimedOutProbeCleansUp CompletedSessionIsTheObject
     PassedMeansEveryByteRead
PROPERTIES CanonicalIsImmutable
CHECK_DEADLOCK FALSE
