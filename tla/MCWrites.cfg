\* Two overlapping ingests, of one key or of two keys with the same bytes;
\* two workers with two events; four requests on one resource; two files
\* chosen on the portability page.
SPECIFICATION MCSpec
CONSTANTS
    None = None
    platform = platform  b1 = b1  k1 = k1  k2 = k2  r1 = r1  r2 = r2  bytes = bytes
    e1 = e1  e2 = e2  one = one  two = two
    Keys = {k1, k2}
    Contents = {bytes}
    Stores = {platform, b1}
    Platform = platform
    Runners = {r1, r2}
    Routes <- StableRoutes
    MaxFaults = 1
    Events = {e1, e2}
    Workers = {one, two}
    Runs <- TwoLoops
    WorkerOf <- OwnerOfRun
    Consumers = {r1, r2}
    Situations = {"unattached", "lost"}
    BatchSize = 2
    MaxAttempts = 2
    MaxOverruns = 1
    MaxStrikes = 1
    MaxRequests = 4
    MaxAborts = 1
SYMMETRY Symmetry
INVARIANTS VerifiedBytesPresent IngestRecordedOnce
    AcknowledgedIngestIsDurable QuarantineIsAccounted OneOwner
    HistoryIsLinear RecordsExplainResource OfferedPlanIsOfNamedFile
PROPERTIES ImplementsContract OutcomeIsFinal
CHECK_DEADLOCK FALSE
