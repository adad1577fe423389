\* Two overlapping imports; one ingest at a time; two workers and one event;
\* three requests on one resource.
SPECIFICATION MCSpec
CONSTANTS
    None = None
    platform = platform  b1 = b1  k1 = k1  k2 = k2  r1 = r1  c1 = c1  c2 = c2
    e1 = e1  one = one  two = two
    Runs = {r1, r2}
    Keys = {k1, k2}
    BlobCount = 2
    Attached = {2}
    Uploaded = {1, 2}
    MaxFaults = 2
INVARIANTS CheckpointsMeanEffects ReportedIsComplete
PROPERTIES OverlappingImportsComplete ResumesToCompletion EveryEventSettles RequestsEnd
CHECK_DEADLOCK FALSE
