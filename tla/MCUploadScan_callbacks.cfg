SPECIFICATION FairSpec
CONSTANTS
    Calls = {c1, c2}
    Callbacks = {d1, d2}
    Processes = {p1, p2}
    JobIds = {1, 2, 3, 4}
    Outcomes = {"clean", "malicious"}
    MaxFaults = 1
    None = None
INVARIANTS CompletedWasScanned AcknowledgedIsRecorded
PROPERTIES OneScanPerUpload UploadCompletes
CHECK_DEADLOCK FALSE
