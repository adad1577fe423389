SPECIFICATION FairSpec
CONSTANTS
    Calls = {c1}
    Callbacks = {}
    Processes = {p1}
    JobIds = {1, 2, 3}
    Outcomes = {"clean", "malicious"}
    MaxFaults = 1
    None = None
PROPERTIES UploadSurvivesFaults
CHECK_DEADLOCK FALSE
