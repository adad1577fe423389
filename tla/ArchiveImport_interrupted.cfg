SPECIFICATION FairSpec
CONSTANTS
    Runs = {r1}
    Keys = {k1}
    BlobCount = 2
    Attached = {2}
    Uploaded = {}
    MaxFaults = 1
    None = None
PROPERTIES ResumedImportCompletes
CHECK_DEADLOCK FALSE
