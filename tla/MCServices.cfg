\* Three writers of the audit chain; two or three requests elsewhere.
SPECIFICATION MCSpec
CONSTANTS
    Writers = {w1, w2, w3}
    Ids = {1, 2, 3}
    MaxTime = 2
    Skew = 1
    NoEvent = NoEvent
    c1 = c1  c2 = c2
    Slots = {c1, c2}
    Workloads <- MCWorkloads
    FirstRows <- MCRows
    FirstApps <- MCApps
    DatasetOf <- MCDatasets
    MaxRequests = 3
    MaxNow = 1
    MaxFaults = 1
    Processes = {"p1", "p2"}
    Logins = {"l"}
    Visits = {w1, w2, w3}
    LoginLife = 1
    SessionLife = 1
    MaxInstant = 1
    MaxOutages = 1
    MaxPolicies = 1
    MaxKeys = 3
    Attempts = {c1, c2}
    MaxMoment = 1
SYMMETRY Symmetry
INVARIANTS OrderedChainVerifies GrantedOnlyWithGrounds ChangesAreAudited
    ReadyExportIsReadable AuditedSuccessIsDurable
    SignedOutIsRefused UpdateReplacesWhatWasSeen SameMajorStaysReadable
    ExportRoundTrips AcceptedAsSignedIsUnchanged
    StorageIsReadAlike 
CHECK_DEADLOCK FALSE
