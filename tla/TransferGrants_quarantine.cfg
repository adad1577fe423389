\* One grant, issued and used while its upload is scanned.
SPECIFICATION Spec
CONSTANTS
    Calls = {c1}
INVARIANTS QuarantinedIsNotDownloaded
CHECK_DEADLOCK FALSE
