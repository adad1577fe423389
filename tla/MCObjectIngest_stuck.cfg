\* Two overlapping calls of one key, both interrupted, and the retries.
CONSTANTS
    None = None
    platform = platform
    b1 = b1
    k1 = k1
    k2 = k2
    r1 = r1
    r2 = r2
    c1 = c1
    c2 = c2
    Keys = {k1}
    Contents = {c1}
    Stores = {platform}
    Platform = platform
    Runners = {r1, r2}
    Routes <- StableRoutes
    MaxFaults = 2
SPECIFICATION FairSpec
PROPERTY ResumesToCompletion
