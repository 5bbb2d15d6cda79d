CONSTANTS
    ResetTypes = {"SW"}
    SupportsVectreset = TRUE
    MaxToken = 2
    MaxFaults = 1
    ReadLists <- MCReadLists
    WriteLists <- MCWriteLists
SPECIFICATION Spec
INVARIANTS TypeOK CacheRight
PROPERTY PartsKept
