CONSTANTS
    Regions <- MCRegions
    PageSize = 8
    Breakable = {0, 6}
    Types = {"auto", "hw"}
    Comparators = 1
    FpbRevision = 1
    CodeEnd = 8
    Stored = {9}
    MaxToken = 1
    MaxFaults = 1
    ReadRanges <- MCReadRanges
    WriteRanges <- MCWriteRanges
SPECIFICATION Spec
INVARIANTS TypeOK ReadsPossible BreakpointsHidden BreakpointsArmed CacheRight IntervalsDisjoint
