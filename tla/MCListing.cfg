\* Lists of up to 3 entries, pages of up to 2, searches that end after offset 2.
CONSTANTS
    Parents = {"a", "b"}
    Walked <- MCWalked
    Strays <- MCStrays
    MaxSearch = 2
    MaxList = 2
    MaxOffset = 2
    MaxInitial = 3
    MaxEdits = 2
    MaxFaults = 2
SPECIFICATION FairWalk
INVARIANTS
    TokensLeadOn
    PagesJoin
    EditsShiftOneWay
PROPERTIES
    WalkEnds
