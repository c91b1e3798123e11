\* Two processes, two authorization flows, two refreshes of each.
CONSTANTS
    Sessions = {s1, s2}
    Scopes = {read, modify}
    Required = {modify}
    RotateChoices = {TRUE, FALSE}
    MaxGrants = 2
    MaxRefreshes = 2
SPECIFICATION Spec
SYMMETRY Processes
INVARIANTS
    NothingUsedUnsaved
    ScopesFollowToken
    StoredStaysUsable
