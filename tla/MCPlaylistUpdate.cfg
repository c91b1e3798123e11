\* A playlist of up to three items read in pages of two, and two edits by
\* collaborators anywhere between the steps of the command.
CONSTANTS
    Tracks = {a, b}
    OtherItems = {episode}
    MaxInitial = 3
    MaxEdits = 2
    PageSize = 2
SPECIFICATION Spec
INVARIANTS
    GuardedReplacement
    RemovesOnlyReplaced
    HonestReport
    ReplacesInPlace
