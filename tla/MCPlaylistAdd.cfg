\* Up to three tracks in batches of two, added to a list of up to two items,
\* with one edit by a collaborator anywhere between the steps of the command.
CONSTANTS
    Tracks = {a, b}
    OtherItems = {episode}
    MaxInitial = 2
    MaxEdits = 1
    BatchSize = 2
    MaxTracks = 3
SPECIFICATION Spec
INVARIANTS
    HonestReport
    BatchesInTurn
    RecordLocates
