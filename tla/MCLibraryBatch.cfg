\* Up to three references to three items in chunks of two: batches that end in a
\* full chunk or in a short one, with and without repeated items.
CONSTANTS
    Ids = {i1, i2, i3}
    Forms = {raw, uri}
    Malformed = Malformed
    ChunkSize = 2
    MaxArgs = 3
    MaxEdits = 1
SPECIFICATION BatchSpec
INVARIANTS
    RowsAlign
    PrefixApplied
