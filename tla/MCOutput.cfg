\* Every text of up to 5 of 6 characters, and every two of up to 2.
CONSTANTS
    Characters <- MCCharacters
    Texts <- MCTexts
    ShortTexts <- MCShortTexts
    MaxValues = 2
    Seconds <- MCSeconds
    Pieces <- MCPieces
    MaxPieces = 3
SPECIFICATION RenderSpec
\* A rendering is one step.
CHECK_DEADLOCK FALSE
INVARIANTS
    OneLinePerResource
    ReadsBack
    ShowsWhatWasAsked
