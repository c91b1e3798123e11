\* Three requests to the loopback server, of any kind each.
CONSTANTS
    Callbacks = {a, b, c}
SPECIFICATION FairFlow
INVARIANTS
    FirstResultDecides
    BrowserToldTheSame
PROPERTIES
    Terminates
