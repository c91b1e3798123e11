\* Two processes, any command each; two client ids, two backends, one profile.
CONSTANTS
    Processes = {p1, p2}
    Clients = {c1, c2}
    Backends = {file, keychain}
    Profiles = {default}
    file = file
    default = default
    DefaultPlace <- MCDefaultPlace
    NoClient = NoClient
    NoProcess = NoProcess
SPECIFICATION Spec
SYMMETRY Symmetric
INVARIANTS
    InitAllOrNothing
    CredentialComesFirst
    ClearAsReported
    NoUninvitedLoss
