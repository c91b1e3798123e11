\* This command and another process, two refreshes of the credential, two requests
\* to a read.
CONSTANTS
    Sessions = {self, other}
    Self = self
    Scopes = {read, modify}
    Required = {modify}
    RotateChoices = {TRUE}
    MaxGrants = 1
    MaxRefreshes = 2
    MaxAttempts = 2
SPECIFICATION Spec
INVARIANTS
    HonestEnd
    ExitSeparates
    MeShowsWhatItUsed
PROPERTIES
    ImplementsSession
