\* This command and another process, one refresh of the credential's token,
\* two requests to a read.
CONSTANTS
    Sessions = {self, other}
    Self = self
    Scopes = {read, modify}
    Required = {modify}
    RotateChoices = {TRUE}
    MaxGrants = 1
    MaxRefreshes = 1
    MaxAttempts = 2
SPECIFICATION Spec
INVARIANT
    UncertainMayHaveTakenEffect
