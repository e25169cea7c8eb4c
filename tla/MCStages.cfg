SPECIFICATION Spec
CONSTANTS
    Chains <- MCChains
    Created <- MCCreated
INVARIANTS
    NothingElseLeft
    UsedIsThere
    UpIsComplete
    RetryBlockedOnlyByPipe
