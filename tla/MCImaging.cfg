SPECIFICATION ImagingSpec
CONSTANTS
    Pipes <- MCPipes
    Words <- MCWords
INVARIANTS
    InEffect
    Reported
