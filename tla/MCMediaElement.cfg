SPECIFICATION Spec
CONSTANTS
    videv = videv
    vichn = vichn
    vpsschn = vpsschn
    venc0 = venc0
    venc1 = venc1
    ircut = ircut
    NULL = NULL
    Elements <- MCElements
    NoElement <- NULL
    Source <- MCSource
    Created <- MCCreated
    MaxHolds = 2
INVARIANTS
    AssertsHold
    CountsAccounted
    UpIffNeeded
PROPERTIES
    ImplementsRunningTree
    CallsEnd
