SPECIFICATION Spec
CHECK_DEADLOCK FALSE
CONSTANTS
    isp0 = isp0
    videv0 = videv0
    vechn0 = vechn0
    acodec0 = acodec0
    adchn0 = adchn0
    misspelt = misspelt
    None = None
    Names <- MCNames
    Kind <- MCKind
    MaxMentions = 5
    MaxSinks = 2
    MaxClients = 2
INVARIANTS
    Forest
    AllGivenBack
