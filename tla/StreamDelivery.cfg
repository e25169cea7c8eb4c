SPECIFICATION Spec
CONSTANTS
    Sinks = {main, sub, describe}
    Encoders = {TRUE, FALSE}
INVARIANTS
    PlaysMatchSources
    WatchedChannelExists
PROPERTIES
    StrandedOnlyByLeaving
    ServedUnlessStranded
