SPECIFICATION Spec
CONSTANTS
    small = small
    large = large
    slow = slow
    fast = fast
    clock = clock
    title = title
    None = None
    Resolutions <- MCResolutions
    Profiles <- MCProfiles
    Framerates <- MCFramerates
    Gops <- MCGops
    Bitrates <- MCBitrates
    Regions <- MCRegions
    MaxUsers = 2
INVARIANTS
    EncodesAsReported
    OverlaysOnChannel
    LeftOnlyByThrow
    BrokenOnlyByRestart
PROPERTIES
    AppliedOrRolledBack
