SPECIFICATION Spec
CONSTANTS
    low = low
    high = high
    None = None
    Odd = Odd
    PropCount = 3
    Values <- MCValues
    Default <- MCDefault
    Effects <- MCEffects
    Disturbs <- MCDisturbs
    Slots = 2
    Overlay <- MCOverlay
    Ticks = 2
INVARIANTS
    LiveAsStored
    CleanIsSaved
PROPERTIES
    ImplementsSnapshots
    SavedOnceQuiet
