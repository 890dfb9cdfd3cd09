\* Two freezes, a restart, every fault.
SPECIFICATION FairSpec
CONSTANTS
    FixedDrives = {0, 2}
    MaxPolls = 2
    Faults = {"event", "setup", "prepare", "query", "writers", "snapshot",
              "async", "complete"}
    MaxFreezes = 2
    MaxKills = 1
INVARIANTS TypeOK ThawAssertions HeldIsKnown
PROPERTIES FreezeMeansHeld ThawMeansHeld WritesReleased CommandsEnd
