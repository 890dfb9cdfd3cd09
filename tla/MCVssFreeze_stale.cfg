\* A freeze that gives up waiting, and another one.
SPECIFICATION Spec
CONSTANTS
    FixedDrives = {2}
    MaxPolls = 1
    Faults = {}
    MaxFreezes = 2
    MaxKills = 0
PROPERTY FrozenEventMeansHeld
