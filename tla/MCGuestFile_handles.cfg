\* Kills, every fault, and a counter that outgrows the state file.
SPECIFICATION Spec
CONSTANTS
    DefaultCounter = 2
    IntMax = 3
    Faults = {"stat", "load", "commit", "open", "io", "flush", "fclose",
              "remove"}
    MaxOpens = 3
    MaxKills = 2
INVARIANTS TypeOK HandlesNeverReused StreamsAccounted StreamsUsedWhileOpen
