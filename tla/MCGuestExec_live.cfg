\* Filters whose data exceed the pipes and the buffer.
SPECIFICATION FairSpec
CONSTANTS
    p1 = p1
    p2 = p2
    Pids <- TwoPids
    Streams = {"out"}
    MaxJobs = 1
    InputSizes = {0, 5}
    MaxWrite = 0
    PipeSize = 2
    IO_SIZE = 1
    MAX_OUTPUT = 2
    Faults = {}
    Filter = TRUE
    Heirs = TRUE
PROPERTY EveryJobReported
