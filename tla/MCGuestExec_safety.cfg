\* Two jobs with one output each; pids may be reused, allocations may fail.
SPECIFICATION Spec
CONSTANTS
    p1 = p1
    p2 = p2
    Pids <- TwoPids
    Streams = {"out"}
    MaxJobs = 2
    InputSizes = {1}
    MaxWrite = 2
    PipeSize = 2
    IO_SIZE = 1
    MAX_OUTPUT = 1
    Faults = {"spawn", "realloc"}
    Filter = FALSE
    Heirs = TRUE
INVARIANTS TypeOK TruncationExact OutputComplete WatchesLive
