\* A single pid that is free again once its child is reaped.
SPECIFICATION Spec
CONSTANTS
    p1 = p1
    p2 = p2
    Pids <- OnePid
    Streams = {"out"}
    MaxJobs = 2
    InputSizes = {0}
    MaxWrite = 1
    PipeSize = 1
    IO_SIZE = 1
    MAX_OUTPUT = 1
    Faults = {}
    Filter = FALSE
    Heirs = FALSE
INVARIANT PidNamesOneJob
