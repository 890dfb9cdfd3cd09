\* A buffer of four bytes that is used more than twice over.
SPECIFICATION FairSpec
CONSTANTS
    BUF_SIZE = 4
    Sizes = {2, 4}
    DWORD_MOD = 16
    MaxBytes = 10
    Faults = {"submit", "result", "eof"}
INVARIANTS TypeOK PollHasRead NoOverrun
PROPERTY ImplementsStream
CHECK_DEADLOCK FALSE
