SPECIFICATION FairSpec
CONSTANTS
    NumCpus = 2
    Blocks = {0, 1}
    MaxList = 2
    MaxChanges = 1
    SysFaults = {"io", "dir"}
    ChildFaults = {"argument", "settimeofday", "path", "pipe", "fork", "wait",
                   "tool"}
INVARIANTS TypeOK DevicesAsAnswered Truthful
PROPERTY CommandsEnd
\* An agent that has aborted does nothing more.
CHECK_DEADLOCK FALSE
