SPECIFICATION FairSpec
CONSTANTS
  f1 = f1
  f2 = f2
  f3 = f3
  Fs = {f1, f2, f3}
  Mounts <- BindMounts
  Freezable = {f1, f2}
  MaxDepth = 2
  AgentFs = {f1}
  Commands <- SmallCommands
  Blacklist = {"guest-exec"}
  HasHook = TRUE
  Daemonize = TRUE
  Faults = {"hook", "fifreeze", "delete", "stat", "channel"}
  MaxKills = 2
PROPERTIES
  CommandsAnswered
  EventuallyThawed
  QuitHonoured
  ThawCountExact
  ErrorMeansThawed
