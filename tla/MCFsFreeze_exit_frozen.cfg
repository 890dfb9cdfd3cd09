SPECIFICATION Spec
CONSTANTS
  f1 = f1
  f2 = f2
  f3 = f3
  Fs = {f1, f2, f3}
  Mounts <- PlainMounts
  Freezable = {f1, f2}
  MaxDepth = 1
  AgentFs = {f1}
  Commands <- SmallCommands
  Blacklist = {"guest-exec"}
  HasHook = TRUE
  Daemonize = TRUE
  Faults = {}
  MaxKills = 0
PROPERTY
  NoExitWhileFrozen
