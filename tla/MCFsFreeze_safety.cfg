SPECIFICATION Spec
CONSTANTS
  f1 = f1
  f2 = f2
  f3 = f3
  Fs = {f1, f2, f3}
  Mounts <- PlainMounts
  Freezable = {f1, f2}
  MaxDepth = 2
  AgentFs = {f1}
  Commands <- SmallCommands
  Blacklist = {"guest-exec"}
  HasHook = TRUE
  Daemonize = TRUE
  Faults = {"stat", "startup", "channel", "hook", "mountlist", "open",
            "fifreeze", "fithaw", "create", "delete", "extthaw"}
  MaxKills = 2
INVARIANTS
  TypeOK
  FreezeIsRecorded
  FreezeIsKnown
  CommandTable
  NeverBlocksItself
  HandleAssertion
  QuiescedWhileFrozen
