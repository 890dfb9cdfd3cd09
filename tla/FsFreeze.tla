------------------------------ MODULE FsFreeze ------------------------------
(***************************************************************************)
(* The life of one qemu-ga instance around guest-fsfreeze: start-up, the   *)
(* freeze and thaw commands one ioctl at a time, the signal handler, exit, *)
(* and what is left behind by a crash (qga/main.c, qga/commands-posix.c).  *)
(*                                                                         *)
(* The kernel's freeze state and the files on disk outlive the process;    *)
(* everything else is the process's memory.  A write to a frozen file      *)
(* system blocks, so a step that writes is disabled while a file system    *)
(* that holds the agent's files is frozen.                                 *)
(*                                                                         *)
(* Abstractions: the mount table does not change; the pid, log and state   *)
(* files live somewhere in AgentFs, whose state directory exists (main     *)
(* makes it, with check_path, before anything else); guest-file-open       *)
(* stands for every command that writes to disk.                           *)
(***************************************************************************)
EXTENDS Naturals, Sequences, FiniteSets

CONSTANTS
    Fs,         \* the file systems (superblocks) of the guest
    Mounts,     \* what build_fs_mount_list returns, in mount order
    Freezable,  \* those that do not answer FIFREEZE with EOPNOTSUPP
    MaxDepth,   \* FIFREEZEs one file system accepts (1 since Linux 2.6.36)
    AgentFs,    \* those that hold the agent's log, pid and state files
    Commands,   \* the registered commands
    Blacklist,  \* those the configuration disables
    HasHook,    \* is a --fsfreeze-hook script configured
    Daemonize,  \* is -d given
    Faults,     \* the operations of the environment that may fail
    MaxKills    \* bound on the kills and reboots of a behaviour

Freeze == "guest-fsfreeze-freeze"
FreezeList == "guest-fsfreeze-freeze-list"
Thaw == "guest-fsfreeze-thaw"
Status == "guest-fsfreeze-status"
FileOpen == "guest-file-open"

FaultKinds == {"stat", "startup", "channel", "hook", "mountlist", "open",
               "fifreeze", "fithaw", "create", "delete", "extthaw"}

ASSUME ConstantsAssumption ==
    /\ Mounts \in Seq(Fs)
    /\ Freezable \subseteq Fs /\ AgentFs \subseteq Fs
    /\ MaxDepth \in Nat \ {0} /\ MaxKills \in Nat
    /\ Blacklist \subseteq Commands
    /\ HasHook \in BOOLEAN /\ Daemonize \in BOOLEAN
    /\ Faults \subseteq FaultKinds

VARIABLES
    \* the kernel, the disk and the applications
    depth,      \* depth[f]: successful FIFREEZEs not yet undone
    isfrozen,   \* does qga.state.isfrozen exist
    quiesced,   \* the hook has stopped the applications
    \* the process
    pc,         \* where it is
    ctx,        \* what the freeze or thaw code runs for
    frozen, logging, deferred, enabled,     \* GAState and the command table
    quit,       \* g_main_loop_quit was called
    sel, walk, count, logged,               \* locals of freeze and thaw
    reply,      \* the last response sent
    \* history, read by the properties only
    strays,     \* frozen file systems the agent has lost track of
    unrecorded, \* ga_create_file failed for the current freeze
    held,       \* what a freeze froze and nothing thawed since, except the
                \* thaw command that is under way
    kills

osVars == <<depth, isfrozen, quiesced>>
stateVars == <<frozen, logging, deferred, enabled>>
walkVars == <<sel, walk, count, logged>>
ghosts == <<strays, unrecorded, held, kills>>
vars == <<depth, isfrozen, quiesced, pc, ctx, frozen, logging, deferred,
          enabled, quit, sel, walk, count, logged, reply, strays, unrecorded,
          held, kills>>

\* Mutants: the whitelist forgets the thaw, or lets a writing command in.
WhitelistNoThaw == {"guest-ping", Status}
WhitelistFileOpen == {"guest-ping", Status, Thaw, FileOpen}

\* Commands that are safe to issue while filesystems are frozen.
ga_freeze_whitelist ==
    {"guest-ping", "guest-info", "guest-sync", "guest-sync-delimited",
     Status, Thaw}

PCs == {"down", "run", "init", "loop", "fileopen", "frz_hook", "frz_list",
        "frz_set", "frz_rec", "frz_walk", "thw_list", "thw_walk", "thw_unset",
        "thw_del", "thw_hook", "cleanup", "exit"}

NoReply == [kind |-> "none", n |-> 0]
Error == [kind |-> "error", n |-> 0]

FrozenFs == {f \in Fs : depth[f] > 0}

\* A write by the agent completes only if its files are not frozen.
CanWrite == \A f \in AgentFs : depth[f] = 0

MayFail(kind) == kind \in Faults

Init ==
    /\ depth = [f \in Fs |-> 0] /\ isfrozen = FALSE /\ quiesced = FALSE
    /\ pc = "down" /\ ctx = "none"
    /\ frozen = FALSE /\ logging = FALSE /\ deferred = FALSE /\ enabled = {}
    /\ quit = FALSE
    /\ sel = {} /\ walk = 0 /\ count = 0 /\ logged = FALSE
    /\ reply = NoReply
    /\ strays = {} /\ unrecorded = FALSE /\ held = {} /\ kills = 0

-----------------------------------------------------------------------------
(* Start-up: main and run_agent. *)

\* Mutant: the marker is not looked at.
IgnoreMarker == {FALSE}

\* check_is_frozen: the marker file, or a stat error other than ENOENT, which
\* the function returns as EXIT_FAILURE, that is as true.
check_is_frozen == {isfrozen} \cup (IF MayFail("stat") THEN {TRUE} ELSE {})

\* main up to run_agent: all commands are registered and enabled.
Start ==
    /\ pc = "down"
    /\ frozen' \in check_is_frozen
    /\ logging' = TRUE /\ enabled' = Commands
    /\ pc' = "run"
    /\ UNCHANGED <<osVars, ctx, deferred, quit, walkVars, reply, ghosts>>

\* ga_disable_non_whitelisted over all commands.
ga_disable_non_whitelisted == enabled \cap ga_freeze_whitelist

\* run_agent on a marked start: the pid and log files wait for the thaw.
RunFrozen ==
    /\ pc = "run" /\ frozen
    /\ deferred' = TRUE /\ logging' = FALSE
    /\ enabled' = ga_disable_non_whitelisted \ Blacklist
    /\ pc' = "init"
    /\ UNCHANGED <<osVars, ctx, frozen, quit, walkVars, reply, ghosts>>

\* run_agent on a normal start opens the pid, log and state files.
RunThawed ==
    /\ pc = "run" /\ ~frozen /\ CanWrite
    /\ enabled' = enabled \ Blacklist
    /\ pc' = "init"
    /\ UNCHANGED <<osVars, ctx, frozen, logging, deferred, quit, walkVars,
                   reply, ghosts>>

\* The pid, log or state file cannot be used, on a marked start only the state
\* file: no command group exists yet, so main does not call any cleanup.
RunFails ==
    /\ pc = "run" /\ MayFail("startup")
    /\ pc' = "exit"
    /\ IF frozen
       THEN /\ deferred' = TRUE /\ logging' = FALSE
            /\ enabled' = ga_disable_non_whitelisted
       ELSE UNCHANGED <<deferred, logging, enabled>>
    /\ UNCHANGED <<osVars, ctx, frozen, quit, walkVars, reply, ghosts>>

\* channel_init, then g_main_loop_run.
channel_init ==
    /\ pc = "init"
    /\ \/ pc' = "loop"
       \/ MayFail("channel") /\ pc' = "cleanup"
    /\ UNCHANGED <<osVars, ctx, stateVars, quit, walkVars, reply, ghosts>>

-----------------------------------------------------------------------------
(* The main loop and command dispatch. *)

\* process_command finds the loop idle; it logs, so it needs its log file.
Idle == pc = "loop" /\ ~quit /\ (logging => CanWrite)

\* do_qmp_dispatch: an unknown or disabled command is answered with an error.
Reject ==
    /\ Idle
    /\ \E c \in Commands : c \notin enabled
    /\ reply' = [kind |-> "disabled", n |-> 0]
    /\ UNCHANGED <<osVars, pc, ctx, stateVars, quit, walkVars, ghosts>>

qmp_guest_fsfreeze_status ==
    /\ Idle /\ Status \in enabled
    /\ reply' = [kind |-> IF frozen THEN "frozen" ELSE "thawed", n |-> 0]
    /\ UNCHANGED <<osVars, pc, ctx, stateVars, quit, walkVars, ghosts>>

Enter(c, p, x) ==
    /\ Idle /\ c \in enabled
    /\ pc' = p /\ ctx' = x /\ reply' = NoReply
    /\ UNCHANGED <<osVars, stateVars, quit, walk, count, logged, ghosts>>

\* guest-fsfreeze-freeze takes every mount.
qmp_guest_fsfreeze_freeze ==
    Enter(Freeze, "frz_hook", "freeze") /\ sel' = DOMAIN Mounts

\* guest-fsfreeze-freeze-list takes the mounts that are named.
qmp_guest_fsfreeze_freeze_list ==
    /\ Enter(FreezeList, "frz_hook", "freeze")
    /\ sel' \in SUBSET DOMAIN Mounts

qmp_guest_fsfreeze_thaw ==
    Enter(Thaw, "thw_list", "thaw") /\ UNCHANGED sel

\* guest-file-open and its like write to disk.
FileOpenCmd == Enter(FileOpen, "fileopen", "file") /\ UNCHANGED sel

\* The handler returned: the response is sent and the main loop goes on.
Return(r) == pc' = "loop" /\ ctx' = "none" /\ reply' = r

\* ga_get_fd_handle commits the handle counter.
FileOpenWrite ==
    /\ pc = "fileopen" /\ CanWrite
    /\ Return([kind |-> "opened", n |-> 0])
    /\ UNCHANGED <<osVars, stateVars, quit, walkVars, ghosts>>

-----------------------------------------------------------------------------
(* qmp_guest_fsfreeze_freeze_list. *)

\* Mutant: an error of the freeze hook is ignored.
FreezeHookUnchecked ==
    /\ pc = "frz_hook" /\ pc' = "frz_list" /\ quiesced' \in BOOLEAN
    /\ UNCHANGED <<depth, isfrozen, ctx, reply, stateVars, quit, walkVars,
                   ghosts>>

\* Mutant: the error of the hook is not propagated, so that the -1 which the
\* function returns is the answer.
FreezeHookSilent ==
    /\ pc = "frz_hook"
    /\ \/ /\ pc' = "frz_list" /\ UNCHANGED <<ctx, reply>>
          /\ IF HasHook THEN quiesced' = TRUE ELSE UNCHANGED quiesced
       \/ /\ HasHook /\ MayFail("hook") /\ quiesced' \in BOOLEAN
          /\ Return([kind |-> "frozen", n |-> 0 - 1])
    /\ UNCHANGED <<depth, isfrozen, stateVars, quit, walkVars, ghosts>>

\* execute_fsfreeze_hook("freeze"): a hook that fails may have stopped the
\* applications or not; the freeze is given up.
FreezeHook ==
    /\ pc = "frz_hook"
    /\ \/ /\ pc' = "frz_list" /\ UNCHANGED <<ctx, reply>>
          /\ IF HasHook THEN quiesced' = TRUE ELSE UNCHANGED quiesced
       \/ /\ HasHook /\ MayFail("hook")
          /\ quiesced' \in BOOLEAN /\ Return(Error)
    /\ UNCHANGED <<depth, isfrozen, stateVars, quit, walkVars, ghosts>>

\* build_fs_mount_list; without it the freeze is given up, the thaw hook is
\* not run.
FreezeMountList ==
    /\ pc = "frz_list"
    /\ \/ pc' = "frz_set" /\ UNCHANGED <<ctx, reply>>
       \/ MayFail("mountlist") /\ Return(Error)
    /\ UNCHANGED <<osVars, stateVars, quit, walkVars, ghosts>>

\* Mutant: logging stays enabled.
FreezeStateLogs ==
    /\ enabled' = ga_disable_non_whitelisted
    /\ frozen' = TRUE /\ UNCHANGED <<logging, deferred>>

\* What ga_set_frozen does to the state in memory.
FreezeState ==
    /\ enabled' = ga_disable_non_whitelisted
    /\ logging' = FALSE /\ frozen' = TRUE
    /\ UNCHANGED deferred

\* ga_set_frozen: nothing to do if already frozen.
ga_set_frozen ==
    /\ pc = "frz_set"
    /\ walk' = Len(Mounts) /\ count' = 0
    /\ \/ /\ frozen /\ pc' = "frz_walk"
          /\ UNCHANGED stateVars
       \/ ~frozen /\ pc' = "frz_rec" /\ FreezeState
    /\ UNCHANGED <<osVars, ctx, quit, sel, logged, reply, ghosts>>

\* Mutant: the marker is not created.
NoMarker ==
    /\ pc = "frz_rec" /\ pc' = "frz_walk"
    /\ UNCHANGED <<osVars, ctx, stateVars, quit, walkVars, reply, ghosts>>

\* ga_set_frozen, on disk: a failure to create the marker is only logged.
ga_create_file ==
    /\ pc = "frz_rec" /\ CanWrite
    /\ \/ isfrozen' = TRUE /\ unrecorded' = FALSE
       \/ MayFail("create") /\ ~isfrozen /\ unrecorded' = TRUE
          /\ UNCHANGED isfrozen
    /\ pc' = "frz_walk"
    /\ UNCHANGED <<depth, quiesced, ctx, stateVars, quit, walkVars, reply,
                   strays, held, kills>>

\* FIFREEZE on f succeeded, or is not supported by f.
FIFREEZE(f) ==
    IF f \in Freezable
    THEN /\ depth[f] < MaxDepth
         /\ depth' = [depth EXCEPT ![f] = @ + 1] /\ count' = count + 1
    ELSE UNCHANGED <<depth, count>>

\* One turn of the loop over the mounts, last one first.
FreezeMount ==
    /\ pc = "frz_walk" /\ walk > 0
    /\ \/ walk \in sel /\ FIFREEZE(Mounts[walk])
       \/ walk \notin sel /\ UNCHANGED <<depth, count>>
    /\ walk' = walk - 1
    /\ held' = held \cup {f \in Fs : depth'[f] > depth[f]}
    /\ UNCHANGED <<isfrozen, quiesced, pc, ctx, stateVars, quit, sel, logged,
                   reply, strays, unrecorded, kills>>

\* Mutant: the error is answered without the thaw.
FreezeFailsFrozen ==
    /\ pc = "frz_walk" /\ walk > 0 /\ walk \in sel
    /\ MayFail("open") \/ MayFail("fifreeze")
    /\ Return(Error)
    /\ UNCHANGED <<osVars, stateVars, quit, walkVars, ghosts>>

\* The mount cannot be opened, or FIFREEZE fails (EBUSY if it is frozen
\* already): the thaw is run, its own error is discarded.
FreezeMountFails ==
    /\ pc = "frz_walk" /\ walk > 0 /\ walk \in sel
    /\ \/ MayFail("open") \/ MayFail("fifreeze")
       \/ Mounts[walk] \in Freezable /\ depth[Mounts[walk]] >= MaxDepth
    /\ pc' = "thw_list" /\ ctx' = "undo"
    /\ UNCHANGED <<osVars, stateVars, quit, walkVars, reply, ghosts>>

FreezeDone ==
    /\ pc = "frz_walk" /\ walk = 0
    /\ Return([kind |-> "frozen", n |-> count])
    /\ UNCHANGED <<osVars, stateVars, quit, walkVars, ghosts>>

-----------------------------------------------------------------------------
(* qmp_guest_fsfreeze_thaw, called for the command, for a failed freeze     *)
(* ("undo") and by guest_fsfreeze_cleanup.                                  *)

\* The handler that called the thaw code goes on.
ThawReturns(r) ==
    IF ctx = "cleanup"
    THEN pc' = "exit" /\ UNCHANGED <<ctx, reply>>
    ELSE Return(IF ctx = "undo" THEN Error ELSE r)

ThawMountList ==
    /\ pc = "thw_list"
    /\ \/ /\ pc' = "thw_walk" /\ walk' = 1 /\ count' = 0 /\ logged' = FALSE
          /\ UNCHANGED <<ctx, reply>>
       \/ /\ MayFail("mountlist") /\ ThawReturns(Error)
          /\ UNCHANGED <<walk, count, logged>>
    /\ UNCHANGED <<osVars, stateVars, quit, sel, ghosts>>

\* FITHAW on f succeeded.
FITHAW(f) == depth[f] > 0 /\ depth' = [depth EXCEPT ![f] = @ - 1]

\* Mutant: every successful call is counted.
TallyAll == count + 1

\* The first successful call on a mount counts, the ones that undo further
\* FIFREEZEs of the same file system do not.
Tally == IF logged THEN count ELSE count + 1

\* FITHAW succeeded and is issued again.
ThawMount ==
    /\ pc = "thw_walk" /\ walk \in DOMAIN Mounts
    /\ FITHAW(Mounts[walk])
    /\ count' = Tally /\ logged' = TRUE
    /\ strays' = {f \in strays : depth'[f] > 0}
    /\ held' = IF ctx = "thaw" THEN held ELSE {f \in held : depth'[f] > 0}
    /\ UNCHANGED <<isfrozen, quiesced, pc, ctx, stateVars, quit, sel, walk,
                   reply, unrecorded, kills>>

\* Mutant: the walk does not advance.
ThawSameMount ==
    /\ pc = "thw_walk" /\ walk \in DOMAIN Mounts /\ depth[Mounts[walk]] = 0
    /\ logged' = FALSE
    /\ UNCHANGED <<osVars, pc, ctx, stateVars, quit, sel, walk, count, reply,
                   ghosts>>

\* FITHAW fails because f is not frozen, or it fails although f is frozen, or
\* f cannot be opened: in each case the walk goes on.
ThawNextMount ==
    /\ pc = "thw_walk" /\ walk \in DOMAIN Mounts
    /\ LET f == Mounts[walk] IN
       /\ depth[f] = 0 \/ MayFail("open") \/ MayFail("fithaw")
       /\ strays' = IF depth[f] = 0 THEN strays ELSE strays \cup {f}
    /\ walk' = walk + 1 /\ logged' = FALSE
    /\ UNCHANGED <<osVars, pc, ctx, stateVars, quit, sel, count, reply,
                   unrecorded, held, kills>>

ThawWalked ==
    /\ pc = "thw_walk" /\ walk \notin DOMAIN Mounts
    /\ pc' = "thw_unset"
    /\ UNCHANGED <<osVars, ctx, stateVars, quit, walkVars, reply, ghosts>>

\* Mutant: the blacklist is forgotten.
EnableAll == Commands

\* ga_enable_non_blacklisted over all commands.
ga_enable_non_blacklisted == enabled \cup (Commands \ Blacklist)

\* ga_unset_frozen up to frozen = false: the deferred files are opened.
ga_unset_frozen ==
    /\ pc = "thw_unset"
    /\ \/ /\ ~frozen /\ pc' = "thw_hook"
          /\ UNCHANGED <<stateVars, unrecorded>>
       \/ /\ frozen /\ CanWrite /\ pc' = "thw_del"
          /\ logging' = TRUE /\ deferred' = FALSE /\ frozen' = FALSE
          /\ enabled' = ga_enable_non_blacklisted
          /\ unrecorded' = FALSE
    /\ UNCHANGED <<osVars, ctx, quit, walkVars, reply, strays, held, kills>>

\* ga_unset_frozen, on disk: a failure to delete the marker is only logged.
ga_delete_file ==
    /\ pc = "thw_del" /\ CanWrite
    /\ \/ isfrozen' = FALSE
       \/ MayFail("delete") /\ UNCHANGED isfrozen
    /\ pc' = "thw_hook"
    /\ UNCHANGED <<depth, quiesced, ctx, stateVars, quit, walkVars, reply,
                   ghosts>>

\* execute_fsfreeze_hook("thaw"): its error becomes the command's.
ThawHook ==
    /\ pc = "thw_hook"
    /\ \/ /\ IF HasHook THEN quiesced' = FALSE ELSE UNCHANGED quiesced
          /\ ThawReturns([kind |-> "thawed", n |-> count])
       \/ /\ HasHook /\ MayFail("hook")
          /\ quiesced' \in BOOLEAN /\ ThawReturns(Error)
    /\ held' = {f \in held : depth[f] > 0}
    /\ UNCHANGED <<depth, isfrozen, stateVars, quit, walkVars, strays,
                   unrecorded, kills>>

-----------------------------------------------------------------------------
(* Signals, exit, crashes and the outside world. *)

\* The main loop runs, possibly inside a command handler.
InLoop == pc \notin {"down", "run", "init", "cleanup", "exit"}
          /\ ctx # "cleanup"

\* SIGTERM or SIGINT: forgotten while frozen or outside the main loop.
quit_handler ==
    /\ InLoop /\ ~frozen
    /\ quit' = TRUE
    /\ UNCHANGED <<osVars, pc, ctx, stateVars, walkVars, reply, ghosts>>

LeaveLoop ==
    /\ pc = "loop" /\ quit
    /\ pc' = "cleanup"
    /\ UNCHANGED <<osVars, ctx, stateVars, quit, walkVars, reply, ghosts>>

\* Mutant: the loop is entered again.
CleanupLoops ==
    /\ pc = "cleanup" /\ pc' = "loop"
    /\ UNCHANGED <<osVars, ctx, stateVars, quit, walkVars, reply, ghosts>>

guest_fsfreeze_cleanup ==
    /\ pc = "cleanup"
    /\ IF frozen THEN pc' = "thw_list" /\ ctx' = "cleanup"
                 ELSE pc' = "exit" /\ UNCHANGED ctx
    /\ UNCHANGED <<osVars, stateVars, quit, walkVars, reply, ghosts>>

\* The process is gone with its memory; a freeze it had not recorded on disk
\* is lost.
ProcessEnds ==
    /\ pc' = "down" /\ ctx' = "none"
    /\ frozen' = FALSE /\ logging' = FALSE /\ deferred' = FALSE
    /\ enabled' = {} /\ quit' = FALSE
    /\ sel' = {} /\ walk' = 0 /\ count' = 0 /\ logged' = FALSE
    /\ reply' = NoReply
    /\ unrecorded' = FALSE /\ held' = {f \in held : depth'[f] > 0}

\* The end of main; a daemon unlinks its pid file.
Exit ==
    /\ pc = "exit" /\ (Daemonize => CanWrite)
    /\ UNCHANGED <<osVars, kills>>
    /\ ProcessEnds
    /\ strays' = IF unrecorded THEN strays \cup FrozenFs ELSE strays

\* SIGKILL, the OOM killer, an assertion.
Kill ==
    /\ pc # "down" /\ kills < MaxKills
    /\ UNCHANGED osVars
    /\ ProcessEnds
    /\ strays' = IF unrecorded THEN strays \cup FrozenFs ELSE strays
    /\ kills' = kills + 1

\* A reboot thaws everything; the marker survives unless it is on a tmpfs.
Reboot ==
    /\ kills < MaxKills
    /\ depth' = [f \in Fs |-> 0] /\ quiesced' = FALSE /\ strays' = {}
    /\ ProcessEnds
    /\ isfrozen' \in {isfrozen, FALSE}
    /\ kills' = kills + 1

\* Another process thaws f.
ExternalThaw(f) ==
    /\ MayFail("extthaw") /\ depth[f] > 0
    /\ depth' = [depth EXCEPT ![f] = 0] /\ strays' = strays \ {f}
    /\ held' = held \ {f}
    /\ UNCHANGED <<isfrozen, quiesced, pc, ctx, stateVars, quit, walkVars,
                   reply, unrecorded, kills>>

\* The administrator removes the marker once nothing is frozen, as
\* check_is_frozen's warning suggests.
RemoveMarker ==
    /\ isfrozen /\ FrozenFs = {}
    /\ pc = "down" \/ (pc = "loop" /\ frozen)
    /\ isfrozen' = FALSE
    /\ UNCHANGED <<depth, quiesced, pc, ctx, stateVars, quit, walkVars, reply,
                   ghosts>>

Client == \/ Reject \/ qmp_guest_fsfreeze_status \/ qmp_guest_fsfreeze_freeze
          \/ qmp_guest_fsfreeze_freeze_list \/ qmp_guest_fsfreeze_thaw
          \/ FileOpenCmd

\* What the process does by itself once it is started.
Agent == \/ RunFrozen \/ RunThawed \/ RunFails \/ channel_init
         \/ FileOpenWrite
         \/ FreezeHook \/ FreezeMountList \/ ga_set_frozen \/ ga_create_file
         \/ FreezeMount \/ FreezeMountFails \/ FreezeDone
         \/ ThawMountList \/ ThawMount \/ ThawNextMount \/ ThawWalked
         \/ ga_unset_frozen \/ ga_delete_file \/ ThawHook
         \/ LeaveLoop \/ guest_fsfreeze_cleanup \/ Exit

World == \/ quit_handler \/ Kill \/ Reboot \/ RemoveMarker
         \/ \E f \in Fs : ExternalThaw(f)

Next == Start \/ Client \/ Agent \/ World

Spec == Init /\ [][Next]_vars

\* The process is scheduled, a supervisor restarts it, and the management
\* client retries guest-fsfreeze-thaw until it is accepted.
FairSpec ==
    /\ Spec
    /\ WF_vars(Start) /\ WF_vars(Agent) /\ WF_vars(qmp_guest_fsfreeze_thaw)

-----------------------------------------------------------------------------
(* Properties. *)

TypeFlags ==
    /\ isfrozen \in BOOLEAN /\ quiesced \in BOOLEAN
    /\ frozen \in BOOLEAN /\ logging \in BOOLEAN /\ deferred \in BOOLEAN
    /\ quit \in BOOLEAN /\ logged \in BOOLEAN /\ unrecorded \in BOOLEAN

TypeData ==
    /\ depth \in [Fs -> Nat]
    /\ pc \in PCs
    /\ ctx \in {"none", "freeze", "undo", "thaw", "file", "cleanup"}
    /\ enabled \subseteq Commands
    /\ sel \subseteq DOMAIN Mounts /\ walk \in Nat /\ count \in Nat
    /\ reply \in [kind : {"none", "error", "disabled", "frozen", "thawed",
                          "opened"},
                  n : Nat]
    /\ strays \subseteq Fs /\ held \subseteq Fs /\ kills \in Nat

\* Every variable has its type; in particular the number that a command answers
\* is natural: the -1 that a failed freeze returns is never taken for one.
TypeOK == TypeFlags /\ TypeData

\* A freeze survives a crash: every file system the agent froze and has not
\* lost track of is recorded by qga.state.isfrozen, which the next instance
\* reads, or else creating that file failed and the instance that knows of
\* the freeze is alive (ga_set_frozen, ga_unset_frozen, check_is_frozen).
FreezeIsRecorded ==
    \A f \in FrozenFs \ strays : isfrozen \/ (unrecorded /\ frozen)

\* While such a file system is frozen, a started agent knows: it is in the
\* frozen state, in which guest-fsfreeze-status says so and signals are
\* refused (check_is_frozen, ga_is_frozen).
FreezeIsKnown == pc # "down" => (FrozenFs \subseteq strays \/ frozen)

\* The command table of a started agent is always the one its frozen state
\* calls for: never a blacklisted command, and only whitelisted ones while
\* frozen, whatever the order of starts, crashes, freezes and thaws.
CommandTable ==
    pc \notin {"down", "run", "exit"} =>
        enabled = IF frozen
                  THEN (Commands \cap ga_freeze_whitelist) \ Blacklist
                  ELSE Commands \ Blacklist

\* The agent is about to write to disk: a handle counter, a marker, a pid or a
\* log file, and at the end the directory of the daemon's pid file.
Writing == \/ pc \in {"fileopen", "frz_rec", "thw_unset", "thw_del"}
           \/ pc \notin {"down", "run"} /\ logging
           \/ pc = "run" /\ ~frozen
           \/ pc = "exit" /\ Daemonize

\* The agent ends although it is frozen: a marked start has failed, or the
\* mounts could not be listed for the thaw of guest_fsfreeze_cleanup.
EndsFrozen == pc = "exit" /\ frozen

\* "cannot risk guest agent blocking itself on a write in this state": an
\* agent about to write to disk, or whose log is enabled, is not stopped by a
\* file system it froze (ga_set_frozen, ga_unset_frozen, ga_get_fd_handle,
\* main).  The exception is real: an agent that ends frozen unlinks its pid
\* file, and blocks if that is on a frozen file system.  The comment of
\* quit_handler knows it ("basically impossible for graceful exit to
\* complete"), but prevents it only for signals.
NeverBlocksItself == Writing => FrozenFs \subseteq strays \/ EndsFrozen

\* ga_get_fd_handle asserts that the agent is not frozen.
HandleAssertion == pc = "fileopen" => ~frozen

\* Applications stay quiesced as long as a file system they may write to is
\* frozen: the freeze hook runs before the first FIFREEZE, the thaw hook after
\* the last FITHAW (qmp_guest_fsfreeze_freeze_list, qmp_guest_fsfreeze_thaw).
QuiescedWhileFrozen == HasHook => (FrozenFs \subseteq strays \/ quiesced)

\* A successful thaw reports how many of the file systems that a freeze froze
\* it thawed itself, each once, whatever crashes happened in between: a number
\* that differs from the freeze's tells the client that something else thawed
\* the rest (the note on guest-fsfreeze-thaw in the schema).
ThawCountExact ==
    [][pc = "thw_hook" /\ pc' = "loop" /\ reply'.kind = "thawed" =>
          reply'.n = Cardinality(held)]_vars

\* "On error, all filesystems will be thawed": a freeze that is answered with
\* an error leaves nothing frozen, wherever in the walk over the mounts it
\* failed and however often a file system was frozen before that (if the thaw
\* that it runs can list and open the mounts; it does not say when it cannot).
ErrorMeansThawed ==
    [][reply'.kind = "error" /\ ctx' = "none" /\ ctx \in {"freeze", "undo"} =>
          \A f \in Fs : depth'[f] = 0]_vars

\* Every command is answered, or the process is gone.
CommandsAnswered == ctx # "none" ~> (ctx = "none" \/ pc = "down")

\* What is frozen is thawed in the end, also after crashes in the middle of a
\* freeze or a thaw, if the client keeps asking for it.
EventuallyThawed == FrozenFs # {} ~> FrozenFs = {}

\* A signal received while not frozen ends the process.
QuitHonoured == quit ~> pc = "down"

-----------------------------------------------------------------------------
(* What a comment says, and the code does not do. *)

\* quit_handler: "if we're frozen, don't exit unless we're absolutely forced
\* to".
NoExitWhileFrozen == [][pc = "loop" /\ pc' = "cleanup" => ~frozen]_vars
=============================================================================
