--------------------------- MODULE ChildCommands ---------------------------
(***************************************************************************)
(* The commands that run a tool and wait for it in the main loop:          *)
(* guest-shutdown, guest-set-time, guest-suspend-* and                     *)
(* guest-set-user-password (qga/commands-posix.c).                         *)
(*                                                                         *)
(* Abstractions: arguments are good or bad; a tool exits with 0 exactly if *)
(* it has done its job.  What is written to chpasswd fits its pipe.  An    *)
(* EINTR of waitpid, after which ga_wait_child calls it again, is no step. *)
(***************************************************************************)
EXTENDS Naturals

CONSTANT ChildFaults  \* the calls of the agent, and the tools, that may fail

ASSUME ChildAssumption ==
    ChildFaults \subseteq {"argument", "settimeofday", "path", "pipe",
                           "fork", "wait", "tool"}

VARIABLES
    cpc, cmd,  \* where the agent is, and for which command
    tool,      \* the tool that the command runs, or is about to run
    child,     \* the child process: "none", "running" or how it has ended
    unreaped,  \* a child has ended that no command has waited for
    data,      \* chpasswd's input: "none", "open", "line", "eof"
    did,       \* what has taken effect for the command
    canswer    \* the last answer

childVars == <<cpc, cmd, tool, child, unreaped, data, did, canswer>>

ChildCmds == {"shutdown", "set-time", "sync-time", "suspend", "password"}
Tools == {"shutdown", "hwclock", "pm-is-supported", "pm-suspend", "chpasswd"}

Failing(what) == what \in ChildFaults

\* err: the call that has failed, or "none".
ChildAnswer(c, err) == [cmd |-> c, err |-> err]
NoChildAnswer == ChildAnswer("none", "none")

ChildInit ==
    /\ cpc = "idle" /\ cmd = "none" /\ tool = "none" /\ child = "none"
    /\ unreaped = FALSE /\ data = "none" /\ did = {}
    /\ canswer = NoChildAnswer

\* Mutant: an error leaves the pipe open.
LeavesPipe(err) ==
    /\ cpc' = "idle" /\ cmd' = "none" /\ canswer' = ChildAnswer(cmd, err)
    /\ tool' = "none" /\ data' = IF data = "open" THEN "open" ELSE "none"

\* The command ends; what is left of its pipe is closed, and a child that has
\* not been waited for stays.
ChildReturn(err) ==
    /\ cpc' = "idle" /\ cmd' = "none" /\ canswer' = ChildAnswer(cmd, err)
    /\ tool' = "none" /\ data' = "none"

\* A command is dispatched and goes on at pc, to run tool t.
Dispatch(c, pc, t) ==
    /\ cpc = "idle" /\ cpc' = pc /\ cmd' = c /\ tool' = t
    /\ did' = {} /\ canswer' = NoChildAnswer
    /\ UNCHANGED <<child, unreaped, data>>

\* Its arguments are bad.
Refuse(c) ==
    /\ cpc = "idle" /\ Failing("argument")
    /\ canswer' = ChildAnswer(c, "argument") /\ did' = {}
    /\ UNCHANGED <<cpc, cmd, tool, child, unreaped, data>>

qmp_guest_shutdown ==
    Dispatch("shutdown", "fork", "shutdown") \/ Refuse("shutdown")

\* With a time, the system's clock is set first; without, by the tool.
qmp_guest_set_time ==
    \/ Dispatch("set-time", "settimeofday", "hwclock")
    \/ Dispatch("sync-time", "fork", "hwclock")
    \/ Refuse("set-time")

SetSystemTime ==
    /\ cpc = "settimeofday"
    /\ \/ /\ did' = {"settimeofday"} /\ cpc' = "fork"
          /\ UNCHANGED <<cmd, tool, data, canswer>>
       \/ /\ Failing("settimeofday") /\ ChildReturn("settimeofday")
          /\ UNCHANGED did
    /\ UNCHANGED <<child, unreaped>>

\* bios_supports_mode first.
qmp_guest_suspend == Dispatch("suspend", "fork", "pm-is-supported")

qmp_guest_set_user_password ==
    Dispatch("password", "pipe", "chpasswd") \/ Refuse("password")

\* The program is looked for, and the pipe made.
MakePipe ==
    /\ cpc = "pipe"
    /\ \/ data' = "open" /\ cpc' = "fork"
          /\ UNCHANGED <<cmd, tool, canswer>>
       \/ \E e \in {"path", "pipe"} : Failing(e) /\ ChildReturn(e)
    /\ UNCHANGED <<child, unreaped, did>>

Fork ==
    /\ cpc = "fork"
    /\ \/ /\ child' = "running"
          /\ cpc' = IF tool = "chpasswd" THEN "write" ELSE "wait"
          /\ UNCHANGED <<cmd, tool, canswer, data>>
       \/ Failing("fork") /\ ChildReturn("fork") /\ UNCHANGED child
    /\ UNCHANGED <<unreaped, did>>

\* Mutant: the write end of the pipe stays open while the child is waited for.
KeepsPipe == "line"

\* What the child sees of its input when the agent waits.
Closed == "eof"

\* qemu_write_full: a child that has gone makes it fail, and the command ends
\* without waiting for it.
WritePassword ==
    /\ cpc = "write"
    /\ \/ /\ child = "running"
          /\ data' = Closed /\ cpc' = "wait"
          /\ UNCHANGED <<cmd, tool, child, unreaped, canswer>>
       \/ /\ child # "running" /\ ChildReturn("write")
          /\ child' = "none" /\ unreaped' = TRUE
    /\ UNCHANGED did

\* The tool does its job; chpasswd reads its input to the end first.
ToolSucceeds ==
    /\ child = "running" /\ (tool = "chpasswd" => data = "eof")
    /\ child' = "ok" /\ did' = did \cup {tool}
    /\ UNCHANGED <<cpc, cmd, tool, unreaped, data, canswer>>

\* The tool cannot be started or fails, or it is killed.
ToolFails ==
    /\ child = "running" /\ Failing("tool")
    /\ child' \in {"failed", "signalled"}
    /\ UNCHANGED <<cpc, cmd, tool, unreaped, data, did, canswer>>

\* Mutant: only an abnormal end of the child is an error.
StatusUnchecked(c) == c = "signalled"

\* WIFEXITED and WEXITSTATUS.
StatusError(c) == c # "ok"

\* ga_wait_child, which reaps the child, and what the command makes of the
\* status.  A mode of suspend that is supported is entered by a second child,
\* of guest_suspend.  Where SIGCHLD is ignored, the kernel reaps the child and
\* waitpid fails once it has gone.
ga_wait_child ==
    /\ cpc = "wait" /\ child # "running" /\ child' = "none"
    /\ \/ Failing("wait") /\ ChildReturn("wait")
       \/ StatusError(child) /\ ChildReturn("status")
       \/ /\ ~StatusError(child) /\ tool = "pm-is-supported"
          /\ tool' = "pm-suspend" /\ cpc' = "fork"
          /\ UNCHANGED <<cmd, data, canswer>>
       \/ /\ ~StatusError(child) /\ tool # "pm-is-supported"
          /\ ChildReturn("none")
    /\ UNCHANGED <<unreaped, did>>

ChildStart ==
    \/ qmp_guest_shutdown \/ qmp_guest_set_time \/ qmp_guest_suspend
    \/ qmp_guest_set_user_password

ChildStep ==
    SetSystemTime \/ MakePipe \/ Fork \/ WritePassword \/ ga_wait_child

-----------------------------------------------------------------------------
(* Properties. *)

ChildTypeOK ==
    /\ cpc \in {"idle", "settimeofday", "pipe", "fork", "write", "wait"}
    /\ cmd \in ChildCmds \cup {"none"}
    /\ cpc = "idle" => cmd = "none" /\ child = "none" /\ data = "none"
    /\ unreaped \in BOOLEAN /\ (unreaped => Failing("tool"))
    /\ tool \in Tools \cup {"none"}
    /\ child \in {"none", "running", "ok", "failed", "signalled"}
    /\ data \in {"none", "open", "line", "eof"}
    /\ did \subseteq Tools \cup {"settimeofday"}

\* What a command is to do, in this order.
Purpose(c) ==
    CASE c = "shutdown" -> {"shutdown"}
      [] c = "set-time" -> {"settimeofday", "hwclock"}
      [] c = "sync-time" -> {"hwclock"}
      [] c = "suspend" -> {"pm-is-supported", "pm-suspend"}
      [] c = "password" -> {"chpasswd"}
      [] OTHER -> {}

\* A command that reports success has had all of its effects, those of a child
\* process included.  One that reports an error has not: what it did last is
\* missing - unless only the wait itself has failed - while an earlier effect
\* may be there, such as a system clock already set when hwclock fails.
Truthful ==
    canswer.cmd # "none" =>
        /\ canswer.err = "none" => did = Purpose(canswer.cmd)
        /\ canswer.err \notin {"none", "wait"} => did # Purpose(canswer.cmd)
=============================================================================
