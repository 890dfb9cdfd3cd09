------------------------------ MODULE Commands ------------------------------
(***************************************************************************)
(* The agent's commands on devices (SysDevices) and those that wait for a  *)
(* tool (ChildCommands) as the one thread of the agent runs them: the next *)
(* command begins when the answer of the last one is known.                *)
(***************************************************************************)
EXTENDS SysDevices, ChildCommands

vars == <<sysVars, childVars>>

Init == SysInit /\ ChildInit

\* The last answer, and the history that belongs to it, are of no interest to
\* a command of the other kind.
ForgetChild ==
    /\ cpc = "idle" /\ did' = {} /\ canswer' = NoChildAnswer
    /\ UNCHANGED <<cpc, cmd, tool, child, unreaped, data>>

ForgetSys ==
    /\ dpc = "idle" /\ danswer' = NoSysAnswer
    /\ before' = [cpus |-> cpus, blocks |-> blocks] /\ disturbed' = {}
    /\ UNCHANGED <<cpus, blocks, memdir, dpc, list, results, local_err>>

SysCommand == SysStart /\ ForgetChild
ChildCommand == ChildStart /\ ForgetSys
SysStepOnly == SysStep /\ UNCHANGED childVars
ChildStepOnly == ChildStep /\ UNCHANGED sysVars
Tool == (ToolSucceeds \/ ToolFails) /\ UNCHANGED sysVars
Others == Hotplug /\ UNCHANGED childVars

Next ==
    \/ SysCommand \/ ChildCommand \/ SysStepOnly \/ ChildStepOnly
    \/ Tool \/ Others

Spec == Init /\ [][Next]_vars

\* The thread of the agent runs, and a tool that can finish does.  That a tool
\* fails, and what others do with the devices, is never needed.
FairSpec ==
    /\ Spec
    /\ WF_vars(SysStepOnly) /\ WF_vars(ChildStepOnly)
    /\ WF_vars(ToolSucceeds /\ UNCHANGED sysVars)

-----------------------------------------------------------------------------
(* Properties. *)

\* Type invariant.  An agent that is idle has no pipe open and no child running
\* or to be waited for, except that it never waits for a chpasswd that has
\* ended before its input was written (qmp_guest_set_user_password): one that
\* has failed.
TypeOK == SysTypeOK /\ ChildTypeOK

Busy == cpc # "idle" \/ dpc \notin {"idle", "aborted"}

\* Every command comes to its end, so that the one thread is there for the
\* next: a loop over devices that change is finite, and the agent never waits
\* for a child that waits for the agent.
CommandsEnd == Busy ~> ~Busy
=============================================================================
