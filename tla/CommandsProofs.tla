--------------------------- MODULE CommandsProofs ---------------------------
(***************************************************************************)
(* Proofs about Commands for every number of processors, every set of      *)
(* memory blocks and of faults, lists and hot-plugs of any length: what a  *)
(* client is told of its devices, and of the tools that the agent ran for  *)
(* it, is what has become of them.  ChildInv says what a command has done  *)
(* at each place of its code, SysInv what its loop has done to the devices *)
(* so far.                                                                 *)
(***************************************************************************)
EXTENDS Commands, ListLemmas

\* What a command has done before the tool that it runs now.
Earlier(c, t) ==
    IF c = "set-time" THEN {"settimeofday"}
    ELSE IF t = "pm-suspend" THEN {"pm-is-supported"} ELSE {}

\* The tools of each command.
ToolOf ==
    /\ cmd = "shutdown" => tool = "shutdown"
    /\ cmd \in {"set-time", "sync-time"} => tool = "hwclock"
    /\ cmd = "suspend" => tool \in {"pm-is-supported", "pm-suspend"}
    /\ cmd = "password" => tool = "chpasswd"
    /\ cmd = "none" <=> tool = "none"
    /\ cmd = "none" <=> cpc = "idle"

\* How far it has come.
Progress ==
    /\ cpc \in {"idle", "settimeofday", "pipe", "fork"} => child = "none"
    /\ cpc = "settimeofday" => cmd = "set-time" /\ did = {}
    /\ cpc = "pipe" => cmd = "password" /\ did = {}
    /\ cpc \in {"fork", "write", "wait"} =>
          did = Earlier(cmd, tool) \cup (IF child = "ok" THEN {tool} ELSE {})
    /\ cpc \in {"write", "wait"} => child # "none"
    /\ child \in {"failed", "signalled"} => Failing("tool")
    /\ cpc = "fork" /\ cmd = "password" => data = "open"
    /\ cpc = "write" => cmd = "password" /\ data = "open" /\ child # "ok"
    /\ cpc # "idle" => canswer.cmd = "none"

ChildInv == ChildTypeOK /\ ToolOf /\ Progress /\ Truthful

\* The devices, now and when the command began.
TypeDevices ==
    /\ cpus \in [CpuIds -> DeviceStates] /\ blocks \in [Blocks -> DeviceStates]
    /\ before \in [cpus : [CpuIds -> DeviceStates],
                   blocks : [Blocks -> DeviceStates]]
    /\ dpc \in {"idle", "set-vcpus", "get-vcpus", "set-blocks", "get-blocks",
                "aborted"}

TypeSysFlags == memdir \in BOOLEAN /\ local_err \in BOOLEAN

Names == {"success", "not-found", "operation-not-supported",
          "operation-failed"}
Responses == [id : Blocks, online : BOOLEAN, response : Names, code : BOOLEAN]

\* What each command walks over and collects.
Lists ==
    /\ dpc = "set-vcpus" =>
          list \in Seq(Nodes(CpuIds)) /\ results \in Seq(Nodes(CpuIds))
    /\ dpc = "get-vcpus" =>
          list \in Seq(CpuIds)
          /\ results \in Seq([id : CpuIds, state : DeviceStates])
    /\ dpc = "set-blocks" =>
          list \in Seq(Nodes(Blocks)) /\ results \in Seq(Responses)
    /\ dpc \in {"get-blocks", "aborted"} =>
          list \in Seq(Blocks)
          /\ results \in Seq([id : Blocks, state : DeviceStates])
    /\ dpc = "idle" => list = <<>> /\ results = <<>>
    /\ Len(results) <= Len(list)

\* What the loop over the processors has done so far.
VcpusSoFar ==
    dpc = "set-vcpus" =>
        \A c \in CpuIds : c \notin disturbed =>
            cpus[c] = After(before.cpus, results, DOMAIN results)[c]

\* What the loop over the memory blocks has done so far.
BlocksSoFar ==
    dpc = "set-blocks" =>
        /\ \A b \in Blocks : b \notin disturbed =>
              blocks[b] = After(before.blocks, results, Successes(results))[b]
        /\ \A k \in DOMAIN results :
              results[k].response # "success" => results[k].code = TRUE

\* While a command runs there is no answer.
Unanswered == dpc # "idle" => danswer.cmd = "none"

SysInv ==
    /\ TypeDevices /\ TypeSysFlags /\ Lists /\ Unanswered
    /\ VcpusSoFar /\ BlocksSoFar /\ DevicesAsAnswered

\* The inductive invariant.
CommandsInv == SysInv /\ ChildInv
-----------------------------------------------------------------------------
(* Commands that wait for a tool. *)

\* What each command is for.
LEMMA PurposeIs ==
    /\ Purpose("shutdown") = {"shutdown"}
    /\ Purpose("set-time") = {"settimeofday", "hwclock"}
    /\ Purpose("sync-time") = {"hwclock"}
    /\ Purpose("suspend") = {"pm-is-supported", "pm-suspend"}
    /\ Purpose("password") = {"chpasswd"}
BY Zenon DEF Purpose

\* A command that has done nothing has not done what it is for, nor has one
\* that has done only what comes before its tool; with it, the last tool has.
LEMMA PurposeNeedsTool ==
    ASSUME ChildTypeOK, ToolOf, cmd # "none"
    PROVE  /\ {} # Purpose(cmd)
           /\ Earlier(cmd, tool) # Purpose(cmd)
           /\ tool # "pm-is-supported" =>
                 Earlier(cmd, tool) \cup {tool} = Purpose(cmd)
BY PurposeIs DEF ChildTypeOK, ToolOf, Earlier, ChildCmds

\* The end of a command that has told the truth.
LEMMA ReturnKeeps ==
    ASSUME ChildInv, cpc # "idle", UNCHANGED did, child' = "none",
           unreaped' = unreaped \/ (unreaped' = TRUE /\ Failing("tool")),
           NEW err, ChildReturn(err),
           err = "none" => did = Purpose(cmd),
           err \notin {"none", "wait"} => did # Purpose(cmd)
    PROVE  ChildInv'
<1>1. canswer'.cmd = cmd /\ canswer'.err = err
  BY DEF ChildReturn, ChildAnswer
<1>2. Truthful'
  BY <1>1 DEF Truthful
<1>3. ChildTypeOK' /\ ToolOf' /\ Progress'
  <2>1. unreaped' \in BOOLEAN /\ (unreaped' => Failing("tool"))
    <3>1. unreaped \in BOOLEAN /\ (unreaped => Failing("tool"))
      BY Zenon DEF ChildInv, ChildTypeOK
    <3>2. CASE unreaped' = unreaped
      BY <3>1, <3>2
    <3>3. CASE unreaped' = TRUE /\ Failing("tool")
      BY <3>3
    <3>4. QED
      BY <3>2, <3>3
  <2>2. QED
    BY <2>1 DEF ChildInv, ChildTypeOK, ToolOf, Progress, ChildReturn
<1>4. QED
  BY <1>2, <1>3 DEF ChildInv

\* A command that starts, or is refused.
LEMMA ChildStartKeeps == ChildInv /\ ChildStart => ChildInv'
<1> SUFFICES ASSUME ChildInv, ChildStart PROVE ChildInv'
  OBVIOUS
<1>1. ASSUME NEW c, NEW pc, NEW t, Dispatch(c, pc, t),
             \/ c = "shutdown" /\ pc = "fork" /\ t = "shutdown"
             \/ c = "set-time" /\ pc = "settimeofday" /\ t = "hwclock"
             \/ c = "sync-time" /\ pc = "fork" /\ t = "hwclock"
             \/ c = "suspend" /\ pc = "fork" /\ t = "pm-is-supported"
             \/ c = "password" /\ pc = "pipe" /\ t = "chpasswd"
      PROVE  ChildInv'
  <2>1. canswer'.cmd = "none"
    BY <1>1 DEF Dispatch, NoChildAnswer, ChildAnswer
  <2>2. Truthful'
    BY <2>1 DEF Truthful
  <2>3. ChildTypeOK' /\ ToolOf' /\ Progress'
    BY <1>1, <2>1 DEF ChildInv, ChildTypeOK, ToolOf, Progress, Dispatch,
       ChildCmds, Tools, Earlier
  <2>4. QED
    BY <2>2, <2>3 DEF ChildInv
<1>2. ASSUME NEW c \in {"shutdown", "set-time", "password"}, Refuse(c)
      PROVE  ChildInv'
  <2>1. canswer'.cmd = c /\ canswer'.err = "argument" /\ did' = {}
    BY <1>2 DEF Refuse, ChildAnswer
  <2>2. Truthful'
    BY <2>1, PurposeIs DEF Truthful
  <2>3. ChildTypeOK' /\ ToolOf' /\ Progress'
    BY <1>2 DEF ChildInv, ChildTypeOK, ToolOf, Progress, Refuse
  <2>4. QED
    BY <2>2, <2>3 DEF ChildInv
<1>3. CASE qmp_guest_shutdown
  BY <1>1, <1>2, <1>3, Zenon DEF qmp_guest_shutdown
<1>4. CASE qmp_guest_set_time
  BY <1>1, <1>2, <1>4, Zenon DEF qmp_guest_set_time
<1>5. CASE qmp_guest_suspend
  BY <1>1, <1>5, Zenon DEF qmp_guest_suspend
<1>6. CASE qmp_guest_set_user_password
  BY <1>1, <1>2, <1>6, Zenon DEF qmp_guest_set_user_password
<1>7. QED
  BY <1>3, <1>4, <1>5, <1>6 DEF ChildStart

\* What the agent does for a command up to its answer.
LEMMA ChildStepKeeps == ChildInv /\ ChildStep => ChildInv'
<1> SUFFICES ASSUME ChildInv, ChildStep PROVE ChildInv'
  OBVIOUS
<1> USE DEF ChildInv
<1>1. CASE SetSystemTime
  <2>1. CASE ChildReturn("settimeofday") /\ UNCHANGED did
    <3>1. /\ did = {} /\ cmd # "none" /\ child' = "none"
          /\ UNCHANGED unreaped
      BY <1>1 DEF SetSystemTime, Progress
    <3>2. QED
      BY <1>1, <2>1, <3>1, ReturnKeeps, PurposeNeedsTool DEF SetSystemTime
  <2>2. CASE /\ did' = {"settimeofday"} /\ cpc' = "fork"
             /\ UNCHANGED <<cmd, tool, data, canswer>>
    BY <1>1, <2>2 DEF SetSystemTime, ChildTypeOK, ToolOf, Progress, Truthful,
       Earlier
  <2>3. QED
    BY <1>1, <2>1, <2>2 DEF SetSystemTime
<1>2. CASE MakePipe
  <2>1. ASSUME NEW e \in {"path", "pipe"}, ChildReturn(e) PROVE ChildInv'
    <3>1. /\ did = {} /\ cmd # "none" /\ child' = "none"
          /\ UNCHANGED <<did, unreaped>>
      BY <1>2 DEF MakePipe, Progress
    <3>2. QED
      BY <1>2, <2>1, <3>1, ReturnKeeps, PurposeNeedsTool DEF MakePipe
  <2>2. CASE data' = "open" /\ cpc' = "fork"
             /\ UNCHANGED <<cmd, tool, canswer>>
    BY <1>2, <2>2 DEF MakePipe, ChildTypeOK, ToolOf, Progress, Truthful,
       Earlier
  <2>3. QED
    BY <1>2, <2>1, <2>2 DEF MakePipe
<1>3. CASE Fork
  <2>1. CASE ChildReturn("fork") /\ UNCHANGED child
    <3>1. /\ did = Earlier(cmd, tool) /\ cmd # "none" /\ child' = "none"
          /\ UNCHANGED <<did, unreaped>>
      BY <1>3, <2>1 DEF Fork, Progress, ToolOf
    <3>2. QED
      BY <1>3, <2>1, <3>1, ReturnKeeps, PurposeNeedsTool DEF Fork
  <2>2. CASE /\ child' = "running"
             /\ cpc' = (IF tool = "chpasswd" THEN "write" ELSE "wait")
             /\ UNCHANGED <<cmd, tool, canswer, data>>
    BY <1>3, <2>2 DEF Fork, ChildTypeOK, ToolOf, Progress, Truthful, Earlier,
       ChildCmds
  <2>3. QED
    BY <1>3, <2>1, <2>2 DEF Fork
<1>4. CASE WritePassword
  <2>1. CASE /\ child # "running" /\ ChildReturn("write")
             /\ child' = "none" /\ unreaped' = TRUE
    <3>1. /\ did = Earlier(cmd, tool) /\ cmd # "none" /\ UNCHANGED did
          /\ Failing("tool")
      BY <1>4, <2>1 DEF WritePassword, Progress, ToolOf, ChildTypeOK
    <3>2. QED
      BY <1>4, <2>1, <3>1, ReturnKeeps, PurposeNeedsTool DEF WritePassword
  <2>2. CASE /\ child = "running" /\ data' = Closed /\ cpc' = "wait"
             /\ UNCHANGED <<cmd, tool, child, unreaped, canswer>>
    BY <1>4, <2>2 DEF WritePassword, ChildTypeOK, ToolOf, Progress, Truthful,
       Earlier, Closed
  <2>3. QED
    BY <1>4, <2>1, <2>2 DEF WritePassword
<1>5. CASE ga_wait_child
  <2>1. /\ cpc = "wait" /\ child # "running" /\ cmd # "none"
        /\ child' = "none" /\ UNCHANGED <<did, unreaped>>
        /\ did = Earlier(cmd, tool) \cup (IF child = "ok" THEN {tool} ELSE {})
    BY <1>5 DEF ga_wait_child, Progress, ToolOf
  <2>2. CASE ChildReturn("wait")
    BY <2>1, <2>2, ReturnKeeps
  <2>3. CASE StatusError(child) /\ ChildReturn("status")
    BY <2>1, <2>3, ReturnKeeps, PurposeNeedsTool DEF StatusError
  <2>4. CASE ~StatusError(child) /\ tool # "pm-is-supported"
             /\ ChildReturn("none")
    BY <2>1, <2>4, ReturnKeeps, PurposeNeedsTool DEF StatusError
  <2>5. CASE /\ ~StatusError(child) /\ tool = "pm-is-supported"
             /\ tool' = "pm-suspend" /\ cpc' = "fork"
             /\ UNCHANGED <<cmd, data, canswer>>
    BY <2>1, <2>5 DEF StatusError, ChildTypeOK, ToolOf, Progress, Truthful,
       Earlier, ChildCmds, Tools
  <2>6. QED
    BY <1>5, <2>2, <2>3, <2>4, <2>5 DEF ga_wait_child
<1>6. QED
  BY <1>1, <1>2, <1>3, <1>4, <1>5 DEF ChildStep

\* What the tool does, at any time while it runs.
LEMMA ToolKeeps == ChildInv /\ (ToolSucceeds \/ ToolFails) => ChildInv'
<1> SUFFICES ASSUME ChildInv, ToolSucceeds \/ ToolFails PROVE ChildInv'
  OBVIOUS
<1> USE DEF ChildInv, ChildTypeOK, ToolOf, Progress, Truthful, Tools
<1>1. CASE ToolSucceeds
  BY <1>1 DEF ToolSucceeds
<1>2. CASE ToolFails
  BY <1>2 DEF ToolFails
<1>3. QED
  BY <1>1, <1>2

-----------------------------------------------------------------------------
(* Lists of devices. *)

\* The list all goes on from rs with a node that decides about the device it
\* names, and about no other.
Decides(s, d, rs, all, n, ks) ==
    /\ After(s, all, ks)[d] = After(s, rs, ks)[d]
    /\ all[n + 1].id # d =>
          After(s, all, ks \cup {n + 1})[d] = After(s, rs, ks)[d]
    /\ all[n + 1].id = d =>
          After(s, all, ks \cup {n + 1})[d]
          = IF s[d] = "fixed" THEN s[d] ELSE Switched(all[n + 1].online)

\* The last node of a list is the one that decides.
LEMMA AfterNext ==
    ASSUME NEW s, NEW d \in DOMAIN s, NEW rs, NEW all, NEW n \in Nat,
           NEW ks \in SUBSET (1 .. n), \A k \in ks : all[k] = rs[k]
    PROVE  Decides(s, d, rs, all, n, ks)
<1> DEFINE own == {k \in ks : rs[k].id = d}
           own2 == {k \in ks \cup {n + 1} : all[k].id = d}
<1>1. {k \in ks : all[k].id = d} = own
  OBVIOUS
<1>2. own \subseteq 1 .. n /\ own \subseteq ks
  BY Zenon
<1>3. own # {} => all[Max(own)] = rs[Max(own)]
  <2>1. own # {} => Max(own) \in own
    BY <1>2, LastPlace, Zenon
  <2> QED
    BY <1>2, <2>1
<1>4. all[n + 1].id # d => own2 = own
  OBVIOUS
<1>5. all[n + 1].id = d => n + 1 \in own2 /\ own2 \subseteq 1 .. n + 1
  <2>1. \A k \in ks \cup {n + 1} : k \in 1 .. n + 1
    <3>1. n + 1 \in 1 .. n + 1 /\ \A k \in 1 .. n : k \in 1 .. n + 1
      OBVIOUS
    <3> QED
      BY <3>1, Zenon
  <2>2. own2 \subseteq ks \cup {n + 1}
    OBVIOUS
  <2>3. all[n + 1].id = d => n + 1 \in own2
    OBVIOUS
  <2> QED
    BY <2>1, <2>2, <2>3, Zenon
<1>6. all[n + 1].id = d => Max(own2) = n + 1
  <2> HAVE all[n + 1].id = d
  <2> HIDE DEF own2
  <2>1. n + 1 \in Nat /\ own2 # {}
    BY <1>5
  <2>2. Max(own2) \in own2 /\ \A k \in own2 : Max(own2) >= k
    BY <1>5, <2>1, LastPlace, Zenon
  <2> QED
    BY <1>5, <2>2
<1>7. After(s, all, ks)[d] = After(s, rs, ks)[d]
  BY <1>1, <1>3 DEF After
<1>8. After(s, all, ks \cup {n + 1})[d] =
          IF own2 = {} \/ s[d] = "fixed" THEN s[d]
          ELSE Switched(all[Max(own2)].online)
  BY Zenon DEF After
<1>9. After(s, rs, ks)[d] =
          IF own = {} \/ s[d] = "fixed" THEN s[d]
          ELSE Switched(rs[Max(own)].online)
  BY Zenon DEF After
<1> HIDE DEF own, own2
<1> QED
  BY <1>3, <1>4, <1>5, <1>6, <1>7, <1>8, <1>9 DEF Decides

\* A switched device has one of the states.
LEMMA SwitchedState ==
    \A online \in BOOLEAN : /\ Switched(online) \in DeviceStates
                            /\ Switched(online) # "fixed"
BY DEF Switched, DeviceStates

\* What a device in state cur, which the nodes rs have left, becomes by the
\* next node is what the longer list makes of it.
Follows(s, d, rs, all, n, ks, cur) ==
    After(s, all, ks \cup {n + 1})[d] =
        IF all[n + 1].id # d THEN cur
        ELSE IF cur = "fixed" THEN "fixed" ELSE Switched(all[n + 1].online)

\* Devices that have become what the list says, and do the next node, still
\* are: a device that cannot be switched is one that never could.
LEMMA NextEffect ==
    ASSUME NEW s, NEW d \in DOMAIN s, NEW rs, NEW all, NEW n \in Nat,
           NEW ks \in SUBSET (1 .. n), \A k \in ks : all[k] = rs[k],
           \A k \in ks : rs[k].online \in BOOLEAN,
           NEW cur, cur = After(s, rs, ks)[d]
    PROVE  Follows(s, d, rs, all, n, ks, cur)
<1> DEFINE own == {k \in ks : rs[k].id = d}
           new == After(s, all, ks \cup {n + 1})[d]
<1>1. cur = IF own = {} \/ s[d] = "fixed" THEN s[d]
            ELSE Switched(rs[Max(own)].online)
  BY Zenon DEF After
<1>2. own # {} => Max(own) \in ks
  <2>1. own \subseteq 1 .. n /\ own \subseteq ks
    BY Zenon
  <2> QED
    BY <2>1, LastPlace, Zenon
<1>3. own # {} => Switched(rs[Max(own)].online) # "fixed"
  BY <1>2, SwitchedState, Zenon
<1>4. cur = "fixed" <=> s[d] = "fixed"
  BY <1>1, <1>3, Zenon
<1>5. /\ all[n + 1].id # d => new = cur
      /\ all[n + 1].id = d =>
            new = IF s[d] = "fixed" THEN s[d] ELSE Switched(all[n + 1].online)
  <2>1. Decides(s, d, rs, all, n, ks)
    BY AfterNext, Zenon
  <2> QED
    BY <2>1, Zenon DEF Decides
<1> HIDE DEF new
<1>6. new = IF all[n + 1].id # d THEN cur
            ELSE IF cur = "fixed" THEN "fixed" ELSE Switched(all[n + 1].online)
  BY <1>4, <1>5, Zenon
<1> QED
  BY <1>6 DEF new, Follows

\* What transfer_vcpu makes of a processor: all or nothing.
LEMMA TransferVcpu ==
    ASSUME NEW s \in DeviceStates, NEW online \in BOOLEAN,
           NEW r \in transfer_vcpu(s, online)
    PROVE  \/ r.err = TRUE /\ r.state = s
           \/ r.err = FALSE
              /\ r.state = IF s = "fixed" THEN s ELSE Switched(online)
<1>1. \/ r = [state |-> s, err |-> TRUE]
      \/ s = "fixed" /\ r = [state |-> s, err |-> FALSE]
      \/ s # "fixed" /\ r = [state |-> Switched(online), err |-> FALSE]
  BY Zenon DEF transfer_vcpu
<1>2. CASE r = [state |-> s, err |-> TRUE]
  BY <1>2, Zenon
<1>3. CASE s = "fixed" /\ r = [state |-> s, err |-> FALSE]
  BY <1>3, Zenon
<1>4. CASE s # "fixed" /\ r = [state |-> Switched(online), err |-> FALSE]
  BY <1>4, Zenon
<1> QED
  BY <1>1, <1>2, <1>3, <1>4

\* What transfer_memory_block makes of a block, and says about it.
LEMMA TransferMemoryBlock ==
    ASSUME NEW s \in DeviceStates, NEW online \in BOOLEAN,
           NEW r \in transfer_memory_block(s, online)
    PROVE  /\ r.response \in Names /\ r.code \in BOOLEAN
           /\ \/ r.response # "success" /\ r.code = TRUE /\ r.state = s
              \/ r.response = "success"
                 /\ r.state = IF s = "fixed" THEN s ELSE Switched(online)
<1>1. \/ r = Outcome(s, "not-found", TRUE)
      \/ s = "fixed" /\ r = Outcome(s, "success", TRUE)
      \/ r = Outcome(s, "operation-not-supported", TRUE)
      \/ s # "fixed" /\ r = Outcome(Switched(online), "success", FALSE)
      \/ r = Outcome(s, "operation-failed", TRUE)
  BY Zenon DEF transfer_memory_block
<1>2. ASSUME NEW name \in Names, name # "success", r = Outcome(s, name, TRUE)
      PROVE  r.response = name /\ r.code = TRUE /\ r.state = s
  BY <1>2, Zenon DEF Outcome
<1>3. CASE s = "fixed" /\ r = Outcome(s, "success", TRUE)
  BY <1>3, Zenon DEF Outcome, Names
<1>4. CASE s # "fixed" /\ r = Outcome(Switched(online), "success", FALSE)
  BY <1>4, Zenon DEF Outcome, Names
<1>5. CASE \E name \in Names \ {"success"} : r = Outcome(s, name, TRUE)
  BY <1>2, <1>5, Zenon
<1>6. \A name \in {"not-found", "operation-not-supported",
                   "operation-failed"} : name \in Names \ {"success"}
  BY DEF Names
<1> QED
  BY <1>1, <1>3, <1>4, <1>5, <1>6, Zenon

\* One step of the loop over the processors.
LEMMA SetVcpuStep ==
    ASSUME SysInv, SetVcpu
    PROVE  /\ dpc = "set-vcpus" /\ Current \in Nodes(CpuIds)
           /\ Len(results) < Len(list)
           /\ \/ /\ results' = results /\ cpus' = cpus /\ local_err' = TRUE
              \/ /\ results' = Append(results, Current) /\ local_err' = FALSE
                 /\ cpus' = [cpus EXCEPT ![Current.id] =
                        IF cpus[Current.id] = "fixed" THEN "fixed"
                        ELSE Switched(Current.online)]
<1>1. /\ dpc = "set-vcpus" /\ Len(results) < Len(list)
      /\ list \in Seq(Nodes(CpuIds)) /\ results \in Seq(Nodes(CpuIds))
  BY DEF SetVcpu, Walking, SysInv, Lists
<1>2. Current \in Nodes(CpuIds)
  BY <1>1 DEF Current
<1>3. Current.id \in CpuIds /\ Current.online \in BOOLEAN
  BY <1>2, Zenon DEF Nodes
<1>4. cpus[Current.id] \in DeviceStates
  BY <1>3 DEF SysInv, TypeDevices
<1>5. PICK r \in transfer_vcpu(cpus[Current.id], Current.online) :
          /\ cpus' = [cpus EXCEPT ![Current.id] = r.state]
          /\ local_err' = r.err
          /\ results' = IF r.err THEN results ELSE Append(results, Current)
  BY Zenon DEF SetVcpu
<1>6. CASE r.err = TRUE /\ r.state = cpus[Current.id]
  <2>1. local_err' = TRUE /\ results' = results
    BY <1>5, <1>6, Zenon
  <2>2. cpus' = cpus
    BY <1>5, <1>6, <1>3 DEF SysInv, TypeDevices
  <2> QED
    BY <1>1, <1>2, <2>1, <2>2, Zenon
<1>7. CASE /\ r.err = FALSE
           /\ r.state = IF cpus[Current.id] = "fixed" THEN cpus[Current.id]
                        ELSE Switched(Current.online)
  <2>1. local_err' = FALSE /\ results' = Append(results, Current)
    BY <1>5, <1>7, Zenon
  <2>2. r.state = IF cpus[Current.id] = "fixed" THEN "fixed"
                  ELSE Switched(Current.online)
    BY <1>7, Zenon
  <2>3. cpus' = [cpus EXCEPT ![Current.id] =
                     IF cpus[Current.id] = "fixed" THEN "fixed"
                     ELSE Switched(Current.online)]
    BY <1>5, <2>2, Zenon
  <2> QED
    BY <1>1, <1>2, <2>1, <2>3, Zenon
<1> QED
  BY <1>3, <1>4, <1>5, <1>6, <1>7, TransferVcpu, Zenon

\* While a command runs nothing is claimed about the devices.
LEMMA NothingClaimed ==
    ASSUME danswer.cmd \notin {"set-vcpus", "set-blocks"}
    PROVE  DevicesAsAnswered
BY DEF DevicesAsAnswered, SetVcpusExact, SetBlocksExact

\* The loop over the processors keeps the invariant.
LEMMA SetVcpuKeeps == SysInv /\ SetVcpu => SysInv'
<1> SUFFICES ASSUME SysInv, SetVcpu PROVE SysInv'
  OBVIOUS
<1> DEFINE c == Current.id
           now == IF cpus[c] = "fixed" THEN "fixed"
                  ELSE Switched(Current.online)
<1>1. /\ dpc = "set-vcpus" /\ Current \in Nodes(CpuIds)
      /\ Len(results) < Len(list)
      /\ \/ /\ results' = results /\ cpus' = cpus /\ local_err' = TRUE
         \/ /\ results' = Append(results, Current) /\ local_err' = FALSE
            /\ cpus' = [cpus EXCEPT ![c] = now]
  BY SetVcpuStep
<1>2. UNCHANGED <<blocks, memdir, dpc, list, danswer, before, disturbed>>
  BY DEF SetVcpu
<1>3. c \in CpuIds /\ Current.online \in BOOLEAN
  BY <1>1, Zenon DEF Nodes
<1>4. now \in DeviceStates
  BY <1>3, SwitchedState DEF DeviceStates
<1>5. TypeDevices'
  <2> HIDE DEF c, now
  <2> QED
    BY <1>1, <1>2, <1>3, <1>4 DEF SysInv, TypeDevices
<1>6. TypeSysFlags'
  BY <1>1, <1>2, Zenon DEF SysInv, TypeSysFlags
<1>7. list \in Seq(Nodes(CpuIds)) /\ results \in Seq(Nodes(CpuIds))
  BY <1>1 DEF SysInv, Lists
<1>8. Lists'
  <2>1. results' \in Seq(Nodes(CpuIds)) /\ Len(results') <= Len(list)
    <3> HIDE DEF now
    <3> QED
      BY <1>1, <1>7
  <2> QED
    BY <1>1, <1>2, <1>7, <2>1 DEF Lists
<1>9. danswer'.cmd = "none"
  BY <1>1, <1>2 DEF SysInv, Unanswered
<1>10. Unanswered' /\ BlocksSoFar' /\ DevicesAsAnswered'
  <2>1. DevicesAsAnswered'
    BY <1>9, NothingClaimed
       DEF DevicesAsAnswered, SetVcpusExact, SetBlocksExact
  <2> QED
    BY <1>1, <1>2, <1>9, <2>1 DEF Unanswered, BlocksSoFar
<1>11. VcpusSoFar'
  <2>1. CASE results' = results /\ cpus' = cpus
    BY <1>2, <2>1 DEF SysInv, VcpusSoFar
  <2>2. CASE results' = Append(results, Current)
             /\ cpus' = [cpus EXCEPT ![c] = now]
    <3> SUFFICES ASSUME NEW d \in CpuIds, d \notin disturbed
                 PROVE  cpus'[d] = After(before.cpus, Append(results, Current),
                                     DOMAIN Append(results, Current))[d]
      BY <1>2, <2>2, Zenon DEF VcpusSoFar
    <3> DEFINE n == Len(results)
    <3>1. /\ DOMAIN results = 1 .. n /\ n \in Nat
          /\ DOMAIN Append(results, Current) = (1 .. n) \cup {n + 1}
      BY <1>1, <1>7
    <3>2. cpus[d] = After(before.cpus, results, 1 .. n)[d]
      BY <1>1, <3>1, Zenon DEF SysInv, VcpusSoFar
    <3>3. d \in DOMAIN before.cpus
      BY DEF SysInv, TypeDevices
    <3>4. \A k \in 1 .. n : results[k].online \in BOOLEAN
      <4>1. \A k \in 1 .. n : results[k] \in Nodes(CpuIds)
        BY <1>7
      <4> QED
        BY <4>1, Zenon DEF Nodes
    <3>5. cpus'[d] = IF Current.id = d THEN now ELSE cpus[d]
      <4> HIDE DEF now
      <4> QED
        BY <1>3, <2>2 DEF SysInv, TypeDevices
    <3>6. cpus'[d] = IF Current.id # d THEN cpus[d]
                     ELSE IF cpus[d] = "fixed" THEN "fixed"
                     ELSE Switched(Current.online)
      BY <3>5, Zenon
    <3>7. After(before.cpus, Append(results, Current),
                (1 .. n) \cup {n + 1})[d]
          = IF Current.id # d THEN cpus[d]
            ELSE IF cpus[d] = "fixed" THEN "fixed"
            ELSE Switched(Current.online)
      <4> DEFINE all == Append(results, Current)
      <4>1. all[n + 1] = Current /\ \A k \in 1 .. n : all[k] = results[k]
        BY <1>1, <1>7
      <4>2. 1 .. n \in SUBSET (1 .. n)
        OBVIOUS
      <4> HIDE DEF all
      <4>3. Follows(before.cpus, d, results, all, n, 1 .. n, cpus[d])
        BY <3>1, <3>2, <3>3, <3>4, <4>1, <4>2, NextEffect, Zenon
      <4> QED
        BY <4>1, <4>3, Zenon DEF all, Follows
    <3> QED
      BY <3>1, <3>6, <3>7, Zenon
  <2> QED
    BY <1>1, <2>1, <2>2
<1> QED
  BY <1>5, <1>6, <1>8, <1>10, <1>11 DEF SysInv

\* What the loop over the blocks does for the node at its place, and says of
\* it in its response.
Responded(r) ==
    /\ r \in Responses /\ r.id = Current.id /\ r.online = Current.online
    /\ results' = Append(results, r)
    /\ \/ r.response # "success" /\ r.code = TRUE /\ blocks' = blocks
       \/ /\ r.response = "success"
          /\ blocks' = [blocks EXCEPT ![Current.id] =
                 IF blocks[Current.id] = "fixed" THEN "fixed"
                 ELSE Switched(Current.online)]

\* One step of the loop over the memory blocks.
LEMMA SetBlockStep ==
    ASSUME SysInv, SetBlock
    PROVE  /\ dpc = "set-blocks" /\ Current \in Nodes(Blocks)
           /\ Len(results) < Len(list)
           /\ \E r : Responded(r)
<1>1. /\ dpc = "set-blocks" /\ Len(results) < Len(list)
      /\ list \in Seq(Nodes(Blocks)) /\ results \in Seq(Responses)
  BY DEF SetBlock, Walking, SysInv, Lists
<1>2. Current \in Nodes(Blocks)
  BY <1>1 DEF Current
<1>3. Current.id \in Blocks /\ Current.online \in BOOLEAN
  BY <1>2, Zenon DEF Nodes
<1>4. blocks[Current.id] \in DeviceStates
  BY <1>3 DEF SysInv, TypeDevices
<1> DEFINE from == IF memdir
                   THEN transfer_memory_block(blocks[Current.id],
                                              Current.online)
                   ELSE {Outcome(blocks[Current.id],
                                 "operation-not-supported", TRUE)}
           resp(o) == [id |-> Current.id, online |-> Current.online,
                       response |-> o.response, code |-> o.code]
<1>5. PICK o \in from :
          /\ blocks' = [blocks EXCEPT ![Current.id] = o.state]
          /\ results' = Append(results, resp(o))
  BY Zenon DEF SetBlock
<1>6. /\ o.response \in Names /\ o.code \in BOOLEAN
      /\ \/ o.response # "success" /\ o.code = TRUE
            /\ o.state = blocks[Current.id]
         \/ /\ o.response = "success"
            /\ o.state = IF blocks[Current.id] = "fixed"
                         THEN blocks[Current.id]
                         ELSE Switched(Current.online)
  <2>1. CASE memdir
    BY <1>3, <1>4, <2>1, TransferMemoryBlock, Zenon
  <2>2. CASE ~memdir
    <3>1. o = Outcome(blocks[Current.id], "operation-not-supported", TRUE)
      BY <2>2, Zenon
    <3>2. /\ o.response = "operation-not-supported" /\ o.code = TRUE
          /\ o.state = blocks[Current.id]
      BY <3>1, Zenon DEF Outcome
    <3>3. "operation-not-supported" \in Names \ {"success"}
      BY DEF Names
    <3> QED
      BY <3>2, <3>3, Zenon
  <2> QED
    BY <2>1, <2>2
<1>7. /\ resp(o).id = Current.id /\ resp(o).online = Current.online
      /\ resp(o).response = o.response /\ resp(o).code = o.code
      /\ resp(o) \in Responses
  BY <1>3, <1>6, Zenon DEF Responses
<1>8. o.state = blocks[Current.id] => blocks' = blocks
  BY <1>3, <1>5 DEF SysInv, TypeDevices
<1>9. Responded(resp(o))
  <2> DEFINE r == resp(o)
  <2>1. CASE o.response # "success" /\ o.code = TRUE
             /\ o.state = blocks[Current.id]
    BY <1>5, <1>7, <1>8, <2>1, Zenon DEF Responded
  <2>2. CASE /\ o.response = "success"
             /\ o.state = IF blocks[Current.id] = "fixed"
                          THEN blocks[Current.id]
                          ELSE Switched(Current.online)
    <3>1. o.state = IF blocks[Current.id] = "fixed" THEN "fixed"
                    ELSE Switched(Current.online)
      BY <2>2, Zenon
    <3>2. blocks' = [blocks EXCEPT ![Current.id] =
              IF blocks[Current.id] = "fixed" THEN "fixed"
              ELSE Switched(Current.online)]
      BY <1>5, <3>1, Zenon
    <3> QED
      BY <1>5, <1>7, <2>2, <3>2, Zenon DEF Responded
  <2> QED
    BY <1>6, <2>1, <2>2
<1> QED
  BY <1>1, <1>2, <1>9, Zenon

\* The loop over the memory blocks keeps the invariant.
LEMMA SetBlockKeeps == SysInv /\ SetBlock => SysInv'
<1> SUFFICES ASSUME SysInv, SetBlock PROVE SysInv'
  OBVIOUS
<1> DEFINE c == Current.id
           now == IF blocks[c] = "fixed" THEN "fixed"
                  ELSE Switched(Current.online)
<1>1. /\ dpc = "set-blocks" /\ Current \in Nodes(Blocks)
      /\ Len(results) < Len(list)
  BY SetBlockStep
<1>2. UNCHANGED <<cpus, memdir, dpc, list, local_err, danswer, before,
                  disturbed>>
  BY DEF SetBlock
<1>3. PICK r : Responded(r)
  BY SetBlockStep, Zenon
<1>4. /\ r \in Responses /\ r.id = c /\ r.online = Current.online
      /\ results' = Append(results, r)
      /\ \/ r.response # "success" /\ r.code = TRUE /\ blocks' = blocks
         \/ r.response = "success" /\ blocks' = [blocks EXCEPT ![c] = now]
  BY <1>3, Zenon DEF Responded
<1>5. c \in Blocks /\ Current.online \in BOOLEAN
  BY <1>1, Zenon DEF Nodes
<1>6. now \in DeviceStates
  BY <1>5, SwitchedState DEF DeviceStates
<1>7. TypeDevices'
  <2> HIDE DEF c, now
  <2> QED
    BY <1>2, <1>4, <1>5, <1>6 DEF SysInv, TypeDevices
<1>8. TypeSysFlags'
  BY <1>2, Zenon DEF SysInv, TypeSysFlags
<1>9. list \in Seq(Nodes(Blocks)) /\ results \in Seq(Responses)
  BY <1>1 DEF SysInv, Lists
<1>10. Lists'
  <2>1. results' \in Seq(Responses) /\ Len(results') <= Len(list)
    <3> HIDE DEF now
    <3> QED
      BY <1>1, <1>4, <1>9
  <2> QED
    BY <1>1, <1>2, <1>9, <2>1 DEF Lists
<1>11. danswer'.cmd = "none"
  BY <1>1, <1>2 DEF SysInv, Unanswered
<1>12. Unanswered' /\ VcpusSoFar' /\ DevicesAsAnswered'
  <2>1. DevicesAsAnswered'
    BY <1>11 DEF DevicesAsAnswered, SetVcpusExact, SetBlocksExact
  <2> QED
    BY <1>1, <1>2, <1>11, <2>1 DEF Unanswered, VcpusSoFar
<1>13. BlocksSoFar'
  <2> DEFINE n == Len(results)
             all == Append(results, r)
             ks == Successes(results)
  <2>1. /\ n \in Nat /\ DOMAIN results = 1 .. n
        /\ DOMAIN all = 1 .. n + 1 /\ all[n + 1] = r
        /\ \A k \in 1 .. n : all[k] = results[k] /\ results[k] \in Responses
    BY <1>4, <1>9
  <2>2. results' = all
    BY <1>4, Zenon
  <2> HIDE DEF all, now
  <2>3. ks \in SUBSET (1 .. n)
    BY <2>1, Zenon DEF Successes
  <2>4. \A k \in ks : all[k] = results[k] /\ results[k].online \in BOOLEAN
    BY <2>1, <2>3, Zenon DEF Responses
  <2>5. Successes(all) = IF r.response = "success" THEN ks \cup {n + 1} ELSE ks
    BY <2>1 DEF Successes
  <2>6. \A k \in DOMAIN all : all[k].response # "success" => all[k].code = TRUE
    <3>1. \A k \in 1 .. n : results[k].response # "success"
                               => results[k].code = TRUE
      BY <1>1, <2>1, Zenon DEF SysInv, BlocksSoFar
    <3>2. r.response # "success" => r.code = TRUE
      BY <1>4, Zenon
    <3>3. \A k \in DOMAIN all : k = n + 1 \/ k \in 1 .. n
      BY <2>1
    <3> QED
      BY <2>1, <3>1, <3>2, <3>3, Zenon
  <2>7. ASSUME NEW d \in Blocks, d \notin disturbed
        PROVE  blocks'[d] = After(before.blocks, all, Successes(all))[d]
    <3>1. blocks[d] = After(before.blocks, results, ks)[d]
      BY <1>1, <2>7, Zenon DEF SysInv, BlocksSoFar
    <3>2. d \in DOMAIN before.blocks
      BY DEF SysInv, TypeDevices
    <3>3. CASE r.response # "success" /\ blocks' = blocks
      <4>1. Decides(before.blocks, d, results, all, n, ks)
        BY <2>1, <2>3, <2>4, <3>2, AfterNext, Zenon
      <4> QED
        BY <2>5, <3>1, <3>3, <4>1, Zenon DEF Decides
    <3>4. CASE r.response = "success" /\ blocks' = [blocks EXCEPT ![c] = now]
      <4>1. Follows(before.blocks, d, results, all, n, ks, blocks[d])
        BY <2>1, <2>3, <2>4, <3>1, <3>2, NextEffect, Zenon
      <4>2. blocks'[d] = IF c = d THEN now ELSE blocks[d]
        BY <1>5, <3>4 DEF SysInv, TypeDevices
      <4>3. After(before.blocks, all, Successes(all))[d] =
                IF c # d THEN blocks[d]
                ELSE IF blocks[d] = "fixed" THEN "fixed"
                ELSE Switched(Current.online)
        BY <1>4, <2>1, <2>5, <3>4, <4>1, Zenon DEF Follows
      <4> QED
        BY <4>2, <4>3, Zenon DEF now
    <3> QED
      BY <1>4, <3>3, <3>4
  <2> QED
    BY <1>2, <2>2, <2>6, <2>7, Zenon DEF BlocksSoFar
<1> QED
  BY <1>7, <1>8, <1>10, <1>12, <1>13 DEF SysInv

\* A command that has just begun has done nothing.
LEMMA BeginKeeps ==
    ASSUME SysInv, NEW name, NEW input, Begin(name, input),
           \/ name = "set-vcpus" /\ input \in Seq(Nodes(CpuIds))
           \/ name = "get-vcpus" /\ input \in Seq(CpuIds)
           \/ name = "set-blocks" /\ input \in Seq(Nodes(Blocks))
           \/ name = "get-blocks" /\ input \in Seq(Blocks)
    PROVE  SysInv'
<1>1. /\ dpc' = name /\ list' = input /\ results' = <<>>
      /\ before' = [cpus |-> cpus, blocks |-> blocks] /\ disturbed' = {}
      /\ UNCHANGED <<cpus, blocks, memdir>>
  BY DEF Begin
<1>2. local_err' = FALSE /\ memdir' = memdir /\ danswer' = NoSysAnswer
  BY Zenon DEF Begin
<1>3. before'.cpus = cpus /\ before'.blocks = blocks
  BY <1>1
<1>4. TypeDevices'
  BY <1>1 DEF SysInv, TypeDevices
<1>5. TypeSysFlags'
  BY <1>2, Zenon DEF SysInv, TypeSysFlags
<1>6. Len(input) \in Nat
  OBVIOUS
<1>7. Lists'
  BY <1>1, <1>6 DEF Lists
<1>8. danswer'.cmd = "none"
  BY <1>2, Zenon DEF NoSysAnswer, SysAnswer
<1>9. Unanswered' /\ DevicesAsAnswered'
  BY <1>8 DEF Unanswered, DevicesAsAnswered, SetVcpusExact, SetBlocksExact
<1>10. DOMAIN results' = {}
  BY <1>1
<1>11. VcpusSoFar'
  <2> SUFFICES ASSUME NEW c \in CpuIds
               PROVE  cpus'[c]
                        = After(before.cpus, results, DOMAIN results)'[c]
    BY Zenon DEF VcpusSoFar
  <2>1. c \in DOMAIN before'.cpus /\ before'.cpus[c] = cpus'[c]
    BY <1>1, <1>3 DEF SysInv, TypeDevices
  <2> QED
    BY <1>10, <2>1, Zenon DEF After
<1>12. BlocksSoFar'
  <2>1. Successes(results') = {}
    BY <1>10, Zenon DEF Successes
  <2>2. ASSUME NEW b \in Blocks
        PROVE  blocks'[b] = After(before'.blocks, results', {})[b]
    <3>1. b \in DOMAIN before'.blocks /\ before'.blocks[b] = blocks'[b]
      BY <1>1, <1>3 DEF SysInv, TypeDevices
    <3> QED
      BY <3>1, Zenon DEF After
  <2> QED
    BY <1>10, <2>1, <2>2, Zenon DEF BlocksSoFar
<1> QED
  BY <1>4, <1>5, <1>7, <1>9, <1>11, <1>12 DEF SysInv

\* A command that ends with an answer that is right.
LEMMA FinishKeeps ==
    ASSUME SysInv, NEW answer, Finish(answer), DevicesAsAnswered'
    PROVE  SysInv'
<1>1. /\ dpc' = "idle" /\ list' = <<>> /\ results' = <<>>
      /\ UNCHANGED <<cpus, blocks, before>>
  BY DEF Finish
<1>2. local_err' = FALSE /\ memdir' = memdir
  BY Zenon DEF Finish
<1>3. TypeDevices' /\ Lists' /\ Unanswered' /\ VcpusSoFar' /\ BlocksSoFar'
  BY <1>1 DEF SysInv, TypeDevices, Lists, Unanswered, VcpusSoFar, BlocksSoFar
<1>4. TypeSysFlags'
  BY <1>2, Zenon DEF SysInv, TypeSysFlags
<1> QED
  BY <1>3, <1>4 DEF SysInv

\* The answers are right.
LEMMA DoneKeeps ==
    SysInv /\ (SetVcpusDone \/ GetVcpusDone \/ SetBlocksDone \/ GetBlocksDone)
        => SysInv'
<1> SUFFICES ASSUME SysInv,
                    SetVcpusDone \/ GetVcpusDone \/ SetBlocksDone
                    \/ GetBlocksDone
             PROVE  SysInv'
  OBVIOUS
<1>1. ASSUME NEW name \in {"get-vcpus", "get-blocks"}, NEW e, NEW l,
             Finish(SysAnswer(name, e, l))
      PROVE  SysInv'
  <2>1. danswer'.cmd = name
    BY <1>1, Zenon DEF Finish, SysAnswer
  <2>2. DevicesAsAnswered'
    BY <2>1 DEF DevicesAsAnswered, SetVcpusExact, SetBlocksExact
  <2> QED
    BY <1>1, <2>2, FinishKeeps, Zenon
<1>2. CASE SetVcpusDone
  <2>1. dpc = "set-vcpus" /\ Finish(SetVcpusAnswer)
    BY <1>2 DEF SetVcpusDone
  <2>2. /\ danswer'.cmd = "set-vcpus" /\ danswer'.list = results
        /\ danswer'.err = IF local_err /\ results = <<>> THEN TRUE ELSE FALSE
        /\ cpus' = cpus /\ before' = before /\ disturbed' = disturbed
    BY <2>1, Zenon DEF Finish, SetVcpusAnswer, SysAnswer
  <2>3. danswer'.err => danswer'.list = <<>>
    BY <2>2, Zenon
  <2>4. \A c \in CpuIds : c \notin disturbed' =>
            cpus'[c] = After(before'.cpus, danswer'.list,
                             DOMAIN danswer'.list)[c]
    BY <2>1, <2>2, Zenon DEF SysInv, VcpusSoFar
  <2>5. SetVcpusExact'
    BY <2>3, <2>4, Zenon DEF SetVcpusExact
  <2>6. SetBlocksExact'
    BY <2>2 DEF SetBlocksExact
  <2> QED
    BY <2>1, <2>5, <2>6, FinishKeeps, Zenon DEF DevicesAsAnswered
<1>3. CASE SetBlocksDone
  <2>1. /\ dpc = "set-blocks"
        /\ Finish(SysAnswer("set-blocks", FALSE, results))
    BY <1>3 DEF SetBlocksDone, Walked
  <2>2. /\ danswer'.cmd = "set-blocks" /\ danswer'.list = results
        /\ blocks' = blocks /\ before' = before /\ disturbed' = disturbed
    BY <2>1, Zenon DEF Finish, SysAnswer
  <2>3. SetBlocksExact'
    BY <2>1, <2>2, Zenon DEF SysInv, BlocksSoFar, SetBlocksExact
  <2>4. SetVcpusExact'
    BY <2>2 DEF SetVcpusExact
  <2> QED
    BY <2>1, <2>3, <2>4, FinishKeeps, Zenon DEF DevicesAsAnswered
<1>4. CASE GetVcpusDone
  BY <1>1, <1>4, Zenon DEF GetVcpusDone
<1>5. CASE GetBlocksDone
  BY <1>1, <1>5, Zenon DEF GetBlocksDone
<1> QED
  BY <1>2, <1>3, <1>4, <1>5

\* The loops that only look at the devices keep the invariant.
LEMMA GetKeeps == SysInv /\ (GetVcpu \/ GetBlock) => SysInv'
<1> SUFFICES ASSUME SysInv, GetVcpu \/ GetBlock PROVE SysInv'
  OBVIOUS
<1>1. dpc \in {"get-vcpus", "get-blocks"} /\ Len(results) < Len(list)
  BY DEF GetVcpu, GetBlock, Walking
<1>2. UNCHANGED <<cpus, blocks, list, danswer, before, disturbed>>
  BY DEF GetVcpu, GetBlock
<1>3. TypeSysFlags'
  <2>1. memdir' = memdir /\ (local_err' = TRUE \/ local_err' = local_err)
    BY Zenon DEF GetVcpu, GetBlock
  <2> QED
    BY <2>1, Zenon DEF SysInv, TypeSysFlags
<1>4. \/ dpc' = dpc
      \/ dpc = "get-blocks" /\ dpc' = "aborted"
  BY Zenon DEF GetVcpu, GetBlock
<1>5. Lists'
  <2>1. CASE GetVcpu
    <3>1. /\ dpc = "get-vcpus" /\ dpc' = dpc
          /\ list \in Seq(CpuIds)
          /\ results \in Seq([id : CpuIds, state : DeviceStates])
      BY <2>1 DEF GetVcpu, Walking, SysInv, Lists
    <3>2. [id |-> Current, state |-> cpus[Current]]
              \in [id : CpuIds, state : DeviceStates]
      BY <1>1, <3>1 DEF SysInv, TypeDevices, Current
    <3>3. \/ results' = results
          \/ results' = Append(results, [id |-> Current,
                                         state |-> cpus[Current]])
      BY <2>1, Zenon DEF GetVcpu
    <3>4. /\ results' \in Seq([id : CpuIds, state : DeviceStates])
          /\ Len(results') <= Len(list)
      <4> DEFINE R == [id : CpuIds, state : DeviceStates]
                 x == [id |-> Current, state |-> cpus[Current]]
      <4>1. /\ results \in Seq(R) /\ x \in R
            /\ results' \in {results, Append(results, x)}
        BY <3>1, <3>2, <3>3
      <4> HIDE DEF R, x
      <4>2. results' \in Seq(R) /\ Len(results') <= Len(list)
        BY <1>1, <4>1
      <4> QED
        BY <4>2 DEF R
    <3> QED
      BY <1>2, <3>1, <3>4 DEF Lists
  <2>2. CASE GetBlock
    <3>1. /\ dpc = "get-blocks" /\ dpc' \in {"get-blocks", "aborted"}
          /\ list \in Seq(Blocks)
          /\ results \in Seq([id : Blocks, state : DeviceStates])
      BY <1>4, <2>2 DEF GetBlock, SysInv, Lists
    <3>2. /\ [id |-> Current, state |-> blocks[Current]]
                 \in [id : Blocks, state : DeviceStates]
          /\ [id |-> Current, state |-> "absent"]
                 \in [id : Blocks, state : DeviceStates]
      BY <1>1, <3>1 DEF SysInv, TypeDevices, Current, DeviceStates
    <3>3. \/ results' = Append(results, [id |-> Current,
                                         state |-> blocks[Current]])
          \/ results' = Append(results, [id |-> Current, state |-> "absent"])
      BY <2>2, Zenon DEF GetBlock
    <3>4. /\ results' \in Seq([id : Blocks, state : DeviceStates])
          /\ Len(results') <= Len(list)
      <4> DEFINE R == [id : Blocks, state : DeviceStates]
                 x == [id |-> Current, state |-> blocks[Current]]
                 y == [id |-> Current, state |-> "absent"]
      <4>1. /\ results \in Seq(R) /\ x \in R /\ y \in R
            /\ results' \in {Append(results, x), Append(results, y)}
        BY <3>1, <3>2, <3>3
      <4> HIDE DEF R, x, y
      <4>2. results' \in Seq(R) /\ Len(results') <= Len(list)
        BY <1>1, <4>1
      <4> QED
        BY <4>2 DEF R
    <3> QED
      BY <1>2, <3>1, <3>4 DEF Lists
  <2> QED
    BY <2>1, <2>2
<1>6. danswer'.cmd = "none"
  BY <1>1, <1>2 DEF SysInv, Unanswered
<1>7. DevicesAsAnswered' /\ Unanswered' /\ VcpusSoFar' /\ BlocksSoFar'
  BY <1>1, <1>4, <1>6 DEF DevicesAsAnswered, SetVcpusExact, SetBlocksExact,
     Unanswered, VcpusSoFar, BlocksSoFar
<1>8. TypeDevices'
  BY <1>1, <1>2, <1>4 DEF SysInv, TypeDevices
<1> QED
  BY <1>3, <1>5, <1>7, <1>8 DEF SysInv

\* Others change devices: those are no longer spoken of.
LEMMA HotplugKeeps == SysInv /\ Hotplug => SysInv'
<1> SUFFICES ASSUME SysInv, Hotplug PROVE SysInv'
  OBVIOUS
<1>1. UNCHANGED <<dpc, list, results, danswer, before>>
  BY DEF Hotplug
<1>2. dpc # "idle"
  BY DEF Hotplug
<1>3. TypeSysFlags'
  <2>1. memdir' = memdir /\ local_err' = local_err
    BY Zenon DEF Hotplug
  <2> QED
    BY <2>1, Zenon DEF SysInv, TypeSysFlags
<1>4. Lists' /\ Unanswered'
  BY <1>1 DEF SysInv, Lists, Unanswered
<1>5. DevicesAsAnswered'
  BY <1>1, <1>2
     DEF SysInv, Unanswered, DevicesAsAnswered, SetVcpusExact, SetBlocksExact
<1>6. TypeDevices'
  BY <1>1 DEF Hotplug, SysInv, TypeDevices, DeviceStates
<1>7. VcpusSoFar'
  <2> SUFFICES ASSUME dpc = "set-vcpus", NEW c \in CpuIds, c \notin disturbed'
               PROVE  cpus'[c] = After(before.cpus, results,
                                       DOMAIN results)[c]
    BY <1>1, Zenon DEF VcpusSoFar
  <2>1. cpus'[c] = cpus[c] /\ c \notin disturbed
    BY DEF Hotplug, SysInv, TypeDevices
  <2> QED
    BY <2>1, Zenon DEF SysInv, VcpusSoFar
<1>8. BlocksSoFar'
  <2>1. \A b \in Blocks : b \notin disturbed' =>
            blocks'[b] = blocks[b] /\ b \notin disturbed
    BY <1>1 DEF Hotplug, SysInv, TypeDevices
  <2> QED
    BY <1>1, <2>1, Zenon DEF SysInv, BlocksSoFar
<1> QED
  BY <1>3, <1>4, <1>5, <1>6, <1>7, <1>8 DEF SysInv

\* What a client may send, and what a command walks over, is a list.
LEMMA InputLists ==
    /\ Inputs(CpuIds) \subseteq Seq(Nodes(CpuIds))
    /\ Inputs(Blocks) \subseteq Seq(Nodes(Blocks))
    /\ [i \in 1 .. NumCpus |-> i - 1] \in Seq(CpuIds)
<1>1. MaxList \in Nat /\ NumCpus \in Nat
  BY SysAssumption
<1>2. ASSUME NEW S PROVE Inputs(S) \subseteq Seq(Nodes(S))
  <2> SUFFICES ASSUME NEW n \in 0 .. MaxList, NEW f \in [1 .. n -> Nodes(S)]
               PROVE  f \in Seq(Nodes(S))
    BY Zenon DEF Inputs
  <2> n \in Nat
    BY <1>1
  <2> QED
    OBVIOUS
<1>3. [i \in 1 .. NumCpus |-> i - 1] \in [1 .. NumCpus -> CpuIds]
  BY <1>1 DEF CpuIds
<1>4. [1 .. NumCpus -> CpuIds] \subseteq Seq(CpuIds)
  BY <1>1
<1> QED
  BY <1>2, <1>3, <1>4, Zenon

\* A command on devices that starts keeps the invariant.
LEMMA SysStartKeeps == SysInv /\ SysStart => SysInv'
<1> SUFFICES ASSUME SysInv, SysStart PROVE SysInv'
  OBVIOUS
<1>1. CASE qmp_guest_set_vcpus
  BY <1>1, InputLists, BeginKeeps, Zenon DEF qmp_guest_set_vcpus
<1>2. CASE qmp_guest_get_vcpus
  BY <1>2, InputLists, BeginKeeps, Zenon DEF qmp_guest_get_vcpus
<1>3. CASE qmp_guest_set_memory_blocks
  BY <1>3, InputLists, BeginKeeps, Zenon DEF qmp_guest_set_memory_blocks
<1>4. CASE qmp_guest_get_memory_blocks
  <2> DEFINE there == {b \in Blocks : blocks[b] # "absent"}
  <2>1. Cardinality(there) \in Nat
    <3>1. there \in SUBSET Blocks /\ IsFiniteSet(Blocks)
      BY SysAssumption, Zenon
    <3> HIDE DEF there
    <3> QED
      BY <3>1, FS_Subset, FS_CardinalityType
  <2>2. ASSUME NEW order \in [1 .. Cardinality(there) -> there],
               Begin("get-blocks", order)
        PROVE  SysInv'
    <3>1. order \in Seq(Blocks)
      <4> there \subseteq Blocks
        OBVIOUS
      <4> HIDE DEF there
      <4> QED
        BY <2>1
    <3> QED
      BY <2>2, <3>1, BeginKeeps, Zenon
  <2>3. ASSUME NEW e, danswer' = SysAnswer("get-blocks", e, <<>>),
               UNCHANGED <<cpus, blocks, memdir, dpc, list, results, local_err,
                           before, disturbed>>,
               dpc = "idle"
        PROVE  SysInv'
    <3>1. danswer'.cmd = "get-blocks"
      BY <2>3, Zenon DEF SysAnswer
    <3>2. TypeSysFlags'
      BY <2>3, Zenon DEF SysInv, TypeSysFlags
    <3>3. TypeDevices' /\ Lists' /\ Unanswered' /\ VcpusSoFar' /\ BlocksSoFar'
      BY <2>3 DEF SysInv, TypeDevices, Lists, Unanswered, VcpusSoFar,
         BlocksSoFar
    <3>4. DevicesAsAnswered'
      BY <3>1 DEF DevicesAsAnswered, SetVcpusExact, SetBlocksExact
    <3> QED
      BY <3>2, <3>3, <3>4 DEF SysInv
  <2> QED
    BY <1>4, <2>2, <2>3, Zenon DEF qmp_guest_get_memory_blocks
<1> QED
  BY <1>1, <1>2, <1>3, <1>4 DEF SysStart

\* A step on a device keeps the invariant.
LEMMA SysStepKeeps == SysInv /\ SysStep => SysInv'
BY SetVcpuKeeps, SetBlockKeeps, DoneKeeps, GetKeeps, Zenon DEF SysStep

\* The other kind of command leaves the devices alone.
LEMMA ForgetSysKeeps == SysInv /\ ForgetSys => SysInv'
<1> SUFFICES ASSUME SysInv, ForgetSys PROVE SysInv'
  OBVIOUS
<1>1. danswer'.cmd = "none"
  BY Zenon DEF ForgetSys, NoSysAnswer, SysAnswer
<1>2. TypeSysFlags'
  BY Zenon DEF ForgetSys, SysInv, TypeSysFlags
<1>3. TypeDevices' /\ Lists' /\ Unanswered' /\ VcpusSoFar' /\ BlocksSoFar'
  BY DEF ForgetSys, SysInv, TypeDevices, Lists, Unanswered, VcpusSoFar,
     BlocksSoFar
<1>4. DevicesAsAnswered'
  BY <1>1 DEF DevicesAsAnswered, SetVcpusExact, SetBlocksExact
<1> QED
  BY <1>2, <1>3, <1>4 DEF SysInv

\* A step of somebody else leaves all of this as it is.
LEMMA Unchanged ==
    /\ SysInv /\ UNCHANGED sysVars => SysInv'
    /\ ChildInv /\ UNCHANGED childVars => ChildInv'
<1>1. ASSUME SysInv, UNCHANGED sysVars PROVE SysInv'
  <2>1. TypeSysFlags'
    BY <1>1, Zenon DEF sysVars, SysInv, TypeSysFlags
  <2>2. /\ cpus' = cpus /\ blocks' = blocks /\ dpc' = dpc /\ list' = list
        /\ results' = results /\ danswer' = danswer /\ before' = before
        /\ disturbed' = disturbed
    BY <1>1, Zenon DEF sysVars
  <2>3. TypeDevices' /\ Lists' /\ Unanswered' /\ VcpusSoFar' /\ BlocksSoFar'
    BY <1>1, <2>2 DEF SysInv, TypeDevices, Lists, Unanswered, VcpusSoFar,
       BlocksSoFar
  <2>4. DevicesAsAnswered'
    BY <1>1, <2>2, Zenon
       DEF SysInv, DevicesAsAnswered, SetVcpusExact, SetBlocksExact
  <2> QED
    BY <2>1, <2>3, <2>4 DEF SysInv
<1>2. ASSUME ChildInv, UNCHANGED childVars PROVE ChildInv'
  BY <1>2 DEF childVars, ChildInv, ChildTypeOK, ToolOf, Progress, Truthful
<1> QED
  BY <1>1, <1>2

\* The other kind of command leaves the tools alone.
LEMMA ForgetChildKeeps == ChildInv /\ ForgetChild => ChildInv'
<1> SUFFICES ASSUME ChildInv, ForgetChild PROVE ChildInv'
  OBVIOUS
<1>1. canswer'.cmd = "none"
  BY DEF ForgetChild, NoChildAnswer, ChildAnswer
<1> QED
  BY <1>1 DEF ForgetChild, ChildInv, ChildTypeOK, ToolOf, Progress, Truthful

-----------------------------------------------------------------------------
(* The theorems. *)

\* The invariant holds at the beginning.
LEMMA InvInit == Init => CommandsInv
<1> SUFFICES ASSUME Init PROVE CommandsInv
  OBVIOUS
<1>1. ChildInv
  <2>1. canswer.cmd = "none"
    BY DEF Init, ChildInit, NoChildAnswer, ChildAnswer
  <2> QED
    BY <2>1 DEF Init, ChildInit, ChildInv, ChildTypeOK, ToolOf, Progress,
       Truthful
<1>2. danswer.cmd = "none"
  BY Zenon DEF Init, SysInit, NoSysAnswer, SysAnswer
<1>3. DevicesAsAnswered
  BY <1>2, NothingClaimed
<1>4. TypeSysFlags
  BY Zenon DEF Init, SysInit, TypeSysFlags
<1>5. cpus \in [CpuIds -> DeviceStates] /\ blocks \in [Blocks -> DeviceStates]
  <2>1. \A c : (CASE c = 0 -> "fixed" [] c = NumCpus -> "absent"
                  [] OTHER -> "on") \in DeviceStates
    BY Zenon DEF DeviceStates
  <2>2. cpus \in [CpuIds -> DeviceStates]
    BY <2>1, Zenon DEF Init, SysInit
  <2>3. (IF memdir THEN {"on", "fixed"} ELSE {"absent"}) \subseteq DeviceStates
    BY Zenon DEF DeviceStates
  <2>4. blocks \in [Blocks -> IF memdir THEN {"on", "fixed"} ELSE {"absent"}]
    BY Zenon DEF Init, SysInit
  <2> QED
    BY <2>2, <2>3, <2>4
<1>6. TypeDevices /\ Lists /\ Unanswered /\ VcpusSoFar /\ BlocksSoFar
  BY <1>5 DEF Init, SysInit, TypeDevices, Lists, Unanswered, VcpusSoFar,
     BlocksSoFar
<1> QED
  BY <1>1, <1>3, <1>4, <1>6 DEF CommandsInv, SysInv

\* Every step keeps it.
LEMMA InvNext == CommandsInv /\ [Next]_vars => CommandsInv'
<1> SUFFICES ASSUME SysInv, ChildInv, [Next]_vars PROVE SysInv' /\ ChildInv'
  BY DEF CommandsInv
<1>1. CASE SysCommand
  BY <1>1, SysStartKeeps, ForgetChildKeeps DEF SysCommand
<1>2. CASE ChildCommand
  BY <1>2, ChildStartKeeps, ForgetSysKeeps DEF ChildCommand
<1>3. CASE SysStepOnly
  BY <1>3, SysStepKeeps, Unchanged DEF SysStepOnly
<1>4. CASE ChildStepOnly
  BY <1>4, ChildStepKeeps, Unchanged DEF ChildStepOnly
<1>5. CASE Tool
  BY <1>5, ToolKeeps, Unchanged DEF Tool
<1>6. CASE Others
  BY <1>6, HotplugKeeps, Unchanged DEF Others
<1>7. CASE UNCHANGED vars
  <2>1. UNCHANGED sysVars /\ UNCHANGED childVars
    BY <1>7 DEF vars
  <2> QED
    BY <2>1, Unchanged
<1> QED
  BY <1>1, <1>2, <1>3, <1>4, <1>5, <1>6, <1>7 DEF Next

\* The invariant holds always.
LEMMA InvAlways == Spec => []CommandsInv
BY InvInit, InvNext, PTL DEF Spec

\* The invariant implies the type invariant.
LEMMA InvTyped == CommandsInv => TypeOK
BY Zenon DEF CommandsInv, SysInv, ChildInv, TypeDevices, TypeSysFlags, Lists,
   TypeOK, SysTypeOK

\* Every state is well typed: no step of the loops in qmp_guest_set_vcpus,
\* qmp_guest_get_memory_blocks and their kin leaves the list it walks over.  An
\* idle agent has no pipe open and has waited for every child that it made,
\* whatever fails on the way, except for a chpasswd that failed before its
\* input was written, which qmp_guest_set_user_password leaves unreaped.
THEOREM TypeCorrect == Spec => []TypeOK
BY InvAlways, InvTyped, PTL

\* guest-set-vcpus and guest-set-memory-blocks: what the client is told of its
\* list is what has become of the devices, whatever fails on the way and
\* whoever else changes them, for lists of every length that name devices any
\* number of times.
THEOREM DevicesAlwaysAsAnswered == Spec => []DevicesAsAnswered
<1>1. CommandsInv => DevicesAsAnswered
  BY DEF CommandsInv, SysInv
<1> QED
  BY <1>1, InvAlways, PTL

\* guest-shutdown, guest-set-time, guest-suspend-* and guest-set-user-password
\* report success only when the tools have done all of it, and an error only
\* when they have not or could not be waited for.
THEOREM AnswersTruthful == Spec => []Truthful
<1>1. CommandsInv => Truthful
  BY DEF CommandsInv, ChildInv
<1> QED
  BY <1>1, InvAlways, PTL
=============================================================================
