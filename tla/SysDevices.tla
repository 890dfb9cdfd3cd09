----------------------------- MODULE SysDevices -----------------------------
(***************************************************************************)
(* guest-get-vcpus, guest-set-vcpus, guest-get-memory-blocks and           *)
(* guest-set-memory-blocks (qga/commands-posix.c): loops over the devices  *)
(* of sysfs, one device per step, while the kernel, an administrator or a  *)
(* hot-unplug may change the devices between two steps.                    *)
(*                                                                         *)
(* Abstractions: a processor or memory block is "on", "off", "fixed" (it   *)
(* has a directory and no file to switch it) or "absent".  Reading and     *)
(* writing the file of one device is one step.                             *)
(***************************************************************************)
EXTENDS Naturals, Sequences, FiniteSetsExt

CONSTANTS
    NumCpus,     \* _SC_NPROCESSORS_CONF; processors are 0 .. NumCpus - 1
    Blocks,      \* the physical indices a client may name
    MaxList,     \* bound on the length of a list that a client sends
    SysFaults,   \* "io": a call on a device may fail; "dir": opendir may
    MaxChanges   \* bound on the changes by others while a command runs

ASSUME SysAssumption ==
    /\ NumCpus \in Nat \ {0} /\ Blocks \subseteq Nat /\ IsFiniteSet(Blocks)
    /\ MaxList \in Nat /\ MaxChanges \in Nat
    /\ SysFaults \subseteq {"io", "dir"}

VARIABLES
    cpus, blocks,  \* the state of every device
    memdir,        \* does /sys/devices/system/memory exist
    dpc,           \* the command that runs
    list,          \* its input, or the devices it walks over
    results,       \* what it has collected
    local_err,     \* an error is set
    danswer,       \* the last answer
    before,        \* history: the devices when the command began
    disturbed      \* history: those that others have changed since

sysVars == <<cpus, blocks, memdir, dpc, list, results, local_err, danswer,
             before, disturbed>>

\* A client may also name a processor that there is not.
CpuIds == 0 .. NumCpus
DeviceStates == {"on", "off", "fixed", "absent"}
Nodes(ids) == [id : ids, online : BOOLEAN]
Inputs(ids) == UNION {[1 .. n -> Nodes(ids)] : n \in 0 .. MaxList}

\* list: the results of the command's steps; err: is it an error.
SysAnswer(cmd, err, rs) == [cmd |-> cmd, err |-> err, list |-> rs]
NoSysAnswer == SysAnswer("none", FALSE, <<>>)

SysInit ==
    /\ cpus = [c \in CpuIds |-> CASE c = 0 -> "fixed"
                                  [] c = NumCpus -> "absent"
                                  [] OTHER -> "on"]
    /\ memdir \in BOOLEAN
    /\ blocks \in [Blocks -> IF memdir THEN {"on", "fixed"} ELSE {"absent"}]
    /\ dpc = "idle" /\ list = <<>> /\ results = <<>> /\ local_err = FALSE
    /\ danswer = NoSysAnswer
    /\ before = [cpus |-> cpus, blocks |-> blocks] /\ disturbed = {}

IoFails == "io" \in SysFaults

\* The node, or the device, of the next step; the walk is over without one.
Walking(cmd) == dpc = cmd /\ Len(results) < Len(list) /\ ~local_err
Walked(cmd) == dpc = cmd /\ Len(results) = Len(list)
Current == list[Len(results) + 1]

Begin(cmd, input) ==
    /\ dpc = "idle" /\ dpc' = cmd /\ list' = input
    /\ results' = <<>> /\ local_err' = FALSE /\ danswer' = NoSysAnswer
    /\ before' = [cpus |-> cpus, blocks |-> blocks] /\ disturbed' = {}
    /\ UNCHANGED <<cpus, blocks, memdir>>

Finish(answer) ==
    /\ dpc' = "idle" /\ list' = <<>> /\ results' = <<>> /\ local_err' = FALSE
    /\ danswer' = answer
    /\ UNCHANGED <<cpus, blocks, memdir, before, disturbed>>

Switched(online) == IF online THEN "on" ELSE "off"

-----------------------------------------------------------------------------
(* Logical processors. *)

\* transfer_vcpu towards the system: what becomes of a processor in state s,
\* and whether it is an error.
transfer_vcpu(s, online) ==
    LET fails == [state |-> s, err |-> TRUE]
        becomes(t) == [state |-> t, err |-> FALSE]
    IN  (CASE s = "absent" -> {fails}
           [] s = "fixed" -> {IF online THEN becomes(s) ELSE fails}
           [] OTHER -> {becomes(Switched(online))})
        \cup (IF IoFails THEN {fails} ELSE {})

qmp_guest_set_vcpus ==
    \E input \in Inputs(CpuIds) : Begin("set-vcpus", input)

SetVcpu ==
    /\ Walking("set-vcpus")
    /\ \E r \in transfer_vcpu(cpus[Current.id], Current.online) :
          /\ cpus' = [cpus EXCEPT ![Current.id] = r.state]
          /\ local_err' = r.err
          /\ results' = IF r.err THEN results ELSE Append(results, Current)
    /\ UNCHANGED <<blocks, memdir, dpc, list, danswer, before, disturbed>>

\* Mutant: a node that has failed is counted.
CountFailed == SysAnswer("set-vcpus", FALSE,
                         IF local_err THEN SubSeq(list, 1, Len(results) + 1)
                         ELSE results)

\* The number of nodes processed, here the nodes themselves; it is an error
\* only if the first one has failed.
SetVcpusAnswer ==
    SysAnswer("set-vcpus", IF local_err /\ results = <<>> THEN TRUE ELSE FALSE,
              results)

SetVcpusDone ==
    /\ dpc = "set-vcpus" /\ (local_err \/ Walked("set-vcpus"))
    /\ Finish(SetVcpusAnswer)

qmp_guest_get_vcpus ==
    Begin("get-vcpus", [i \in 1 .. NumCpus |-> i - 1])

\* transfer_vcpu from the system; the loop stops at the first error.
GetVcpu ==
    /\ Walking("get-vcpus")
    /\ \/ /\ cpus[Current] # "absent"
          /\ results' = Append(results, [id |-> Current,
                                         state |-> cpus[Current]])
          /\ UNCHANGED local_err
       \/ /\ IoFails \/ cpus[Current] = "absent"
          /\ local_err' = TRUE /\ UNCHANGED results
    /\ UNCHANGED <<cpus, blocks, memdir, dpc, list, danswer, before,
                   disturbed>>

GetVcpusDone ==
    /\ dpc = "get-vcpus" /\ (local_err \/ Walked("get-vcpus"))
    /\ Finish(SysAnswer("get-vcpus", local_err,
                        IF local_err THEN <<>> ELSE results))

-----------------------------------------------------------------------------
(* Memory blocks. *)

\* The response to a node, and whether it has an error code.
Outcome(s, response, code) ==
    [state |-> s, response |-> response, code |-> code]

\* transfer_memory_block towards the system.  A block without the file that is
\* asked to be online is a success, by the value that g_malloc0 has left, and
\* yet has an error code.
transfer_memory_block(s, online) ==
    (CASE s = "absent" -> {Outcome(s, "not-found", TRUE)}
       [] s = "fixed" -> {Outcome(s, IF online THEN "success"
                                     ELSE "operation-not-supported", TRUE)}
       [] OTHER -> {Outcome(Switched(online), "success", FALSE)})
    \cup (IF IoFails THEN {Outcome(s, "operation-failed", TRUE)} ELSE {})

qmp_guest_set_memory_blocks ==
    \E input \in Inputs(Blocks) : Begin("set-blocks", input)

SetBlock ==
    /\ Walking("set-blocks")
    /\ \E r \in IF memdir
                THEN transfer_memory_block(blocks[Current.id], Current.online)
                ELSE {Outcome(blocks[Current.id], "operation-not-supported",
                              TRUE)} :
          /\ blocks' = [blocks EXCEPT ![Current.id] = r.state]
          /\ results' = Append(results, [id |-> Current.id,
                                         online |-> Current.online,
                                         response |-> r.response,
                                         code |-> r.code])
    /\ UNCHANGED <<cpus, memdir, dpc, list, local_err, danswer, before,
                   disturbed>>

SetBlocksDone ==
    /\ Walked("set-blocks")
    /\ Finish(SysAnswer("set-blocks", FALSE, results))

\* The blocks that readdir lists, in some order; a system without the
\* directory has none to report, and one that cannot be opened is an error.
qmp_guest_get_memory_blocks ==
    \/ /\ memdir
       /\ LET there == {b \in Blocks : blocks[b] # "absent"} IN
          \E order \in {s \in [1 .. Cardinality(there) -> there] :
                           \A i, j \in DOMAIN s : i # j => s[i] # s[j]} :
             Begin("get-blocks", order)
    \/ /\ dpc = "idle"
       /\ \/ ~memdir /\ danswer' = SysAnswer("get-blocks", FALSE, <<>>)
          \/ /\ "dir" \in SysFaults
             /\ danswer' = SysAnswer("get-blocks", TRUE, <<>>)
       /\ UNCHANGED <<cpus, blocks, memdir, dpc, list, results, local_err,
                      before, disturbed>>

\* transfer_memory_block from the system.  The loop does not stop at an error:
\* a directory that cannot be opened when one is set already makes error_setg
\* fail its assertion; a file that cannot be read does not.
GetBlock ==
    /\ dpc = "get-blocks" /\ Len(results) < Len(list)
    /\ \/ /\ blocks[Current] # "absent"
          /\ results' = Append(results, [id |-> Current,
                                         state |-> blocks[Current]])
          /\ UNCHANGED <<dpc, local_err>>
       \/ /\ IoFails \/ blocks[Current] = "absent"
          /\ results' = Append(results, [id |-> Current, state |-> "absent"])
          /\ local_err' = TRUE
          /\ \/ ~local_err /\ UNCHANGED dpc
             \/ local_err /\ dpc' = "aborted"
             \/ local_err /\ blocks[Current] # "absent" /\ UNCHANGED dpc
    /\ UNCHANGED <<cpus, blocks, memdir, list, danswer, before, disturbed>>

\* "there's no guest with zero memory blocks".
GetBlocksDone ==
    /\ Walked("get-blocks")
    /\ LET err == IF local_err \/ list = <<>> THEN TRUE ELSE FALSE IN
       Finish(SysAnswer("get-blocks", err, IF err THEN <<>> ELSE results))

-----------------------------------------------------------------------------
\* Somebody else changes a device of the kind that a command walks over.
Hotplug ==
    /\ Cardinality(disturbed) < MaxChanges
    /\ \/ /\ dpc \in {"set-vcpus", "get-vcpus"}
          /\ \E c \in CpuIds : \E s \in {"on", "off", "absent"} \ {cpus[c]} :
                /\ cpus[c] # "fixed" /\ cpus' = [cpus EXCEPT ![c] = s]
                /\ disturbed' = disturbed \cup {c}
          /\ UNCHANGED blocks
       \/ /\ dpc \in {"set-blocks", "get-blocks"} /\ memdir
          /\ \E b \in Blocks : \E s \in {"on", "off", "absent"} \ {blocks[b]} :
                /\ blocks[b] # "fixed" /\ blocks' = [blocks EXCEPT ![b] = s]
                /\ disturbed' = disturbed \cup {b}
          /\ UNCHANGED cpus
    /\ UNCHANGED <<memdir, dpc, list, results, local_err, danswer, before>>

SysStart ==
    \/ qmp_guest_set_vcpus \/ qmp_guest_get_vcpus
    \/ qmp_guest_set_memory_blocks \/ qmp_guest_get_memory_blocks

SysStep ==
    \/ SetVcpu \/ SetVcpusDone \/ GetVcpu \/ GetVcpusDone
    \/ SetBlock \/ SetBlocksDone \/ GetBlock \/ GetBlocksDone

-----------------------------------------------------------------------------
(* Properties. *)

SysTypeOK ==
    /\ cpus \in [CpuIds -> DeviceStates] /\ blocks \in [Blocks -> DeviceStates]
    /\ memdir \in BOOLEAN /\ local_err \in BOOLEAN
    /\ dpc \in {"idle", "set-vcpus", "get-vcpus", "set-blocks", "get-blocks",
                "aborted"}
    /\ Len(results) <= Len(list)

\* What devices in states s are after those nodes whose place is in ks, in
\* order: the last one that names a device decides.
After(s, nodes, ks) ==
    [d \in DOMAIN s |->
        LET own == {k \in ks : nodes[k].id = d} IN
        IF own = {} \/ s[d] = "fixed" THEN s[d]
        ELSE Switched(nodes[Max(own)].online)]

\* "The length of the initial sublist that has been successfully processed
\* ... Guest state has changed accordingly", and "Error: ... Guest state has
\* not been changed": the processors are what they were, changed by exactly
\* that sublist, even if it names one of them several times - those that
\* nobody else has changed meanwhile.
SetVcpusExact ==
    danswer.cmd = "set-vcpus" =>
        LET wanted == After(before.cpus, danswer.list, DOMAIN danswer.list) IN
        /\ danswer.err => danswer.list = <<>>
        /\ \A c \in CpuIds : c \notin disturbed =>
              cpus[c] = wanted[c]

\* The places of the responses that are a success.
Successes(rs) == {k \in DOMAIN rs : rs[k].response = "success"}

\* The responses to guest-set-memory-blocks "correspond to the input list" and
\* tell exactly which nodes have had an effect; a response that is no success
\* has its error code.
SetBlocksExact ==
    danswer.cmd = "set-blocks" =>
        LET wanted == After(before.blocks, danswer.list,
                            Successes(danswer.list)) IN
        /\ \A b \in Blocks : b \notin disturbed =>
              blocks[b] = wanted[b]
        /\ \A k \in DOMAIN danswer.list :
              danswer.list[k].response # "success" => danswer.list[k].code

\* What a client is told of its list of devices is what has become of them:
\* after failures in the middle of the list, repeated names, and devices that
\* come and go meanwhile.
DevicesAsAnswered == SetVcpusExact /\ SetBlocksExact
=============================================================================
