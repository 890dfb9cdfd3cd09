----------------------------- MODULE GuestExec -----------------------------
(***************************************************************************)
(* guest-exec and guest-exec-status (qga/commands.c): the agent starts a   *)
(* child, feeds its standard input and collects its output from callbacks  *)
(* of the main loop, and keeps a GuestExecInfo that guest-exec-status      *)
(* looks up by pid and frees when it answers that the child has exited.    *)
(*                                                                         *)
(* The callbacks run one at a time, in any order in which their            *)
(* descriptors and signals become ready, between the commands.  A job is   *)
(* one successful guest-exec; jobs are numbered in the order they start.   *)
(*                                                                         *)
(* Abstractions: data are byte counts; arguments, environment and exit     *)
(* codes are left out.  The kernel's processes and pipes are modelled from *)
(* how the code uses them; a read of an output that fails, upon which      *)
(* guest_exec_output_watch closes it, is left out, as there is nothing in  *)
(* a local pipe, read without conversion, that could fail.                 *)
(***************************************************************************)
EXTENDS Naturals, Sequences, SequencesExt

CONSTANTS
    Pids,       \* the process ids of the guest
    Streams,    \* the outputs that are captured, of "out" and "err"
    MaxJobs,    \* bound on the successful guest-execs of a behaviour
    InputSizes, \* the sizes of input-data
    MaxWrite,   \* bound on what the writers of one output write
    PipeSize,   \* capacity of a pipe
    IO_SIZE,    \* GUEST_EXEC_IO_SIZE
    MAX_OUTPUT, \* GUEST_EXEC_MAX_OUTPUT
    Faults,     \* "spawn", "realloc": what may fail
    Filter,     \* children copy their input to their output and then exit
    Heirs       \* a child may leave its pipes to a process of its own

ASSUME ConstantsAssumption ==
    /\ Pids # {} /\ Streams \subseteq {"out", "err"}
    /\ MaxJobs \in Nat /\ InputSizes \subseteq Nat /\ MaxWrite \in Nat
    /\ PipeSize \in Nat \ {0} /\ IO_SIZE \in Nat \ {0}
    /\ MAX_OUTPUT \in Nat /\ MAX_OUTPUT % IO_SIZE = 0
    /\ Faults \subseteq {"spawn", "realloc"}
    /\ Filter \in BOOLEAN /\ Heirs \in BOOLEAN

Jobs == 1 .. MaxJobs

VARIABLES
    \* the kernel
    child,      \* child[j]: "none", "running", "zombie" or "reaped"
    heir,       \* heir[j]: a process of the child's still holds its pipes
    pid,        \* pid[j]
    inpipe,     \* inpipe[j]: bytes in the pipe to its standard input
    outpipe,    \* outpipe[j][s]: bytes in the pipe from its output s
    owed,       \* owed[j][s]: what a filter has still to copy to s
    written,    \* written[j][s]: what its output s has been sent in all
    \* the agent
    processes,  \* guest_exec_state.processes
    finished, has_output,   \* fields of GuestExecInfo
    in,         \* in[j]: the GuestExecIOData of the input
    io,         \* io[j][s]: that of the output s
    reply,      \* the last answer of guest-exec-status
    jobs        \* how many jobs there have been

kernelVars == <<child, heir, pid, inpipe, outpipe, owed, written>>
agentVars == <<processes, finished, has_output, in, io, reply, jobs>>
vars == <<child, heir, pid, inpipe, outpipe, owed, written, processes,
          finished, has_output, in, io, reply, jobs>>

\* marked: the outputs sent with a truncated member; truncated: those for
\* which the member is true.
NoReply == [job |-> 0, exited |-> FALSE, marked |-> {}, truncated |-> {}]

Init ==
    /\ child = [j \in Jobs |-> "none"] /\ heir = [j \in Jobs |-> FALSE]
    /\ pid \in [Jobs -> {CHOOSE p \in Pids : TRUE}]
    /\ inpipe = [j \in Jobs |-> 0]
    /\ outpipe = [j \in Jobs |-> [s \in Streams |-> 0]]
    /\ owed = outpipe /\ written = outpipe
    /\ processes = <<>> /\ finished = [j \in Jobs |-> FALSE]
    /\ has_output = [j \in Jobs |-> FALSE]
    /\ in = [j \in Jobs |-> [size |-> 0, length |-> 0, closed |-> TRUE]]
    /\ io = [j \in Jobs |-> [s \in Streams |->
                [size |-> 0, length |-> 0, truncated |-> FALSE,
                 closed |-> TRUE]]]
    /\ reply = NoReply /\ jobs = 0

-----------------------------------------------------------------------------
(* The commands. *)

\* The kernel hands out a pid that no process has, not even a zombie.
FreePid(p) == \A j \in Jobs : pid[j] = p => child[j] \in {"none", "reaped"}

\* qmp_guest_exec: g_spawn_async_with_pipes succeeds; the record and the
\* watches are added before the main loop runs again.  A watch is registered
\* exactly while its channel is not closed.
qmp_guest_exec(p, has_input, size, capture) ==
    LET j == jobs + 1 IN
    /\ jobs < MaxJobs /\ FreePid(p)
    /\ jobs' = j
    /\ child' = [child EXCEPT ![j] = "running"] /\ pid' = [pid EXCEPT ![j] = p]
    /\ processes' = Append(processes, j)
    /\ has_output' = [has_output EXCEPT ![j] = capture]
    /\ in' = [in EXCEPT ![j].size = IF has_input THEN size ELSE 0,
                        ![j].closed = ~has_input]
    /\ io' = [io EXCEPT ![j] = [s \in Streams |->
                 [io[j][s] EXCEPT !.closed = ~capture]]]
    /\ UNCHANGED <<heir, inpipe, outpipe, owed, written, finished, reply>>

\* The spawn fails: the command answers an error and leaves nothing behind.
ExecFails ==
    /\ "spawn" \in Faults /\ reply' = NoReply
    /\ UNCHANGED <<kernelVars, processes, finished, has_output, in, io, jobs>>

\* guest_exec_info_find: the records with this pid; the first one is found.
guest_exec_info_find(p) == {i \in DOMAIN processes : pid[processes[i]] = p}

\* Mutant: the status does not wait for the outputs to be closed.
ExitedOnFinish(j) == finished[j]

\* What guest-exec-status answers as exited.
Exited(j) ==
    finished[j] /\ (has_output[j] => \A s \in Streams : io[j][s].closed)

\* The answer for a job that has exited: has_*_truncated is set for an output
\* that was captured and truncated; *_truncated itself is never assigned, so
\* that the member that is sent is false.
ExitStatus(j) ==
    [job |-> j, exited |-> TRUE,
     marked |-> {s \in Streams : io[j][s].length > 0 /\ io[j][s].truncated},
     truncated |-> {}]

\* qmp_guest_exec_status: an exited job is taken off the list and freed.
qmp_guest_exec_status(p) ==
    LET found == guest_exec_info_find(p)
        j == processes[Min(found)] IN
    /\ \/ found = {} /\ reply' = NoReply /\ UNCHANGED processes
       \/ /\ found # {} /\ Exited(j) /\ reply' = ExitStatus(j)
          /\ processes' = RemoveAt(processes, Min(found))
       \/ /\ found # {} /\ ~Exited(j) /\ reply' = [NoReply EXCEPT !.job = j]
          /\ UNCHANGED processes
    /\ UNCHANGED <<kernelVars, finished, has_output, in, io, jobs>>

-----------------------------------------------------------------------------
(* The callbacks. *)

\* guest_exec_child_watch: the child is reaped, which frees its pid.
guest_exec_child_watch(j) ==
    /\ child[j] = "zombie"
    /\ child' = [child EXCEPT ![j] = "reaped"]
    /\ finished' = [finished EXCEPT ![j] = TRUE]
    /\ UNCHANGED <<heir, pid, inpipe, outpipe, owed, written, processes,
                   has_output, in, io, reply, jobs>>

\* Somebody can still read the input, write the outputs.
Holders(j) == child[j] = "running" \/ heir[j]

\* guest_exec_input_watch, called when the pipe has room: it writes what fits,
\* or closes the channel when everything is written or the write fails.
guest_exec_input_watch(j) ==
    /\ ~in[j].closed /\ inpipe[j] < PipeSize
    /\ IF in[j].length < in[j].size /\ Holders(j)
       THEN \E n \in 1 .. in[j].size - in[j].length :
               /\ inpipe[j] + n <= PipeSize
               /\ in' = [in EXCEPT ![j].length = @ + n]
               /\ inpipe' = [inpipe EXCEPT ![j] = @ + n]
       ELSE in' = [in EXCEPT ![j].closed = TRUE] /\ UNCHANGED inpipe
    /\ UNCHANGED <<child, heir, pid, outpipe, owed, written, processes,
                   finished, has_output, io, reply, jobs>>

Smaller(a, b) == IF a < b THEN a ELSE b

\* Mutant: the buffer grows without a limit.
AlwaysGrows(d) == ~d.truncated

\* One call of guest_exec_output_watch with n bytes in the pipe: what is left
\* in the pipe, and what becomes of the buffer d.  A full buffer grows, if it
\* may and if g_try_realloc does; else the bytes read are dropped.
MayGrow(d) == ~d.truncated /\ d.size < MAX_OUTPUT
Fill(d, n) == [d EXCEPT !.length = @ + Smaller(n, d.size - d.length)]
Grow(d) == [d EXCEPT !.size = @ + IO_SIZE]
ReadInto(d, n) ==
    [left |-> n - Smaller(n, d.size - d.length), to |-> Fill(d, n)]

\* Mutant: the bytes that do not fit are left in the pipe.
DropNothing(d, n) == [left |-> n, to |-> [d EXCEPT !.truncated = TRUE]]

\* Mutant: the bytes that do not fit are dropped without a trace.
DropSilently(d, n) == [left |-> n - Smaller(n, IO_SIZE), to |-> d]

Drop(d, n) == [left |-> n - Smaller(n, IO_SIZE),
               to |-> [d EXCEPT !.truncated = TRUE]]

OutputRead(d, n) ==
    IF d.size # d.length THEN {ReadInto(d, n)}
    ELSE (IF MayGrow(d) THEN {ReadInto(Grow(d), n)} ELSE {})
         \cup (IF ~MayGrow(d) \/ "realloc" \in Faults
               THEN {Drop(d, n)} ELSE {})

\* guest_exec_output_watch, called when there is something to read.
OutputReadable(j, s) ==
    /\ ~io[j][s].closed /\ outpipe[j][s] > 0
    /\ \E r \in OutputRead(io[j][s], outpipe[j][s]) :
          /\ outpipe' = [outpipe EXCEPT ![j][s] = r.left]
          /\ io' = [io EXCEPT ![j][s] = r.to]
    /\ UNCHANGED <<child, heir, pid, inpipe, owed, written, processes,
                   finished, has_output, in, reply, jobs>>

\* The same, called with G_IO_HUP alone: the pipe is empty, its writers gone.
OutputHangup(j, s) ==
    /\ ~io[j][s].closed /\ outpipe[j][s] = 0 /\ ~Holders(j)
    /\ io' = [io EXCEPT ![j][s].closed = TRUE]
    /\ UNCHANGED <<kernelVars, processes, finished, has_output, in, reply,
                   jobs>>

guest_exec_output_watch(j, s) == OutputReadable(j, s) \/ OutputHangup(j, s)

-----------------------------------------------------------------------------
(* The children. *)

\* A child, or its heir, reads its input; a filter will copy it.
ChildReads(j) ==
    /\ Holders(j) /\ inpipe[j] > 0
    /\ inpipe' = [inpipe EXCEPT ![j] = @ - 1]
    /\ owed' = IF Filter THEN [owed EXCEPT ![j] = [s \in Streams |-> @[s] + 1]]
               ELSE owed
    /\ UNCHANGED <<child, heir, pid, outpipe, written, agentVars>>

\* It writes to its output s: to the pipe, which may be full, or to /dev/null.
ChildWrites(j, s) ==
    /\ Holders(j)
    /\ IF Filter THEN owed[j][s] > 0 ELSE written[j][s] < MaxWrite
    /\ owed' = IF Filter THEN [owed EXCEPT ![j][s] = @ - 1] ELSE owed
    /\ IF has_output[j]
       THEN /\ outpipe[j][s] < PipeSize
            /\ outpipe' = [outpipe EXCEPT ![j][s] = @ + 1]
            /\ written' = [written EXCEPT ![j][s] = @ + 1]
       ELSE Filter /\ UNCHANGED <<outpipe, written>>
    /\ UNCHANGED <<child, heir, pid, inpipe, agentVars>>

\* A filter exits at the end of its input, when everything is copied.
FilterDone(j) ==
    in[j].closed /\ inpipe[j] = 0 /\ \A s \in Streams : owed[j][s] = 0

ChildExits(j) ==
    /\ child[j] = "running" /\ (Filter => FilterDone(j))
    /\ child' = [child EXCEPT ![j] = "zombie"]
    /\ \/ UNCHANGED heir
       \/ Heirs /\ heir' = [heir EXCEPT ![j] = TRUE]
    /\ UNCHANGED <<pid, inpipe, outpipe, owed, written, agentVars>>

HeirExits(j) ==
    /\ heir[j] /\ child[j] # "running" /\ (Filter => FilterDone(j))
    /\ heir' = [heir EXCEPT ![j] = FALSE]
    /\ UNCHANGED <<child, pid, inpipe, outpipe, owed, written, agentVars>>

Next ==
    \/ \E p \in Pids, size \in InputSizes, has_input, capture \in BOOLEAN :
          qmp_guest_exec(p, has_input, size, capture)
    \/ ExecFails
    \/ \E p \in Pids : qmp_guest_exec_status(p)
    \/ \E j \in Jobs :
          \/ guest_exec_child_watch(j) \/ guest_exec_input_watch(j)
          \/ ChildReads(j) \/ ChildExits(j) \/ HeirExits(j)
          \/ \E s \in Streams :
                guest_exec_output_watch(j, s) \/ ChildWrites(j, s)

Spec == Init /\ [][Next]_vars

\* The main loop calls every watch that stays ready, children get on with
\* their work, and the client keeps asking.
FairSpec ==
    /\ Spec
    /\ \A p \in Pids : WF_vars(qmp_guest_exec_status(p))
    /\ \A j \in Jobs :
          /\ WF_vars(guest_exec_child_watch(j))
          /\ WF_vars(guest_exec_input_watch(j))
          /\ WF_vars(ChildReads(j)) /\ WF_vars(ChildExits(j))
          /\ WF_vars(HeirExits(j))
          /\ \A s \in Streams : /\ WF_vars(guest_exec_output_watch(j, s))
                                /\ WF_vars(ChildWrites(j, s))

-----------------------------------------------------------------------------
(* Properties. *)

Listed(j) == \E i \in DOMAIN processes : processes[i] = j
Started(j) == child[j] # "none"

\* Type invariant.  No more is kept of an output than GUEST_EXEC_MAX_OUTPUT.
TypeOK ==
    /\ child \in [Jobs -> {"none", "running", "zombie", "reaped"}]
    /\ heir \in [Jobs -> BOOLEAN] /\ pid \in [Jobs -> Pids]
    /\ inpipe \in [Jobs -> 0 .. PipeSize]
    /\ outpipe \in [Jobs -> [Streams -> 0 .. PipeSize]]
    /\ owed \in [Jobs -> [Streams -> Nat]]
    /\ written \in [Jobs -> [Streams -> Nat]]
    /\ processes \in Seq(Jobs) /\ finished \in [Jobs -> BOOLEAN]
    /\ has_output \in [Jobs -> BOOLEAN]
    /\ in \in [Jobs -> [size : Nat, length : Nat, closed : BOOLEAN]]
    /\ io \in [Jobs -> [Streams -> [size : 0 .. MAX_OUTPUT,
                                    length : 0 .. MAX_OUTPUT,
                                    truncated : BOOLEAN, closed : BOOLEAN]]]
    /\ reply \in [job : 0 .. MaxJobs, exited : BOOLEAN,
                  marked : SUBSET Streams, truncated : SUBSET Streams]
    /\ jobs \in 0 .. MaxJobs

\* "need to wait till output channels are closed to be sure we captured all
\* output at this point": when guest-exec-status answers that a job has exited,
\* everything its processes have written was captured, or the output is known
\* to be truncated.
OutputComplete ==
    reply.exited /\ has_output[reply.job] =>
        \A s \in Streams : \/ io[reply.job][s].length = written[reply.job][s]
                           \/ io[reply.job][s].truncated

\* guest_exec_output_watch knows exactly whether it has dropped something: what
\* was written is in the buffer or still in the pipe, unless it is truncated.
TruncationExact ==
    \A j \in Jobs : \A s \in Streams :
        io[j][s].truncated <=>
            io[j][s].length + outpipe[j][s] < written[j][s]

\* No callback of a job that guest-exec-status has freed can still be called
\* for the child or an output: their data are inside the freed record.
WatchesLive ==
    \A j \in Jobs : Started(j) /\ ~Listed(j) =>
        child[j] = "reaped" /\ \A s \in Streams : io[j][s].closed

\* "Check status of process associated with PID retrieved via guest-exec": a
\* pid the agent still answers for names one job.
PidNamesOneJob ==
    \A j, k \in Jobs : Listed(j) /\ Listed(k) /\ pid[j] = pid[k] => j = k

\* A job whose child would end is eventually answered as exited, however much
\* is sent to it and however much it writes: the agent and the child never wait
\* for each other.
EveryJobReported == \A j \in Jobs : Listed(j) ~> ~Listed(j)
=============================================================================
