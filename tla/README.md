# qemu-ga: models, model checking and proofs

The repository is a distribution of QEMU whose own work is the guest agent,
`qemu-ga`: a daemon in the guest that a management client on the host talks to
in JSON over a virtio-serial port, an ISA serial port or a unix socket. The
agent lives in `src/qemu-master/qga` (with `qapi/qmp-dispatch.c`,
`qapi/qmp-registry.c` and `qobject/json-*.c`); `src/qemu-win/qga` and
`src/qemu-kvm-0.12.1.2/qga` are copies for other targets, and the rest is the
emulator. The modules below describe the agent of `qemu-master`, as built for
Linux except where they say Windows.

## 1. Inventory

| Component | State | Operations | Hard behaviour | What makes it correct |
|---|---|---|---|---|
| Start-up, signals, exit (`main.c`) | `GAState`, the marker `qga.state.isfrozen`, pid and log files | `main`, `run_agent`, `check_is_frozen`, `quit_handler`, clean-up | crashes at any point, a signal inside a command, restart on a frozen guest | a later instance knows of a freeze; an accepted signal ends the process |
| Freeze and thaw (`commands-posix.c`) | the kernel's freeze counts, `frozen`, the command table, the hook | status, freeze, freeze-list, thaw | one `ioctl` per mount, each may fail; the agent must not write to what it froze | recorded freezes, no self-inflicted block, correct counts, eventually thawed |
| Handle counter (`main.c`) | `fd_counter`, in memory and in `qga.state` | read, commit, draw a handle | a crash between draw, commit and answer; 64 bits stored in 32 | no handle is given out twice |
| guest-file (`commands-posix.c`) | the handle table, stdio streams | open, close, read, write, seek, flush | error paths, `fclose` that fails, sticky error indicator | no leak, no use of a closed stream |
| guest-exec (`commands.c`) | `GuestExecInfo` list, buffers, glib watches | exec, status, child, input and output watches | callbacks in any order, full pipes, inherited pipes, pid reuse | complete output, exact truncation, no callback after free, no mutual wait |
| Channel (`channel-posix.c`) | listen and client channel | accept, read, write, close | one client at a time, EOF, full channel | the next client is served |
| Streamer, dispatch, responses (`json-streamer.c`, `main.c`, `qmp-dispatch.c`) | token list, brace counts | feed, emit, dispatch, respond, sync | leftovers of earlier clients, late answers, timeouts | the stream can always be brought into sync, and stays so |
| Suspend, shutdown, time, password (`commands-posix.c`) | none (a child each, a pipe) | one command each, waited for in the only thread | a child that fails, dies or waits for input; one effect of two | the answer says what has happened; the thread comes back |
| Processors, memory blocks (`commands-posix.c`) | none (sysfs) | get, set | partial success while devices come and go | the answer tells exactly what has changed |
| Trim, network, fsinfo, monitoring (`memory`, `disk`, `system`, `app`, `OOM`, `user`) | none | one read each | text formats | the reply says what the file says |
| Windows channel (`channel-win32.c`) | the read buffer, an overlapped read | prepare, check, dispatch | the driver writes into the buffer at any time | bytes arrive once and in order |
| Windows freeze (`commands-win32.c`, `vss-win32/`) | `vss_ctx`, three named events | freeze, thaw; the provider's commit | three processes and three time limits | answers are true, writes are released |

How they interact: the channel's callback feeds the streamer, which calls
`process_event` synchronously; a handler runs to its end, and its response is
written, before anything else is read. Handlers of the freeze commands change
the command table that the dispatch consults, and the frozen flag that signal
handler, logging and the file commands consult. guest-exec alone leaves
callbacks behind in the main loop. What outlives the process: the kernel's
freeze counts, the marker, the state file, the contents of a virtio port, and
children.

## 2. Plan

All components chosen for modelling are modelled; the order was that of the
harm a failure does.

1. `FsFreeze`: the freeze life cycle, because its failures leave a guest
   hanging. Proofs in `FsFreezeProofs`.
2. `GuestFile`: handles and the state file. Proofs in `GuestFileProofs`.
3. `GuestExec`: jobs and their callbacks. Proofs in `GuestExecProofs`.
4. `Session`: channel, streamer, dispatch, clients. Proofs in `SessionProofs`.
5. `WinChannel` above `ByteStream`. Proofs in `WinChannelProofs`, the safety
   part of the refinement included.
6. `VssFreeze`: requester, provider, their events and time limits. Proofs in
   `VssFreezeProofs`.
7. `SysDevices` and `ChildCommands`, composed in `Commands`. Proofs in
   `CommandsProofs`.

Every safety invariant and every action property that a run checks is proved;
section 6 says from which assumptions.

## 3. The modules

Names of definitions follow the code; each one's lines are in `PROJECT.json`.
Operators introduced by a comment "Mutant:" are faulty variants of the
definition after them, with which each property is shown to be falsifiable;
they are not part of any specification.

### FsFreeze

State: `depth` (the kernel's freeze count per file system), `isfrozen` (the
marker), `quiesced` (what the hook did to the applications); then the process:
`pc`, `ctx` (whether the thaw code runs for the command, for a failed freeze or
for the clean-up), `frozen`, `logging`, `deferred`, `enabled` (the command
table), `quit`, the locals of the mount walks, and the last reply.

One action per step that a crash or a signal can separate: a command's entry,
the hook, the mount list, `ga_set_frozen` in memory and its file, one
`FIFREEZE` or `FITHAW`, `ga_unset_frozen` and its file, the return. `Kill`,
`Reboot`, `ExternalThaw` and `RemoveMarker` are the world.

Abstractions: the mount table does not change; the log, pid and state files lie
on the file systems `AgentFs`, where the state directory exists (`main` creates
it with `check_path` before it does anything else, also on a guest that is
frozen); `guest-file-open` stands for every command that writes. A write to a
frozen file system blocks, so the step that writes is guarded by `CanWrite`: an
agent that blocks itself shows as a step that is never enabled. `strays`,
`unrecorded`, `held` are history: file systems a thaw could not reach, a marker
that could not be created, and what a thaw's count should be. An agent ends by
way of `pc = "exit"`, where a daemon unlinks its pid file; `EndsFrozen` says
that it gets there in the frozen state.

### GuestFile

State: the state file (`exists`, `stored`), the counter and the drawn handle in
memory, the handle table with, per entry, whether its stream is open and has
its error indicator set, and the number of open streams. `guest-file-open` is
three actions (open the file, draw and commit, add to the table), as a kill may
come between them. The counter is stored modulo the width of a `gint`
(`persistent_state_to_keyfile`). A command on a stream that `fclose` has freed
is undefined behaviour: an abort or any answer (`UseAfterClose`).

Abstractions: contents and positions of files are left out; the key file's
integer has `IntMax` for its largest value; the state file is
replaced atomically; a counter that has reached 2^63 (an abort in the code) is
out of reach of the bounds.

### GuestExec

State: the kernel's side (children, who holds the pipes, bytes in them) and the
agent's (the list of records, their fields, the reply). Each glib watch is an
action that is enabled when its descriptor or child is ready; they interleave
with each other and with the commands in any order. `guest_exec_output_watch`
is split into reading (`OutputReadable`, with the growth of the buffer, the
limit and the dropping of what does not fit) and `OutputHangup`. A child's
descendants may keep its pipes open (`Heirs`); a reaped child's pid may be
given to the next child.

Abstractions: data are counts; exit codes, arguments and environment are left
out; so is a read of an output that fails (`G_IO_STATUS_ERROR`,
`commands.c:350` and 364, which closes the output as its end does): the outputs
are local pipes read without conversion. In `Filter` instances children copy
their input to their outputs, which is where agent and child could wait for
each other.

### Session

State: the channel's method and channels, the contents of both directions, the
main loop's place, the bytes read and not yet fed, the streamer, the response
still to be written; then the client. `json_message_process_token` is modelled
with its limits and resets, `process_event` and `qmp_dispatch` by what they
answer, `ga_channel_write_all` one symbol at a time with its retry. The clients
do what the schema asks of them (0xFF, `guest-sync-delimited` with a new
id, ignore everything until it is answered, do so again after a timeout) and
may give up or disconnect anywhere, also in the middle of a request.

Abstractions: the input is a sequence of tokens of size one; a token cut short
is left out, because the 0xFF sent next ends it in every state of the lexer and
drops what came before; brackets behave as braces. A response is one symbol,
preceded by 0xFF if it is delimited. Of a request that a restarted agent finds
without its beginning, the tokens are answered one by one with errors, fewer
than in the code. A serial port keeps or discards what nobody has read; a
client that closes a socket leaves its data and an end mark.

### WinChannel and ByteStream

`ByteStream` is what the agent expects of a channel: bytes sent are read once
each, in order, until the channel fails. `WinChannel` is the code: the buffer
with `cur` and `pending`, the overlapped read as the driver sees it (the
address and length it was given, and whether it has completed),
`pending_events`, and where glib is with the source. `ga_channel_prepare`,
`ga_channel_check` and `ga_channel_dispatch` (with the callback and
`ga_channel_read`) are one action each, as they run in one thread;
`DriverCompletes` and `DriverFails` come between any two of them. Under the
mapping the wire is what is pending in the buffer, what a completed read has
put behind it, and what the driver still has. Sizes keep the width of a
`DWORD`. The callback of this agent always asks for a whole buffer; a smaller
size is considered as well, because only then do data stay in the buffer under
an outstanding read.

### VssFreeze

State: the agent (`vss_ctx`, its place in `requester_freeze` or
`requester_thaw`, `frozen`), the three named events (who has handles, which are
set), and the volume shadow copy service with the provider (how far the
snapshot set is, whether writes are held, what the provider returned). The
service is external: it is modelled by what requester and provider rely on, and
may stop holding writes at any time. Every call that can fail does so if
`Faults` says so. `service_ctrl_handler` runs in a thread of its own, so that
its look at the frozen flag and its `g_main_loop_quit` are two actions; a
freeze may come between them. `abandoned` is a set whose requester has given up
or died. History: `washeld`, `heldatthaw`, and `foreign`, which marks a freeze
whose events another set's provider has used.

### SysDevices, ChildCommands, Commands

`SysDevices` walks over processors or memory blocks, one device per action,
while `Hotplug` changes them; `transfer_vcpu` and `transfer_memory_block` are
the outcomes for a device in a given state. The assertion in `error_setg` that
a second failing block trips is the state "aborted". `ChildCommands` has one
action per call that can fail (`settimeofday`, the pipe, `fork`, the write, the
wait) and the tool's end as an action of its own. `did` collects what has taken
effect. `unreaped` says that a child has ended for which no command will wait:
`qmp_guest_set_user_password` returns at once when its write to chpasswd fails.
`Commands` composes the two under the rule of the main loop: one command at a
time.

Abstractions: a device is on, off, fixed or absent, and its file is read and
written in one step; a tool exits with 0 exactly if it did its job; arguments
are good or bad; the three suspend modes differ only in the tool's name.

## 4. The runs

| Run | Checks | Shows |
|---|---|---|
| `freeze_safety` | `TypeOK`, `FreezeIsRecorded`, `FreezeIsKnown`, `CommandTable`, `NeverBlocksItself`, `HandleAssertion`, `QuiescedWhileFrozen` | three file systems, every fault, two kills or reboots: a freeze is on record or known, the command table and the hook agree with it, and the agent does not write to what it froze, unless it ends frozen |
| `freeze_live` | `CommandsAnswered`, `EventuallyThawed`, `QuitHonoured`, `ThawCountExact`, `ErrorMeansThawed` | with a bind mount and kills, commands end, what is frozen is thawed, a freeze that fails undoes itself, and the thaw counts each file system once |
| `freeze_exit` | `NoExitWhileFrozen`, violated | a signal that arrives before `ga_set_frozen` ends the agent with the file systems frozen |
| `file_handles` | `TypeOK`, `HandlesNeverReused`, `StreamsAccounted`, `StreamsUsedWhileOpen` | every fault, kills, a deleted state file, a counter that outgrows the file |
| `exec_safety` | `TypeOK`, `TruncationExact`, `OutputComplete`, `WatchesLive` | two jobs, reused pids, inherited pipes, failing allocations |
| `exec_live` | `EveryJobReported` | a filter whose data exceed pipes and buffer: nobody waits for ever |
| `exec_pid_reuse` | `PidNamesOneJob`, violated | a reused pid is answered with the older job's status |
| `session` | `TypeOK`, `NothingStale`, `SyncCompletes`, `RequestAnswered` | two clients on all three kinds of channel, timeouts, half-sent requests, requests beyond the limits, failing ports, a restart: a client in sync is sent nothing stale, and one that stays gets into sync and is answered |
| `winchan` | `TypeOK`, `PollHasRead`, `NoOverrun`, `ImplementsStream` | the buffer used more than twice over, with compactions, failed and immediate reads: the channel is a byte stream |
| `vss` | `TypeOK`, `ThawAssertions`, `HeldIsKnown`, `FreezeMeansHeld`, `ThawMeansHeld`, `WritesReleased`, `CommandsEnd` | two freezes, a failure at every call, all time limits, a kill: answers about held writes are true and writes are released |
| `vss_stale_event` | `FrozenEventMeansHeld`, violated | a freeze after one that gave up finds the frozen event set and succeeds with nothing held |
| `commands` | `TypeOK`, `DevicesAsAnswered`, `Truthful`, `CommandsEnd` | lists with repeated and absent devices, changes meanwhile, failing tools: answers tell what has taken effect, and every command ends |

Bounds. Three file systems are the least with two that freeze, so that a freeze
can fail in the middle, and one that does not support it; depth two and a bind
mount make a file system freeze twice; two kills let a crash hit the recovery
from a crash. Three opens, two kills and `IntMax = 3`, below the counter's last
value, let handles be drawn by three processes, the stored counter wrap and
negative handles be drawn from it. Two jobs are the least with a shared pid; a
child writes more than the buffer holds, and pipes are smaller than the input
of the filters. Two clients and four requests let a client time out, sync again
and send a request after another has left half a request and an unread answer;
the capacity is smaller than a request, so that both directions can be full.
Ten bytes fill a Windows buffer of four more than twice, and reads of two leave
data behind that must be moved. Two freezes are the least in which one meets
what another left behind; two polls let the wait for the frozen event go on
once and then give up; no fixed drive is the case in which no volume is added.
Lists of two nodes can name one device twice or fail in the middle; one device
is changed by others during a command. `CHECK_DEADLOCK FALSE` is used where the
system may stop: in `session` and `winchan`, when there is nothing more to
send, in `commands`, when the agent has aborted, and in the runs that look for
a counterexample without kills.

Fairness. `FsFreeze!FairSpec`: the process is scheduled, a supervisor starts it
again, and the client repeats the thaw; no fairness for freezes, signals, kills
or the administrator. The faults of the live run leave out those that make the
thaw itself impossible for ever (opening a mount, `FITHAW`, the mount list, the
state files), since the code gives up on them. `GuestExec!FairSpec`: glib calls
each ready source, children go on reading and writing, the client goes on
asking. `Session!FairSpec`: the main loop runs and the client sends and
receives; nothing obliges it to time out, so a sync completes by the agent's
doing alone. `WinChannel!FairSpec`: glib runs the source, and a driver that has
data for a waiting read completes it in the end, though it may answer EOF in
between (strong fairness). `VssFreeze!FairSpec`: agent and provider run and the
service ends a set whose provider has returned; nothing makes writers get ready
or makes the service stop holding writes, so that `WritesReleased` rests on the
provider's limit alone. No failure of a call is obligatory either: that
`WaitForAsync` fails (`WaitForAsyncFails`) is not part of the agent's fairness,
so a thaw comes to its end because the provider and the service do.
`Commands!FairSpec`: the agent runs, and a tool that can finish does; a failing
tool or a change of devices is never needed.

## 5. Findings and observations

Findings, each with a run, are in `PROJECT.json`: the signal inside the freeze
command, the reuse of pids, and the stale events of the VSS freeze.

Observations without a run:

- The error path of a freeze runs the thaw, which skips a mount it cannot open
  (`commands-posix.c:1276`) and still leaves the frozen state, contrary to "On
  error, all filesystems will be thawed" (`qapi-schema.json:385`).
  `ErrorMeansThawed` is checked for mounts that can be opened.
- The agent can end in the frozen state: when the start of a daemon on a frozen
  guest fails (`main.c:1283`), or when the mounts cannot be listed for the thaw
  of the clean-up. It then unlinks its pid file (`main.c:1455`) and blocks if
  that is on a file system that is frozen. "cannot risk guest agent blocking
  itself on a write in this state" (`commands-posix.c:1200`) and the comment of
  `quit_handler` ("basically impossible for graceful exit to complete unless
  all log/pid files are on unfreezable filesystems") name the danger; only
  signals are guarded against it. `NeverBlocksItself` states the exception.
- The handle counter is stored as a 32-bit integer (`main.c:776`). Past 2^31 -
  1 and a restart it is negative, which `guest_file_handle_add` takes for a
  failure without an error being set: guest-file-open answers -1 as a success.
  The run has such draws; `HandlesNeverReused` is about handles a client was
  given, and after a wrap a counter that comes round again is beyond it.
- guest-exec-status never assigns `out_truncated` and `err_truncated`
  (`commands.c:206`): truncated output is answered with the value false.
- guest-get-memory-blocks goes on with an error set; a second block that cannot
  be opened trips the assertion in `error_setg` and aborts the agent
  (`commands-posix.c:2113`; the comment at 2065 asks that the error be NULL).
- A memory block without a state file that is asked to be online is answered
  with success and an error code (`commands-posix.c:2131`), although the code
  "will be omitted" on success (`qapi-schema.json:873`).
- guest-set-time answers an error when hwclock fails, with the system's clock
  already changed (`commands-posix.c:212`). `Truthful` allows it: an error
  says that not everything was done. A failed write to chpasswd leaves its
  child unwaited for (`commands-posix.c:1987`); the type invariant says that
  this is the only child the agent leaves.
- On Windows the clean-up that thaws at exit is registered only if VSS could
  not be initialised (`commands-win32.c:1327`). A freeze that finds no fixed
  drive leaves its count unassigned and the agent in the frozen state with
  nothing frozen. A thaw without events returns, as "no volumes must be frozen"
  (`requester.cpp:446`); after a freeze that gave up waiting the service may
  yet hold writes for the abandoned set, until the provider's limit
  (`ThawAssertions`, `WritesReleased`). A service that is told to stop looks at
  the frozen flag and then quits the loop: a freeze that comes between the two
  is ended by the exit of the process. `ga_channel_free` frees the buffer under
  an outstanding read.
- Two daemons can come to run with one pid file: `qemu-ga -D` with daemonize
  set, and a daemon that started frozen and failed to lock the file later, both
  unlink it at exit (`main.c:1455`).
- guest-get-oom-status overwrites its result with every line of the log, and
  sees the last one twice (`commands-posix.c:2601`). A guest-file-read that
  directly follows a write on one stream is undefined for stdio
  (`commands-posix.c:534`).
- `check_is_frozen` advises to delete the marker by hand after a manual thaw
  (`main.c:1221`); a running agent does not notice and stays in the frozen
  state until a thaw command.
- A file system mounted twice is frozen twice by a freeze of everything; since
  Linux 2.6.36 the second `FIFREEZE` answers EBUSY and the freeze fails, for
  all. The comment "Skip bind mounts" (`commands-posix.c:674`) is about mounts
  whose source is a directory; the mounts taken from `mountinfo` are not
  compared with each other (`commands-posix.c:757`).
- When the mount list of a freeze cannot be built, the hook has quiesced the
  applications and nothing runs the thaw hook (`FreezeMountList`).
- A failed `guest-file-flush` leaves the error indicator set, so that the next
  transfer is answered with an error although it succeeded
  (`commands-posix.c:585`).
- When `fclose` answers EOF the entry stays in the table while its stream is
  freed (`commands-posix.c:455`); `StreamsUsedWhileOpen` excuses this case.
- guest-exec-status does not wait for the input watch, whose buffer belongs to
  the record it frees (`commands.c:217`).
- A request beyond the limits of the streamer is answered several times, and
  the client is out of sync until it syncs again; so is one that goes on after
  a restart of the agent. `NothingStale` excuses both.
- An isa-serial port that answers EOF, or any port whose read fails, is closed
  for good (`main.c:652`).

## 6. The proofs

Each component has a proof module that extends it: `FsFreezeProofs`,
`GuestFileProofs`, `GuestExecProofs`, `SessionProofs`, `WinChannelProofs`,
`VssFreezeProofs`, `CommandsProofs`. `ListLemmas` has what four of them need
about searching a sequence and taking an element off it. All theorems hold for
every value of the constants that satisfies the `ASSUME` of the component's
module: any number of file systems, mounts, files, jobs, clients, requests,
devices and bytes, any set of commands, blacklist and faults, any bound on
kills. What the assumptions ask beyond types is what the code has: the limit of
guest-exec's buffers is a multiple of their increment, a Windows buffer is
smaller than a `DWORD`'s range, the streamer's limits admit an ordinary request
(`MAX_TOKEN_SIZE >= 3`, `MAX_NESTING >= 1`), the memory blocks of a machine are
finitely many, and there is a pid.

Every invariant below was checked by TLC on the instance of the component's run
before it was proved.

**FsFreeze.** `TypeCorrect` splits the type invariant in Boolean flags and
data, because the two need different provers. The safety invariants are not
inductive one by one: that a freeze is known depends on where in the freeze or
thaw the process is, and after a crash on what the marker says. `FreezeInv`
conjoins

- `FreezeIsRecorded`, `FreezeIsKnown`, `CommandTable`, `QuiescedWhileFrozen`;
- `FreezePath`: from `frz_rec` on the process is in the frozen state, up to the
  creation of the marker nothing but strays is frozen, then the marker exists
  or is known to be missing, and the hook has run;
- `ThawPath`: what the walk has passed is thawed or a stray;
- `OnlyMounted`: what is frozen is mounted, so that the walk reaches it;
- `Flags`: how `frozen`, `logging`, `unrecorded` and `enabled` go with `pc`.

Each action preserves it; `FreezeIsAlwaysRecorded`, `FreezeIsAlwaysKnown`,
`CommandTableCorrect`, `AgentNeverBlocksItself`, `HandleAssertionHolds` and
`QuiescedThroughout` follow. `AgentNeverBlocksItself` covers the unlink of the
pid file at exit, with the agent that ends frozen for an exception;
`NeverEndsFrozen` shows what the exception needs: without a start or a mount
list that fails no agent ends frozen, whatever hooks, `ioctl`s and signals do.

The two action properties about answers hold where the code can keep its
promise, so their theorems assume the faults away that break it.
`FailedFreezeThaws` excludes mounts that cannot be listed, opened or thawed and
a marker that cannot be created (`Faults` without `open`, `fithaw`,
`mountlist`, `create`): then the agent loses track of nothing (`NoStrays`), and
`FreezeInv` leaves nothing frozen where an error is answered. `ThawCounts`
excludes `open`, `fithaw` and `extthaw`, and needs an induction of its own:
apart from the walk of a thaw command what is held is what is frozen (`Held`),
what is behind the walk is thawed (`Thawed`), and the count is the number of
file systems held and no longer frozen, plus one while a file system frozen
several times has been counted and is not thawed yet (`Counted`, `Underway`).

**GuestFile.** `TypeCorrect` rests on `KeyfileFits` (whatever is stored fits a
gint) and `FirstFound` (the table search has a least element, by
well-foundedness); that the number of open streams does not fall below zero,
which it says as well, comes from `StreamsInv`. `NoHandleReused` assumes
`DefaultCounter + MaxOpens <= IntMax`, which is the condition under which the
code is right: beyond it the stored counter wraps (see section 5). Its
induction hypothesis, `HandlesInv`, adds to the property that the stored
counter and the one in memory are both ahead of every handle issued and of the
one about to be (`Ahead`), that counters stay within what was drawn
(`CounterRange`), and that nothing was issued before the first draw
(`DrawnFirst`). A failed commit keeps it because the handle is not given out; a
kill keeps it because the file is already ahead.

`StreamsNeverLeak` and `NoUseAfterClose` come from `StreamsInv`, which adds
`TableOpen`: as long as no `fclose` has answered EOF, every entry of the table
has its stream. Without it a handle that is found would say nothing about the
stream that the command goes on to use. The counting rests on `AddedEntry`,
`RemovedOpen` and `MarkedOpen`: what the three changes of the table do to the
number of its open entries.

**GuestExec.** `ExecInv` conjoins the types with

- `Buffers`: each buffer is a multiple of its increment within the limit, and
  truncated exactly if fewer bytes are in the buffer and the pipe than were
  written. That sizes are multiples is what makes one more increment stay
  within the limit, which the code never compares with the sum;
- `Drained`: a captured output that is closed has an empty pipe and no process
  that could write to it, the heirs of the child included;
- `Consistent`, `Replied`: what is finished is reaped, what has not been
  started is not there, and the job answered as exited has closed outputs;
- `WatchesLive` itself.

`OutputsComplete` follows from `Buffers`, `Drained` and `Replied` together: no
one of the three would do, as bytes can be missing in the buffer, in the pipe,
or still to come. `TypeCorrect`, `TruncationKnown` and `NoCallbackOnFreed`
are parts of the invariant.

**Session.** `SessionInv` has the types (the streamer's list is empty exactly
if its brace count is 0, which bounds the one by the other), the place of the
main loop (`Loop`), and two parts about the whole pipe: what the agent has read
and not fed, what is in the channel, and what the client has still to send.

- `Syncing`, while a client waits for the answer to its sync: the tokens of its
  request are the last ones of the pipe, at their places (`Placed`); and if the
  answer is on its way back it is the last thing said, with the pipe and the
  streamer empty. Only the answer with the client's own, new id satisfies the
  client, so an older client's answers do not disturb this.
- `InSync`, from then on: either nothing is on its way; or the request is, what
  the streamer holds and what it has still to read making up its three tokens
  (`OnItsWay`); or all of it was read and there is at most one answer, to it
  (`OneAnswer`).

The step from the first to the second is the receipt of the sync's answer: with
it everything older is gone. `SyncFlushes` follows from `InSync`, `TypeCorrect`
from the types. That the request is fed token by token is why the invariant
speaks of places in the pipe, and the channel's operations (reading, sending,
closing, a restart) only ever take a front part away or add at the end.

**WinChannel.** `ChannelInv` says where things lie: the data inside the buffer,
the outstanding read directly behind them and inside the buffer (`OneRead`,
with the flag agreeing with the driver), only bytes of the host in what is or
will be data (`DataSent`), and a read whenever glib polls (`Turns`).
`TypeCorrect`, `PollAlwaysHasRead` and `DriverNeverOverruns` follow.
`StreamRefined` maps each step, under the refinement mapping of `WinChannel`,
to a step of `ByteStream` or a stutter: compaction moves the data without
changing their sequence, a completion moves bytes from the driver's part of the
wire to the buffer's, a dispatch takes a prefix of the wire. `BytesConserved`
concludes that what was fed, followed by the wire, is always what was sent.

**VssFreeze.** `VssInv` ties together what three processes know: `Context`
(what `vss_ctx` holds at each place of the code, and that events mean frozen),
`Ownership` (a set that is not abandoned is that of the present backup; its
writes are held from the commit on), `Events` (who has handles, and what a
signalled event means as long as no abandoned set's provider has used it) and
`EndsWell` (a set that ends well has seen the thaw while it held the writes).
`ThawAssertionsHold` and `HeldIsAlwaysKnown` follow from the first two; the
former says of a requester without events that whatever writes are held are
those of an abandoned set. The action properties `FreezesMeanHeld` and
`ThawsMeanHeld` need the others, as the requester sees an event or a result and
never the writes.

**Commands.** `CommandsInv` is `SysInv` and `ChildInv`. The first says what the
loops have done after any number of nodes (`VcpusSoFar`, `BlocksSoFar`): every
device that nobody else has changed is as the results so far leave it, the last
node that names a device deciding; at the end of the loop this is the property.
The second says what a command has done at each place of its code (`Progress`):
what comes before its present tool, and the tool if it has ended well. It also
says that a chpasswd that has ended before its input was written has failed,
from which `TypeCorrect` has that a child left unreaped is one that failed.
`DevicesAlwaysAsAnswered` and `AnswersTruthful` are parts of the invariant that
need the rest of it to be inductive.

Only model-checked: every liveness property (`CommandsAnswered`,
`EventuallyThawed`, `QuitHonoured`, `EveryJobReported`, `SyncCompletes`,
`RequestAnswered`, `WritesReleased`, `CommandsEnd`, and the delivery of
everything in `ImplementsStream`), as TLAPS has no support for fairness and
`ENABLED`; and the three properties that are violated. No theorem is about a
recursive definition.

## 7. Not modelled

The reasons are in `PROJECT.json`, by component. In short: commands that read
files and format a reply keep no state that could go wrong between two steps;
guest-fstrim walks over the mounts as the freeze does and never stops early;
the pid file with several instances is described in section 5; the other
Windows commands are single Win32 calls, and COM registration and the
installation of the provider happen once, by hand; the lexer's character table,
the recursive-descent parser and the option parser are text processing; the
older copies of the agent differ from the one modelled in details; the
emulator, which is most of the repository by size, has no part in the agent and
runs on the other side of the channel.
