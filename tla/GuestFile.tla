----------------------------- MODULE GuestFile -----------------------------
(***************************************************************************)
(* The file handles of guest-file-open and the counter they are numbered   *)
(* from, which qemu-ga keeps in its state file so that a handle is not     *)
(* given out again after a restart (qga/main.c, qga/commands-posix.c).     *)
(*                                                                         *)
(* The state file survives the process, the table of handles and the       *)
(* streams behind it do not.  guest-file-open is three steps, because the  *)
(* process can be killed between opening the file, committing the counter  *)
(* and answering.                                                          *)
(*                                                                         *)
(* Abstractions: file contents and positions are left out; a stream is     *)
(* open or closed and has stdio's error indicator.  The state file is      *)
(* replaced atomically (g_file_set_contents writes a copy and renames it). *)
(***************************************************************************)
EXTENDS Integers, Sequences, SequencesExt

CONSTANTS
    DefaultCounter, \* QGA_PSTATE_DEFAULT_FD_COUNTER
    IntMax,         \* largest integer g_key_file_set_integer can store
    Faults,         \* the operations of the environment that may fail
    MaxOpens,       \* bound on the handles drawn in a behaviour
    MaxKills        \* bound on the kills of a behaviour

FaultKinds == {"stat", "load", "commit", "open", "io", "flush", "fclose",
               "remove"}

ASSUME ConstantsAssumption ==
    /\ IntMax \in Nat /\ DefaultCounter \in 1 .. IntMax
    /\ MaxOpens \in Nat /\ MaxKills \in Nat
    /\ Faults \subseteq FaultKinds

VARIABLES
    exists, stored, \* the state file, and the fd_counter in it
    pc,             \* where the process is
    frozen,         \* ga_is_frozen
    fd_counter,     \* pstate.fd_counter
    handle,         \* the handle ga_get_fd_handle has drawn
    filehandles,    \* guest_file_state.filehandles
    streams,        \* how many stdio streams the process has open
    reply,          \* the last answer
    \* history, read by the properties only
    issued,         \* every handle answered by guest-file-open, in order
    opens,          \* handles drawn, over all processes
    lost,           \* a start found no state file although handles were drawn
    undefined,      \* a command used a stream that fclose had already freed
    failed,         \* an fclose has answered EOF
    kills

fileVars == <<exists, stored>>
tableVars == <<filehandles, streams>>
ghosts == <<issued, opens, lost, undefined, failed, kills>>
vars == <<exists, stored, pc, frozen, fd_counter, handle, filehandles, streams,
          reply, issued, opens, lost, undefined, failed, kills>>

PCs == {"down", "loop", "handle", "add"}

MayFail(kind) == kind \in Faults

\* io says how the stdio call of the command went.
Answer(kind, id, io) == [kind |-> kind, id |-> id, io |-> io]
Answers == [kind : {"none", "handle", "ok", "error"}, id : Int,
            io : {"none", "ok", "fail"}]
NoReply == Answer("none", 0, "none")
Error == Answer("error", 0, "none")

\* An entry of the table: is its stream open, is its error indicator set.
Entries == [id : Int, open : BOOLEAN, err : BOOLEAN]
NewEntry(id) == [id |-> id, open |-> TRUE, err |-> FALSE]

\* Every handle a client may name: those it was given, and one it was not.
Named == DefaultCounter .. DefaultCounter + MaxOpens

Init ==
    /\ exists = FALSE /\ stored = DefaultCounter
    /\ pc = "down" /\ frozen = FALSE
    /\ fd_counter = DefaultCounter /\ handle = 0
    /\ filehandles = <<>> /\ streams = 0 /\ reply = NoReply
    /\ issued = <<>> /\ opens = 0 /\ lost = FALSE /\ undefined = FALSE
    /\ failed = FALSE /\ kills = 0

-----------------------------------------------------------------------------
(* The state file. *)

\* g_key_file_set_integer takes a gint: the int64_t counter is converted to
\* it modulo its width.
persistent_state_to_keyfile(n) ==
    ((n + IntMax + 1) % (2 * IntMax + 2)) - IntMax - 1

\* write_persistent_state of the counter n, when it succeeds.
write_persistent_state(n) ==
    exists' = TRUE /\ stored' = persistent_state_to_keyfile(n)

\* read_persistent_state, when it returns true: the defaults are written only
\* if no file exists and nothing is frozen.
read_persistent_state ==
    \/ exists /\ fd_counter' = stored /\ UNCHANGED fileVars
    \/ /\ ~exists /\ fd_counter' = DefaultCounter
       /\ IF frozen' THEN UNCHANGED fileVars
          ELSE write_persistent_state(DefaultCounter)

\* A new process, with an empty table.  It may find the guest frozen.
Start ==
    /\ pc = "down"
    /\ frozen' \in BOOLEAN
    /\ read_persistent_state
    /\ pc' = "loop" /\ handle' = 0
    /\ filehandles' = <<>> /\ streams' = 0 /\ reply' = NoReply
    /\ lost' = IF ~exists /\ opens > 0 THEN TRUE ELSE lost
    /\ UNCHANGED <<issued, opens, undefined, failed, kills>>

\* stat fails, the file cannot be parsed, or it cannot be created: run_agent
\* gives up.
StartFails ==
    /\ pc = "down" /\ kills < MaxKills /\ kills' = kills + 1
    /\ \/ MayFail("stat")
       \/ exists /\ MayFail("load")
       \/ ~exists /\ MayFail("commit")
    /\ UNCHANGED <<exists, stored, pc, frozen, fd_counter, handle, filehandles,
                   streams, reply, issued, opens, lost, undefined, failed>>

-----------------------------------------------------------------------------
(* guest-file-open.  The file commands are disabled while frozen. *)

\* The main loop dispatches one of the commands of this module.
Ready == pc = "loop" /\ ~frozen

\* safe_open_or_create and guest_file_toggle_flags: the stream is open, or the
\* command fails and leaves none behind.
qmp_guest_file_open ==
    /\ Ready /\ opens < MaxOpens
    /\ \/ pc' = "handle" /\ streams' = streams + 1 /\ UNCHANGED reply
       \/ MayFail("open") /\ reply' = Error /\ UNCHANGED <<pc, streams>>
    /\ UNCHANGED <<exists, stored, frozen, fd_counter, handle, filehandles,
                   issued, opens, lost, undefined, failed, kills>>

\* Mutant: the handle is given out although the counter was not committed.
UncommittedHandle ==
    /\ pc = "handle"
    /\ handle' = fd_counter /\ fd_counter' = fd_counter + 1
    /\ opens' = opens + 1
    /\ \/ write_persistent_state(fd_counter + 1)
       \/ MayFail("commit") /\ UNCHANGED fileVars
    /\ pc' = "add"
    /\ UNCHANGED <<frozen, filehandles, streams, reply, issued, lost,
                   undefined, failed, kills>>

\* Mutant: the stream of a failed commit is left open.
CommitLeaks ==
    /\ pc = "handle"
    /\ handle' = fd_counter /\ fd_counter' = fd_counter + 1
    /\ opens' = opens + 1
    /\ \/ /\ write_persistent_state(fd_counter + 1)
          /\ pc' = "add" /\ UNCHANGED reply
       \/ /\ MayFail("commit") /\ UNCHANGED fileVars
          /\ pc' = "loop" /\ reply' = Error
    /\ UNCHANGED <<frozen, filehandles, streams, issued, lost, undefined,
                   failed, kills>>

\* Mutant: both guest_file_handle_add and qmp_guest_file_open close the stream
\* of a failed commit.
CommitClosesTwice ==
    /\ pc = "handle"
    /\ handle' = fd_counter /\ fd_counter' = fd_counter + 1
    /\ opens' = opens + 1
    /\ \/ /\ write_persistent_state(fd_counter + 1)
          /\ pc' = "add" /\ UNCHANGED <<streams, reply>>
       \/ /\ MayFail("commit") /\ UNCHANGED fileVars
          /\ pc' = "loop" /\ streams' = streams - 2 /\ reply' = Error
    /\ UNCHANGED <<frozen, filehandles, issued, lost, undefined, failed,
                   kills>>

\* ga_get_fd_handle: the counter advances whether or not it can be committed;
\* when it cannot, the command fails and closes the stream.
ga_get_fd_handle ==
    /\ pc = "handle"
    /\ handle' = fd_counter /\ fd_counter' = fd_counter + 1
    /\ opens' = opens + 1
    /\ \/ /\ write_persistent_state(fd_counter + 1)
          /\ pc' = "add" /\ UNCHANGED <<streams, reply>>
       \/ /\ MayFail("commit") /\ UNCHANGED fileVars
          /\ pc' = "loop" /\ streams' = streams - 1 /\ reply' = Error
    /\ UNCHANGED <<frozen, filehandles, issued, lost, undefined, failed,
                   kills>>

\* guest_file_handle_add takes a negative handle for a failure: the stream is
\* closed and, no error being set, -1 is the answer.
guest_file_handle_add ==
    /\ pc = "add" /\ pc' = "loop"
    /\ IF handle < 0
       THEN /\ streams' = streams - 1 /\ reply' = Answer("handle", -1, "none")
            /\ UNCHANGED <<filehandles, issued>>
       ELSE /\ filehandles' = Append(filehandles, NewEntry(handle))
            /\ reply' = Answer("handle", handle, "none")
            /\ issued' = Append(issued, handle)
            /\ UNCHANGED streams
    /\ UNCHANGED <<exists, stored, frozen, fd_counter, handle, opens, lost,
                   undefined, failed, kills>>

-----------------------------------------------------------------------------
(* The commands on a handle. *)

\* guest_file_handle_find: the entries with this id; the commands act on the
\* first one.
guest_file_handle_find(h) == {i \in DOMAIN filehandles : filehandles[i].id = h}
First(h) == Min(guest_file_handle_find(h))

\* The table with the stream of h marked.
WithOpen(h, b) == [filehandles EXCEPT ![First(h)].open = b]
WithError(h, b) == [filehandles EXCEPT ![First(h)].err = b]

\* The command names no entry of the table.
UnknownHandle(h) ==
    /\ Ready /\ guest_file_handle_find(h) = {}
    /\ reply' = Error
    /\ UNCHANGED <<exists, stored, pc, frozen, fd_counter, handle, filehandles,
                   streams, ghosts>>

\* The command names an entry with an open stream.
Found(h) ==
    Ready /\ guest_file_handle_find(h) # {} /\ filehandles[First(h)].open

UnchangedButTable ==
    UNCHANGED <<exists, stored, pc, frozen, fd_counter, handle, ghosts>>

\* An fclose that answers EOF is remembered.
UnchangedByClose ==
    UNCHANGED <<exists, stored, pc, frozen, fd_counter, handle, issued, opens,
                lost, undefined, kills>>

\* Mutant: the entry of a closed file stays in the table.
CloseKeepsEntry(h) ==
    /\ Found(h) /\ streams' = streams - 1
    /\ filehandles' = WithOpen(h, FALSE)
    /\ reply' = Answer("ok", h, "ok")
    /\ UnchangedButTable

\* fclose frees the stream even when it answers EOF, but then the entry stays.
qmp_guest_file_close(h) ==
    /\ Found(h) /\ streams' = streams - 1
    /\ \/ /\ filehandles' = RemoveAt(filehandles, First(h))
          /\ reply' = Answer("ok", h, "ok") /\ UNCHANGED failed
       \/ /\ MayFail("fclose")
          /\ filehandles' = WithOpen(h, FALSE)
          /\ reply' = Answer("error", h, "fail") /\ failed' = TRUE
    /\ UnchangedByClose

\* The stdio call of a command succeeds or fails.
Outcome(kind) == {"ok"} \cup (IF MayFail(kind) THEN {"fail"} ELSE {})

\* A count that is negative, or larger than the data to write, is refused.
BadCount(h) ==
    /\ Found(h) /\ reply' = Answer("error", h, "none")
    /\ UNCHANGED tableVars /\ UnchangedButTable

\* fread or fwrite: the answer is an error when the stream's error indicator is
\* set, whichever call set it; the indicator is then cleared.
Transfer(h) ==
    /\ Found(h)
    /\ \E io \in Outcome("io") :
          reply' = Answer(IF io = "fail" \/ filehandles[First(h)].err
                          THEN "error" ELSE "ok", h, io)
    /\ filehandles' = WithError(h, FALSE)
    /\ UNCHANGED streams /\ UnchangedButTable

qmp_guest_file_read(h) == BadCount(h) \/ Transfer(h)
qmp_guest_file_write(h) == BadCount(h) \/ Transfer(h)

\* guest-file-seek looks at the result of fseek and clears the indicator.
qmp_guest_file_seek(h) ==
    /\ Found(h)
    /\ \E io \in Outcome("io") :
          reply' = Answer(IF io = "fail" THEN "error" ELSE "ok", h, io)
    /\ filehandles' = WithError(h, FALSE)
    /\ UNCHANGED streams /\ UnchangedButTable

\* guest-file-flush leaves the indicator set when fflush fails.
qmp_guest_file_flush(h) ==
    /\ Found(h)
    /\ \E io \in Outcome("flush") :
          /\ reply' = Answer(IF io = "fail" THEN "error" ELSE "ok", h, io)
          /\ filehandles' = IF io = "fail"
                            THEN WithError(h, TRUE)
                            ELSE filehandles
    /\ UNCHANGED streams /\ UnchangedButTable

\* A command on an entry whose stream fclose has freed: undefined behaviour,
\* here an abort of the process or any answer.
UseAfterClose(h) ==
    /\ Ready /\ guest_file_handle_find(h) # {} /\ ~filehandles[First(h)].open
    /\ undefined' = TRUE
    /\ \/ pc' = "down" /\ UNCHANGED reply
       \/ pc' = pc /\ reply' \in {Answer(k, h, "none") : k \in {"ok", "error"}}
    /\ UNCHANGED <<exists, stored, frozen, fd_counter, handle, filehandles,
                   streams, issued, opens, lost, failed, kills>>

HandleCommand(h) ==
    \/ UnknownHandle(h) \/ UseAfterClose(h)
    \/ qmp_guest_file_close(h) \/ qmp_guest_file_read(h)
    \/ qmp_guest_file_write(h) \/ qmp_guest_file_seek(h)
    \/ qmp_guest_file_flush(h)

-----------------------------------------------------------------------------
(* The environment. *)

\* Freeze and thaw commands: see FsFreeze.
SetFrozen ==
    /\ pc = "loop" /\ frozen' = IF frozen THEN FALSE ELSE TRUE
    /\ UNCHANGED <<exists, stored, pc, fd_counter, handle, filehandles,
                   streams, reply, ghosts>>

\* The process is killed, at any point.
Kill ==
    /\ pc # "down" /\ kills < MaxKills /\ kills' = kills + 1
    /\ pc' = "down"
    /\ UNCHANGED <<exists, stored, frozen, fd_counter, handle, filehandles,
                   streams, reply, issued, opens, lost, undefined, failed>>

\* The administrator deletes the key store.
RemoveState ==
    /\ MayFail("remove") /\ exists /\ exists' = FALSE
    /\ UNCHANGED <<stored, pc, frozen, fd_counter, handle, filehandles,
                   streams, reply, ghosts>>

Next ==
    \/ Start \/ StartFails
    \/ qmp_guest_file_open \/ ga_get_fd_handle \/ guest_file_handle_add
    \/ \E h \in Named : HandleCommand(h)
    \/ SetFrozen \/ Kill \/ RemoveState

Spec == Init /\ [][Next]_vars

-----------------------------------------------------------------------------
(* Properties. *)

TypeFlags ==
    /\ exists \in BOOLEAN /\ frozen \in BOOLEAN
    /\ lost \in BOOLEAN /\ undefined \in BOOLEAN /\ failed \in BOOLEAN

TypeData ==
    /\ stored \in -IntMax - 1 .. IntMax
    /\ pc \in PCs
    /\ fd_counter \in Int /\ handle \in Int
    /\ filehandles \in Seq(Entries)
    /\ streams \in Int
    /\ reply \in Answers
    /\ issued \in Seq(Int) /\ opens \in 0 .. MaxOpens
    /\ (pc = "handle" => opens < MaxOpens) /\ kills \in 0 .. MaxKills

\* Type invariant.  The process never closes more streams than it has opened,
\* and what the state file holds fits a gint (persistent_state_to_keyfile).
TypeOK == TypeFlags /\ TypeData /\ streams >= 0

\* No handle is given out twice, whatever process gave it out: a client that
\* still holds a handle of an agent that has died can never reach a file that
\* somebody else opened since.  This is so as long as nobody deletes the state
\* file and the counter has not come round: one that outgrows the gint of the
\* state file is negative after a restart, gives out no handle until it is
\* positive again, and then begins with those given out first.
HandlesNeverReused ==
    ~lost => \A i, j \in DOMAIN issued : i # j => issued[i] # issued[j]

\* The entries of a table whose stream is open.
OpenEntries(table) == {i \in DOMAIN table : table[i].open}

\* Every stream that is open belongs to an entry of the table or to the open
\* under way, and every entry that is open has its stream: the error paths of
\* guest-file-open and guest-file-close neither leak a stream nor close one
\* twice.
StreamsAccounted ==
    pc # "down" =>
        streams = Cardinality(OpenEntries(filehandles))
                  + (IF pc \in {"handle", "add"} THEN 1 ELSE 0)

\* No command touches a stream that fclose has freed, unless an fclose has
\* answered EOF (then qmp_guest_file_close keeps the entry).
StreamsUsedWhileOpen == undefined => failed

-----------------------------------------------------------------------------
(* The induction behind HandlesNeverReused.                                  *)

IssuedBelow(n) == \A i \in DOMAIN issued : issued[i] < n

\* The counter counts from the default, once per open at most.
CounterRange ==
    /\ fd_counter \in DefaultCounter .. DefaultCounter + opens
    /\ stored \in DefaultCounter .. DefaultCounter + opens

\* Nothing is issued before a handle was drawn.
DrawnFirst == opens = 0 => issued = <<>> /\ pc # "add"

\* What a restart would begin from is beyond every handle that a client has or
\* is about to be given; so is the counter of the process.
Ahead ==
    ~lost =>
        /\ exists => IssuedBelow(stored) /\ (pc = "add" => handle < stored)
        /\ pc # "down" => IssuedBelow(fd_counter)
        /\ pc = "add" => IssuedBelow(handle) /\ handle < fd_counter

HandlesInv ==
    TypeData /\ CounterRange /\ DrawnFirst /\ Ahead /\ HandlesNeverReused
=============================================================================
