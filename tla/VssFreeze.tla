----------------------------- MODULE VssFreeze -----------------------------
(***************************************************************************)
(* guest-fsfreeze on Windows: the commands (qga/commands-win32.c), the VSS *)
(* requester that they call (qga/vss-win32/requester.cpp), and the VSS     *)
(* provider (qga/vss-win32/provider.cpp), which the volume shadow copy     *)
(* service calls, in another process, while it holds the writes.           *)
(*                                                                         *)
(* Requester and provider share three named events: the provider says that *)
(* the volumes are frozen, the requester that they may be thawed, and the  *)
(* provider that it could not wait for that.  An event exists, with the    *)
(* state that it has, as long as one of the two has a handle to it.        *)
(*                                                                         *)
(* Abstractions: the three events are created, opened and closed together. *)
(* The service, which is not part of the repository, does one snapshot set *)
(* at a time, ends it when the provider has returned, may stop holding the *)
(* writes at any time (it does so after ten seconds), and goes on with a   *)
(* set that was abandoned while it freezes the writers.                    *)
(***************************************************************************)
EXTENDS Naturals

CONSTANTS
    FixedDrives,  \* how many volumes the requester may find
    MaxPolls,     \* VSS_TIMEOUT_FREEZE_MSEC / VSS_TIMEOUT_EVENT_MSEC
    Faults,       \* the calls that may fail
    MaxFreezes, MaxKills  \* bounds on a behaviour

ASSUME ConstantsAssumption ==
    /\ FixedDrives \subseteq Nat /\ MaxPolls \in Nat \ {0}
    /\ MaxFreezes \in Nat /\ MaxKills \in Nat
    /\ Faults \subseteq {"event", "setup", "prepare", "query", "writers",
                         "snapshot", "async", "complete"}

VARIABLES
    \* the agent
    pc, ctx,    \* where it is, and for which command
    frozen,     \* GAState.frozen
    quit,       \* the service is told to stop: "no", "checked" or "yes"
    hEvents, pVssbc, pAsyncSnapshot, cFrozenVols,  \* vss_ctx
    drives, i, res,  \* locals: volumes added, polls, and the answer
    reply,      \* the last response
    \* the events
    holders,    \* who has handles to them
    signalled,  \* those that are set
    \* the service
    set,        \* what it does with the snapshot set
    abandoned,  \* nobody waits for the set
    writes,     \* it holds the writes
    expired,    \* it has stopped to hold them before the provider returned
    hr,         \* what the provider, then the set, has ended with
    \* history
    washeld,    \* the service has held the writes for the current freeze
    heldatthaw, \* it was holding them when the thaw was requested
    foreign,    \* an abandoned set's provider has used the current events
    freezes, kills

vss_ctx == <<hEvents, pVssbc, pAsyncSnapshot, cFrozenVols>>
locals == <<drives, i, res>>
events == <<holders, signalled>>
service == <<set, abandoned, writes, expired, hr>>
history == <<washeld, heldatthaw, foreign, freezes, kills>>
vars == <<pc, ctx, frozen, quit, hEvents, pVssbc, pAsyncSnapshot, cFrozenVols,
          drives, i, res, reply, holders, signalled, set, abandoned, writes,
          expired, hr, washeld, heldatthaw, foreign, freezes, kills>>

\* err: is it an error; n: the number.  Unassigned stands for one that was
\* never assigned.
Answer(kind, err, n) == [kind |-> kind, err |-> err, n |-> n]
NoAnswer == Answer("none", FALSE, 0)
Unassigned == 999

EmptyContext ==
    /\ hEvents' = FALSE /\ pVssbc' = FALSE /\ pAsyncSnapshot' = FALSE
    /\ cFrozenVols' = 0

Init ==
    /\ pc = "loop" /\ ctx = "none" /\ frozen = FALSE /\ quit = "no"
    /\ hEvents = FALSE /\ pVssbc = FALSE /\ pAsyncSnapshot = FALSE
    /\ cFrozenVols = 0 /\ drives = 0 /\ i = 0 /\ res = NoAnswer
    /\ reply = NoAnswer
    /\ holders = {} /\ signalled = {}
    /\ set = "none" /\ abandoned = FALSE /\ writes = FALSE /\ expired = FALSE
    /\ hr = "pending"
    /\ washeld = FALSE /\ heldatthaw = FALSE /\ foreign = FALSE
    /\ freezes = 0 /\ kills = 0

\* Somebody closes its handles.
CloseEvents(who) ==
    /\ holders' = holders \ {who}
    /\ signalled' = IF holders' = {} THEN {} ELSE signalled

Idle == pc = "loop" /\ quit # "yes"

-----------------------------------------------------------------------------
(* qmp_guest_fsfreeze_freeze and requester_freeze. *)

\* The command is disabled while frozen.  ga_set_frozen; a requester that has
\* a backup under way would return at once.
qmp_guest_fsfreeze_freeze ==
    /\ Idle /\ ~frozen /\ freezes < MaxFreezes
    /\ frozen' = TRUE /\ freezes' = freezes + 1
    /\ IF pVssbc
       THEN reply' = Answer("freeze", FALSE, 0) /\ UNCHANGED <<pc, ctx>>
       ELSE pc' = "create" /\ ctx' = "freeze" /\ UNCHANGED reply
    /\ res' = Answer("freeze", FALSE, Unassigned)
    /\ UNCHANGED <<quit, vss_ctx, drives, i, events, service, washeld,
                   heldatthaw, foreign, kills>>

\* err_set and goto out.
Fails == pc' = "out" /\ res' = Answer("freeze", TRUE, 0)

\* CreateEvent opens an event that exists as it is.
CreateEvents ==
    /\ pc = "create"
    /\ \/ /\ holders' = holders \cup {"agent"} /\ hEvents' = TRUE
          /\ foreign' = (IF holders # {} THEN TRUE ELSE FALSE)
          /\ pc' = "setup" /\ UNCHANGED res
       \/ /\ "event" \in Faults /\ Fails
          /\ UNCHANGED <<holders, hEvents, foreign>>
    /\ UNCHANGED <<ctx, frozen, quit, pVssbc, pAsyncSnapshot, cFrozenVols,
                   drives, i, reply, signalled, service, washeld, heldatthaw,
                   freezes, kills>>

\* From CreateVssBackupComponents to AddComponents.
SetUp ==
    /\ pc = "setup"
    /\ \/ pVssbc' = TRUE /\ pc' = "start" /\ UNCHANGED res
       \/ "setup" \in Faults /\ Fails /\ pVssbc' \in BOOLEAN
    /\ UNCHANGED <<ctx, frozen, quit, hEvents, pAsyncSnapshot, cFrozenVols,
                   drives, i, reply, events, service, history>>

\* StartSnapshotSet, which fails while the service is busy, and the volumes.
\* Without any, the requester leaves without an error, and without a number.
StartSnapshotSet ==
    /\ pc = "start"
    /\ \/ /\ set = "none" /\ set' = "started" /\ abandoned' = FALSE
          /\ expired' = FALSE /\ hr' = "pending" /\ washeld' = FALSE
          /\ drives' \in FixedDrives
          /\ pc' = IF drives' = 0 THEN "out" ELSE "prepare"
          /\ UNCHANGED res
       \/ /\ set # "none" /\ Fails
          /\ UNCHANGED <<set, abandoned, expired, hr, washeld, drives>>
    /\ UNCHANGED <<ctx, frozen, quit, vss_ctx, i, reply, events, writes,
                   heldatthaw, foreign, freezes, kills>>

\* PrepareForBackup, GatherWriterStatus, DoSnapshotSet.
DoSnapshotSet ==
    /\ pc = "prepare"
    /\ \/ set' = "flush" /\ pAsyncSnapshot' = TRUE /\ pc' = "query" /\ i' = 0
          /\ UNCHANGED res
       \/ "prepare" \in Faults /\ Fails /\ UNCHANGED <<set, pAsyncSnapshot, i>>
    /\ UNCHANGED <<ctx, frozen, quit, hEvents, pVssbc, cFrozenVols, drives,
                   reply, events, abandoned, writes, expired, hr, history>>

\* QueryStatus: the set is pending, or it has ended without the event.
QueryStatus ==
    /\ pc = "query"
    /\ \/ set # "done" /\ pc' = "wait" /\ UNCHANGED res
       \/ set = "done" /\ Fails
       \/ "query" \in Faults /\ Fails
    /\ UNCHANGED <<ctx, frozen, quit, vss_ctx, drives, i, reply, events,
                   service, history>>

\* Mutant: the requester polls for ever.
PollsForever(n) == TRUE

\* Is there another turn of the loop after n of them?
PollsAgain(n) == n < MaxPolls

FreezeSucceeds ==
    /\ cFrozenVols' = drives /\ reply' = Answer("freeze", FALSE, drives)
    /\ pc' = "loop" /\ ctx' = "none" /\ UNCHANGED res

\* Mutant: how the last wait has ended is not looked at.
NoEventUnchecked == FreezeSucceeds

\* The loop ends without the event.
NoEvent == Fails /\ UNCHANGED <<ctx, cFrozenVols, reply>>

\* WaitForSingleObject on the frozen event, and the end of the freeze.
WaitFrozen ==
    /\ pc = "wait"
    /\ \/ "frozen" \in signalled /\ FreezeSucceeds /\ UNCHANGED i
       \/ /\ "frozen" \notin signalled
          /\ i' = IF i < MaxPolls THEN i + 1 ELSE i
          /\ \/ /\ PollsAgain(i') /\ pc' = "query"
                /\ UNCHANGED <<ctx, cFrozenVols, reply, res>>
             \/ ~PollsAgain(i') /\ NoEvent
    /\ UNCHANGED <<frozen, quit, hEvents, pVssbc, pAsyncSnapshot, drives,
                   events, service, history>>

\* Mutant: the service is not told.
AbandonSilently(mine) == UNCHANGED <<set, abandoned>>

\* What becomes of the set when the requester abandons it: the service goes on
\* while it freezes the writers or its provider runs.
Abandon(mine) ==
    /\ set' = IF mine /\ set \in {"started", "done"} THEN "none" ELSE set
    /\ abandoned' = IF mine THEN TRUE ELSE abandoned

\* Is the set this requester's?  (It does not own one that was abandoned.)
Mine == pVssbc /\ set # "none" /\ ~abandoned

\* Mutant: the events are left open.
CleanUpKeepsEvents ==
    /\ UNCHANGED <<hEvents, holders, signalled>>
    /\ pVssbc' = FALSE /\ pAsyncSnapshot' = FALSE /\ cFrozenVols' = 0

\* Mutant: the handles are forgotten and not closed.
CleanUpLeaks == EmptyContext /\ UNCHANGED <<holders, signalled>>

requester_cleanup == CloseEvents("agent") /\ EmptyContext

\* requester_freeze's out: AbortBackup and requester_cleanup.  After an error
\* the command calls the thaw.
FreezeOut ==
    /\ pc = "out"
    /\ Abandon(Mine) /\ requester_cleanup
    /\ IF res.err
       THEN pc' = "thaw" /\ ctx' = "undo" /\ UNCHANGED reply
       ELSE pc' = "loop" /\ ctx' = "none" /\ reply' = res
    /\ UNCHANGED <<frozen, quit, locals, writes, expired, hr, history>>

-----------------------------------------------------------------------------
(* qmp_guest_fsfreeze_thaw and requester_thaw. *)

qmp_guest_fsfreeze_thaw ==
    /\ Idle /\ pc' = "thaw" /\ ctx' = "thaw"
    /\ UNCHANGED <<frozen, quit, vss_ctx, locals, reply, events, service,
                   history>>

\* Nothing is frozen without the events; else the provider is told to end.
RequestThaw ==
    /\ pc = "thaw"
    /\ IF hEvents
       THEN /\ signalled' = signalled \cup {"thaw"} /\ pc' = "thawing"
            /\ heldatthaw' = writes /\ UNCHANGED res
       ELSE /\ pc' = "unset" /\ res' = Answer("thaw", FALSE, 0)
            /\ UNCHANGED <<signalled, heldatthaw>>
    /\ UNCHANGED <<ctx, frozen, quit, vss_ctx, drives, i, reply, holders,
                   service, washeld, foreign, freezes, kills>>

\* Does requester_thaw report the end of the set as an error?  (With or
\* without the timeout event, a failed provider is one.)
ThawError(h) == h \in {"hold_timeout", "error", "provider"}

\* The end of requester_thaw: BackupComplete or AbortBackup, either of which
\* ends what the service does for the requester, and requester_cleanup.
ThawEnds(err) ==
    /\ pc = "thawing" /\ pc' = "unset"
    /\ res' = Answer("thaw", err, cFrozenVols)
    /\ Abandon(Mine) /\ requester_cleanup
    /\ UNCHANGED <<ctx, frozen, quit, drives, i, reply, writes, expired, hr,
                   history>>

\* WaitForAsync returns when the set has ended; BackupComplete may fail.
requester_thaw ==
    /\ set = "done"
    /\ \/ ThawEnds(IF ThawError(hr) THEN TRUE ELSE FALSE)
       \/ hr = "finished" /\ "complete" \in Faults /\ ThawEnds(TRUE)

\* WaitForAsync fails, whatever the set does.  (It need not: no fairness.)
WaitForAsyncFails == "async" \in Faults /\ ThawEnds(TRUE)

\* ga_unset_frozen, whatever the requester said, and the response.
ga_unset_frozen ==
    /\ pc = "unset" /\ frozen' = FALSE
    /\ pc' = "loop" /\ ctx' = "none"
    /\ reply' = IF ctx = "undo" THEN Answer("freeze", TRUE, 0) ELSE res
    /\ UNCHANGED <<quit, vss_ctx, locals, events, service, history>>

-----------------------------------------------------------------------------
(* The service and its provider. *)

\* The writers and the volumes are frozen, and the provider is called.
WritesHeld ==
    /\ set = "flush"
    /\ set' = "commit" /\ writes' = TRUE
    /\ washeld' = IF abandoned THEN washeld ELSE TRUE
    /\ UNCHANGED <<pc, ctx, frozen, quit, vss_ctx, locals, reply, events,
                   abandoned, expired, hr, heldatthaw, foreign, freezes,
                   kills>>

\* A writer fails, or takes too long.
WritersFail ==
    /\ set = "flush" /\ "writers" \in Faults
    /\ set' = IF abandoned THEN "none" ELSE "done"
    /\ hr' = "error"
    /\ UNCHANGED <<pc, ctx, frozen, quit, vss_ctx, locals, reply, events,
                   abandoned, writes, expired, history>>

HoldExpires ==
    /\ writes /\ writes' = FALSE /\ expired' = TRUE
    /\ UNCHANGED <<pc, ctx, frozen, quit, vss_ctx, locals, reply, events, set,
                   abandoned, hr, history>>

\* CommitSnapshots opens the events, which exist if anybody has them.
CommitOpens ==
    /\ set = "commit"
    /\ IF holders # {}
       THEN /\ holders' = holders \cup {"provider"} /\ set' = "opened"
            /\ foreign' = IF abandoned THEN TRUE ELSE foreign
            /\ UNCHANGED hr
       ELSE /\ set' = "returned" /\ hr' = "provider"
            /\ UNCHANGED <<holders, foreign>>
    /\ UNCHANGED <<pc, ctx, frozen, quit, vss_ctx, locals, reply, signalled,
                   abandoned, writes, expired, washeld, heldatthaw, freezes,
                   kills>>

CommitSignals ==
    /\ set = "opened"
    /\ signalled' = signalled \cup {"frozen"} /\ set' = "waiting"
    /\ UNCHANGED <<pc, ctx, frozen, quit, vss_ctx, locals, reply, holders,
                   abandoned, writes, expired, hr, history>>

\* Mutant: the provider waits without a limit.
CommitWaits == "thaw" \in signalled /\ set' = "thawed"

\* WaitForSingleObject on the thaw event, for VSS_TIMEOUT_MSEC.
CommitWait ==
    \/ "thaw" \in signalled /\ set' = "thawed"
    \/ "thaw" \notin signalled /\ set' = "late"

ProviderWaits ==
    /\ set = "waiting" /\ CommitWait
    /\ UNCHANGED <<pc, ctx, frozen, quit, vss_ctx, locals, reply, events,
                   abandoned, writes, expired, hr, history>>

\* Mutant: the provider does not report that it could not wait.
CommitAlwaysOk(late) == "finished"

\* What CommitSnapshots returns.
CommitResult(late) == IF late THEN "provider" ELSE "finished"

\* The end of CommitSnapshots: SetEvent if it was too late, CloseHandle.
CommitReturns ==
    /\ set \in {"thawed", "late"}
    /\ hr' = CommitResult(set = "late") /\ set' = "returned"
    /\ holders' = holders \ {"provider"}
    /\ signalled' = IF holders' = {} THEN {}
                    ELSE IF set = "late" THEN signalled \cup {"timeout"}
                    ELSE signalled
    /\ UNCHANGED <<pc, ctx, frozen, quit, vss_ctx, locals, reply, abandoned,
                   writes, expired, history>>

\* The service ends the set.  After a provider that succeeded it may still
\* find that the hold has expired, or fail, or miss its snapshot.
SetEnds ==
    /\ set = "returned" /\ writes' = FALSE
    /\ set' = IF abandoned THEN "none" ELSE "done"
    /\ \/ hr = "provider" /\ UNCHANGED hr
       \/ hr # "provider" /\ expired /\ hr' = "hold_timeout"
       \/ hr # "provider" /\ ~expired /\ hr' = "finished"
       \/ /\ hr # "provider" /\ ~expired /\ "snapshot" \in Faults
          /\ hr' \in {"error", "not_found"}
    /\ UNCHANGED <<pc, ctx, frozen, quit, vss_ctx, locals, reply, events,
                   abandoned, expired, history>>

-----------------------------------------------------------------------------
(* The agent's life. *)

\* service_ctrl_handler runs in a thread of its own; quit_handler refuses to
\* stop a frozen agent,
service_ctrl_handler ==
    /\ pc # "down" /\ quit = "no" /\ ~frozen /\ quit' = "checked"
    /\ UNCHANGED <<pc, ctx, frozen, vss_ctx, locals, reply, events, service,
                   history>>

\* but stops one that has been frozen since it has looked.
g_main_loop_quit ==
    /\ quit = "checked" /\ quit' = "yes"
    /\ UNCHANGED <<pc, ctx, frozen, vss_ctx, locals, reply, events, service,
                   history>>

\* The process ends and its handles are closed.
ProcessEnds ==
    /\ pc' = "down" /\ ctx' = "none" /\ frozen' = FALSE /\ quit' = "no"
    /\ Abandon(Mine) /\ CloseEvents("agent") /\ EmptyContext
    /\ drives' = 0 /\ i' = 0 /\ res' = NoAnswer /\ reply' = NoAnswer
    /\ UNCHANGED <<writes, expired, hr, washeld, heldatthaw, foreign, freezes>>

\* The loop has ended.  guest_fsfreeze_cleanup is registered only when VSS was
\* not initialised, so nothing is thawed.
Exit == pc = "loop" /\ quit = "yes" /\ ProcessEnds /\ UNCHANGED kills

Kill ==
    /\ pc # "down" /\ kills < MaxKills /\ kills' = kills + 1
    /\ ProcessEnds

\* On Windows check_is_frozen always says no.
Start ==
    /\ pc = "down" /\ pc' = "loop"
    /\ UNCHANGED <<ctx, frozen, quit, vss_ctx, locals, reply, events, service,
                   history>>

Agent ==
    \/ CreateEvents \/ SetUp \/ StartSnapshotSet \/ DoSnapshotSet
    \/ QueryStatus \/ WaitFrozen \/ FreezeOut
    \/ RequestThaw \/ requester_thaw \/ ga_unset_frozen \/ Exit

Provider == CommitOpens \/ CommitSignals \/ ProviderWaits \/ CommitReturns

Next ==
    \/ qmp_guest_fsfreeze_freeze \/ qmp_guest_fsfreeze_thaw \/ Agent
    \/ WritesHeld \/ WritersFail \/ HoldExpires \/ Provider \/ SetEnds
    \/ WaitForAsyncFails \/ service_ctrl_handler \/ g_main_loop_quit
    \/ Kill \/ Start

Spec == Init /\ [][Next]_vars

\* The agent and the provider run, and the service ends a set.  Nothing makes
\* the writers get ready, the service give up holding the writes, or a call
\* fail: a thaw comes to its end because the provider and the service do.
FairSpec ==
    /\ Spec
    /\ WF_vars(Agent) /\ WF_vars(Provider) /\ WF_vars(SetEnds)

-----------------------------------------------------------------------------
(* Properties. *)

\* Type invariant.  The agent has handles to the events exactly if its context
\* has them.
TypeOK ==
    /\ pc \in {"loop", "create", "setup", "start", "prepare", "query", "wait",
               "out", "thaw", "thawing", "unset", "down"}
    /\ ctx \in {"none", "freeze", "undo", "thaw"}
    /\ quit \in {"no", "checked", "yes"}
    /\ frozen \in BOOLEAN /\ hEvents \in BOOLEAN
    /\ pVssbc \in BOOLEAN /\ pAsyncSnapshot \in BOOLEAN
    /\ cFrozenVols \in FixedDrives \cup {0} /\ drives \in FixedDrives \cup {0}
    /\ i \in 0 .. MaxPolls
    /\ {res, reply} \subseteq [kind : {"none", "freeze", "thaw"},
                               err : BOOLEAN,
                               n : FixedDrives \cup {0, Unassigned}]
    /\ holders \subseteq {"agent", "provider"}
    /\ signalled \subseteq {"frozen", "thaw", "timeout"}
    /\ hEvents <=> "agent" \in holders
    /\ set \in {"none", "started", "flush", "commit", "opened", "waiting",
                "thawed", "late", "returned", "done"}
    /\ abandoned \in BOOLEAN /\ writes \in BOOLEAN /\ expired \in BOOLEAN
    /\ hr \in {"pending", "finished", "provider", "hold_timeout", "error",
               "not_found"}
    /\ washeld \in BOOLEAN /\ heldatthaw \in BOOLEAN /\ foreign \in BOOLEAN
    /\ freezes \in 0 .. MaxFreezes /\ kills \in 0 .. MaxKills

\* A requester with events has all that the assertions of requester_thaw ask
\* for, after failures at every call, timeouts and repeated commands.  Without
\* them it returns at once, because "DoSnapshotSet is aborted or not started,
\* and no volumes must be frozen".  That much is not so: the service goes on
\* with a set that a freeze has aborted after it gave up waiting, and may hold
\* its writes when the thaw is answered.  But it holds them for no other set.
ThawAssertions ==
    /\ pc = "thaw" /\ hEvents => pVssbc /\ pAsyncSnapshot
    /\ pc = "thaw" /\ ~hEvents /\ writes => abandoned

\* Writes that the service holds for a set that is not abandoned are known to
\* the agent: it is in the frozen state, in which it refuses to stop and runs
\* no command that writes.  A freeze that fails late has told the service; for
\* what that holds all the same see WritesReleased.
HeldIsKnown == writes /\ ~abandoned => frozen

\* A freeze that is answered with a number of volumes has had their writes
\* held, unless a provider that a former freeze has left behind has used the
\* same events.
FreezeMeansHeld ==
    [][pc = "wait" /\ pc' = "loop" => washeld \/ foreign]_vars

\* "as the system had been frozen until fsfreeze-thaw command was issued": a
\* thaw that is answered with a number of volumes means that their writes were
\* still held when the thaw was requested, however the provider's time limit,
\* that of the service and the thaw race (with the same exception).
ThawMeansHeld ==
    [][pc = "thawing" /\ pc' = "unset" /\ ~res'.err =>
          heldatthaw \/ foreign]_vars

\* Writes are not held for ever, even if the agent dies, or gives up waiting
\* for the frozen event, and the service itself sets no limit: the provider
\* gives up.
WritesReleased == writes ~> ~writes

\* A freeze is answered, although the writers may never get ready, and so is a
\* thaw, by the provider's seeing the event or giving up and the service's end
\* of the set (with the same exception).
CommandsEnd == ctx # "none" ~> (ctx = "none" \/ foreign)

-----------------------------------------------------------------------------
(* What a comment says, and the code does not do. *)

\* "CQGAVssProvider::CommitSnapshots will kick vss_ctx.hEventFrozen after the
\* applications and filesystems are frozen".
FrozenEventMeansHeld ==
    [][pc = "wait" /\ pc' = "loop" => washeld]_vars
=============================================================================
