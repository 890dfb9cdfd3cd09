--------------------------- MODULE VssFreezeProofs ---------------------------
(***************************************************************************)
(* Proofs about VssFreeze for every number of volumes, polls, freezes and  *)
(* kills and every set of faults.  The properties follow from VssInv: what *)
(* the context holds at each place in requester_freeze and requester_thaw, *)
(* whose set the service has, and what an event that is set says of it as  *)
(* long as no provider of an abandoned set has used the same events.       *)
(***************************************************************************)
EXTENDS VssFreeze, TLAPS

\* TypeOK in two parts: the flags, and the rest.
TypeFlags ==
    /\ frozen \in BOOLEAN /\ hEvents \in BOOLEAN
    /\ pVssbc \in BOOLEAN /\ pAsyncSnapshot \in BOOLEAN
    /\ abandoned \in BOOLEAN /\ writes \in BOOLEAN /\ expired \in BOOLEAN
    /\ washeld \in BOOLEAN /\ heldatthaw \in BOOLEAN /\ foreign \in BOOLEAN

Answers == [kind : {"none", "freeze", "thaw"}, err : BOOLEAN,
            n : FixedDrives \cup {0, Unassigned}]

TypeData ==
    /\ pc \in {"loop", "create", "setup", "start", "prepare", "query", "wait",
               "out", "thaw", "thawing", "unset", "down"}
    /\ ctx \in {"none", "freeze", "undo", "thaw"}
    /\ quit \in {"no", "checked", "yes"}
    /\ cFrozenVols \in FixedDrives \cup {0} /\ drives \in FixedDrives \cup {0}
    /\ i \in 0 .. MaxPolls
    /\ holders \subseteq {"agent", "provider"}
    /\ signalled \subseteq {"frozen", "thaw", "timeout"}
    /\ set \in {"none", "started", "flush", "commit", "opened", "waiting",
                "thawed", "late", "returned", "done"}
    /\ hr \in {"pending", "finished", "provider", "hold_timeout", "error",
               "not_found"}
    /\ freezes \in 0 .. MaxFreezes /\ kills \in 0 .. MaxKills

TypeAnswers == res \in Answers /\ reply \in Answers

\* What vss_ctx has at each place in the code.
Context ==
    /\ hEvents <=> "agent" \in holders
    /\ hEvents => frozen
    /\ pVssbc => hEvents
    /\ pAsyncSnapshot => pVssbc
    /\ pc \in {"create", "unset", "down"} => ~hEvents
    /\ pc \in {"create", "setup", "start", "prepare", "query", "wait", "out"}
          => frozen
    /\ pc = "setup" => hEvents /\ ~pVssbc
    /\ pc \in {"start", "prepare"} => pVssbc /\ ~pAsyncSnapshot
    /\ pc \in {"query", "wait", "thawing"} => pAsyncSnapshot
    /\ pc \in {"loop", "thaw"} /\ hEvents => pAsyncSnapshot

\* The states of a set whose writes the service has held.
Committing == {"commit", "opened", "waiting", "thawed", "late", "returned"}

\* A set that is not abandoned is that of the requester's present backup, and
\* the writes are held from the call of the provider on.
Ownership ==
    /\ set # "none" /\ ~abandoned =>
          pVssbc /\ pc \notin {"setup", "start"}
    /\ pc = "prepare" => set = "started" /\ ~abandoned
    /\ set = "done" => ~abandoned
    /\ writes => set \in Committing
    /\ set \in Committing /\ ~expired => writes
    /\ set \in Committing /\ ~abandoned => washeld

\* The events, while they are the requester's and no abandoned set's provider
\* has used them.
Events ==
    /\ "provider" \in holders <=>
          set \in {"opened", "waiting", "thawed", "late"}
    /\ holders = {} => signalled = {}
    /\ hEvents /\ ~foreign =>
          /\ "provider" \in holders => ~abandoned
          /\ "frozen" \in signalled =>
                /\ washeld /\ ~abandoned
                /\ set \in {"waiting", "thawed", "late", "returned", "done"}
          /\ "thaw" \in signalled => pc = "thawing"
          /\ pc \in {"loop", "thaw", "thawing"} => "frozen" \in signalled

\* A set that ends well has seen the thaw requested, while it held the writes.
EndsWell ==
    hEvents /\ ~foreign /\ ~abandoned =>
       /\ set = "thawed" => pc = "thawing"
       /\ set = "returned" => hr \in {"finished", "provider"}
       /\ set = "returned" /\ hr = "finished" => pc = "thawing"
       /\ pc = "thawing" /\ ~expired /\ set \in Committing => heldatthaw
       /\ set = "done" => hr # "pending"
       /\ set = "done" /\ hr \in {"finished", "not_found"} =>
             pc = "thawing" /\ heldatthaw

VssInv == Context /\ Ownership /\ Events /\ EndsWell
-----------------------------------------------------------------------------

\* No step of the agent or the service makes a flag anything but one.
LEMMA FlagsStep == TypeFlags /\ [Next]_vars => TypeFlags'
<1> SUFFICES ASSUME TypeFlags, [Next]_vars PROVE TypeFlags'
  OBVIOUS
<1> USE DEF TypeFlags, vss_ctx, locals, events, service, history
<1>1. CASE qmp_guest_fsfreeze_freeze
  BY <1>1, Zenon DEF qmp_guest_fsfreeze_freeze, Idle
<1>2. CASE qmp_guest_fsfreeze_thaw
  BY <1>2, Zenon DEF qmp_guest_fsfreeze_thaw, Idle
<1>3. CASE CreateEvents
  BY <1>3, ZenonT(60) DEF CreateEvents, Fails
<1>4. CASE SetUp
  BY <1>4, Zenon DEF SetUp, Fails
<1>5. CASE StartSnapshotSet
  BY <1>5, ZenonT(60) DEF StartSnapshotSet, Fails
<1>6. CASE DoSnapshotSet
  BY <1>6, ZenonT(60) DEF DoSnapshotSet, Fails
<1>7. CASE QueryStatus
  BY <1>7, Zenon DEF QueryStatus, Fails
<1>8. CASE WaitFrozen
  BY <1>8, Zenon DEF WaitFrozen, FreezeSucceeds, NoEvent, Fails, PollsAgain
<1>9. CASE FreezeOut
  BY <1>9, Zenon DEF FreezeOut, Abandon, Mine, requester_cleanup, CloseEvents,
       EmptyContext
<1>10. CASE RequestThaw
  BY <1>10, Zenon DEF RequestThaw
<1>11. CASE requester_thaw
  BY <1>11, Zenon DEF requester_thaw, ThawEnds, ThawError, Abandon, Mine,
       requester_cleanup, CloseEvents, EmptyContext
<1>11f. CASE WaitForAsyncFails
  BY <1>11f, Zenon DEF WaitForAsyncFails, ThawEnds, Abandon, Mine,
       requester_cleanup, CloseEvents, EmptyContext
<1>12. CASE ga_unset_frozen
  BY <1>12, Zenon DEF ga_unset_frozen
<1>13. CASE Exit
  BY <1>13, Zenon DEF Exit, ProcessEnds, Abandon, Mine, CloseEvents,
       EmptyContext
<1>14. CASE WritesHeld
  BY <1>14, Zenon DEF WritesHeld
<1>15. CASE WritersFail
  BY <1>15, Zenon DEF WritersFail
<1>16. CASE HoldExpires
  BY <1>16, Zenon DEF HoldExpires
<1>17. CASE CommitOpens
  BY <1>17, Zenon DEF CommitOpens
<1>18. CASE CommitSignals
  BY <1>18, Zenon DEF CommitSignals
<1>19. CASE ProviderWaits
  BY <1>19, Zenon DEF ProviderWaits, CommitWait
<1>20. CASE CommitReturns
  BY <1>20, Zenon DEF CommitReturns, CommitResult
<1>21. CASE SetEnds
  BY <1>21, Zenon DEF SetEnds
<1>22. CASE service_ctrl_handler
  BY <1>22, Zenon DEF service_ctrl_handler
<1>22q. CASE g_main_loop_quit
  BY <1>22q, Zenon DEF g_main_loop_quit
<1>23. CASE Kill
  BY <1>23, Zenon DEF Kill, ProcessEnds, Abandon, Mine, CloseEvents,
       EmptyContext
<1>24. CASE Start
  BY <1>24, Zenon DEF Start
<1>25. CASE UNCHANGED vars
  BY <1>25, Zenon DEF vars
<1>26. QED
  BY <1>1, <1>2, <1>3, <1>4, <1>5, <1>6, <1>7, <1>8, <1>9, <1>10, <1>11,
       <1>12, <1>13, <1>14, <1>15, <1>16, <1>17, <1>18, <1>19, <1>20, <1>21,
       <1>22, <1>23, <1>24, <1>25, <1>11f, <1>22q
  DEF Next, Agent, Provider

\* Every step keeps places, sets and counters in their range: the polls stop
\* at the limit, and only known events are set.
LEMMA DataStep == TypeFlags /\ TypeData /\ [Next]_vars => TypeData'
<1> SUFFICES ASSUME TypeFlags, TypeData, [Next]_vars PROVE TypeData'
  OBVIOUS
<1> USE ConstantsAssumption DEF TypeFlags, TypeData, Answer, NoAnswer,
      vss_ctx, locals, events, service, history
<1>1. CASE qmp_guest_fsfreeze_freeze
  BY <1>1 DEF qmp_guest_fsfreeze_freeze, Idle
<1>2. CASE qmp_guest_fsfreeze_thaw
  BY <1>2 DEF qmp_guest_fsfreeze_thaw, Idle
<1>3. CASE CreateEvents
  <2>1. holders' \subseteq {"agent", "provider"}
    BY <1>3, Zenon DEF CreateEvents
  <2>2. pc' = "setup" \/ pc' = "out"
    BY <1>3, Zenon DEF CreateEvents, Fails
  <2>3. UNCHANGED <<ctx, quit, cFrozenVols, drives, i, signalled, set, hr,
                    freezes, kills>>
    BY <1>3, Zenon DEF CreateEvents
  <2>4. QED
    BY <2>1, <2>2, <2>3
<1>4. CASE SetUp
  BY <1>4 DEF SetUp, Fails
<1>5. CASE StartSnapshotSet
  BY <1>5 DEF StartSnapshotSet, Fails
<1>6. CASE DoSnapshotSet
  BY <1>6 DEF DoSnapshotSet, Fails
<1>7. CASE QueryStatus
  BY <1>7 DEF QueryStatus, Fails
<1>8. CASE WaitFrozen
  BY <1>8 DEF WaitFrozen, FreezeSucceeds, NoEvent, Fails, PollsAgain
<1>9. CASE FreezeOut
  BY <1>9 DEF FreezeOut, Abandon, Mine, requester_cleanup, CloseEvents,
       EmptyContext
<1>10. CASE RequestThaw
  BY <1>10, ZenonT(60) DEF RequestThaw
<1>11. CASE requester_thaw
  BY <1>11 DEF requester_thaw, ThawEnds, ThawError, Abandon, Mine,
       requester_cleanup, CloseEvents, EmptyContext
<1>11f. CASE WaitForAsyncFails
  BY <1>11f DEF WaitForAsyncFails, ThawEnds, Abandon, Mine, requester_cleanup,
       CloseEvents, EmptyContext
<1>12. CASE ga_unset_frozen
  BY <1>12 DEF ga_unset_frozen
<1>13. CASE Exit
  <2>1. pc' = "down" /\ ctx' = "none" /\ quit' = "no" /\ EmptyContext
    BY <1>13, Zenon DEF Exit, ProcessEnds
  <2>2. drives' = 0 /\ i' = 0 /\ UNCHANGED <<hr, freezes>>
    BY <1>13, Zenon DEF Exit, ProcessEnds
  <2>3. set' = set \/ set' = "none"
    BY <1>13, Zenon DEF Exit, ProcessEnds, Abandon
  <2>4. /\ holders' \subseteq {"agent", "provider"}
        /\ signalled' \subseteq {"frozen", "thaw", "timeout"}
    BY <1>13, Zenon DEF Exit, ProcessEnds, CloseEvents
  <2>5. kills' \in 0 .. MaxKills
    BY <1>13 DEF Exit
  <2>6. QED
    BY <2>1, <2>2, <2>3, <2>4, <2>5 DEF EmptyContext
<1>14. CASE WritesHeld
  BY <1>14 DEF WritesHeld
<1>15. CASE WritersFail
  BY <1>15 DEF WritersFail
<1>16. CASE HoldExpires
  BY <1>16 DEF HoldExpires
<1>17. CASE CommitOpens
  BY <1>17, ZenonT(60) DEF CommitOpens
<1>18. CASE CommitSignals
  BY <1>18 DEF CommitSignals
<1>19. CASE ProviderWaits
  BY <1>19 DEF ProviderWaits, CommitWait
<1>20. CASE CommitReturns
  BY <1>20 DEF CommitReturns, CommitResult
<1>21. CASE SetEnds
  BY <1>21 DEF SetEnds
<1>22. CASE service_ctrl_handler
  BY <1>22 DEF service_ctrl_handler
<1>22q. CASE g_main_loop_quit
  BY <1>22q DEF g_main_loop_quit
<1>23. CASE Kill
  <2>1. pc' = "down" /\ ctx' = "none" /\ quit' = "no" /\ EmptyContext
    BY <1>23, Zenon DEF Kill, ProcessEnds
  <2>2. drives' = 0 /\ i' = 0 /\ UNCHANGED <<hr, freezes>>
    BY <1>23, Zenon DEF Kill, ProcessEnds
  <2>3. set' = set \/ set' = "none"
    BY <1>23, Zenon DEF Kill, ProcessEnds, Abandon
  <2>4. /\ holders' \subseteq {"agent", "provider"}
        /\ signalled' \subseteq {"frozen", "thaw", "timeout"}
    BY <1>23, Zenon DEF Kill, ProcessEnds, CloseEvents
  <2>5. kills' \in 0 .. MaxKills
    BY <1>23 DEF Kill
  <2>6. QED
    BY <2>1, <2>2, <2>3, <2>4, <2>5 DEF EmptyContext
<1>24. CASE Start
  BY <1>24 DEF Start
<1>25. CASE UNCHANGED vars
  BY <1>25 DEF vars
<1>26. QED
  BY <1>1, <1>2, <1>3, <1>4, <1>5, <1>6, <1>7, <1>8, <1>9, <1>10, <1>11,
       <1>12, <1>13, <1>14, <1>15, <1>16, <1>17, <1>18, <1>19, <1>20, <1>21,
       <1>22, <1>23, <1>24, <1>25, <1>11f, <1>22q
  DEF Next, Agent, Provider

\* Every response has its form, the freeze's without a number included.
LEMMA AnswersStep ==
    TypeData /\ TypeAnswers /\ [Next]_vars => TypeAnswers'
<1> SUFFICES ASSUME TypeData, TypeAnswers, [Next]_vars PROVE TypeAnswers'
  OBVIOUS
<1>0. \A k \in {"none", "freeze", "thaw"}, e \in BOOLEAN,
         n \in FixedDrives \cup {0, Unassigned} : Answer(k, e, n) \in Answers
  BY DEF Answer, Answers
<1> USE <1>0 DEF TypeData, TypeAnswers, NoAnswer, vss_ctx, locals, events,
      service, history
<1>1. CASE qmp_guest_fsfreeze_freeze
  BY <1>1, Zenon DEF qmp_guest_fsfreeze_freeze, Idle
<1>2. CASE qmp_guest_fsfreeze_thaw
  BY <1>2, Zenon DEF qmp_guest_fsfreeze_thaw, Idle
<1>3. CASE CreateEvents
  BY <1>3, Zenon DEF CreateEvents, Fails
<1>4. CASE SetUp
  BY <1>4, Zenon DEF SetUp, Fails
<1>5. CASE StartSnapshotSet
  BY <1>5, Zenon DEF StartSnapshotSet, Fails
<1>6. CASE DoSnapshotSet
  BY <1>6, Zenon DEF DoSnapshotSet, Fails
<1>7. CASE QueryStatus
  BY <1>7, Zenon DEF QueryStatus, Fails
<1>8. CASE WaitFrozen
  BY <1>8, Zenon DEF WaitFrozen, FreezeSucceeds, NoEvent, Fails, PollsAgain
<1>9. CASE FreezeOut
  BY <1>9, Zenon DEF FreezeOut, Abandon, Mine, requester_cleanup, CloseEvents,
       EmptyContext
<1>10. CASE RequestThaw
  BY <1>10, Zenon DEF RequestThaw
<1>11. CASE requester_thaw
  BY <1>11, Zenon DEF requester_thaw, ThawEnds, ThawError, Abandon, Mine,
       requester_cleanup, CloseEvents, EmptyContext
<1>11f. CASE WaitForAsyncFails
  BY <1>11f, Zenon DEF WaitForAsyncFails, ThawEnds, Abandon, Mine,
       requester_cleanup, CloseEvents, EmptyContext
<1>12. CASE ga_unset_frozen
  BY <1>12, Zenon DEF ga_unset_frozen
<1>13. CASE Exit
  BY <1>13, Zenon DEF Exit, ProcessEnds, Abandon, Mine, CloseEvents,
       EmptyContext
<1>14. CASE WritesHeld
  BY <1>14, Zenon DEF WritesHeld
<1>15. CASE WritersFail
  BY <1>15, Zenon DEF WritersFail
<1>16. CASE HoldExpires
  BY <1>16, Zenon DEF HoldExpires
<1>17. CASE CommitOpens
  BY <1>17, Zenon DEF CommitOpens
<1>18. CASE CommitSignals
  BY <1>18, Zenon DEF CommitSignals
<1>19. CASE ProviderWaits
  BY <1>19, Zenon DEF ProviderWaits, CommitWait
<1>20. CASE CommitReturns
  BY <1>20, Zenon DEF CommitReturns, CommitResult
<1>21. CASE SetEnds
  BY <1>21, Zenon DEF SetEnds
<1>22. CASE service_ctrl_handler
  BY <1>22, Zenon DEF service_ctrl_handler
<1>22q. CASE g_main_loop_quit
  BY <1>22q, Zenon DEF g_main_loop_quit
<1>23. CASE Kill
  BY <1>23, Zenon DEF Kill, ProcessEnds, Abandon, Mine, CloseEvents,
       EmptyContext
<1>24. CASE Start
  BY <1>24, Zenon DEF Start
<1>25. CASE UNCHANGED vars
  BY <1>25, Zenon DEF vars
<1>26. QED
  BY <1>1, <1>2, <1>3, <1>4, <1>5, <1>6, <1>7, <1>8, <1>9, <1>10, <1>11,
       <1>12, <1>13, <1>14, <1>15, <1>16, <1>17, <1>18, <1>19, <1>20, <1>21,
       <1>22, <1>23, <1>24, <1>25, <1>11f, <1>22q
  DEF Next, Agent, Provider

\* Every step of the commands, the requester, the provider and the service
\* preserves the invariant.
LEMMA VssInvStep ==
    TypeFlags /\ TypeData /\ TypeFlags' /\ TypeData' /\ VssInv /\ [Next]_vars
       => VssInv'
<1> SUFFICES ASSUME TypeFlags, TypeData, TypeFlags', TypeData', VssInv,
                    [Next]_vars
             PROVE VssInv'
  OBVIOUS
<1> USE DEF TypeFlags, TypeData, VssInv, Context, Ownership, Committing,
      Events, EndsWell, Answer, NoAnswer, vss_ctx, locals, events, service,
      history
<1>1. CASE qmp_guest_fsfreeze_freeze
  BY <1>1 DEF qmp_guest_fsfreeze_freeze, Idle
<1>2. CASE qmp_guest_fsfreeze_thaw
  BY <1>2 DEF qmp_guest_fsfreeze_thaw, Idle
<1>3. CASE CreateEvents
  BY <1>3 DEF CreateEvents, Fails
<1>4. CASE SetUp
  BY <1>4 DEF SetUp, Fails
<1>5. CASE StartSnapshotSet
  BY <1>5 DEF StartSnapshotSet, Fails
<1>6. CASE DoSnapshotSet
  <2>1. Context'
    BY <1>6 DEF DoSnapshotSet, Fails
  <2>2. Ownership'
    BY <1>6 DEF DoSnapshotSet, Fails
  <2>3. Events' /\ EndsWell'
    BY <1>6 DEF DoSnapshotSet, Fails
  <2>4. QED
    BY <2>1, <2>2, <2>3
<1>7. CASE QueryStatus
  BY <1>7 DEF QueryStatus, Fails
<1>8. CASE WaitFrozen
  BY <1>8 DEF WaitFrozen, FreezeSucceeds, NoEvent, Fails, PollsAgain
<1>9. CASE FreezeOut
  BY <1>9 DEF FreezeOut, Abandon, Mine, requester_cleanup, CloseEvents,
       EmptyContext
<1>10. CASE RequestThaw
  BY <1>10 DEF RequestThaw
<1>11. CASE requester_thaw
  BY <1>11 DEF requester_thaw, ThawEnds, ThawError, Abandon, Mine,
       requester_cleanup, CloseEvents, EmptyContext
<1>11f. CASE WaitForAsyncFails
  BY <1>11f DEF WaitForAsyncFails, ThawEnds, Abandon, Mine, requester_cleanup,
       CloseEvents, EmptyContext
<1>12. CASE ga_unset_frozen
  BY <1>12 DEF ga_unset_frozen
<1>13. CASE Exit
  BY <1>13 DEF Exit, ProcessEnds, Abandon, Mine, CloseEvents, EmptyContext
<1>14. CASE WritesHeld
  BY <1>14 DEF WritesHeld
<1>15. CASE WritersFail
  BY <1>15 DEF WritersFail
<1>16. CASE HoldExpires
  BY <1>16 DEF HoldExpires
<1>17. CASE CommitOpens
  <2>1. CASE holders # {} /\ abandoned
    <3>1. foreign'
      BY <1>17, <2>1, Zenon DEF CommitOpens
    <3>2. /\ holders' = holders \cup {"provider"} /\ set' = "opened"
          /\ set = "commit"
          /\ UNCHANGED <<pc, frozen, hEvents, pVssbc, pAsyncSnapshot>>
          /\ UNCHANGED <<signalled, abandoned, writes, expired, hr>>
      BY <1>17, <2>1, Zenon DEF CommitOpens
    <3>3. QED
      BY <2>1, <3>1, <3>2
  <2>2. CASE holders = {} \/ ~abandoned
    <3>1. foreign' = foreign
      BY <1>17, <2>2, Zenon DEF CommitOpens
    <3>2. QED
      BY <1>17, <2>2, <3>1 DEF CommitOpens
  <2>3. QED
    BY <2>1, <2>2
<1>18. CASE CommitSignals
  BY <1>18 DEF CommitSignals
<1>19. CASE ProviderWaits
  BY <1>19 DEF ProviderWaits, CommitWait
<1>20. CASE CommitReturns
  BY <1>20 DEF CommitReturns, CommitResult
<1>21. CASE SetEnds
  BY <1>21 DEF SetEnds
<1>22. CASE service_ctrl_handler
  BY <1>22 DEF service_ctrl_handler
<1>22q. CASE g_main_loop_quit
  BY <1>22q DEF g_main_loop_quit
<1>23. CASE Kill
  BY <1>23 DEF Kill, ProcessEnds, Abandon, Mine, CloseEvents, EmptyContext
<1>24. CASE Start
  BY <1>24 DEF Start
<1>25. CASE UNCHANGED vars
  BY <1>25 DEF vars
<1>26. QED
  BY <1>1, <1>2, <1>3, <1>4, <1>5, <1>6, <1>7, <1>8, <1>9, <1>10, <1>11,
       <1>12, <1>13, <1>14, <1>15, <1>16, <1>17, <1>18, <1>19, <1>20, <1>21,
       <1>22, <1>23, <1>24, <1>25, <1>11f, <1>22q
  DEF Next, Agent, Provider

\* A requester that has just been started satisfies it.
LEMMA VssInvInit == Init => TypeFlags /\ TypeData /\ TypeAnswers /\ VssInv
<1> SUFFICES ASSUME Init PROVE TypeFlags /\ TypeData /\ TypeAnswers /\ VssInv
  OBVIOUS
<1>1. TypeFlags
  BY Zenon DEF Init, TypeFlags
<1>2. TypeData
  BY ConstantsAssumption DEF Init, TypeData
<1>3. TypeAnswers
  BY DEF Init, TypeAnswers, Answers, NoAnswer, Answer
<1>4. VssInv
  BY DEF Init, VssInv, Context, Ownership, Committing, Events, EndsWell
<1>5. QED
  BY <1>1, <1>2, <1>3, <1>4

\* The inductive invariant holds in every reachable state.
LEMMA VssInvCorrect ==
    Spec => [](TypeFlags /\ TypeData /\ TypeAnswers /\ VssInv)
<1>1. TypeFlags /\ TypeData /\ TypeAnswers /\ VssInv /\ [Next]_vars =>
         (TypeFlags /\ TypeData /\ TypeAnswers /\ VssInv)'
  BY FlagsStep, DataStep, AnswersStep, VssInvStep
<1>2. QED
  BY <1>1, VssInvInit, PTL DEF Spec

\* Every reachable state is well typed, and the agent has handles to the
\* events exactly if its context has them.
THEOREM TypeCorrect == Spec => []TypeOK
<1>1. TypeFlags /\ TypeData /\ TypeAnswers /\ VssInv => TypeOK
  BY Zenon DEF TypeOK, TypeFlags, TypeData, TypeAnswers, Answers, VssInv,
       Context
<1>2. QED
  BY <1>1, VssInvCorrect, PTL

\* requester_thaw's assertions never fail, and a thaw that finds no events
\* meets writes that the service holds for an abandoned set only.
THEOREM ThawAssertionsHold == Spec => []ThawAssertions
<1>1. VssInv => ThawAssertions
  BY Zenon DEF ThawAssertions, VssInv, Context, Ownership, Committing
<1>2. QED
  BY <1>1, VssInvCorrect, PTL

\* Writes held for a set that is not abandoned are known to the agent.
THEOREM HeldIsAlwaysKnown == Spec => []HeldIsKnown
<1>1. VssInv => HeldIsKnown
  BY Zenon DEF HeldIsKnown, VssInv, Context, Ownership, Committing
<1>2. QED
  BY <1>1, VssInvCorrect, PTL

\* Only the end of the wait takes a freeze to its answer, and only the end of
\* the asynchronous call takes a thaw to its own.
LEMMA AnsweringSteps ==
    ASSUME [Next]_vars
    PROVE  /\ pc = "wait" /\ pc' = "loop" => WaitFrozen
           /\ pc = "thawing" /\ pc' = "unset" =>
                 requester_thaw \/ WaitForAsyncFails
<1> USE DEF vss_ctx, locals, events, service, history
<1>1. CASE qmp_guest_fsfreeze_freeze
  BY <1>1 DEF qmp_guest_fsfreeze_freeze, Idle
<1>2. CASE qmp_guest_fsfreeze_thaw
  BY <1>2 DEF qmp_guest_fsfreeze_thaw, Idle
<1>3. CASE CreateEvents
  BY <1>3 DEF CreateEvents, Fails
<1>4. CASE SetUp
  BY <1>4 DEF SetUp, Fails
<1>5. CASE StartSnapshotSet
  BY <1>5 DEF StartSnapshotSet, Fails
<1>6. CASE DoSnapshotSet
  BY <1>6 DEF DoSnapshotSet, Fails
<1>7. CASE QueryStatus
  BY <1>7 DEF QueryStatus, Fails
<1>8. CASE WaitFrozen
  BY <1>8 DEF WaitFrozen, FreezeSucceeds, NoEvent, Fails, PollsAgain
<1>9. CASE FreezeOut
  BY <1>9 DEF FreezeOut, Abandon, Mine, requester_cleanup, CloseEvents,
       EmptyContext
<1>10. CASE RequestThaw
  BY <1>10 DEF RequestThaw
<1>11. CASE requester_thaw
  BY <1>11 DEF requester_thaw, ThawEnds, ThawError, Abandon, Mine,
       requester_cleanup, CloseEvents, EmptyContext
<1>11f. CASE WaitForAsyncFails
  BY <1>11f DEF WaitForAsyncFails, ThawEnds, Abandon, Mine, requester_cleanup,
       CloseEvents, EmptyContext
<1>12. CASE ga_unset_frozen
  BY <1>12 DEF ga_unset_frozen
<1>13. CASE Exit
  BY <1>13 DEF Exit, ProcessEnds, Abandon, Mine, CloseEvents, EmptyContext
<1>14. CASE WritesHeld
  BY <1>14 DEF WritesHeld
<1>15. CASE WritersFail
  BY <1>15 DEF WritersFail
<1>16. CASE HoldExpires
  BY <1>16 DEF HoldExpires
<1>17. CASE CommitOpens
  BY <1>17 DEF CommitOpens
<1>18. CASE CommitSignals
  BY <1>18 DEF CommitSignals
<1>19. CASE ProviderWaits
  BY <1>19 DEF ProviderWaits, CommitWait
<1>20. CASE CommitReturns
  BY <1>20 DEF CommitReturns, CommitResult
<1>21. CASE SetEnds
  BY <1>21 DEF SetEnds
<1>22. CASE service_ctrl_handler
  BY <1>22 DEF service_ctrl_handler
<1>22q. CASE g_main_loop_quit
  BY <1>22q DEF g_main_loop_quit
<1>23. CASE Kill
  BY <1>23 DEF Kill, ProcessEnds, Abandon, Mine, CloseEvents, EmptyContext
<1>24. CASE Start
  BY <1>24 DEF Start
<1>25. CASE UNCHANGED vars
  BY <1>25 DEF vars
<1>26. QED
  BY <1>1, <1>2, <1>3, <1>4, <1>5, <1>6, <1>7, <1>8, <1>9, <1>10, <1>11,
       <1>12, <1>13, <1>14, <1>15, <1>16, <1>17, <1>18, <1>19, <1>20, <1>21,
       <1>22, <1>23, <1>24, <1>25, <1>11f, <1>22q
  DEF Next, Agent, Provider

\* A freeze that is answered with a number of volumes has had their writes
\* held, unless an abandoned set's provider has used the same events.
THEOREM FreezesMeanHeld == Spec => FreezeMeansHeld
<1>1. ASSUME TypeFlags, VssInv, [Next]_vars, pc = "wait", pc' = "loop"
      PROVE  washeld \/ foreign
  <2>1. WaitFrozen
    BY <1>1, AnsweringSteps
  <2>2. "frozen" \in signalled
    BY <1>1, <2>1 DEF WaitFrozen, NoEvent, Fails
  <2>3. hEvents
    BY <1>1, Zenon DEF VssInv, Context
  <2>4. QED
    BY <1>1, <2>2, <2>3, Zenon DEF VssInv, Events
<1>2. TypeFlags /\ VssInv /\ [Next]_vars =>
         [pc = "wait" /\ pc' = "loop" => washeld \/ foreign]_vars
  BY <1>1
<1>3. QED
  BY <1>2, VssInvCorrect, PTL DEF Spec, FreezeMeansHeld

\* A thaw that is answered with a number of volumes means that their writes
\* were held when it was requested, with the same exception.
THEOREM ThawsMeanHeld == Spec => ThawMeansHeld
<1>1. ASSUME TypeData, VssInv, [Next]_vars, pc = "thawing", pc' = "unset",
             ~res'.err, ~foreign
      PROVE  heldatthaw
  <2>0. (Answer("thaw", TRUE, cFrozenVols)).err
    BY DEF Answer
  <2>1. requester_thaw
    <3>1. ~WaitForAsyncFails
      BY <1>1, <2>0, Zenon DEF WaitForAsyncFails, ThawEnds
    <3> QED
      BY <1>1, <3>1, AnsweringSteps
  <2>2. set = "done" /\ ~ThawError(hr)
    <3>2. ThawError(hr) =>
            (Answer("thaw", IF ThawError(hr) THEN TRUE ELSE FALSE,
                    cFrozenVols)).err
      BY DEF Answer
    <3>3. QED
      BY <1>1, <2>0, <2>1, <3>2, Zenon DEF requester_thaw, ThawEnds
  <2>3. hEvents /\ ~abandoned /\ hr # "pending"
    BY <1>1, <2>2, Zenon DEF VssInv, Context, Ownership, EndsWell
  <2>4. hr \in {"finished", "not_found"}
    BY <1>1, <2>2, <2>3 DEF TypeData, ThawError
  <2>5. QED
    BY <1>1, <2>2, <2>3, <2>4, Zenon DEF VssInv, EndsWell
<1>2. TypeData /\ VssInv /\ [Next]_vars =>
         [pc = "thawing" /\ pc' = "unset" /\ ~res'.err =>
             heldatthaw \/ foreign]_vars
  BY <1>1
<1>3. QED
  BY <1>2, VssInvCorrect, PTL DEF Spec, ThawMeansHeld
=============================================================================
