--------------------------- MODULE FsFreezeProofs ---------------------------
(***************************************************************************)
(* Proofs about FsFreeze for every mount table, command set, blacklist and *)
(* set of faults.  The safety properties are not inductive: they follow    *)
(* from FreezeInv, which also says where in the freeze and thaw code the   *)
(* flag, the marker file and the file systems may disagree.                *)
(***************************************************************************)
EXTENDS FsFreeze, FiniteSetTheorems, SequenceTheorems, TLAPS

\* Only mounted file systems are frozen, so that a walk reaches all of them.
OnlyMounted ==
    \A f \in Fs : depth[f] > 0 => \E k \in DOMAIN Mounts : Mounts[k] = f

\* The freeze code: before ga_set_frozen, between it and the marker, after.
FreezePath ==
    /\ pc \in {"frz_hook", "frz_list", "frz_set", "fileopen"} => ~frozen
    /\ pc \in {"frz_rec", "frz_walk"} => frozen
    /\ pc = "frz_rec" => FrozenFs \subseteq strays
    /\ pc = "frz_walk" => isfrozen \/ unrecorded
    /\ pc \in {"frz_list", "frz_set", "frz_rec", "frz_walk"} =>
          (HasHook => quiesced)

\* The thaw code: what is behind the walk is thawed or a stray.
ThawPath ==
    /\ pc = "thw_walk" =>
          /\ walk > 0
          /\ \A k \in DOMAIN Mounts :
                k < walk => Mounts[k] \notin FrozenFs \ strays
    /\ pc \in {"thw_unset", "thw_del", "thw_hook"} => FrozenFs \subseteq strays

\* The flags of GAState against the place in the code.
Flags ==
    /\ unrecorded => frozen
    /\ pc = "down" => ~frozen
    /\ pc = "run" => enabled = Commands
    /\ pc \notin {"down", "run"} => (logging => ~frozen)
    /\ pc \in {"thw_del", "thw_hook"} => ~frozen

FreezeInv ==
    /\ TypeOK
    /\ OnlyMounted /\ FreezePath /\ ThawPath /\ Flags
    /\ FreezeIsRecorded /\ FreezeIsKnown /\ CommandTable /\ QuiescedWhileFrozen
-----------------------------------------------------------------------------

\* The Boolean variables have their type at first.
LEMMA FlagsInit == Init => TypeFlags
BY Zenon DEF Init, TypeFlags

\* So have the others.
LEMMA DataInit == Init => TypeData
BY ConstantsAssumption DEF Init, TypeData, NoReply, PCs

\* No step takes the Boolean variables out of their type.
LEMMA FlagsStep == TypeFlags /\ [Next]_vars => TypeFlags'
<1> SUFFICES ASSUME TypeFlags, [Next]_vars PROVE TypeFlags'
  OBVIOUS
<1> USE ConstantsAssumption DEF TypeFlags, osVars, stateVars, walkVars, ghosts
<1>1. CASE Start
  BY <1>1, Zenon DEF Start, check_is_frozen
<1>2. CASE RunFrozen
  BY <1>2, Zenon DEF RunFrozen, ga_disable_non_whitelisted
<1>3. CASE RunThawed
  BY <1>3, Zenon DEF RunThawed
<1>4. CASE RunFails
  BY <1>4, Zenon DEF RunFails, ga_disable_non_whitelisted
<1>5. CASE channel_init
  BY <1>5, Zenon DEF channel_init
<1>6. CASE Reject
  BY <1>6, Zenon DEF Reject, Idle
<1>7. CASE qmp_guest_fsfreeze_status
  BY <1>7, Zenon DEF qmp_guest_fsfreeze_status, Idle
<1>8. CASE qmp_guest_fsfreeze_freeze
  BY <1>8, Zenon DEF qmp_guest_fsfreeze_freeze, Enter, Idle
<1>9. CASE qmp_guest_fsfreeze_freeze_list
  BY <1>9, Zenon DEF qmp_guest_fsfreeze_freeze_list, Enter, Idle
<1>10. CASE qmp_guest_fsfreeze_thaw
  BY <1>10, Zenon DEF qmp_guest_fsfreeze_thaw, Enter, Idle
<1>11. CASE FileOpenCmd
  BY <1>11, Zenon DEF FileOpenCmd, Enter, Idle
<1>12. CASE FileOpenWrite
  BY <1>12, Zenon DEF FileOpenWrite, Return
<1>13. CASE FreezeHook
  BY <1>13, Zenon DEF FreezeHook, Return
<1>14. CASE FreezeMountList
  BY <1>14, Zenon DEF FreezeMountList, Return
<1>15. CASE ga_set_frozen
  BY <1>15, Zenon DEF ga_set_frozen, FreezeState,
       ga_disable_non_whitelisted
<1>16. CASE ga_create_file
  BY <1>16, Zenon DEF ga_create_file
<1>17. CASE FreezeMount
  BY <1>17, Zenon DEF FreezeMount, FIFREEZE
<1>18. CASE FreezeMountFails
  BY <1>18, Zenon DEF FreezeMountFails
<1>19. CASE FreezeDone
  BY <1>19, Zenon DEF FreezeDone, Return
<1>20. CASE ThawMountList
  BY <1>20, Zenon DEF ThawMountList, ThawReturns, Return
<1>21. CASE ThawMount
  BY <1>21, Zenon DEF ThawMount, FITHAW, Tally
<1>22. CASE ThawNextMount
  BY <1>22, Zenon DEF ThawNextMount
<1>23. CASE ThawWalked
  BY <1>23, Zenon DEF ThawWalked
<1>24. CASE ga_unset_frozen
  BY <1>24, Zenon DEF ga_unset_frozen, ga_enable_non_blacklisted
<1>25. CASE ga_delete_file
  BY <1>25, Zenon DEF ga_delete_file
<1>26. CASE ThawHook
  BY <1>26, Zenon DEF ThawHook, ThawReturns, Return
<1>27. CASE LeaveLoop
  BY <1>27, Zenon DEF LeaveLoop
<1>28. CASE guest_fsfreeze_cleanup
  BY <1>28, Zenon DEF guest_fsfreeze_cleanup
<1>29. CASE Exit
  BY <1>29, Zenon DEF Exit, ProcessEnds, FrozenFs
<1>30. CASE quit_handler
  BY <1>30, Zenon DEF quit_handler
<1>31. CASE Kill
  BY <1>31, Zenon DEF Kill, ProcessEnds, FrozenFs
<1>32. CASE Reboot
  BY <1>32, Zenon DEF Reboot, ProcessEnds
<1>33. CASE RemoveMarker
  BY <1>33, Zenon DEF RemoveMarker
<1>34. ASSUME NEW f \in Fs, ExternalThaw(f) PROVE TypeFlags'
  BY <1>34, Zenon DEF ExternalThaw
<1>35. CASE UNCHANGED vars
  BY <1>35, Zenon DEF vars
<1>36. QED
  BY <1>1, <1>2, <1>3, <1>4, <1>5, <1>6, <1>7, <1>8, <1>9, <1>10, <1>11,
       <1>12, <1>13, <1>14, <1>15, <1>16, <1>17, <1>18, <1>19, <1>20, <1>21,
       <1>22, <1>23, <1>24, <1>25, <1>26, <1>27, <1>28, <1>29, <1>30, <1>31,
       <1>32, <1>33, <1>34, <1>35
  DEF Next, Client, Agent, World

\* No step takes the others out of theirs.
LEMMA DataStep == TypeData /\ [Next]_vars => TypeData'
<1> SUFFICES ASSUME TypeData, [Next]_vars PROVE TypeData'
  OBVIOUS
<1> USE ConstantsAssumption DEF TypeData, PCs, NoReply, Error, osVars,
       stateVars,
      walkVars, ghosts
<1>1. CASE Start
  BY <1>1 DEF Start, check_is_frozen
<1>2. CASE RunFrozen
  BY <1>2 DEF RunFrozen, ga_disable_non_whitelisted
<1>3. CASE RunThawed
  BY <1>3 DEF RunThawed
<1>4. CASE RunFails
  BY <1>4 DEF RunFails, ga_disable_non_whitelisted
<1>5. CASE channel_init
  BY <1>5 DEF channel_init
<1>6. CASE Reject
  BY <1>6 DEF Reject, Idle
<1>7. CASE qmp_guest_fsfreeze_status
  BY <1>7 DEF qmp_guest_fsfreeze_status, Idle
<1>8. CASE qmp_guest_fsfreeze_freeze
  BY <1>8 DEF qmp_guest_fsfreeze_freeze, Enter, Idle
<1>9. CASE qmp_guest_fsfreeze_freeze_list
  BY <1>9 DEF qmp_guest_fsfreeze_freeze_list, Enter, Idle
<1>10. CASE qmp_guest_fsfreeze_thaw
  BY <1>10 DEF qmp_guest_fsfreeze_thaw, Enter, Idle
<1>11. CASE FileOpenCmd
  BY <1>11 DEF FileOpenCmd, Enter, Idle
<1>12. CASE FileOpenWrite
  BY <1>12 DEF FileOpenWrite, Return
<1>13. CASE FreezeHook
  BY <1>13 DEF FreezeHook, Return
<1>14. CASE FreezeMountList
  BY <1>14 DEF FreezeMountList, Return
<1>15. CASE ga_set_frozen
  BY <1>15 DEF ga_set_frozen, FreezeState,
       ga_disable_non_whitelisted
<1>16. CASE ga_create_file
  BY <1>16 DEF ga_create_file
<1>17. CASE FreezeMount
  <2>1. CASE walk \in sel /\ FIFREEZE(Mounts[walk])
    <3>1. Mounts[walk] \in Fs
      BY <2>1
    <3>2. depth' \in [Fs -> Nat] /\ count' \in Nat
      BY <2>1, <3>1 DEF FIFREEZE
    <3>3. walk' \in Nat /\ held' \subseteq Fs
      BY <1>17, <2>1 DEF FreezeMount
    <3>4. QED
      BY <1>17, <3>2, <3>3 DEF FreezeMount
  <2>2. CASE walk \notin sel
    BY <1>17, <2>2 DEF FreezeMount
  <2>3. QED
    BY <1>17, <2>1, <2>2 DEF FreezeMount
<1>18. CASE FreezeMountFails
  BY <1>18 DEF FreezeMountFails
<1>19. CASE FreezeDone
  BY <1>19 DEF FreezeDone, Return
<1>20. CASE ThawMountList
  BY <1>20 DEF ThawMountList, ThawReturns, Return
<1>21. CASE ThawMount
  <2>1. Mounts[walk] \in Fs
    BY <1>21 DEF ThawMount
  <2>2. QED
    BY <1>21, <2>1 DEF ThawMount, FITHAW, Tally
<1>22. CASE ThawNextMount
  <2>1. Mounts[walk] \in Fs
    BY <1>22 DEF ThawNextMount
  <2>2. QED
    BY <1>22, <2>1 DEF ThawNextMount
<1>23. CASE ThawWalked
  BY <1>23 DEF ThawWalked
<1>24. CASE ga_unset_frozen
  BY <1>24 DEF ga_unset_frozen, ga_enable_non_blacklisted
<1>25. CASE ga_delete_file
  BY <1>25 DEF ga_delete_file
<1>26. CASE ThawHook
  BY <1>26 DEF ThawHook, ThawReturns, Return
<1>27. CASE LeaveLoop
  BY <1>27 DEF LeaveLoop
<1>28. CASE guest_fsfreeze_cleanup
  BY <1>28 DEF guest_fsfreeze_cleanup
<1>29. CASE Exit
  BY <1>29 DEF Exit, ProcessEnds, FrozenFs
<1>30. CASE quit_handler
  BY <1>30 DEF quit_handler
<1>31. CASE Kill
  BY <1>31 DEF Kill, ProcessEnds, FrozenFs
<1>32. CASE Reboot
  BY <1>32 DEF Reboot, ProcessEnds
<1>33. CASE RemoveMarker
  BY <1>33 DEF RemoveMarker
<1>34. ASSUME NEW f \in Fs, ExternalThaw(f) PROVE TypeData'
  BY <1>34 DEF ExternalThaw
<1>35. CASE UNCHANGED vars
  BY <1>35 DEF vars
<1>36. QED
  BY <1>1, <1>2, <1>3, <1>4, <1>5, <1>6, <1>7, <1>8, <1>9, <1>10, <1>11,
       <1>12, <1>13, <1>14, <1>15, <1>16, <1>17, <1>18, <1>19, <1>20, <1>21,
       <1>22, <1>23, <1>24, <1>25, <1>26, <1>27, <1>28, <1>29, <1>30, <1>31,
       <1>32, <1>33, <1>34, <1>35
  DEF Next, Client, Agent, World

\* Every reachable state is well typed, for every mount table, set of
\* commands and blacklist, after any crashes and restarts of the agent.
THEOREM TypeCorrect == Spec => []TypeOK
<1>1. Init => TypeOK
  BY FlagsInit, DataInit DEF TypeOK
<1>2. TypeOK /\ [Next]_vars => TypeOK'
  BY FlagsStep, DataStep DEF TypeOK
<1>3. QED
  BY <1>1, <1>2, PTL DEF Spec

\* Every step of a command, of the agent's start and end, and of the world
\* keeps the invariant.
LEMMA FreezeInvStep ==
    TypeOK /\ TypeOK' /\ FreezeInv /\ [Next]_vars => FreezeInv'
<1> SUFFICES ASSUME TypeOK, TypeOK', FreezeInv, [Next]_vars PROVE FreezeInv'
  OBVIOUS
<1> USE ConstantsAssumption DEF TypeOK, TypeFlags, TypeData, FreezeInv,
      OnlyMounted, FreezePath, ThawPath, Flags, FreezeIsRecorded,
       FreezeIsKnown,
      CommandTable, QuiescedWhileFrozen, FrozenFs, PCs,
      osVars, stateVars, walkVars, ghosts
<1>1. CASE Start
  BY <1>1 DEF Start, check_is_frozen
<1>2. CASE RunFrozen
  BY <1>2 DEF RunFrozen, ga_disable_non_whitelisted
<1>3. CASE RunThawed
  BY <1>3 DEF RunThawed
<1>4. CASE RunFails
  BY <1>4 DEF RunFails, ga_disable_non_whitelisted
<1>5. CASE channel_init
  BY <1>5 DEF channel_init
<1>6. CASE Reject
  BY <1>6 DEF Reject, Idle
<1>7. CASE qmp_guest_fsfreeze_status
  BY <1>7 DEF qmp_guest_fsfreeze_status, Idle
<1>8. CASE qmp_guest_fsfreeze_freeze
  <2>1. Freeze \notin ga_freeze_whitelist
    BY DEF ga_freeze_whitelist, Freeze, Status, Thaw
  <2>2. ~frozen
    BY <1>8, <2>1 DEF qmp_guest_fsfreeze_freeze, Enter, Idle
  <2>3. QED
    BY <1>8, <2>2 DEF qmp_guest_fsfreeze_freeze, Enter, Idle
<1>9. CASE qmp_guest_fsfreeze_freeze_list
  <2>1. FreezeList \notin ga_freeze_whitelist
    BY DEF ga_freeze_whitelist, FreezeList, Status, Thaw
  <2>2. ~frozen
    BY <1>9, <2>1 DEF qmp_guest_fsfreeze_freeze_list, Enter, Idle
  <2>3. QED
    BY <1>9, <2>2 DEF qmp_guest_fsfreeze_freeze_list, Enter, Idle
<1>10. CASE qmp_guest_fsfreeze_thaw
  BY <1>10 DEF qmp_guest_fsfreeze_thaw, Enter, Idle
<1>11. CASE FileOpenCmd
  <2>1. FileOpen \notin ga_freeze_whitelist
    BY DEF ga_freeze_whitelist, FileOpen, Status, Thaw
  <2>2. ~frozen
    BY <1>11, <2>1 DEF FileOpenCmd, Enter, Idle
  <2>3. QED
    BY <1>11, <2>2 DEF FileOpenCmd, Enter, Idle
<1>12. CASE FileOpenWrite
  BY <1>12 DEF FileOpenWrite, Return
<1>13. CASE FreezeHook
  BY <1>13 DEF FreezeHook, Return
<1>14. CASE FreezeMountList
  BY <1>14 DEF FreezeMountList, Return
<1>15. CASE ga_set_frozen
  BY <1>15 DEF ga_set_frozen, FreezeState,
       ga_disable_non_whitelisted
<1>16. CASE ga_create_file
  BY <1>16 DEF ga_create_file
<1>17. CASE FreezeMount
  BY <1>17 DEF FreezeMount, FIFREEZE
<1>18. CASE FreezeMountFails
  BY <1>18 DEF FreezeMountFails
<1>19. CASE FreezeDone
  BY <1>19 DEF FreezeDone, Return
<1>20. CASE ThawMountList
  BY <1>20 DEF ThawMountList, ThawReturns, Return
<1>21. CASE ThawMount
  BY <1>21 DEF ThawMount, FITHAW, Tally
<1>22. CASE ThawNextMount
  BY <1>22 DEF ThawNextMount
<1>23. CASE ThawWalked
  BY <1>23 DEF ThawWalked
<1>24. CASE ga_unset_frozen
  BY <1>24 DEF ga_unset_frozen, ga_enable_non_blacklisted
<1>25. CASE ga_delete_file
  BY <1>25 DEF ga_delete_file
<1>26. CASE ThawHook
  BY <1>26 DEF ThawHook, ThawReturns, Return
<1>27. CASE LeaveLoop
  BY <1>27 DEF LeaveLoop
<1>28. CASE guest_fsfreeze_cleanup
  BY <1>28 DEF guest_fsfreeze_cleanup
<1>29. CASE Exit
  BY <1>29 DEF Exit, ProcessEnds
<1>30. CASE quit_handler
  BY <1>30 DEF quit_handler
<1>31. CASE Kill
  BY <1>31 DEF Kill, ProcessEnds
<1>32. CASE Reboot
  BY <1>32 DEF Reboot, ProcessEnds
<1>33. CASE RemoveMarker
  BY <1>33 DEF RemoveMarker
<1>34. ASSUME NEW f \in Fs, ExternalThaw(f) PROVE FreezeInv'
  BY <1>34 DEF ExternalThaw
<1>35. CASE UNCHANGED vars
  BY <1>35 DEF vars
<1>36. QED
  BY <1>1, <1>2, <1>3, <1>4, <1>5, <1>6, <1>7, <1>8, <1>9, <1>10, <1>11,
       <1>12, <1>13, <1>14, <1>15, <1>16, <1>17, <1>18, <1>19, <1>20, <1>21,
       <1>22, <1>23, <1>24, <1>25, <1>26, <1>27, <1>28, <1>29, <1>30, <1>31,
       <1>32, <1>33, <1>34, <1>35
  DEF Next, Client, Agent, World

\* It holds always.
LEMMA FreezeInvCorrect == Spec => []FreezeInv
<1>1. Init => FreezeInv
  <2> SUFFICES ASSUME Init PROVE FreezeInv
    OBVIOUS
  <2>1. TypeOK
    BY FlagsInit, DataInit DEF TypeOK
  <2>2. FrozenFs = {}
    BY DEF Init, FrozenFs
  <2>3. QED
    BY <2>1, <2>2 DEF Init, FreezeInv, OnlyMounted, FreezePath, ThawPath,
       Flags,
       FreezeIsRecorded, FreezeIsKnown, CommandTable, QuiescedWhileFrozen
<1>2. QED
  BY <1>1, TypeCorrect, FreezeInvStep, PTL DEF Spec

\* A crash at any instruction of a freeze or a thaw leaves every file system
\* the agent froze recorded on disk, or known to the live instance.
THEOREM FreezeIsAlwaysRecorded == Spec => []FreezeIsRecorded
<1>1. FreezeInv => FreezeIsRecorded
  BY DEF FreezeInv
<1>2. QED
  BY <1>1, FreezeInvCorrect, PTL

\* A started instance is in the frozen state while such a file system is.
THEOREM FreezeIsAlwaysKnown == Spec => []FreezeIsKnown
<1>1. FreezeInv => FreezeIsKnown
  BY DEF FreezeInv
<1>2. QED
  BY <1>1, FreezeInvCorrect, PTL

\* The command table always matches the frozen state and the blacklist.
THEOREM CommandTableCorrect == Spec => []CommandTable
<1>1. FreezeInv => CommandTable
  BY DEF FreezeInv
<1>2. QED
  BY <1>1, FreezeInvCorrect, PTL

\* The agent does not block itself on a write while it has frozen anything, the
\* unlink of its pid file included, unless it ends in the frozen state.
THEOREM AgentNeverBlocksItself == Spec => []NeverBlocksItself
<1>1. FreezeInv => NeverBlocksItself
  BY DEF FreezeInv, TypeOK, TypeFlags, TypeData, NeverBlocksItself, Writing,
       EndsFrozen, FreezePath, ThawPath, Flags, FreezeIsKnown, PCs
<1>2. QED
  BY <1>1, FreezeInvCorrect, PTL

\* The agent ends in the thawed state.
EndsThawed == ~EndsFrozen

\* The exception of NeverBlocksItself needs one of two faults: if the start
\* and the listing of the mounts succeed, no agent ends frozen, signals that
\* arrive in the middle of a freeze and failing hooks and ioctls included.
THEOREM NeverEndsFrozen ==
    Faults \cap {"startup", "mountlist"} = {} => (Spec => []EndsThawed)
<1> SUFFICES ASSUME Faults \cap {"startup", "mountlist"} = {}
             PROVE  Spec => []EndsThawed
  OBVIOUS
<1>1. Init => EndsThawed
  BY DEF Init, EndsThawed, EndsFrozen
<1>2. FreezeInv /\ EndsThawed /\ [Next]_vars => EndsThawed'
  <2> SUFFICES ASSUME FreezeInv, EndsThawed, [Next]_vars, pc' = "exit"
               PROVE  ~frozen'
    BY DEF EndsThawed, EndsFrozen
  <2>1. CASE ThawMountList
    BY <2>1 DEF ThawMountList, MayFail
  <2>2. CASE ThawHook
    BY <2>2 DEF ThawHook, FreezeInv, Flags, stateVars
  <2>3. CASE guest_fsfreeze_cleanup
    BY <2>3 DEF guest_fsfreeze_cleanup, stateVars
  <2>4. CASE RunFails
    BY <2>4 DEF RunFails, MayFail
  <2>5. CASE ~ThawMountList /\ ~ThawHook /\ ~guest_fsfreeze_cleanup
             /\ ~RunFails
    <3>1. pc = "exit" /\ frozen' = frozen
      BY <2>5 DEF Next, Client, Agent, World, Start, RunFrozen, RunThawed,
         channel_init, FileOpenWrite, FreezeHook, FreezeMountList,
         ga_set_frozen, ga_create_file, FreezeMount, FreezeMountFails,
         FreezeDone, ThawMount, ThawNextMount, ThawWalked, Return,
         ga_unset_frozen, ga_delete_file, LeaveLoop, Exit, Reject,
         qmp_guest_fsfreeze_status, qmp_guest_fsfreeze_freeze,
         qmp_guest_fsfreeze_freeze_list, qmp_guest_fsfreeze_thaw,
         FileOpenCmd, Enter, Idle, quit_handler, Kill, Reboot, RemoveMarker,
         ExternalThaw, ProcessEnds, vars, stateVars
    <3> QED
      BY <3>1 DEF EndsThawed, EndsFrozen
  <2> QED
    BY <2>1, <2>2, <2>3, <2>4, <2>5
<1>3. QED
  BY <1>1, <1>2, FreezeInvCorrect, PTL DEF Spec

\* ga_get_fd_handle's assertion never fails.
THEOREM HandleAssertionHolds == Spec => []HandleAssertion
<1>1. FreezeInv => HandleAssertion
  BY DEF FreezeInv, FreezePath, HandleAssertion
<1>2. QED
  BY <1>1, FreezeInvCorrect, PTL

\* Applications are quiesced as long as the agent keeps anything frozen.
THEOREM QuiescedThroughout == Spec => []QuiescedWhileFrozen
<1>1. FreezeInv => QuiescedWhileFrozen
  BY DEF FreezeInv
<1>2. QED
  BY <1>1, FreezeInvCorrect, PTL
-----------------------------------------------------------------------------
(* The answers of a freeze that fails and of a thaw. *)

\* Nothing is lost track of, and every freeze is recorded.
NoStrays == strays = {} /\ unrecorded = FALSE

\* If mounts can be opened and thawed and the marker can be created, the agent
\* loses track of nothing.
LEMMA NoStraysStep ==
    ASSUME Faults \cap {"open", "fithaw", "create"} = {}, TypeOK, NoStrays,
           [Next]_vars
    PROVE  NoStrays'
<1> USE DEF NoStrays, MayFail, osVars, stateVars, walkVars, ghosts
<1>1. CASE Start
  BY <1>1, Zenon DEF Start
<1>2. CASE Client
  BY <1>2, Zenon DEF Client, Reject, qmp_guest_fsfreeze_status,
     qmp_guest_fsfreeze_freeze, qmp_guest_fsfreeze_freeze_list,
     qmp_guest_fsfreeze_thaw, FileOpenCmd, Enter
<1>3. CASE ga_create_file
  BY <1>3, Zenon DEF ga_create_file
<1>4. CASE FreezeMount
  BY <1>4, Zenon DEF FreezeMount
<1>5. CASE ThawMount
  BY <1>5, Zenon DEF ThawMount
<1>6. CASE ThawNextMount
  BY <1>6, Zenon DEF ThawNextMount
<1>7. CASE ga_unset_frozen
  BY <1>7, Zenon DEF ga_unset_frozen
<1>8. CASE ThawHook
  BY <1>8, Zenon DEF ThawHook
<1>9. CASE Exit
  BY <1>9, Zenon DEF Exit, ProcessEnds
<1>10. CASE RunFrozen \/ RunThawed \/ RunFails \/ channel_init
            \/ FileOpenWrite \/ FreezeHook \/ FreezeMountList
            \/ ga_set_frozen \/ FreezeMountFails \/ FreezeDone
            \/ ThawMountList \/ ThawWalked \/ ga_delete_file \/ LeaveLoop
            \/ guest_fsfreeze_cleanup
  BY <1>10, Zenon DEF RunFrozen, RunThawed, RunFails, channel_init,
     FileOpenWrite, FreezeHook, FreezeMountList, ga_set_frozen,
     FreezeMountFails, FreezeDone, ThawMountList, ThawWalked, ga_delete_file,
     LeaveLoop, guest_fsfreeze_cleanup
<1>11. CASE World
  BY <1>11, Zenon DEF World, quit_handler, Kill, Reboot, RemoveMarker,
     ExternalThaw, ProcessEnds
<1>12. CASE UNCHANGED vars
  BY <1>12, Zenon DEF vars
<1> QED
  BY <1>1, <1>2, <1>3, <1>4, <1>5, <1>6, <1>7, <1>8, <1>9, <1>10, <1>11,
     <1>12, Zenon DEF Next, Agent

\* "On error, all filesystems will be thawed": a freeze that is answered with
\* an error, wherever in its walk over the mounts it failed, has thawed
\* whatever it or an agent before it had frozen, if mounts can be listed,
\* opened and thawed and the marker can be created.
THEOREM FailedFreezeThaws ==
    Faults \cap {"open", "fithaw", "create", "mountlist"} = {} =>
        (Spec => ErrorMeansThawed)
<1> SUFFICES ASSUME Faults \cap {"open", "fithaw", "create", "mountlist"} = {}
             PROVE  Spec => ErrorMeansThawed
  OBVIOUS
<1>0. /\ Faults \cap {"open", "fithaw", "create"} = {}
      /\ ~MayFail("mountlist")
  BY Zenon DEF MayFail
<1>1. Init => NoStrays
  BY Zenon DEF Init, NoStrays
<1>2. TypeOK /\ NoStrays /\ [Next]_vars => NoStrays'
  BY <1>0, NoStraysStep, Zenon
<1>3. ASSUME FreezeInv, NoStrays, [Next]_vars
      PROVE  [reply'.kind = "error" /\ ctx' = "none"
              /\ ctx \in {"freeze", "undo"} =>
                 \A f \in Fs : depth'[f] = 0]_vars
  <2> SUFFICES ASSUME reply'.kind = "error", ctx' = "none",
                      ctx \in {"freeze", "undo"}, Next
               PROVE  \A f \in Fs : depth'[f] = 0
    BY <1>3, Zenon
  <2>1. ctx # "none" /\ ctx # ctx'
    OBVIOUS
  <2>2. depth' = depth /\ FrozenFs = {}
    <3> USE DEF Return, Error, osVars
    <3>1. CASE FreezeHook
      <4>1. pc = "frz_hook" /\ depth' = depth
        BY <3>1, Zenon DEF FreezeHook
      <4> QED
        BY <1>3, <4>1 DEF FreezeInv, FreezePath, FreezeIsKnown, NoStrays,
           TypeOK, TypeData, PCs
    <3>2. CASE ThawHook
      <4>1. pc = "thw_hook" /\ depth' = depth
        BY <3>2, Zenon DEF ThawHook
      <4> QED
        BY <1>3, <4>1 DEF FreezeInv, ThawPath, NoStrays
    <3>3. CASE FreezeMountList
      BY <1>0, <2>1, <3>3, Zenon DEF FreezeMountList
    <3>4. CASE ThawMountList
      BY <1>0, <2>1, <3>4, Zenon DEF ThawMountList
    <3>5. CASE Start
      BY <2>1, <3>5, Zenon DEF Start
    <3>6. CASE Client
      <4>1. "freeze" # "none" /\ "thaw" # "none" /\ "file" # "none"
        OBVIOUS
      <4> QED
        BY <2>1, <3>6, <4>1, Zenon DEF Client, Reject,
           qmp_guest_fsfreeze_status, qmp_guest_fsfreeze_freeze,
           qmp_guest_fsfreeze_freeze_list, qmp_guest_fsfreeze_thaw,
           FileOpenCmd, Enter
    <3>7. CASE FileOpenWrite \/ FreezeDone
      <4>1. \/ reply' = [kind |-> "opened", n |-> 0]
            \/ reply' = [kind |-> "frozen", n |-> count]
        BY <3>7, Zenon DEF FileOpenWrite, FreezeDone
      <4>2. reply'.kind = "opened" \/ reply'.kind = "frozen"
        <5>1. /\ [kind |-> "opened", n |-> 0].kind = "opened"
              /\ [kind |-> "frozen", n |-> count].kind = "frozen"
          BY Zenon
        <5> QED
          BY <4>1, <5>1
      <4>3. "error" # "opened" /\ "error" # "frozen"
        OBVIOUS
      <4> QED
        BY <4>2, <4>3, Zenon
    <3>8. CASE RunFrozen \/ RunThawed \/ RunFails \/ channel_init
               \/ ga_set_frozen \/ ga_create_file \/ FreezeMount
               \/ ThawMount \/ ThawNextMount \/ ThawWalked
               \/ ga_unset_frozen \/ ga_delete_file \/ LeaveLoop
      BY <2>1, <3>8, Zenon DEF RunFrozen, RunThawed, RunFails, channel_init,
         ga_set_frozen, ga_create_file, FreezeMount, ThawMount,
         ThawNextMount, ThawWalked, ga_unset_frozen, ga_delete_file,
         LeaveLoop
    <3>9. CASE FreezeMountFails \/ guest_fsfreeze_cleanup
      <4>1. "undo" # "none" /\ "cleanup" # "none"
        OBVIOUS
      <4> QED
        BY <2>1, <3>9, <4>1, Zenon DEF FreezeMountFails,
           guest_fsfreeze_cleanup
    <3>10. CASE Exit \/ Kill \/ Reboot
      <4>1. reply' = [kind |-> "none", n |-> 0]
        BY <3>10, Zenon DEF Exit, Kill, Reboot, ProcessEnds, NoReply
      <4>2. "error" # "none"
        OBVIOUS
      <4> QED
        BY <4>1, <4>2, Zenon
    <3>11. CASE quit_handler \/ RemoveMarker \/ \E f \in Fs : ExternalThaw(f)
      BY <2>1, <3>11, Zenon DEF quit_handler, RemoveMarker, ExternalThaw
    <3> QED
      BY <3>1, <3>2, <3>3, <3>4, <3>5, <3>6, <3>7, <3>8, <3>9, <3>10, <3>11,
         Zenon DEF Next, Agent, World
  <2> QED
    BY <1>3, <2>2 DEF FrozenFs, FreezeInv, TypeOK, TypeData
<1> QED
  BY <1>1, <1>2, <1>3, TypeCorrect, FreezeInvCorrect, PTL
  DEF Spec, ErrorMeansThawed

-----------------------------------------------------------------------------
(* The count of a thaw. *)

MountedFs == {Mounts[k] : k \in DOMAIN Mounts}

ThawPcs == {"thw_list", "thw_walk", "thw_unset", "thw_del", "thw_hook"}

\* Apart from the walk of a thaw command, what is held is what is frozen.
Held ==
    /\ FrozenFs \subseteq held /\ held \subseteq MountedFs
    /\ ctx = "thaw" => pc \in ThawPcs
    /\ pc \in ThawPcs => ctx \in {"thaw", "undo", "cleanup"}
    /\ ctx # "thaw" \/ pc = "thw_list" => held = FrozenFs

\* What is behind the walk is thawed.
Thawed ==
    /\ pc = "thw_walk" =>
          /\ walk > 0
          /\ \A k \in DOMAIN Mounts : k < walk => depth[Mounts[k]] = 0
    /\ pc \in {"thw_unset", "thw_del", "thw_hook"} => FrozenFs = {}

\* A file system that is frozen more than once was counted, but is not thawed.
Underway ==
    IF /\ pc = "thw_walk" /\ walk \in DOMAIN Mounts
       /\ logged /\ depth[Mounts[walk]] > 0 THEN 1 ELSE 0

\* The thaw command counts what it has thawed.
Counted ==
    ctx = "thaw" /\ pc # "thw_list" =>
        count = Cardinality(held \ FrozenFs) + Underway

\* The file systems of the mount table are finitely many.
LEMMA HeldFinite == MountedFs \subseteq Fs /\ IsFiniteSet(MountedFs)
<1>1. /\ Len(Mounts) \in Nat /\ DOMAIN Mounts = 1 .. Len(Mounts)
      /\ \A k \in DOMAIN Mounts : Mounts[k] \in Fs
  BY ConstantsAssumption
<1>2. IsFiniteSet(DOMAIN Mounts)
  BY <1>1, FS_Interval
<1>3. IsFiniteSet(MountedFs)
  <2>1. Mounts \in [DOMAIN Mounts -> MountedFs]
    <3>1. Mounts \in [1 .. Len(Mounts) -> Fs]
      BY ConstantsAssumption, LenProperties
    <3>2. Mounts = [k \in DOMAIN Mounts |-> Mounts[k]]
      BY <3>1, Zenon
    <3> HIDE DEF MountedFs
    <3>3. \A k \in DOMAIN Mounts : Mounts[k] \in MountedFs
      BY Zenon DEF MountedFs
    <3> QED
      BY <3>2, <3>3, Zenon
  <2>2. Mounts \in Surjection(DOMAIN Mounts, MountedFs)
    BY <2>1, Zenon DEF Surjection, MountedFs
  <2> QED
    BY <1>2, <2>2, FS_Surjection, Zenon
<1> QED
  BY <1>1, <1>3, Zenon DEF MountedFs

\* Every step keeps what is held.
LEMMA HeldStep ==
    ASSUME TypeOK, Held, Thawed, [Next]_vars
    PROVE  Held'
<1> USE ConstantsAssumption DEF TypeOK, TypeData, Held, ThawPcs, FrozenFs,
      osVars, stateVars, walkVars, ghosts
<1>1. CASE Start
  BY <1>1 DEF Start, check_is_frozen
<1>2. CASE RunFrozen
  BY <1>2 DEF RunFrozen
<1>3. CASE RunThawed
  BY <1>3 DEF RunThawed
<1>4. CASE RunFails
  BY <1>4 DEF RunFails, ga_disable_non_whitelisted
<1>5. CASE channel_init
  BY <1>5 DEF channel_init
<1>6. CASE Reject
  BY <1>6 DEF Reject, Idle
<1>7. CASE qmp_guest_fsfreeze_status
  BY <1>7 DEF qmp_guest_fsfreeze_status, Idle
<1>8. CASE qmp_guest_fsfreeze_freeze
  BY <1>8 DEF qmp_guest_fsfreeze_freeze, Enter, Idle
<1>9. CASE qmp_guest_fsfreeze_freeze_list
  BY <1>9 DEF qmp_guest_fsfreeze_freeze_list, Enter, Idle
<1>10. CASE qmp_guest_fsfreeze_thaw
  BY <1>10 DEF qmp_guest_fsfreeze_thaw, Enter, Idle
<1>11. CASE FileOpenCmd
  BY <1>11 DEF FileOpenCmd, Enter, Idle
<1>12. CASE FileOpenWrite
  BY <1>12 DEF FileOpenWrite, Return
<1>13. CASE FreezeHook
  BY <1>13 DEF FreezeHook, Return
<1>14. CASE FreezeMountList
  BY <1>14 DEF FreezeMountList, Return
<1>15. CASE ga_set_frozen
  BY <1>15 DEF ga_set_frozen, FreezeState
<1>16. CASE ga_create_file
  BY <1>16 DEF ga_create_file
<1>17. CASE FreezeMount
  <2>1. /\ MountedFs \subseteq Fs
        /\ \A k \in DOMAIN Mounts : Mounts[k] \in MountedFs
    BY HeldFinite, Zenon DEF MountedFs
  <2>2. pc = "frz_walk" /\ pc' = pc /\ ctx' = ctx /\ ctx # "thaw"
    BY <1>17 DEF FreezeMount
  <2>3. CASE depth' = depth
    <3>1. held' = held
      BY <1>17, <2>3 DEF FreezeMount
    <3> QED
      BY <2>2, <2>3, <3>1
  <2>4. CASE walk \in sel /\ depth' = [depth EXCEPT ![Mounts[walk]] = @ + 1]
    <3> DEFINE m == Mounts[walk]
    <3>1. m \in MountedFs /\ m \in Fs
      BY <2>1, <2>4
    <3> HIDE DEF m
    <3>2. depth' = [depth EXCEPT ![m] = @ + 1]
      BY <2>4 DEF m
    <3>3. {f \in Fs : depth'[f] > depth[f]} = {m}
      BY <3>1, <3>2
    <3>4. {f \in Fs : depth'[f] > 0} = {f \in Fs : depth[f] > 0} \cup {m}
      BY <3>1, <3>2
    <3>5. held' = held \cup {m}
      BY <1>17, <3>3, Zenon DEF FreezeMount
    <3>6. held = {f \in Fs : depth[f] > 0} /\ held \subseteq MountedFs
      BY <2>2, Zenon
    <3> QED
      BY <2>2, <3>1, <3>4, <3>5, <3>6, Zenon
  <2> QED
    BY <1>17, <2>3, <2>4, Zenon DEF FreezeMount, FIFREEZE
<1>18. CASE FreezeMountFails
  BY <1>18 DEF FreezeMountFails
<1>19. CASE FreezeDone
  BY <1>19 DEF FreezeDone, Return
<1>20. CASE ThawMountList
  BY <1>20 DEF ThawMountList, ThawReturns, Return
<1>21. CASE ThawMount
  BY <1>21 DEF ThawMount, FITHAW, Tally
<1>22. CASE ThawNextMount
  BY <1>22 DEF ThawNextMount, MayFail
<1>23. CASE ThawWalked
  BY <1>23 DEF ThawWalked
<1>24. CASE ga_unset_frozen
  BY <1>24 DEF ga_unset_frozen
<1>25. CASE ga_delete_file
  BY <1>25 DEF ga_delete_file
<1>26. CASE ThawHook
  BY <1>26 DEF ThawHook, ThawReturns, Return
<1>27. CASE LeaveLoop
  BY <1>27 DEF LeaveLoop
<1>28. CASE guest_fsfreeze_cleanup
  BY <1>28 DEF guest_fsfreeze_cleanup
<1>29. CASE Exit
  BY <1>29 DEF Exit, ProcessEnds
<1>30. CASE quit_handler
  BY <1>30 DEF quit_handler
<1>31. CASE Kill
  BY <1>31 DEF Kill, ProcessEnds
<1>32. CASE Reboot
  BY <1>32 DEF Reboot, ProcessEnds
<1>33. CASE RemoveMarker
  BY <1>33 DEF RemoveMarker
<1>34. ASSUME NEW f \in Fs, ExternalThaw(f) PROVE Held'
  BY <1>34 DEF ExternalThaw, MayFail
<1>35. CASE UNCHANGED vars
  BY <1>35 DEF vars
<1> QED
  BY <1>1, <1>2, <1>3, <1>4, <1>5, <1>6, <1>7, <1>8, <1>9, <1>10, <1>11,
     <1>12, <1>13, <1>14, <1>15, <1>16, <1>17, <1>18, <1>19, <1>20, <1>21,
     <1>22, <1>23, <1>24, <1>25, <1>26, <1>27, <1>28, <1>29, <1>30, <1>31,
     <1>32, <1>33, <1>34, <1>35
  DEF Next, Client, Agent, World

\* If mounts can be opened and thawed, the walk of a thaw leaves nothing
\* behind.
LEMMA ThawedStep ==
    ASSUME Faults \cap {"open", "fithaw", "extthaw"} = {}, TypeOK, OnlyMounted,
           Thawed, [Next]_vars
    PROVE  Thawed'
<1> USE ConstantsAssumption DEF TypeOK, TypeData, Thawed, FrozenFs,
      OnlyMounted, osVars, stateVars, walkVars, ghosts
<1>1. CASE Start
  BY <1>1 DEF Start, check_is_frozen
<1>2. CASE RunFrozen
  BY <1>2 DEF RunFrozen
<1>3. CASE RunThawed
  BY <1>3 DEF RunThawed
<1>4. CASE RunFails
  BY <1>4 DEF RunFails, ga_disable_non_whitelisted
<1>5. CASE channel_init
  BY <1>5 DEF channel_init
<1>6. CASE Reject
  BY <1>6 DEF Reject, Idle
<1>7. CASE qmp_guest_fsfreeze_status
  BY <1>7 DEF qmp_guest_fsfreeze_status, Idle
<1>8. CASE qmp_guest_fsfreeze_freeze
  BY <1>8 DEF qmp_guest_fsfreeze_freeze, Enter, Idle
<1>9. CASE qmp_guest_fsfreeze_freeze_list
  BY <1>9 DEF qmp_guest_fsfreeze_freeze_list, Enter, Idle
<1>10. CASE qmp_guest_fsfreeze_thaw
  BY <1>10 DEF qmp_guest_fsfreeze_thaw, Enter, Idle
<1>11. CASE FileOpenCmd
  BY <1>11 DEF FileOpenCmd, Enter, Idle
<1>12. CASE FileOpenWrite
  BY <1>12 DEF FileOpenWrite, Return
<1>13. CASE FreezeHook
  BY <1>13 DEF FreezeHook, Return
<1>14. CASE FreezeMountList
  BY <1>14 DEF FreezeMountList, Return
<1>15. CASE ga_set_frozen
  BY <1>15 DEF ga_set_frozen, FreezeState
<1>16. CASE ga_create_file
  BY <1>16 DEF ga_create_file
<1>17. CASE FreezeMount
  BY <1>17 DEF FreezeMount, FIFREEZE
<1>18. CASE FreezeMountFails
  BY <1>18 DEF FreezeMountFails
<1>19. CASE FreezeDone
  BY <1>19 DEF FreezeDone, Return
<1>20. CASE ThawMountList
  BY <1>20 DEF ThawMountList, ThawReturns, Return
<1>21. CASE ThawMount
  BY <1>21 DEF ThawMount, FITHAW, Tally
<1>22. CASE ThawNextMount
  BY <1>22 DEF ThawNextMount, MayFail
<1>23. CASE ThawWalked
  BY <1>23 DEF ThawWalked
<1>24. CASE ga_unset_frozen
  BY <1>24 DEF ga_unset_frozen
<1>25. CASE ga_delete_file
  BY <1>25 DEF ga_delete_file
<1>26. CASE ThawHook
  BY <1>26 DEF ThawHook, ThawReturns, Return
<1>27. CASE LeaveLoop
  BY <1>27 DEF LeaveLoop
<1>28. CASE guest_fsfreeze_cleanup
  BY <1>28 DEF guest_fsfreeze_cleanup
<1>29. CASE Exit
  BY <1>29 DEF Exit, ProcessEnds
<1>30. CASE quit_handler
  BY <1>30 DEF quit_handler
<1>31. CASE Kill
  BY <1>31 DEF Kill, ProcessEnds
<1>32. CASE Reboot
  BY <1>32 DEF Reboot, ProcessEnds
<1>33. CASE RemoveMarker
  BY <1>33 DEF RemoveMarker
<1>34. ASSUME NEW f \in Fs, ExternalThaw(f) PROVE Thawed'
  BY <1>34 DEF ExternalThaw, MayFail
<1>35. CASE UNCHANGED vars
  BY <1>35 DEF vars
<1> QED
  BY <1>1, <1>2, <1>3, <1>4, <1>5, <1>6, <1>7, <1>8, <1>9, <1>10, <1>11,
     <1>12, <1>13, <1>14, <1>15, <1>16, <1>17, <1>18, <1>19, <1>20, <1>21,
     <1>22, <1>23, <1>24, <1>25, <1>26, <1>27, <1>28, <1>29, <1>30, <1>31,
     <1>32, <1>33, <1>34, <1>35
  DEF Next, Client, Agent, World

\* A FITHAW that succeeds during a thaw command, on a file system frozen once
\* or more often, counted or not.
LEMMA ThawMountCounts ==
    ASSUME TypeOK, Held, Thawed, Counted, ThawMount
    PROVE  Counted'
<1> SUFFICES ASSUME ctx' = "thaw", pc' # "thw_list" PROVE
                    count' = (Cardinality(held \ FrozenFs) + Underway)'
  BY Zenon DEF Counted
<1> DEFINE m == Mounts[walk]
           n == Cardinality(held \ FrozenFs)
<1>1. /\ pc = "thw_walk" /\ pc' = "thw_walk" /\ ctx = "thaw" /\ held' = held
      /\ walk' = walk /\ logged' = TRUE /\ walk \in DOMAIN Mounts
      /\ count' = IF logged THEN count ELSE count + 1
  BY Zenon DEF ThawMount, Tally
<1>2. /\ depth \in [Fs -> Nat] /\ m \in Fs /\ depth[m] > 0
      /\ depth' = [depth EXCEPT ![m] = @ - 1]
  BY <1>1, ConstantsAssumption DEF ThawMount, FITHAW, TypeOK, TypeData
<1>3. n \in Nat /\ IsFiniteSet(held \ FrozenFs)
  <2>1. held \ FrozenFs \subseteq MountedFs
    BY Zenon DEF Held
  <2> QED
    BY <2>1, HeldFinite, FS_Subset, FS_CardinalityType, Zenon
<1>4. count \in Nat /\ logged \in BOOLEAN
  BY Zenon DEF TypeOK, TypeData, TypeFlags
<1>5. count = n + (IF logged THEN 1 ELSE 0)
  <2>1. pc # "thw_list"
    BY <1>1
  <2> QED
    BY <1>1, <1>2, <2>1, Zenon DEF Counted, Underway
<1>6. count' = n + 1
  <2> HIDE DEF n
  <2>1. CASE logged
    <3>1. count' = count /\ count = n + 1
      BY <1>1, <1>5, <2>1, Zenon
    <3> QED
      BY <3>1
  <2>2. CASE ~logged
    <3>1. count' = count + 1 /\ count = n + 0
      BY <1>1, <1>5, <2>2, Zenon
    <3> QED
      BY <1>3, <3>1
  <2> QED
    BY <2>1, <2>2
<1>7. m' = m
  BY <1>1, Zenon
<1>8. Underway' = IF depth'[m] > 0 THEN 1 ELSE 0
  BY <1>1, <1>7, Zenon DEF Underway
<1>9. m \in FrozenFs /\ m \in held
  BY <1>2 DEF FrozenFs, Held
<1> HIDE DEF m
<1>10. CASE depth[m] > 1
  <2>1. depth'[m] > 0
    BY <1>2, <1>10
  <2>2. FrozenFs' = FrozenFs
    BY <1>2, <1>10 DEF FrozenFs
  <2>3. Underway' = 1 /\ (held \ FrozenFs)' = held \ FrozenFs
    BY <1>1, <1>8, <2>1, <2>2, Zenon
  <2> QED
    BY <1>6, <2>3, Zenon
<1>11. CASE depth[m] = 1
  <2>1. ~(depth'[m] > 0)
    BY <1>2, <1>11
  <2>2. FrozenFs' = FrozenFs \ {m}
    BY <1>2, <1>11 DEF FrozenFs
  <2>3. (held \ FrozenFs)' = (held \ FrozenFs) \cup {m}
    BY <1>1, <1>9, <2>2, Zenon
  <2>4. Cardinality((held \ FrozenFs) \cup {m}) = n + 1
    <3>1. m \notin held \ FrozenFs
      BY <1>9, Zenon
    <3> QED
      BY <1>3, <3>1, FS_AddElement, Zenon
  <2>5. Underway' = 0 /\ n + 1 + 0 = n + 1
    <3> HIDE DEF n
    <3>1. n + 1 + 0 = n + 1
      BY <1>3
    <3> QED
      BY <1>8, <2>1, <3>1, Zenon
  <2> QED
    BY <1>6, <2>3, <2>4, <2>5, Zenon
<1> QED
  BY <1>2, <1>10, <1>11

\* Every other step keeps the count.
LEMMA CountedStep ==
    ASSUME Faults \cap {"open", "fithaw", "extthaw"} = {}, TypeOK, Held,
           Thawed, Counted, [Next]_vars
    PROVE  Counted'
<1> USE DEF TypeOK, TypeData, Held, ThawPcs, Counted, Underway, FrozenFs,
      osVars, stateVars, walkVars, ghosts
<1>1. CASE Start
  BY <1>1 DEF Start, check_is_frozen
<1>2. CASE RunFrozen
  BY <1>2 DEF RunFrozen
<1>3. CASE RunThawed
  BY <1>3 DEF RunThawed
<1>4. CASE RunFails
  BY <1>4 DEF RunFails, ga_disable_non_whitelisted
<1>5. CASE channel_init
  BY <1>5 DEF channel_init
<1>6. CASE Reject
  BY <1>6 DEF Reject, Idle
<1>7. CASE qmp_guest_fsfreeze_status
  BY <1>7 DEF qmp_guest_fsfreeze_status, Idle
<1>8. CASE qmp_guest_fsfreeze_freeze
  BY <1>8 DEF qmp_guest_fsfreeze_freeze, Enter, Idle
<1>9. CASE qmp_guest_fsfreeze_freeze_list
  BY <1>9 DEF qmp_guest_fsfreeze_freeze_list, Enter, Idle
<1>10. CASE qmp_guest_fsfreeze_thaw
  BY <1>10 DEF qmp_guest_fsfreeze_thaw, Enter, Idle
<1>11. CASE FileOpenCmd
  BY <1>11 DEF FileOpenCmd, Enter, Idle
<1>12. CASE FileOpenWrite
  BY <1>12 DEF FileOpenWrite, Return
<1>13. CASE FreezeHook
  BY <1>13 DEF FreezeHook, Return
<1>14. CASE FreezeMountList
  BY <1>14 DEF FreezeMountList, Return
<1>15. CASE ga_set_frozen
  BY <1>15 DEF ga_set_frozen, FreezeState
<1>16. CASE ga_create_file
  BY <1>16 DEF ga_create_file
<1>17. CASE FreezeMount
  BY <1>17 DEF FreezeMount, FIFREEZE
<1>18. CASE FreezeMountFails
  BY <1>18 DEF FreezeMountFails
<1>19. CASE FreezeDone
  BY <1>19 DEF FreezeDone, Return
<1>20. CASE ThawMountList
  <2>1. CASE pc' = "thw_walk"
    <3>1. /\ count' = 0 /\ logged' = FALSE /\ held' = held
          /\ FrozenFs' = FrozenFs /\ pc = "thw_list"
      BY <1>20, <2>1 DEF ThawMountList, ThawReturns, Return
    <3>2. (held \ FrozenFs)' = {}
      BY <3>1
    <3>3. Cardinality({}) = 0
      BY FS_EmptySet, Zenon
    <3>4. Underway' = 0
      BY <3>1, Zenon
    <3> QED
      BY <3>1, <3>2, <3>3, <3>4
  <2>2. CASE pc' # "thw_walk"
    BY <1>20, <2>2 DEF ThawMountList, ThawReturns, Return
  <2> QED
    BY <2>1, <2>2
<1>21. CASE ThawMount
  BY <1>21, ThawMountCounts
<1>22. CASE ThawNextMount
  BY <1>22 DEF ThawNextMount, MayFail
<1>23. CASE ThawWalked
  BY <1>23 DEF ThawWalked
<1>24. CASE ga_unset_frozen
  BY <1>24 DEF ga_unset_frozen
<1>25. CASE ga_delete_file
  BY <1>25 DEF ga_delete_file
<1>26. CASE ThawHook
  BY <1>26 DEF ThawHook, ThawReturns, Return
<1>27. CASE LeaveLoop
  BY <1>27 DEF LeaveLoop
<1>28. CASE guest_fsfreeze_cleanup
  BY <1>28 DEF guest_fsfreeze_cleanup
<1>29. CASE Exit
  BY <1>29 DEF Exit, ProcessEnds
<1>30. CASE quit_handler
  BY <1>30 DEF quit_handler
<1>31. CASE Kill
  BY <1>31 DEF Kill, ProcessEnds
<1>32. CASE Reboot
  BY <1>32 DEF Reboot, ProcessEnds
<1>33. CASE RemoveMarker
  BY <1>33 DEF RemoveMarker
<1>34. ASSUME NEW f \in Fs, ExternalThaw(f) PROVE Counted'
  BY <1>34 DEF ExternalThaw, MayFail
<1>35. CASE UNCHANGED vars
  BY <1>35 DEF vars
<1> QED
  BY <1>1, <1>2, <1>3, <1>4, <1>5, <1>6, <1>7, <1>8, <1>9, <1>10, <1>11,
     <1>12, <1>13, <1>14, <1>15, <1>16, <1>17, <1>18, <1>19, <1>20, <1>21,
     <1>22, <1>23, <1>24, <1>25, <1>26, <1>27, <1>28, <1>29, <1>30, <1>31,
     <1>32, <1>33, <1>34, <1>35
  DEF Next, Client, Agent, World

\* A thaw that succeeds reports the number of the file systems that a freeze
\* froze, over any number of agents and crashes, each of them once however
\* often it was frozen, if mounts can be opened and thawed and nobody else
\* thaws them.
THEOREM ThawCounts ==
    Faults \cap {"open", "fithaw", "extthaw"} = {} => (Spec => ThawCountExact)
<1> SUFFICES ASSUME Faults \cap {"open", "fithaw", "extthaw"} = {}
             PROVE  Spec => ThawCountExact
  OBVIOUS
<1>1. Init => Held /\ Thawed /\ Counted
  <2> SUFFICES ASSUME Init PROVE Held /\ Thawed /\ Counted
    OBVIOUS
  <2>1. /\ pc = "down" /\ ctx = "none" /\ held = {}
        /\ depth = [f \in Fs |-> 0]
    BY Zenon DEF Init
  <2>2. FrozenFs = {}
    BY <2>1 DEF FrozenFs
  <2> QED
    BY <2>1, <2>2 DEF Held, Thawed, Counted, ThawPcs
<1>2. /\ TypeOK /\ FreezeInv /\ Held /\ Thawed /\ Counted /\ [Next]_vars
      => Held' /\ Thawed' /\ Counted'
  BY HeldStep, ThawedStep, CountedStep, Zenon DEF FreezeInv
<1>3. ASSUME Held, Thawed, Counted, [Next]_vars
      PROVE  [pc = "thw_hook" /\ pc' = "loop" /\ reply'.kind = "thawed" =>
                 reply'.n = Cardinality(held)]_vars
  <2> SUFFICES ASSUME Next, pc = "thw_hook", pc' = "loop",
                      reply'.kind = "thawed"
               PROVE  reply'.n = Cardinality(held)
    BY <1>3, Zenon
  <2>1. ThawHook
    BY DEF Next, Client, Agent, World, Start, RunFrozen, RunThawed,
       RunFails, channel_init, FileOpenWrite, FreezeHook, FreezeMountList,
       ga_set_frozen, ga_create_file, FreezeMount, FreezeMountFails,
       FreezeDone, ThawMountList, ThawMount, ThawNextMount, ThawWalked,
       ga_unset_frozen, ga_delete_file, LeaveLoop, guest_fsfreeze_cleanup,
       Exit, Reject, qmp_guest_fsfreeze_status, qmp_guest_fsfreeze_freeze,
       qmp_guest_fsfreeze_freeze_list, qmp_guest_fsfreeze_thaw, FileOpenCmd,
       Enter, Idle, quit_handler, Kill, Reboot, RemoveMarker, ExternalThaw,
       ProcessEnds
  <2>2. ctx \in {"thaw", "undo", "cleanup"} /\ pc # "thw_list"
        /\ pc # "thw_walk" /\ FrozenFs = {} /\ pc' # "exit"
    BY <1>3 DEF Held, Thawed, ThawPcs
  <2>3. /\ ctx = "undo" => reply' = Error
        /\ ctx # "undo" => \/ reply' = [kind |-> "thawed", n |-> count]
                            \/ reply' = Error
    BY <2>1, <2>2, Zenon DEF ThawHook, ThawReturns, Return
  <2>4. "thawed" # "error" /\ "undo" # "thaw"
    OBVIOUS
  <2>5. Error.kind = "error" /\ [kind |-> "thawed", n |-> count].n = count
    BY Zenon DEF Error
  <2>6. ctx = "thaw" \/ ctx = "cleanup"
    BY <2>2, <2>3, <2>4, <2>5, Zenon
  <2>7. ctx # "cleanup"
    BY <2>1, <2>2, Zenon DEF ThawHook, ThawReturns
  <2>8. reply'.n = count
    <3>1. reply' # Error /\ ctx # "undo"
      BY <2>4, <2>5, <2>6, <2>7, Zenon
    <3>2. reply' = [kind |-> "thawed", n |-> count]
      BY <2>3, <3>1, Zenon
    <3> QED
      BY <3>2
  <2>9. count = Cardinality(held \ {}) + 0 /\ held \ {} = held
    BY <1>3, <2>2, <2>6, <2>7, Zenon DEF Counted, Underway
  <2>10. Cardinality(held) \in Nat
    <3>1. held \subseteq MountedFs
      BY <1>3, Zenon DEF Held
    <3> QED
      BY <3>1, HeldFinite, FS_Subset, FS_CardinalityType, Zenon
  <2> QED
    BY <2>8, <2>9, <2>10
<1> QED
  BY <1>1, <1>2, <1>3, TypeCorrect, FreezeInvCorrect, PTL
  DEF Spec, ThawCountExact
=============================================================================
