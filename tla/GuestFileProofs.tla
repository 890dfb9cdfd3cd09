-------------------------- MODULE GuestFileProofs --------------------------
(***************************************************************************)
(* What TLAPS proves of GuestFile: its type invariant, that no handle is   *)
(* given out twice as long as the counter fits the state file, and that    *)
(* the streams open are those of the table, none of them leaked or used    *)
(* after its fclose.                                                       *)
(***************************************************************************)
EXTENDS GuestFile, ListLemmas

\* A gint holds what persistent_state_to_keyfile stores.
LEMMA KeyfileFits ==
    ASSUME NEW n \in Int
    PROVE  persistent_state_to_keyfile(n) \in -IntMax - 1 .. IntMax
<1> DEFINE w == 2 * IntMax + 2
<1>1. IntMax \in Nat
  BY ConstantsAssumption
<1>2. w \in Nat \ {0} /\ n + IntMax + 1 \in Int
  BY <1>1
<1> HIDE DEF w
<1>3. (n + IntMax + 1) % w \in 0 .. w - 1
  BY <1>2
<1> QED
  BY <1>1, <1>3 DEF persistent_state_to_keyfile, w

\* It stores a counter that fits a gint as it is.
LEMMA KeyfileExact ==
    ASSUME NEW n \in 0 .. IntMax
    PROVE  persistent_state_to_keyfile(n) = n
<1> DEFINE w == 2 * IntMax + 2
           k == n + IntMax + 1
<1>1. IntMax \in Nat
  BY ConstantsAssumption
<1>2. w \in Nat \ {0} /\ k \in 0 .. w - 1
  BY <1>1
<1> HIDE DEF w, k
<1>3. k % w = k
  BY <1>2
<1> QED
  BY <1>1, <1>3 DEF persistent_state_to_keyfile, w, k

-----------------------------------------------------------------------------
(* The type invariant. *)

\* guest_file_handle_find leads to an entry of the table.
LEMMA FirstFound ==
    ASSUME TypeData, NEW h, guest_file_handle_find(h) # {}
    PROVE  /\ First(h) \in DOMAIN filehandles
           /\ First(h) \in 1 .. Len(filehandles)
<1>1. guest_file_handle_find(h) \subseteq 1 .. Len(filehandles)
  BY DEF guest_file_handle_find, TypeData
<1>2. First(h) \in guest_file_handle_find(h)
  <2>1. guest_file_handle_find(h) \subseteq Nat
    BY <1>1 DEF TypeData
  <2> QED
    BY <2>1, FirstPlace, Zenon DEF First
<1> QED
  BY <1>1, <1>2 DEF TypeData

\* Marking an entry of the table leaves a table.
LEMMA MarkedTable ==
    ASSUME TypeData, NEW h, guest_file_handle_find(h) # {},
           NEW b \in BOOLEAN
    PROVE  /\ WithOpen(h, b) \in Seq(Entries)
           /\ WithError(h, b) \in Seq(Entries)
           /\ RemoveAt(filehandles, First(h)) \in Seq(Entries)
<1>1. filehandles \in Seq(Entries) /\ First(h) \in 1 .. Len(filehandles)
  BY FirstFound DEF TypeData
<1> DEFINE e == filehandles[First(h)]
<1>2. e \in Entries
  BY <1>1
<1>3. [e EXCEPT !.open = b] \in Entries /\ [e EXCEPT !.err = b] \in Entries
  BY <1>2 DEF Entries
<1>4. RemoveAt(filehandles, First(h)) \in Seq(Entries)
  BY <1>1 DEF RemoveAt
<1> HIDE DEF e
<1>5. /\ [filehandles EXCEPT ![First(h)] = [e EXCEPT !.open = b]]
            \in Seq(Entries)
      /\ [filehandles EXCEPT ![First(h)] = [e EXCEPT !.err = b]]
            \in Seq(Entries)
  BY <1>1, <1>3
<1> QED
  BY <1>4, <1>5 DEF e, WithOpen, WithError

\* The answers are answers.
LEMMA AnswerType ==
    ASSUME NEW k \in {"none", "handle", "ok", "error"}, NEW id \in Int,
           NEW io \in {"none", "ok", "fail"}
    PROVE  Answer(k, id, io) \in Answers
BY DEF Answer, Answers

\* No step takes the Boolean variables out of their type.
LEMMA FlagsStep == TypeFlags /\ [Next]_vars => TypeFlags'
BY ZenonT(60)
DEF TypeFlags, Next, vars, ghosts, fileVars, tableVars, Start, StartFails,
     read_persistent_state, write_persistent_state, qmp_guest_file_open,
     ga_get_fd_handle, guest_file_handle_add, HandleCommand, UnknownHandle,
     UseAfterClose, UnchangedButTable, UnchangedByClose,
     qmp_guest_file_close, qmp_guest_file_read, qmp_guest_file_write,
     BadCount, Transfer,
     qmp_guest_file_seek, qmp_guest_file_flush, SetFrozen, Kill, RemoveState

\* No step takes the other variables out of their types.
LEMMA DataStep == TypeData /\ [Next]_vars => TypeData'
<1> SUFFICES ASSUME TypeData, [Next]_vars PROVE TypeData'
  OBVIOUS
<1>t. IntMax \in Nat /\ DefaultCounter \in Int /\ MaxOpens \in Nat
      /\ MaxKills \in Nat
  BY ConstantsAssumption
<1>e. /\ Error \in Answers
      /\ NoReply \in Answers
  BY AnswerType DEF Error, NoReply
<1>1. CASE Start
  <2>1. fd_counter' \in Int /\ stored' \in -IntMax - 1 .. IntMax
    <3>1. persistent_state_to_keyfile(DefaultCounter) \in -IntMax - 1 .. IntMax
      BY <1>t, KeyfileFits
    <3> QED
      BY <1>1, <1>t, <3>1
      DEF Start, read_persistent_state, write_persistent_state, fileVars,
          TypeData
  <2> QED
    BY <1>1, <1>t, <1>e, <2>1 DEF Start, TypeData, PCs
<1>2. CASE StartFails
  BY <1>2, <1>t DEF StartFails, TypeData
<1>3. CASE qmp_guest_file_open
  BY <1>3, <1>t, <1>e DEF qmp_guest_file_open, Ready, TypeData, PCs
<1>4. CASE ga_get_fd_handle
  <2>2. persistent_state_to_keyfile(fd_counter + 1) \in -IntMax - 1 .. IntMax
    <3>1. fd_counter + 1 \in Int
      BY DEF TypeData
    <3> QED
      BY <3>1, KeyfileFits
  <2>1. stored' \in -IntMax - 1 .. IntMax
    BY <1>4, <2>2
    DEF ga_get_fd_handle, write_persistent_state, fileVars, TypeData
  <2> QED
    BY <1>4, <1>t, <1>e, <2>1 DEF ga_get_fd_handle, TypeData, PCs
<1>5. CASE guest_file_handle_add
  <2>2. NewEntry(handle) \in Entries
    BY DEF TypeData, NewEntry, Entries
  <2>1. reply' \in Answers
    BY <1>5, AnswerType DEF guest_file_handle_add, TypeData
  <2>3. filehandles' \in Seq(Entries) /\ issued' \in Seq(Int)
    <3>1. /\ Append(filehandles, NewEntry(handle)) \in Seq(Entries)
          /\ Append(issued, handle) \in Seq(Int)
      BY <2>2 DEF TypeData
    <3> QED
      BY <3>1, <1>5 DEF guest_file_handle_add, TypeData
  <2> QED
    BY <1>5, <1>t, <2>1, <2>3 DEF guest_file_handle_add, TypeData, PCs
<1>6. ASSUME NEW h \in Named, HandleCommand(h) PROVE TypeData'
  <2>h. h \in Int
    BY <1>t DEF Named
  <2>1. CASE UnknownHandle(h)
    BY <2>1, <1>e DEF UnknownHandle, TypeData, ghosts
  <2>2. CASE UseAfterClose(h)
    <3>1. reply' \in Answers
      BY <2>2, <2>h, AnswerType DEF UseAfterClose, TypeData
    <3> QED
      BY <2>2, <3>1, <1>t DEF UseAfterClose, Ready, TypeData, PCs
  <2>3. ASSUME /\ UnchangedButTable /\ streams' \in Int
               /\ filehandles' \in Seq(Entries)
               /\ reply' \in Answers
        PROVE  TypeData'
    BY <2>3 DEF UnchangedButTable, ghosts, TypeData
  <2>4. CASE qmp_guest_file_close(h)
    <3>1. /\ WithOpen(h, FALSE) \in Seq(Entries)
          /\ RemoveAt(filehandles, First(h)) \in Seq(Entries)
      BY <2>4, MarkedTable DEF qmp_guest_file_close, Found
    <3>2. /\ Answer("ok", h, "ok") \in Answers
          /\ Answer("error", h, "fail") \in Answers
      BY <2>h, AnswerType
    <3>3. streams' \in Int
      BY <2>4 DEF qmp_guest_file_close, TypeData
    <3>4. filehandles' \in Seq(Entries) /\ reply' \in Answers
      BY <2>4, <3>1, <3>2 DEF qmp_guest_file_close
    <3> QED
      BY <2>4, <3>3, <3>4
      DEF qmp_guest_file_close, UnchangedByClose, TypeData
  <2>5. CASE BadCount(h)
    BY <2>5, <2>3, <2>h, AnswerType DEF BadCount, tableVars, TypeData
  <2>6. CASE Transfer(h)
    BY <2>6, <2>3, <2>h, MarkedTable, AnswerType
    DEF Transfer, Found, Outcome, TypeData
  <2>7. CASE qmp_guest_file_seek(h)
    BY <2>7, <2>3, <2>h, MarkedTable, AnswerType
    DEF qmp_guest_file_seek, Found, Outcome, TypeData
  <2>8. CASE qmp_guest_file_flush(h)
    BY <2>8, <2>3, <2>h, MarkedTable, AnswerType
    DEF qmp_guest_file_flush, Found, Outcome, TypeData
  <2> QED
    BY <1>6, <2>1, <2>2, <2>4, <2>5, <2>6, <2>7, <2>8
    DEF HandleCommand, qmp_guest_file_read, qmp_guest_file_write
<1>7. CASE SetFrozen
  BY <1>7 DEF SetFrozen, TypeData, ghosts
<1>8. CASE Kill
  BY <1>8, <1>t DEF Kill, TypeData, PCs
<1>9. CASE RemoveState
  BY <1>9 DEF RemoveState, TypeData, ghosts
<1>10. CASE UNCHANGED vars
  BY <1>10 DEF vars, TypeData
<1> QED
  BY <1>1, <1>2, <1>3, <1>4, <1>5, <1>6, <1>7, <1>8, <1>9, <1>10 DEF Next

\* Every variable has the type that its own updates give it.
Types == TypeFlags /\ TypeData

\* In particular, what ga_get_fd_handle commits always fits the gint of the key
\* file, whatever the counter has grown to.
LEMMA TypesCorrect == Spec => []Types
<1>1. Init => Types
  <2>1. Init => TypeFlags
    BY Zenon DEF Init, TypeFlags
  <2>2. NoReply \in Answers
    BY AnswerType DEF NoReply
  <2>3. Init => TypeData
    BY <2>2, ConstantsAssumption DEF Init, TypeData, PCs
  <2> QED
    BY <2>1, <2>3 DEF Types
<1>2. Types /\ [Next]_vars => Types'
  BY FlagsStep, DataStep DEF Types
<1> QED
  BY <1>1, <1>2, PTL DEF Spec

-----------------------------------------------------------------------------
(* No handle is given out twice. *)

\* The steps that move neither the counters nor the issued handles.
Quiet ==
    /\ UNCHANGED <<stored, fd_counter, handle, issued, opens, lost>>
    /\ exists' => exists
    /\ pc' = "add" => pc = "add"
    /\ pc = "down" => pc' = "down"

\* They keep the induction hypothesis.
LEMMA QuietStep ==
    ASSUME CounterRange, DrawnFirst, Ahead, HandlesNeverReused, Quiet
    PROVE  CounterRange' /\ DrawnFirst' /\ Ahead' /\ HandlesNeverReused'
<1>1. CounterRange' /\ DrawnFirst'
  BY DEF CounterRange, DrawnFirst, Quiet
<1>2. \A n : IssuedBelow(n)' <=> IssuedBelow(n)
  BY DEF IssuedBelow, Quiet
<1>3. Ahead'
  BY DEF Ahead, IssuedBelow, Quiet
<1>4. HandlesNeverReused'
  BY DEF HandlesNeverReused, Quiet
<1> QED
  BY <1>1, <1>3, <1>4

\* Every step keeps it, when every counter drawn fits a gint: a commit stores
\* the counter itself.
LEMMA HandlesStep ==
    ASSUME DefaultCounter + MaxOpens <= IntMax, HandlesInv, [Next]_vars
    PROVE  CounterRange' /\ DrawnFirst' /\ Ahead' /\ HandlesNeverReused'
<1>h. TypeData /\ CounterRange /\ DrawnFirst /\ Ahead /\ HandlesNeverReused
  BY DEF HandlesInv
<1>t. IntMax \in Nat /\ DefaultCounter \in 1 .. IntMax /\ MaxOpens \in Nat
  BY ConstantsAssumption
<1>k. persistent_state_to_keyfile(DefaultCounter) = DefaultCounter
  BY <1>t, KeyfileExact
<1>1. CASE Start
  <2>1. CASE exists
    <3>1. /\ fd_counter' = stored /\ UNCHANGED <<exists, stored>>
          /\ UNCHANGED <<issued, opens>> /\ pc' = "loop" /\ (lost' <=> lost)
      BY <1>1, <2>1 DEF Start, read_persistent_state, fileVars
    <3> QED
      BY <3>1, <2>1, <1>h
      DEF CounterRange, DrawnFirst, Ahead, HandlesNeverReused, IssuedBelow
  <2>2. CASE ~exists
    <3>1. /\ fd_counter' = DefaultCounter
          /\ stored' \in {stored, DefaultCounter}
          /\ exists' => stored' = DefaultCounter
          /\ UNCHANGED <<issued, opens>> /\ pc' = "loop"
          /\ ~lost' => opens = 0
      BY <1>1, <2>2, <1>h, <1>k
      DEF Start, read_persistent_state, fileVars, write_persistent_state,
          TypeData
    <3>2. CounterRange' /\ DrawnFirst'
      BY <3>1, <1>h, <1>t DEF CounterRange, DrawnFirst, TypeData
    <3>3. ~lost' => issued' = <<>>
      BY <3>1, <1>h DEF DrawnFirst
    <3> QED
      BY <3>1, <3>2, <3>3 DEF Ahead, HandlesNeverReused, IssuedBelow
  <2> QED
    BY <2>1, <2>2
<1>2. CASE ga_get_fd_handle
  <2>1. fd_counter + 1 \in 0 .. IntMax
    BY <1>2, <1>h, <1>t DEF ga_get_fd_handle, CounterRange, TypeData
  <2>2. persistent_state_to_keyfile(fd_counter + 1) = fd_counter + 1
    BY <2>1, KeyfileExact
  <2>3. /\ pc = "handle"
        /\ handle' = fd_counter /\ fd_counter' = fd_counter + 1
        /\ opens' = opens + 1 /\ UNCHANGED <<issued, lost>>
        /\ \/ exists' /\ stored' = fd_counter + 1 /\ pc' = "add"
           \/ UNCHANGED <<exists, stored>> /\ pc' = "loop"
    BY <1>2, <2>2 DEF ga_get_fd_handle, write_persistent_state, fileVars
  <2>4. CounterRange' /\ DrawnFirst'
    BY <2>3, <1>h, <1>t DEF CounterRange, DrawnFirst, TypeData
  <2>5. HandlesNeverReused'
    BY <2>3, <1>h DEF HandlesNeverReused
  <2>6. ~lost => IssuedBelow(fd_counter) /\ IssuedBelow(fd_counter + 1)
    BY <2>3, <1>h DEF Ahead, IssuedBelow, TypeData
  <2>7. Ahead'
    BY <2>3, <2>6, <1>h DEF Ahead, IssuedBelow, TypeData
  <2> QED
    BY <2>4, <2>5, <2>7
<1>3. CASE guest_file_handle_add
  <2>1. /\ pc = "add" /\ pc' = "loop"
        /\ UNCHANGED <<exists, stored, fd_counter, handle, opens, lost>>
        /\ issued' = issued \/ issued' = Append(issued, handle)
    BY <1>3 DEF guest_file_handle_add
  <2>2. CounterRange' /\ DrawnFirst'
    BY <2>1, <1>h DEF CounterRange, DrawnFirst
  <2>3. Ahead'
    <3>1. ASSUME NEW n \in Int, IssuedBelow(n), handle < n,
                 NEW i \in DOMAIN issued'
          PROVE  issued'[i] < n
      <4>1. CASE issued' = issued
        BY <3>1, <4>1 DEF IssuedBelow
      <4>2. CASE issued' = Append(issued, handle)
        <5>1. issued \in Seq(Int) /\ handle \in Int
          BY <1>h DEF TypeData
        <5>2. \/ i \in DOMAIN issued /\ issued'[i] = issued[i]
              \/ issued'[i] = handle
          BY <5>1, <4>2, <3>1
        <5> QED
          BY <5>2, <3>1 DEF IssuedBelow
      <4> QED
        BY <2>1, <4>1, <4>2
    <3>2. \A n \in Int : IssuedBelow(n) /\ handle < n
                          => \A i \in DOMAIN issued' : issued'[i] < n
      BY <3>1
    <3>3. ~lost => /\ exists => IssuedBelow(stored) /\ handle < stored
                   /\ IssuedBelow(fd_counter) /\ handle < fd_counter
      BY <2>1, <1>h DEF Ahead
    <3>4. stored \in Int /\ fd_counter \in Int
      BY <1>h DEF TypeData
    <3>5. ~lost' => /\ exists' => IssuedBelow(stored)'
                    /\ IssuedBelow(fd_counter)'
      BY <3>2, <3>3, <3>4, <2>1 DEF IssuedBelow
    <3> QED
      BY <3>5, <2>1 DEF Ahead
  <2>4. HandlesNeverReused'
    <3>1. CASE issued' = issued
      BY <2>1, <3>1, <1>h DEF HandlesNeverReused
    <3>2. CASE issued' = Append(issued, handle)
      <4>1. SUFFICES ASSUME ~lost, NEW i \in DOMAIN issued',
                            NEW j \in DOMAIN issued', i # j
                     PROVE  issued'[i] # issued'[j]
        BY <2>1 DEF HandlesNeverReused
      <4>2. issued \in Seq(Int) /\ handle \in Int /\ IssuedBelow(handle)
        BY <4>1, <2>1, <1>h DEF Ahead, TypeData
      <4>3. \A k \in DOMAIN issued' :
              \/ k \in DOMAIN issued /\ issued'[k] = issued[k]
                 /\ issued'[k] < handle
              \/ k = Len(issued) + 1 /\ issued'[k] = handle
        BY <3>2, <4>2 DEF IssuedBelow
      <4> QED
        BY <4>1, <4>2, <4>3, <1>h DEF HandlesNeverReused
    <3> QED
      BY <2>1, <3>1, <3>2
  <2> QED
    BY <2>2, <2>3, <2>4
<1>4. CASE \/ StartFails \/ qmp_guest_file_open \/ SetFrozen \/ Kill
           \/ RemoveState \/ UNCHANGED vars
  <2>1. StartFails \/ UNCHANGED vars => Quiet
    BY DEF StartFails, Quiet, vars
  <2>5. SetFrozen => Quiet
    BY DEF SetFrozen, Quiet, ghosts
  <2>4. Kill => Quiet
    BY DEF Kill, Quiet
  <2>2. qmp_guest_file_open => Quiet
    BY DEF qmp_guest_file_open, Ready, Quiet
  <2>3. RemoveState => Quiet
    BY Zenon DEF RemoveState, Quiet, ghosts
  <2> QED
    BY <1>4, <2>1, <2>2, <2>3, <2>4, <2>5, <1>h, QuietStep
<1>5. ASSUME NEW h \in Named, HandleCommand(h)
      PROVE  CounterRange' /\ DrawnFirst' /\ Ahead' /\ HandlesNeverReused'
  <2>1. CASE UnknownHandle(h)
    BY <2>1, <1>h, QuietStep DEF UnknownHandle, Quiet, ghosts
  <2>2. CASE UseAfterClose(h)
    BY <2>2, <1>h, QuietStep DEF UseAfterClose, Ready, Quiet
  <2>3. CASE UnchangedButTable
    BY <2>3, <1>h, QuietStep DEF UnchangedButTable, Quiet, ghosts
  <2>4. CASE UnchangedByClose
    BY <2>4, <1>h, QuietStep DEF UnchangedByClose, Quiet
  <2> QED
    BY <1>5, <2>1, <2>2, <2>3, <2>4, Zenon
    DEF HandleCommand, qmp_guest_file_close, qmp_guest_file_read,
        qmp_guest_file_write, BadCount, Transfer, qmp_guest_file_seek,
        qmp_guest_file_flush
<1> QED
  BY <1>1, <1>2, <1>3, <1>4, <1>5 DEF Next

\* As long as no more handles are drawn than the gint of the key file counts,
\* ga_get_fd_handle never gives one out twice, over any number of kills,
\* restarts and failed commits, unless somebody deletes the state file.
THEOREM NoHandleReused ==
    DefaultCounter + MaxOpens <= IntMax => (Spec => []HandlesNeverReused)
<1> SUFFICES ASSUME DefaultCounter + MaxOpens <= IntMax
             PROVE  Spec => []HandlesNeverReused
  OBVIOUS
<1>1. Init => CounterRange /\ DrawnFirst /\ Ahead /\ HandlesNeverReused
  BY ConstantsAssumption
  DEF Init, CounterRange, DrawnFirst, Ahead, IssuedBelow, HandlesNeverReused
<1>2. /\ Types
      /\ CounterRange /\ DrawnFirst /\ Ahead /\ HandlesNeverReused
      /\ [Next]_vars
      => CounterRange' /\ DrawnFirst' /\ Ahead' /\ HandlesNeverReused'
  BY HandlesStep DEF HandlesInv, Types
<1> QED
  BY <1>1, <1>2, TypesCorrect, PTL DEF Spec

-----------------------------------------------------------------------------
(* The streams and the table. *)

\* Unless an fclose has answered EOF, every entry has its stream.
TableOpen ==
    ~failed => \A i \in DOMAIN filehandles : filehandles[i].open = TRUE

\* The places of a table are finitely many.
LEMMA OpenFinite ==
    ASSUME NEW t \in Seq(Entries)
    PROVE  /\ OpenEntries(t) \in SUBSET (1 .. Len(t))
           /\ IsFiniteSet(OpenEntries(t))
           /\ Cardinality(OpenEntries(t)) \in Nat
<1>1. Len(t) \in Nat /\ DOMAIN t = 1 .. Len(t)
  OBVIOUS
<1>2. OpenEntries(t) \in SUBSET (1 .. Len(t))
  BY <1>1, Zenon DEF OpenEntries
<1>3. IsFiniteSet(1 .. Len(t))
  BY <1>1, FS_Interval
<1>4. IsFiniteSet(OpenEntries(t))
  BY <1>2, <1>3, FS_Subset, Zenon
<1> QED
  BY <1>2, <1>4, FS_CardinalityType, Zenon

\* guest_file_handle_add puts one more open entry into the table.
LEMMA AddedEntry ==
    ASSUME NEW t \in Seq(Entries), NEW e \in Entries, e.open = TRUE
    PROVE  /\ Cardinality(OpenEntries(Append(t, e)))
                  = Cardinality(OpenEntries(t)) + 1
           /\ \A i \in DOMAIN Append(t, e) :
                 \/ i \in DOMAIN t /\ Append(t, e)[i] = t[i]
                 \/ Append(t, e)[i] = e
<1> DEFINE n == Len(t)
           u == Append(t, e)
<1>1. /\ n \in Nat /\ DOMAIN t = 1 .. n /\ DOMAIN u = 1 .. n + 1
      /\ u[n + 1] = e /\ \A i \in 1 .. n : u[i] = t[i]
  OBVIOUS
<1>2. \A i : i \in 1 .. n + 1 <=> i \in 1 .. n \/ i = n + 1
  BY <1>1
<1> HIDE DEF u
<1>3. OpenEntries(u) = OpenEntries(t) \cup {n + 1}
  <2>1. ASSUME NEW i
        PROVE  i \in OpenEntries(u) <=> i \in OpenEntries(t) \/ i = n + 1
    BY <1>1, <1>2, Zenon DEF OpenEntries
  <2> QED
    BY <2>1, Zenon
<1>4. n + 1 \notin OpenEntries(t)
  BY <1>1 DEF OpenEntries
<1>5. Cardinality(OpenEntries(u)) = Cardinality(OpenEntries(t)) + 1
  BY <1>3, <1>4, OpenFinite, FS_AddElement, Zenon
<1> QED
  BY <1>1, <1>2, <1>5, Zenon DEF u

\* An open entry that is taken off the table was one of those that are open.
LEMMA RemovedOpen ==
    ASSUME NEW t \in Seq(Entries), NEW f \in OpenEntries(t)
    PROVE  /\ Cardinality(OpenEntries(RemoveAt(t, f)))
                  = Cardinality(OpenEntries(t)) - 1
           /\ \A i \in DOMAIN RemoveAt(t, f) :
                 \E k \in DOMAIN t : RemoveAt(t, f)[i] = t[k]
<1> DEFINE n == Len(t)
           u == RemoveAt(t, f)
           S == OpenEntries(t) \ {f}
           T == OpenEntries(u)
           move == [i \in S |-> IF i < f THEN i ELSE i - 1]
<1>1. n \in Nat /\ DOMAIN t = 1 .. n /\ f \in 1 .. n
  BY OpenFinite
<1>2. /\ DOMAIN u = 1 .. n - 1
      /\ \A i \in 1 .. n - 1 : u[i] = IF i < f THEN t[i] ELSE t[i + 1]
  BY <1>1, RemovedPlace
<1> HIDE DEF u
<1>3. S \subseteq 1 .. n /\ f \notin S
  BY OpenFinite
<1>4. \A i \in S : t[i].open
  BY DEF OpenEntries
<1>5. \A i \in S : move[i] \in T
  <2> SUFFICES ASSUME NEW i \in S
               PROVE  (IF i < f THEN i ELSE i - 1) \in T
    OBVIOUS
  <2> DEFINE m == IF i < f THEN i ELSE i - 1
  <2>1. m \in 1 .. n - 1 /\ u[m] = t[i]
    BY <1>1, <1>2, <1>3
  <2> HIDE DEF m
  <2>2. m \in T
    BY <1>2, <1>4, <2>1, Zenon DEF OpenEntries
  <2> QED
    BY <2>2 DEF m
<1>6. \A i, j \in S : move[i] = move[j] => i = j
  BY <1>1, <1>3
<1>7. \A k \in T : \E i \in S : move[i] = k
  <2> TAKE k \in T
  <2>1. k \in 1 .. n - 1 /\ u[k].open
    BY <1>2 DEF OpenEntries
  <2> DEFINE i == IF k < f THEN k ELSE k + 1
  <2>2. i \in 1 .. n /\ i # f /\ u[k] = t[i]
        /\ (IF i < f THEN i ELSE i - 1) = k
    BY <1>1, <1>2, <2>1
  <2> HIDE DEF i
  <2>3. i \in S
    BY <1>1, <2>1, <2>2, Zenon DEF OpenEntries
  <2> QED
    BY <2>2, <2>3
<1>8. move \in [S -> T]
  BY <1>5
<1> HIDE DEF move, S, T
<1>9. move \in Bijection(S, T)
  BY <1>6, <1>7, <1>8
     DEF Bijection, Injection, Surjection, IsInjective
<1>10. IsFiniteSet(S) /\ Cardinality(S) = Cardinality(OpenEntries(t)) - 1
  BY OpenFinite, FS_RemoveElement, Zenon DEF S
<1>11. Cardinality(T) = Cardinality(S)
  BY <1>9, <1>10, FS_Bijection, Zenon DEF ExistsBijection
<1>12. \A i \in DOMAIN u : \E k \in DOMAIN t : u[i] = t[k]
  BY <1>1, RemovedOthers, Zenon DEF u
<1> QED
  BY <1>10, <1>11, <1>12 DEF T, u

\* Marking the entry of a command: its error indicator says nothing of its
\* stream, and closing it closes that one.
LEMMA MarkedOpen ==
    ASSUME TypeData, NEW h, guest_file_handle_find(h) # {},
           filehandles[First(h)].open, NEW b \in BOOLEAN
    PROVE  /\ First(h) \in OpenEntries(filehandles)
           /\ OpenEntries(WithError(h, b)) = OpenEntries(filehandles)
           /\ OpenEntries(WithOpen(h, FALSE))
                  = OpenEntries(filehandles) \ {First(h)}
           /\ DOMAIN WithError(h, b) = DOMAIN filehandles
           /\ \A i \in DOMAIN filehandles :
                 WithError(h, b)[i].open = filehandles[i].open
<1> DEFINE f == First(h)
           e == filehandles[f]
<1>1. f \in DOMAIN filehandles /\ e \in Entries
  BY FirstFound DEF TypeData
<1>2. f \in OpenEntries(filehandles)
  BY <1>1, Zenon DEF OpenEntries
<1>3. DOMAIN e = {"id", "open", "err"}
  BY <1>1, Zenon DEF Entries
<1>4. /\ [e EXCEPT !.err = b].open = e.open
      /\ [e EXCEPT !.open = FALSE].open = FALSE
  BY <1>3, Zenon
<1>5. /\ WithError(h, b) = [filehandles EXCEPT ![f] = [e EXCEPT !.err = b]]
      /\ WithOpen(h, FALSE) = [filehandles EXCEPT ![f] =
                                   [e EXCEPT !.open = FALSE]]
  BY Zenon DEF WithError, WithOpen
<1> HIDE DEF f, e
<1>6. /\ DOMAIN WithError(h, b) = DOMAIN filehandles
      /\ DOMAIN WithOpen(h, FALSE) = DOMAIN filehandles
      /\ \A i \in DOMAIN filehandles :
            /\ WithError(h, b)[i] = IF i = f THEN [e EXCEPT !.err = b]
                                    ELSE filehandles[i]
            /\ WithOpen(h, FALSE)[i] = IF i = f THEN [e EXCEPT !.open = FALSE]
                                       ELSE filehandles[i]
  BY <1>5, Zenon
<1>7. e = filehandles[f]
  BY DEF e
<1>8. \A i \in DOMAIN filehandles :
          WithError(h, b)[i].open = filehandles[i].open
  BY <1>4, <1>6, <1>7, Zenon
<1>9. OpenEntries(WithError(h, b)) = OpenEntries(filehandles)
  BY <1>6, <1>8, Zenon DEF OpenEntries
<1>10. OpenEntries(WithOpen(h, FALSE)) = OpenEntries(filehandles) \ {f}
  <2>1. ASSUME NEW i
        PROVE  i \in OpenEntries(WithOpen(h, FALSE))
                   <=> i \in OpenEntries(filehandles) \ {f}
    BY <1>4, <1>6, Zenon DEF OpenEntries
  <2> QED
    BY <2>1, Zenon
<1> QED
  BY <1>2, <1>6, <1>8, <1>9, <1>10, Zenon DEF f

\* What the properties of the streams rest on.
StreamsInv == StreamsAccounted /\ StreamsUsedWhileOpen /\ TableOpen

\* An open is under way: it has a stream that is not in the table yet.
Opening == IF pc \in {"handle", "add"} THEN 1 ELSE 0

\* The steps that leave the streams and the table alone.
SameStreams ==
    /\ UNCHANGED <<filehandles, streams, undefined, failed>>
    /\ pc' = "down" \/ pc' = pc

\* They keep the invariant.
LEMMA SameStreamsKeep == StreamsInv /\ SameStreams => StreamsInv'
<1> SUFFICES ASSUME StreamsInv, SameStreams PROVE StreamsInv'
  OBVIOUS
<1>1. StreamsAccounted'
  BY DEF StreamsInv, SameStreams, StreamsAccounted
<1>2. StreamsUsedWhileOpen' /\ TableOpen'
  BY Zenon DEF StreamsInv, SameStreams, StreamsUsedWhileOpen, TableOpen
<1> QED
  BY <1>1, <1>2 DEF StreamsInv

\* A command on a handle keeps the invariant.
LEMMA HandleStreams ==
    ASSUME TypeData, StreamsInv, NEW h, HandleCommand(h)
    PROVE  StreamsInv'
<1> DEFINE f == First(h)
           opn == OpenEntries(filehandles)
<1>1. CASE UnknownHandle(h)
  <2>1. SameStreams
    BY <1>1 DEF UnknownHandle, Ready, SameStreams, ghosts
  <2> QED
    BY <2>1, SameStreamsKeep
<1>2. CASE UseAfterClose(h)
  <2>1. /\ f \in DOMAIN filehandles /\ ~filehandles[f].open
        /\ UNCHANGED <<filehandles, streams, failed>>
        /\ pc = "loop" /\ (pc' = "down" \/ pc' = pc)
    BY <1>2, FirstFound DEF UseAfterClose, Ready
  <2>2. failed = TRUE \/ failed
    BY <2>1, Zenon DEF StreamsInv, TableOpen
  <2>3. StreamsUsedWhileOpen' /\ TableOpen'
    BY <2>1, <2>2, Zenon DEF StreamsInv, StreamsUsedWhileOpen, TableOpen
  <2>4. StreamsAccounted'
    BY <2>1 DEF StreamsInv, StreamsAccounted
  <2> QED
    BY <2>3, <2>4 DEF StreamsInv
<1>3. ASSUME Found(h), UNCHANGED streams, UnchangedButTable,
             \/ filehandles' = filehandles
             \/ \E b \in BOOLEAN : filehandles' = WithError(h, b)
      PROVE  StreamsInv'
  <2>1. /\ guest_file_handle_find(h) # {} /\ filehandles[f].open
        /\ pc' = pc /\ undefined' = undefined /\ failed' = failed
    BY <1>3 DEF Found, UnchangedButTable, ghosts
  <2>2. /\ OpenEntries(filehandles') = opn
        /\ DOMAIN filehandles' = DOMAIN filehandles
        /\ \A i \in DOMAIN filehandles :
              filehandles'[i].open = filehandles[i].open
    BY <1>3, <2>1, MarkedOpen, ZenonT(60)
  <2>3. StreamsAccounted'
    <3> HIDE DEF opn
    <3>1. StreamsAccounted <=>
            (pc # "down" => streams = Cardinality(opn) + Opening)
      BY DEF StreamsAccounted, Opening, opn
    <3>2. StreamsAccounted' <=>
            (pc' # "down" => streams' = Cardinality(opn) + Opening')
      BY <2>2 DEF StreamsAccounted, Opening
    <3> QED
      BY <1>3, <2>1, <3>1, <3>2 DEF StreamsInv, Opening
  <2>4. StreamsUsedWhileOpen'
    BY <2>1, Zenon DEF StreamsInv, StreamsUsedWhileOpen
  <2>5. TableOpen'
    BY <2>1, <2>2, Zenon DEF StreamsInv, TableOpen
  <2> QED
    BY <2>3, <2>4, <2>5 DEF StreamsInv
<1>4. CASE BadCount(h)
  BY <1>3, <1>4, Zenon DEF BadCount, tableVars
<1>5. CASE Transfer(h)
  BY <1>3, <1>5, Zenon DEF Transfer
<1>6. CASE qmp_guest_file_seek(h)
  BY <1>3, <1>6, Zenon DEF qmp_guest_file_seek
<1>7. CASE qmp_guest_file_flush(h)
  BY <1>3, <1>7, Zenon DEF qmp_guest_file_flush
<1>8. CASE qmp_guest_file_close(h)
  <2>1. /\ guest_file_handle_find(h) # {} /\ filehandles[f].open
        /\ pc = "loop" /\ pc' = pc /\ streams' = streams - 1
    BY <1>8 DEF qmp_guest_file_close, Found, Ready, UnchangedByClose
  <2>2. undefined' = undefined
    BY <1>8, Zenon DEF qmp_guest_file_close, UnchangedByClose
  <2>3. /\ f \in opn
        /\ OpenEntries(WithOpen(h, FALSE)) = opn \ {f}
    BY <2>1, MarkedOpen
  <2>4. filehandles \in Seq(Entries)
    BY DEF TypeData
  <2>5. Cardinality(opn) \in Nat /\ IsFiniteSet(opn)
    BY <2>4, OpenFinite
  <2>6. streams = Cardinality(opn)
    BY <2>1, <2>5 DEF StreamsInv, StreamsAccounted
  <2>7. CASE filehandles' = RemoveAt(filehandles, f) /\ UNCHANGED failed
    <3>1. /\ Cardinality(OpenEntries(filehandles')) = Cardinality(opn) - 1
          /\ \A i \in DOMAIN filehandles' :
                \E k \in DOMAIN filehandles : filehandles'[i] = filehandles[k]
      BY <2>3, <2>4, <2>7, RemovedOpen, Zenon
    <3>2. StreamsAccounted'
      BY <2>1, <2>5, <2>6, <3>1 DEF StreamsAccounted
    <3>3. TableOpen' /\ StreamsUsedWhileOpen'
      BY <2>2, <2>7, <3>1, Zenon
         DEF StreamsInv, TableOpen, StreamsUsedWhileOpen
    <3> QED
      BY <3>2, <3>3 DEF StreamsInv
  <2>8. CASE filehandles' = WithOpen(h, FALSE) /\ failed' = TRUE
    <3>1. Cardinality(OpenEntries(filehandles')) = Cardinality(opn) - 1
      BY <2>3, <2>5, <2>8, FS_RemoveElement, Zenon
    <3>2. StreamsAccounted'
      BY <2>1, <2>5, <2>6, <3>1 DEF StreamsAccounted
    <3>3. TableOpen' /\ StreamsUsedWhileOpen'
      BY <2>8, Zenon DEF TableOpen, StreamsUsedWhileOpen
    <3> QED
      BY <3>2, <3>3 DEF StreamsInv
  <2> QED
    BY <1>8, <2>7, <2>8 DEF qmp_guest_file_close
<1> QED
  BY <1>1, <1>2, <1>4, <1>5, <1>6, <1>7, <1>8, Zenon
     DEF HandleCommand, qmp_guest_file_read, qmp_guest_file_write

\* Every step keeps the invariant.
LEMMA StreamsStep ==
    ASSUME TypeData, StreamsInv, [Next]_vars
    PROVE  StreamsInv'
<1> DEFINE opn == OpenEntries(filehandles)
<1>1. filehandles \in Seq(Entries) /\ Cardinality(opn) \in Nat
      /\ streams \in Int
  BY OpenFinite DEF TypeData
<1>2. CASE Start
  <2>1. filehandles' = <<>> /\ streams' = 0 /\ pc' = "loop"
    BY <1>2 DEF Start
  <2>2. undefined' = undefined /\ failed' = failed
    BY <1>2, Zenon DEF Start
  <2>3. DOMAIN filehandles' = {}
    BY <2>1
  <2>4. OpenEntries(filehandles') = {}
    BY <2>3, Zenon DEF OpenEntries
  <2>5. StreamsAccounted'
    BY <2>1, <2>4, FS_EmptySet DEF StreamsAccounted
  <2>6. TableOpen' /\ StreamsUsedWhileOpen'
    BY <2>2, <2>3, Zenon DEF StreamsInv, TableOpen, StreamsUsedWhileOpen
  <2> QED
    BY <2>5, <2>6 DEF StreamsInv
<1>3. ASSUME UNCHANGED <<filehandles, undefined, failed>>,
             pc # "down",
             streams' - Opening' = streams - Opening, streams' \in Int
      PROVE  StreamsInv'
  <2>1. TableOpen' /\ StreamsUsedWhileOpen'
    BY <1>3, Zenon DEF StreamsInv, TableOpen, StreamsUsedWhileOpen
  <2>2. streams = Cardinality(opn) + Opening
    BY <1>3 DEF StreamsInv, StreamsAccounted, Opening
  <2>3. streams' = Cardinality(opn) + Opening'
    BY <1>1, <1>3, <2>2 DEF Opening
  <2>4. OpenEntries(filehandles') = opn
    BY <1>3
  <2>5. StreamsAccounted'
    BY <2>3, <2>4 DEF StreamsAccounted, Opening
  <2> QED
    BY <2>1, <2>5 DEF StreamsInv
<1>4. CASE qmp_guest_file_open
  BY <1>1, <1>3, <1>4 DEF qmp_guest_file_open, Ready, Opening
<1>5. CASE ga_get_fd_handle
  BY <1>1, <1>3, <1>5 DEF ga_get_fd_handle, Opening
<1>6. CASE guest_file_handle_add
  <2>1. CASE handle < 0
    BY <1>1, <1>3, <1>6, <2>1 DEF guest_file_handle_add, Opening
  <2>2. CASE ~(handle < 0)
    <3> DEFINE e == NewEntry(handle)
    <3>1. e \in Entries /\ e.open = TRUE
      BY Zenon DEF NewEntry, Entries, TypeData
    <3>2. /\ filehandles' = Append(filehandles, e) /\ streams' = streams
          /\ pc = "add" /\ pc' = "loop"
      BY <1>6, <2>2 DEF guest_file_handle_add
    <3>3. undefined' = undefined /\ failed' = failed
      BY <1>6, Zenon DEF guest_file_handle_add
    <3>4. /\ Cardinality(OpenEntries(filehandles')) = Cardinality(opn) + 1
          /\ \A i \in DOMAIN filehandles' :
                \/ i \in DOMAIN filehandles /\ filehandles'[i] = filehandles[i]
                \/ filehandles'[i] = e
      BY <1>1, <3>1, <3>2, AddedEntry, Zenon
    <3>5. streams = Cardinality(opn) + 1
      BY <3>2 DEF StreamsInv, StreamsAccounted
    <3>6. StreamsAccounted'
      BY <1>1, <3>2, <3>4, <3>5 DEF StreamsAccounted
    <3>7. TableOpen' /\ StreamsUsedWhileOpen'
      <4> HIDE DEF e
      <4> QED
        BY <3>1, <3>3, <3>4, Zenon
           DEF StreamsInv, TableOpen, StreamsUsedWhileOpen
    <3> QED
      BY <3>6, <3>7 DEF StreamsInv
  <2> QED
    BY <2>1, <2>2
<1>7. CASE StartFails \/ Kill \/ SetFrozen \/ RemoveState \/ UNCHANGED vars
  <2>1. Kill => SameStreams
    BY DEF Kill, SameStreams
  <2>2. StartFails => SameStreams
    BY DEF StartFails, SameStreams
  <2>3. SetFrozen => SameStreams
    BY DEF SetFrozen, SameStreams, ghosts
  <2>4. RemoveState => SameStreams
    BY Zenon DEF RemoveState, SameStreams, ghosts
  <2>5. UNCHANGED vars => SameStreams
    BY Zenon DEF vars, SameStreams
  <2> QED
    BY <1>7, <2>1, <2>2, <2>3, <2>4, <2>5, SameStreamsKeep
<1>8. ASSUME NEW h \in Named, HandleCommand(h) PROVE StreamsInv'
  BY <1>8, HandleStreams
<1> QED
  BY <1>2, <1>4, <1>5, <1>6, <1>7, <1>8 DEF Next

\* The invariant of the streams holds always.
LEMMA StreamsAlways == Spec => []StreamsInv
<1>1. Init => StreamsInv
  <2> SUFFICES ASSUME Init PROVE StreamsInv
    OBVIOUS
  <2>1. pc = "down" /\ DOMAIN filehandles = {}
    BY DEF Init
  <2>2. undefined = FALSE
    BY Zenon DEF Init
  <2>3. StreamsAccounted
    BY <2>1 DEF StreamsAccounted
  <2> QED
    BY <2>1, <2>2, <2>3, Zenon DEF StreamsInv, StreamsUsedWhileOpen, TableOpen
<1>2. Types /\ StreamsInv /\ [Next]_vars => StreamsInv'
  BY StreamsStep DEF Types
<1> QED
  BY <1>1, <1>2, TypesCorrect, PTL DEF Spec

\* As many streams are closed as were opened, or fewer.
NoneTwice == streams >= 0

\* A step that closes a stream has one to close.
LEMMA CloseStep ==
    ASSUME TypeData, StreamsInv, NoneTwice, [Next]_vars
    PROVE  NoneTwice'
<1> DEFINE opn == OpenEntries(filehandles)
<1>1. filehandles \in Seq(Entries) /\ Cardinality(opn) \in Nat
      /\ streams \in Int
  BY OpenFinite DEF TypeData
<1>2. CASE streams' \in {streams, streams + 1, 0}
  BY <1>1, <1>2 DEF NoneTwice
<1>3. ASSUME pc \in {"handle", "add"}, streams' = streams - 1
      PROVE  NoneTwice'
  <2>1. streams = Cardinality(opn) + 1
    BY <1>3 DEF StreamsInv, StreamsAccounted
  <2> QED
    BY <1>1, <1>3, <2>1 DEF NoneTwice
<1>4. ASSUME NEW h \in Named, qmp_guest_file_close(h) PROVE NoneTwice'
  <2>1. /\ guest_file_handle_find(h) # {} /\ filehandles[First(h)].open
        /\ pc = "loop" /\ streams' = streams - 1
    BY <1>4 DEF qmp_guest_file_close, Found, Ready
  <2>2. First(h) \in opn
    BY <2>1, MarkedOpen
  <2>3. IsFiniteSet(opn)
    BY <1>1, OpenFinite
  <2>4. opn # {}
    BY <2>2
  <2>5. Cardinality(opn) # 0
    BY <2>3, <2>4, FS_EmptySet, Zenon
  <2>6. streams = Cardinality(opn)
    BY <1>1, <2>1 DEF StreamsInv, StreamsAccounted
  <2> QED
    BY <1>1, <2>1, <2>5, <2>6 DEF NoneTwice
<1>5. CASE ga_get_fd_handle
  BY <1>1, <1>2, <1>3, <1>5 DEF ga_get_fd_handle
<1>6. CASE guest_file_handle_add
  BY <1>1, <1>2, <1>3, <1>6 DEF guest_file_handle_add
<1>7. CASE Start \/ StartFails \/ qmp_guest_file_open \/ SetFrozen \/ Kill
           \/ RemoveState \/ UNCHANGED vars
  <2>1. streams' = streams \/ streams' = streams + 1 \/ streams' = 0
    BY <1>7, Zenon DEF Start, StartFails, qmp_guest_file_open, SetFrozen,
       Kill, RemoveState, vars
  <2> QED
    BY <1>1, <1>2, <2>1
<1>8. ASSUME NEW h \in Named, HandleCommand(h), ~qmp_guest_file_close(h)
      PROVE  NoneTwice'
  <2>1. streams' = streams
    BY <1>8, Zenon
       DEF HandleCommand, UnknownHandle, UseAfterClose, qmp_guest_file_read,
           qmp_guest_file_write, BadCount, Transfer, qmp_guest_file_seek,
           qmp_guest_file_flush, tableVars
  <2> QED
    BY <1>1, <1>2, <2>1
<1> QED
  BY <1>4, <1>5, <1>6, <1>7, <1>8 DEF Next

\* The type invariant: no error path of qmp_guest_file_open and no
\* qmp_guest_file_close closes a stream that is not open, and what
\* ga_get_fd_handle commits fits the gint of the key file.
THEOREM TypeCorrect == Spec => []TypeOK
<1>1. Init => NoneTwice
  BY DEF Init, NoneTwice
<1>2. Types /\ StreamsInv /\ NoneTwice /\ [Next]_vars => NoneTwice'
  BY CloseStep DEF Types
<1>3. Types /\ NoneTwice => TypeOK
  BY DEF Types, NoneTwice, TypeOK
<1> QED
  BY <1>1, <1>2, <1>3, TypesCorrect, StreamsAlways, PTL DEF Spec

\* The error paths of qmp_guest_file_open and qmp_guest_file_close neither leak
\* a stream nor close one twice, for any number of files open at once.
THEOREM StreamsNeverLeak == Spec => []StreamsAccounted
<1>1. StreamsInv => StreamsAccounted
  BY DEF StreamsInv
<1> QED
  BY <1>1, StreamsAlways, PTL

\* No command on a handle touches a stream that qmp_guest_file_close has freed,
\* unless the fclose there has answered EOF.
THEOREM NoUseAfterClose == Spec => []StreamsUsedWhileOpen
<1>1. StreamsInv => StreamsUsedWhileOpen
  BY DEF StreamsInv
<1> QED
  BY <1>1, StreamsAlways, PTL
=============================================================================
