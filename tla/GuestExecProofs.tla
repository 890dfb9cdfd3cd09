-------------------------- MODULE GuestExecProofs --------------------------
(***************************************************************************)
(* Proofs about GuestExec for any number of jobs and outputs, buffers and  *)
(* pipes of every size: what a child has written is captured or known to   *)
(* be truncated, a job is not answered as exited before all of it is, and  *)
(* no callback of a job that was freed can be called for its child or for  *)
(* an output of it.                                                        *)
(***************************************************************************)
EXTENDS GuestExec, ListLemmas

InData == [size : Nat, length : Nat, closed : BOOLEAN]
IoData == [size : Nat, length : Nat, truncated : BOOLEAN, closed : BOOLEAN]

TypeKernel ==
    /\ child \in [Jobs -> {"none", "running", "zombie", "reaped"}]
    /\ pid \in [Jobs -> Pids]
    /\ inpipe \in [Jobs -> 0 .. PipeSize]
    /\ outpipe \in [Jobs -> [Streams -> 0 .. PipeSize]]
    /\ owed \in [Jobs -> [Streams -> Nat]]
    /\ written \in [Jobs -> [Streams -> Nat]]

TypeFlags ==
    /\ heir \in [Jobs -> BOOLEAN] /\ finished \in [Jobs -> BOOLEAN]
    /\ has_output \in [Jobs -> BOOLEAN]

\* Only jobs that have been started are listed.
TypeList ==
    /\ jobs \in 0 .. MaxJobs /\ processes \in Seq(Jobs)
    /\ \A i \in DOMAIN processes : processes[i] <= jobs

TypeIo ==
    /\ in \in [Jobs -> InData] /\ io \in [Jobs -> [Streams -> IoData]]

TypeReply ==
    reply \in [job : 0 .. MaxJobs, exited : BOOLEAN,
               marked : SUBSET Streams, truncated : SUBSET Streams]

\* A buffer d, with n bytes in its pipe, of an output that was sent w bytes:
\* it never grows beyond its limit, and knows whether bytes are missing.
Exact(d, n, w) ==
    /\ d.length <= d.size /\ d.size <= MAX_OUTPUT /\ d.size % IO_SIZE = 0
    /\ d.length + n <= w
    /\ d.truncated <=> d.length + n < w

Buffers ==
    \A j \in Jobs : \A s \in Streams :
        Exact(io[j][s], outpipe[j][s], written[j][s])

\* What is said to be finished is, what has not been started is not there; an
\* output that is not captured is closed.
Consistent ==
    \A j \in Jobs :
        /\ finished[j] => child[j] = "reaped"
        /\ j > jobs => child[j] = "none"
        /\ ~has_output[j] => \A s \in Streams : io[j][s].closed

\* A captured output that is closed has nobody left to write to it.
Drained ==
    \A j \in Jobs : \A s \in Streams :
        has_output[j] /\ io[j][s].closed =>
            outpipe[j][s] = 0 /\ ~Holders(j)

\* The job answered as exited has been started, and its outputs are closed.
Replied ==
    reply.exited =>
        /\ reply.job \in Jobs /\ reply.job <= jobs
        /\ has_output[reply.job] =>
              \A s \in Streams : io[reply.job][s].closed

\* The inductive invariant.
ExecInv ==
    /\ TypeKernel /\ TypeFlags /\ TypeList /\ TypeIo /\ TypeReply
    /\ Buffers /\ Consistent /\ Drained /\ Replied /\ WatchesLive
-----------------------------------------------------------------------------
(* The buffers. *)

\* A function of two arguments that is changed in one place.
LEMMA Put ==
    ASSUME NEW A, NEW B, NEW C, NEW f \in [A -> [B -> C]],
           NEW a \in A, NEW b \in B, NEW c \in C
    PROVE  /\ [f EXCEPT ![a][b] = c] \in [A -> [B -> C]]
           /\ \A x \in A : \A y \in B : [f EXCEPT ![a][b] = c][x][y] =
                 IF x = a /\ y = b THEN c ELSE f[x][y]
OBVIOUS

\* A size that is a multiple of GUEST_EXEC_IO_SIZE and below the limit may grow
\* once more.
LEMMA Multiples ==
    ASSUME NEW a \in Nat, NEW b \in Nat, NEW c \in Nat \ {0},
           a % c = 0, b % c = 0, a < b
    PROVE  a + c <= b /\ (a + c) % c = 0
<1> DEFINE p == a \div c
           q == b \div c
<1>1. p \in Nat /\ q \in Nat /\ a = c * p /\ b = c * q
  OBVIOUS
<1> HIDE DEF p, q
<1>2. p < q
  BY <1>1
<1>3. p + 1 <= q
  BY <1>1, <1>2
<1>4. c * (p + 1) <= c * q
  BY <1>1, <1>3
<1>5. c * (p + 1) = a + c
  BY <1>1
<1>6. (c * (p + 1)) % c = 0
  BY <1>1
<1> QED
  BY <1>1, <1>4, <1>5, <1>6

\* The fields of a buffer after its changes.
LEMMA Fields ==
    ASSUME NEW d \in IoData, NEW n \in Nat
    PROVE  /\ [d EXCEPT !.size = n] \in IoData
           /\ [d EXCEPT !.size = n].size = n
           /\ [d EXCEPT !.size = n].length = d.length
           /\ [d EXCEPT !.size = n].truncated = d.truncated
           /\ [d EXCEPT !.size = n].closed = d.closed
           /\ [d EXCEPT !.length = n] \in IoData
           /\ [d EXCEPT !.length = n].size = d.size
           /\ [d EXCEPT !.length = n].length = n
           /\ [d EXCEPT !.length = n].truncated = d.truncated
           /\ [d EXCEPT !.length = n].closed = d.closed
BY DEF IoData

\* A buffer that is marked truncated, or closed.
LEMMA Marks ==
    ASSUME NEW d \in IoData, NEW b \in BOOLEAN
    PROVE  /\ [d EXCEPT !.truncated = b] \in IoData
           /\ [d EXCEPT !.truncated = b].size = d.size
           /\ [d EXCEPT !.truncated = b].length = d.length
           /\ [d EXCEPT !.truncated = b].truncated = b
           /\ [d EXCEPT !.truncated = b].closed = d.closed
           /\ [d EXCEPT !.closed = b] \in IoData
           /\ [d EXCEPT !.closed = b].size = d.size
           /\ [d EXCEPT !.closed = b].length = d.length
           /\ [d EXCEPT !.closed = b].truncated = d.truncated
           /\ [d EXCEPT !.closed = b].closed = b
BY Zenon DEF IoData

\* Bytes that are read into a buffer move from the pipe to it.
LEMMA ReadIntoKeeps ==
    ASSUME NEW d \in IoData, NEW n \in 1 .. PipeSize, NEW w \in Nat,
           Exact(d, n, w)
    PROVE  LET r == ReadInto(d, n) IN
           /\ r.to \in IoData /\ r.to.closed = d.closed
           /\ r.left \in 0 .. PipeSize /\ Exact(r.to, r.left, w)
<1> DEFINE m == Smaller(n, d.size - d.length)
           k == d.length + m
           t == [d EXCEPT !.length = k]
           r == ReadInto(d, n)
<1>1. d.size \in Nat /\ d.length \in Nat /\ d.length <= d.size
  BY DEF IoData, Exact
<1>2. PipeSize \in Nat
  BY ConstantsAssumption
<1>3. m \in Nat /\ m <= n /\ k \in Nat /\ k <= d.size
  BY <1>1, <1>2 DEF Smaller
<1>4. r.left = n - m /\ r.to = t
  BY Zenon DEF ReadInto, Fill
<1>5. /\ t \in IoData /\ t.size = d.size /\ t.length = k
      /\ t.truncated = d.truncated /\ t.closed = d.closed
  BY <1>3, Fields
<1> HIDE DEF t, r
<1>6. /\ t.length + (n - m) = d.length + n
      /\ n - m \in 0 .. PipeSize
      /\ t.length <= t.size /\ t.size <= MAX_OUTPUT /\ t.size % IO_SIZE = 0
  BY <1>1, <1>2, <1>3, <1>5 DEF Exact
<1>7. Exact(t, n - m, w)
  <2>1. /\ d.length + n <= w
        /\ d.truncated <=> d.length + n < w
    BY DEF Exact
  <2> HIDE DEF m, k
  <2> QED
    BY <1>5, <1>6, <2>1, Zenon DEF Exact
<1>8. /\ r.to \in IoData /\ r.to.closed = d.closed
      /\ r.left \in 0 .. PipeSize /\ Exact(r.to, r.left, w)
  <2> HIDE DEF m, k
  <2> QED
    BY <1>4, <1>5, <1>6, <1>7, Zenon
<1> QED
  BY <1>8 DEF r

\* One call of guest_exec_output_watch keeps the account of an output.
LEMMA ReadKeeps ==
    ASSUME NEW d \in IoData, NEW n \in 1 .. PipeSize, NEW w \in Nat,
           Exact(d, n, w), NEW r \in OutputRead(d, n)
    PROVE  /\ r.to \in IoData /\ r.to.closed = d.closed
           /\ r.left \in 0 .. PipeSize /\ Exact(r.to, r.left, w)
<1>1. /\ d.size \in Nat /\ d.length \in Nat
      /\ PipeSize \in Nat /\ IO_SIZE \in Nat \ {0} /\ MAX_OUTPUT \in Nat
      /\ MAX_OUTPUT % IO_SIZE = 0
  BY ConstantsAssumption DEF IoData
<1>2. CASE r = ReadInto(d, n)
  BY <1>2, ReadIntoKeeps
<1>3. CASE MayGrow(d) /\ r = ReadInto(Grow(d), n)
  <2> DEFINE g == [d EXCEPT !.size = d.size + IO_SIZE]
  <2>1. Grow(d) = g
    BY Zenon DEF Grow
  <2>2. d.size + IO_SIZE \in Nat
    BY <1>1
  <2>3. /\ g \in IoData /\ g.size = d.size + IO_SIZE /\ g.length = d.length
        /\ g.truncated = d.truncated /\ g.closed = d.closed
    BY <2>2, Fields
  <2>4. /\ d.length <= d.size /\ d.size <= MAX_OUTPUT
        /\ d.size % IO_SIZE = 0 /\ d.length + n <= w
        /\ d.truncated <=> d.length + n < w
    BY DEF Exact
  <2>5. /\ d.size + IO_SIZE <= MAX_OUTPUT
        /\ (d.size + IO_SIZE) % IO_SIZE = 0
    BY <1>1, <1>3, <2>4, Multiples DEF MayGrow
  <2> HIDE DEF g
  <2>6. g.length <= g.size /\ g.size <= MAX_OUTPUT /\ g.size % IO_SIZE = 0
    BY <1>1, <2>3, <2>4, <2>5
  <2>7. Exact(g, n, w)
    BY <2>3, <2>4, <2>6, Zenon DEF Exact
  <2>8. r = ReadInto(g, n)
    BY <1>3, <2>1
  <2> QED
    BY <2>3, <2>7, <2>8, ReadIntoKeeps
<1>4. CASE r = Drop(d, n)
  <2> DEFINE m == Smaller(n, IO_SIZE)
             t == [d EXCEPT !.truncated = TRUE]
  <2>1. r.left = n - m /\ r.to = t
    BY <1>4, Zenon DEF Drop
  <2>2. /\ t \in IoData /\ t.size = d.size /\ t.length = d.length
        /\ t.truncated = TRUE /\ t.closed = d.closed
    BY Marks
  <2> HIDE DEF t
  <2>3. m \in Nat /\ m > 0 /\ m <= n
    BY <1>1 DEF Smaller
  <2>4. /\ n - m \in 0 .. PipeSize
        /\ t.length + (n - m) <= w /\ t.length + (n - m) < w
        /\ t.length <= t.size /\ t.size <= MAX_OUTPUT /\ t.size % IO_SIZE = 0
    BY <1>1, <2>2, <2>3 DEF Exact
  <2> HIDE DEF m
  <2>5. Exact(t, n - m, w)
    BY <2>2, <2>4, Zenon DEF Exact
  <2> QED
    BY <2>1, <2>2, <2>4, <2>5, Zenon
<1> QED
  BY <1>2, <1>3, <1>4, Zenon DEF OutputRead
-----------------------------------------------------------------------------
(* The steps. *)

\* What the rest of the invariant reads of the lists and the flags.
sameJobs == <<child, heir, pid, processes, finished, has_output, reply, jobs>>

\* Such a step keeps all types but those of the pipes and the data.
LEMMA SameJobsTypes ==
    ASSUME ExecInv, UNCHANGED sameJobs
    PROVE  /\ TypeFlags' /\ TypeList' /\ TypeReply'
           /\ child' = child /\ pid' = pid
           /\ \A j \in Jobs : Holders(j)' <=> Holders(j)
           /\ \A j \in Jobs : Listed(j)' <=> Listed(j)
<1>1. /\ child' = child /\ pid' = pid /\ processes' = processes
      /\ jobs' = jobs /\ reply' = reply
  BY DEF sameJobs
<1>2. heir' = heir /\ finished' = finished /\ has_output' = has_output
  BY Zenon DEF sameJobs
<1>3. TypeFlags'
  BY <1>2, Zenon DEF ExecInv, TypeFlags
<1>4. TypeList' /\ TypeReply'
  BY <1>1, Zenon DEF ExecInv, TypeList, TypeReply
<1>5. \A j \in Jobs : (Holders(j)' <=> Holders(j))
                      /\ (Listed(j)' <=> Listed(j))
  BY <1>1, <1>2, Zenon DEF Holders, Listed
<1> QED
  BY <1>1, <1>3, <1>4, <1>5

\* It keeps the rest too, if an output that it closes is empty and has nobody
\* to write to it, and if it opens none and fills none that is closed.
LEMMA SameJobsKeeps ==
    ASSUME ExecInv, UNCHANGED sameJobs, TypeKernel', TypeIo', Buffers',
           \A j \in Jobs : \A s \in Streams :
              /\ io[j][s].closed => io'[j][s].closed
                                    /\ outpipe'[j][s] = outpipe[j][s]
              /\ ~io[j][s].closed /\ io'[j][s].closed =>
                    outpipe'[j][s] = 0 /\ ~Holders(j)
    PROVE  ExecInv'
<1>1. /\ child' = child /\ processes' = processes /\ jobs' = jobs
      /\ reply' = reply /\ heir' = heir /\ finished' = finished
      /\ has_output' = has_output
  BY Zenon DEF sameJobs
<1>2. \A j \in Jobs : (Holders(j)' <=> Holders(j))
                      /\ (Listed(j)' <=> Listed(j))
  BY SameJobsTypes
<1>3. Consistent'
  BY <1>1, Zenon DEF ExecInv, Consistent
<1>4. Drained'
  <2> SUFFICES ASSUME NEW j \in Jobs, NEW s \in Streams,
                      has_output[j], io'[j][s].closed
               PROVE  outpipe'[j][s] = 0 /\ ~Holders(j)
    BY <1>1, <1>2, Zenon DEF Drained
  <2>1. CASE io[j][s].closed
    BY <2>1, Zenon DEF ExecInv, Drained
  <2>2. CASE ~io[j][s].closed
    BY <2>2, Zenon
  <2> QED
    BY <2>1, <2>2
<1>5. Replied'
  BY <1>1, Zenon DEF ExecInv, Replied
<1>6. WatchesLive'
  BY <1>1, <1>2, Zenon DEF ExecInv, WatchesLive, Started
<1> QED
  BY <1>3, <1>4, <1>5, <1>6, SameJobsTypes DEF ExecInv

\* guest_exec_output_watch with something to read.
LEMMA ReadableKeeps ==
    ASSUME ExecInv, NEW j \in Jobs, NEW s \in Streams, OutputReadable(j, s)
    PROVE  ExecInv'
<1>1. UNCHANGED sameJobs /\ ~io[j][s].closed /\ outpipe[j][s] > 0
  BY Zenon DEF OutputReadable, sameJobs
<1>2. /\ inpipe' = inpipe /\ owed' = owed /\ written' = written /\ in' = in
      /\ child' = child /\ pid' = pid
  BY Zenon DEF OutputReadable
<1>3. PICK r \in OutputRead(io[j][s], outpipe[j][s]) :
          /\ outpipe' = [outpipe EXCEPT ![j][s] = r.left]
          /\ io' = [io EXCEPT ![j][s] = r.to]
  BY Zenon DEF OutputReadable
<1>4. /\ outpipe \in [Jobs -> [Streams -> 0 .. PipeSize]]
      /\ written \in [Jobs -> [Streams -> Nat]]
      /\ io \in [Jobs -> [Streams -> IoData]] /\ in \in [Jobs -> InData]
  BY Zenon DEF ExecInv, TypeKernel, TypeIo
<1>5. /\ io[j][s] \in IoData /\ written[j][s] \in Nat
      /\ outpipe[j][s] \in 0 .. PipeSize
  BY <1>4, Zenon
<1>6. outpipe[j][s] \in 1 .. PipeSize
  BY <1>1, <1>5, ConstantsAssumption
<1>7. Exact(io[j][s], outpipe[j][s], written[j][s])
  BY Zenon DEF ExecInv, Buffers
<1>8. /\ r.to \in IoData /\ r.to.closed = io[j][s].closed
      /\ r.left \in 0 .. PipeSize /\ Exact(r.to, r.left, written[j][s])
  BY <1>5, <1>6, <1>7, ReadKeeps, ZenonT(60)
<1>9. /\ outpipe' \in [Jobs -> [Streams -> 0 .. PipeSize]]
      /\ \A k \in Jobs : \A t \in Streams : outpipe'[k][t] =
            IF k = j /\ t = s THEN r.left ELSE outpipe[k][t]
  <2> DEFINE v == r.left
  <2>1. v \in 0 .. PipeSize /\ outpipe' = [outpipe EXCEPT ![j][s] = v]
    BY <1>3, <1>8, Zenon
  <2> HIDE DEF v
  <2>2. /\ outpipe' \in [Jobs -> [Streams -> 0 .. PipeSize]]
        /\ \A k \in Jobs : \A t \in Streams : outpipe'[k][t] =
              IF k = j /\ t = s THEN v ELSE outpipe[k][t]
    BY <1>4, <2>1
  <2> QED
    BY <2>2, Zenon DEF v
<1>10. /\ io' \in [Jobs -> [Streams -> IoData]]
       /\ \A k \in Jobs : \A t \in Streams : io'[k][t] =
             IF k = j /\ t = s THEN r.to ELSE io[k][t]
  <2> DEFINE v == r.to
  <2>1. v \in IoData /\ io' = [io EXCEPT ![j][s] = v]
    BY <1>3, <1>8, Zenon
  <2> HIDE DEF v
  <2>2. /\ io' \in [Jobs -> [Streams -> IoData]]
        /\ \A k \in Jobs : \A t \in Streams : io'[k][t] =
              IF k = j /\ t = s THEN v ELSE io[k][t]
    BY <1>4, <2>1
  <2> QED
    BY <2>2, Zenon DEF v
<1>11. TypeKernel'
  BY <1>2, <1>9, Zenon DEF ExecInv, TypeKernel
<1>12. TypeIo'
  BY <1>2, <1>4, <1>10, Zenon DEF TypeIo
<1>13. Buffers'
  <2> SUFFICES ASSUME NEW k \in Jobs, NEW t \in Streams
               PROVE  Exact(io'[k][t], outpipe'[k][t], written[k][t])
    BY <1>2, Zenon DEF Buffers
  <2>1. CASE k = j /\ t = s
    BY <1>8, <1>9, <1>10, <2>1, Zenon
  <2>2. CASE ~(k = j /\ t = s)
    <3>1. io'[k][t] = io[k][t] /\ outpipe'[k][t] = outpipe[k][t]
      BY <1>9, <1>10, <2>2, Zenon
    <3>2. Exact(io[k][t], outpipe[k][t], written[k][t])
      BY Zenon DEF ExecInv, Buffers
    <3> QED
      BY <3>1, <3>2, Zenon
  <2> QED
    BY <2>1, <2>2, Zenon
<1>14. \A k \in Jobs : \A t \in Streams :
           /\ io[k][t].closed => io'[k][t].closed
                                 /\ outpipe'[k][t] = outpipe[k][t]
           /\ ~io[k][t].closed /\ io'[k][t].closed =>
                 outpipe'[k][t] = 0 /\ ~Holders(k)
  BY <1>1, <1>8, <1>9, <1>10, Zenon
<1> QED
  BY <1>1, <1>11, <1>12, <1>13, <1>14, SameJobsKeeps

\* guest_exec_output_watch at the end of an output.
LEMMA HangupKeeps ==
    ASSUME ExecInv, NEW j \in Jobs, NEW s \in Streams, OutputHangup(j, s)
    PROVE  ExecInv'
<1> DEFINE d == [io[j][s] EXCEPT !.closed = TRUE]
<1>1. /\ UNCHANGED sameJobs /\ ~io[j][s].closed /\ outpipe[j][s] = 0
      /\ ~Holders(j) /\ UNCHANGED kernelVars /\ in' = in
  BY Zenon DEF OutputHangup, sameJobs, kernelVars
<1>2. io' = [io EXCEPT ![j][s] = d]
  BY Zenon DEF OutputHangup
<1>3. io \in [Jobs -> [Streams -> IoData]] /\ in \in [Jobs -> InData]
  BY Zenon DEF ExecInv, TypeIo
<1>4. /\ d \in IoData /\ d.size = io[j][s].size /\ d.closed = TRUE
      /\ d.length = io[j][s].length /\ d.truncated = io[j][s].truncated
  <2>1. io[j][s] \in IoData
    BY <1>3, Zenon
  <2> QED
    BY <2>1, Marks
<1> HIDE DEF d
<1>5. /\ io' \in [Jobs -> [Streams -> IoData]]
      /\ \A k \in Jobs : \A t \in Streams : io'[k][t] =
            IF k = j /\ t = s THEN d ELSE io[k][t]
  BY <1>2, <1>3, <1>4, Put
<1>6. outpipe' = outpipe /\ written' = written
  BY <1>1, Zenon DEF kernelVars
<1>7. TypeKernel'
  BY <1>1, Zenon DEF kernelVars, ExecInv, TypeKernel
<1>8. TypeIo'
  BY <1>1, <1>3, <1>5, Zenon DEF TypeIo
<1>9. Buffers'
  <2>1. Exact(io[j][s], outpipe[j][s], written[j][s])
    BY Zenon DEF ExecInv, Buffers
  <2>2. Exact(d, outpipe[j][s], written[j][s])
    BY <1>4, <2>1, Zenon DEF Exact
  <2> QED
    BY <1>5, <1>6, <2>2, Zenon DEF ExecInv, Buffers
<1>10. \A k \in Jobs : \A t \in Streams :
           /\ io[k][t].closed => io'[k][t].closed
                                 /\ outpipe'[k][t] = outpipe[k][t]
           /\ ~io[k][t].closed /\ io'[k][t].closed =>
                 outpipe'[k][t] = 0 /\ ~Holders(k)
  BY <1>1, <1>4, <1>5, <1>6, Zenon
<1> QED
  BY <1>1, <1>7, <1>8, <1>9, <1>10, SameJobsKeeps

\* The data of an input after its changes.
LEMMA InFields ==
    ASSUME NEW d \in InData, NEW n \in Nat, NEW b \in BOOLEAN
    PROVE  /\ [d EXCEPT !.length = n] \in InData
           /\ [d EXCEPT !.closed = b] \in InData
           /\ [d EXCEPT !.size = n, !.closed = b] \in InData
BY Zenon DEF InData

\* A step that leaves the outputs alone.
LEMMA SameOutputsKeeps ==
    ASSUME ExecInv, UNCHANGED sameJobs, TypeKernel', in' \in [Jobs -> InData],
           UNCHANGED <<outpipe, written, io>>
    PROVE  ExecInv'
<1>1. outpipe' = outpipe /\ written' = written /\ io' = io
  BY Zenon
<1>2. TypeIo'
  BY <1>1, Zenon DEF ExecInv, TypeIo
<1>3. Buffers'
  BY <1>1, Zenon DEF ExecInv, Buffers
<1> QED
  BY <1>1, <1>2, <1>3, SameJobsKeeps

\* guest_exec_input_watch.
LEMMA InputKeeps ==
    ASSUME ExecInv, NEW j \in Jobs, guest_exec_input_watch(j)
    PROVE  ExecInv'
<1>1. UNCHANGED sameJobs /\ UNCHANGED <<outpipe, written, io>>
  BY Zenon DEF guest_exec_input_watch, sameJobs
<1>2. UNCHANGED <<child, pid, outpipe, owed, written>>
  BY Zenon DEF guest_exec_input_watch
<1>3. in \in [Jobs -> InData] /\ inpipe \in [Jobs -> 0 .. PipeSize]
  BY Zenon DEF ExecInv, TypeIo, TypeKernel
<1>4. in[j] \in InData /\ inpipe[j] \in 0 .. PipeSize /\ PipeSize \in Nat
  BY <1>3, ConstantsAssumption
<1>5. in[j].length \in Nat /\ in[j].size \in Nat
  BY <1>4, Zenon DEF InData
<1>6. ASSUME NEW n \in 1 .. in[j].size - in[j].length,
             inpipe[j] + n <= PipeSize,
             in' = [in EXCEPT ![j].length = @ + n],
             inpipe' = [inpipe EXCEPT ![j] = @ + n]
      PROVE  in' \in [Jobs -> InData] /\ inpipe' \in [Jobs -> 0 .. PipeSize]
  <2> DEFINE d == [in[j] EXCEPT !.length = in[j].length + n]
  <2>1. in[j].length + n \in Nat
    BY <1>5
  <2>2. d \in InData
    BY <1>4, <2>1, InFields
  <2>3. in' = [in EXCEPT ![j] = d]
    BY <1>6, Zenon
  <2> HIDE DEF d
  <2> QED
    BY <1>3, <1>4, <1>6, <2>2, <2>3
<1>7. ASSUME in' = [in EXCEPT ![j].closed = TRUE], UNCHANGED inpipe
      PROVE  in' \in [Jobs -> InData] /\ inpipe' \in [Jobs -> 0 .. PipeSize]
  <2> DEFINE d == [in[j] EXCEPT !.closed = TRUE]
  <2>1. d \in InData
    BY <1>4, InFields
  <2>2. in' = [in EXCEPT ![j] = d]
    BY <1>7, Zenon
  <2> HIDE DEF d
  <2> QED
    BY <1>3, <1>7, <2>1, <2>2
<1>8. in' \in [Jobs -> InData] /\ inpipe' \in [Jobs -> 0 .. PipeSize]
  BY <1>6, <1>7, Zenon DEF guest_exec_input_watch
<1>9. TypeKernel'
  BY <1>2, <1>8, Zenon DEF ExecInv, TypeKernel
<1> QED
  BY <1>1, <1>8, <1>9, SameOutputsKeeps

\* A child reads its input.
LEMMA ReadsKeeps ==
    ASSUME ExecInv, NEW j \in Jobs, ChildReads(j)
    PROVE  ExecInv'
<1>1. UNCHANGED sameJobs /\ UNCHANGED <<outpipe, written, io>> /\ in' = in
  BY Zenon DEF ChildReads, sameJobs, agentVars
<1>2. UNCHANGED <<child, pid, outpipe, written>>
  BY Zenon DEF ChildReads
<1>3. inpipe' \in [Jobs -> 0 .. PipeSize]
  <2>1. /\ inpipe[j] > 0 /\ inpipe' = [inpipe EXCEPT ![j] = @ - 1]
    BY DEF ChildReads
  <2> QED
    BY <2>1, ConstantsAssumption DEF ExecInv, TypeKernel
<1>4. owed' \in [Jobs -> [Streams -> Nat]]
  <2>1. \/ owed' = owed
        \/ owed' = [owed EXCEPT ![j] = [s \in Streams |-> owed[j][s] + 1]]
    BY Zenon DEF ChildReads
  <2>2. owed \in [Jobs -> [Streams -> Nat]]
    BY Zenon DEF ExecInv, TypeKernel
  <2>3. [s \in Streams |-> owed[j][s] + 1] \in [Streams -> Nat]
    BY <2>2
  <2> QED
    BY <2>1, <2>2, <2>3, Zenon
<1>5. TypeKernel'
  BY <1>2, <1>3, <1>4, Zenon DEF ExecInv, TypeKernel
<1>6. in' \in [Jobs -> InData]
  BY <1>1, Zenon DEF ExecInv, TypeIo
<1> QED
  BY <1>1, <1>5, <1>6, SameOutputsKeeps

\* A child writes to an output, which then cannot be closed.
LEMMA WritesKeeps ==
    ASSUME ExecInv, NEW j \in Jobs, NEW s \in Streams, ChildWrites(j, s)
    PROVE  ExecInv'
<1>1. UNCHANGED sameJobs /\ io' = io /\ in' = in
  BY Zenon DEF ChildWrites, sameJobs, agentVars
<1>2. UNCHANGED <<child, pid, inpipe>> /\ Holders(j)
  BY Zenon DEF ChildWrites
<1>3. /\ outpipe \in [Jobs -> [Streams -> 0 .. PipeSize]]
      /\ written \in [Jobs -> [Streams -> Nat]]
      /\ owed \in [Jobs -> [Streams -> Nat]]
  BY Zenon DEF ExecInv, TypeKernel
<1>4. owed' \in [Jobs -> [Streams -> Nat]]
  <2>1. \/ owed' = owed
        \/ owed[j][s] > 0 /\ owed' = [owed EXCEPT ![j][s] = owed[j][s] - 1]
    BY Zenon DEF ChildWrites
  <2> DEFINE v == owed[j][s] - 1
  <2>2. owed[j][s] > 0 => v \in Nat
    BY <1>3
  <2> HIDE DEF v
  <2>3. v \in Nat => [owed EXCEPT ![j][s] = v] \in [Jobs -> [Streams -> Nat]]
    BY <1>3, Put
  <2> QED
    BY <1>3, <2>1, <2>2, <2>3, Zenon DEF v
<1>5. TypeIo'
  BY <1>1, Zenon DEF ExecInv, TypeIo
<1>6. CASE has_output[j]
  <2> DEFINE n == outpipe[j][s]
             w == written[j][s]
  <2>1. /\ n < PipeSize
        /\ outpipe' = [outpipe EXCEPT ![j][s] = n + 1]
        /\ written' = [written EXCEPT ![j][s] = w + 1]
    BY <1>6, Zenon DEF ChildWrites
  <2>2. n \in 0 .. PipeSize /\ w \in Nat /\ PipeSize \in Nat
    BY <1>3, ConstantsAssumption
  <2>3. n + 1 \in 0 .. PipeSize /\ w + 1 \in Nat
    BY <2>1, <2>2
  <2>4. /\ outpipe' \in [Jobs -> [Streams -> 0 .. PipeSize]]
        /\ \A k \in Jobs : \A t \in Streams : outpipe'[k][t] =
              IF k = j /\ t = s THEN n + 1 ELSE outpipe[k][t]
    <3> DEFINE v == n + 1
    <3> HIDE DEF v
    <3>1. v \in 0 .. PipeSize /\ outpipe' = [outpipe EXCEPT ![j][s] = v]
      BY <2>1, <2>3 DEF v
    <3>2. /\ outpipe' \in [Jobs -> [Streams -> 0 .. PipeSize]]
          /\ \A k \in Jobs : \A t \in Streams : outpipe'[k][t] =
                IF k = j /\ t = s THEN v ELSE outpipe[k][t]
      BY <1>3, <3>1
    <3> QED
      BY <3>2 DEF v
  <2>5. /\ written' \in [Jobs -> [Streams -> Nat]]
        /\ \A k \in Jobs : \A t \in Streams : written'[k][t] =
              IF k = j /\ t = s THEN w + 1 ELSE written[k][t]
    <3> DEFINE v == w + 1
    <3> HIDE DEF v
    <3>1. v \in Nat /\ written' = [written EXCEPT ![j][s] = v]
      BY <2>1, <2>3 DEF v
    <3>2. /\ written' \in [Jobs -> [Streams -> Nat]]
          /\ \A k \in Jobs : \A t \in Streams : written'[k][t] =
                IF k = j /\ t = s THEN v ELSE written[k][t]
      BY <1>3, <3>1
    <3> QED
      BY <3>2 DEF v
  <2>6. Exact(io[j][s], n + 1, w + 1)
    <3>1. Exact(io[j][s], n, w)
      BY Zenon DEF ExecInv, Buffers
    <3>2. io[j][s].length \in Nat
      <4>1. io[j][s] \in IoData
        BY Zenon DEF ExecInv, TypeIo
      <4> QED
        BY <4>1, Zenon DEF IoData
    <3> DEFINE l == io[j][s].length
    <3>3. /\ l + n <= w => l + (n + 1) <= w + 1
          /\ l + n < w <=> l + (n + 1) < w + 1
      BY <2>2, <3>2
    <3> HIDE DEF n, w
    <3> QED
      BY <3>1, <3>3, Zenon DEF Exact
  <2>7. Buffers'
    <3> HIDE DEF n, w
    <3> SUFFICES ASSUME NEW k \in Jobs, NEW t \in Streams
                 PROVE  Exact(io[k][t], outpipe'[k][t], written'[k][t])
      BY <1>1, Zenon DEF Buffers
    <3>1. CASE k = j /\ t = s
      BY <2>4, <2>5, <2>6, <3>1, Zenon
    <3>2. CASE ~(k = j /\ t = s)
      <4>1. /\ outpipe'[k][t] = outpipe[k][t]
            /\ written'[k][t] = written[k][t]
        BY <2>4, <2>5, <3>2, Zenon
      <4>2. Exact(io[k][t], outpipe[k][t], written[k][t])
        BY Zenon DEF ExecInv, Buffers
      <4> QED
        BY <4>1, <4>2, Zenon
    <3> QED
      BY <3>1, <3>2, Zenon
  <2>8. ~io[j][s].closed
    BY <1>2, <1>6, Zenon DEF ExecInv, Drained
  <2>9. TypeKernel'
    BY <1>2, <1>4, <2>4, <2>5, Zenon DEF ExecInv, TypeKernel
  <2>10. \A k \in Jobs : \A t \in Streams :
            /\ io[k][t].closed => io'[k][t].closed
                                  /\ outpipe'[k][t] = outpipe[k][t]
            /\ ~io[k][t].closed /\ io'[k][t].closed =>
                  outpipe'[k][t] = 0 /\ ~Holders(k)
    BY <1>1, <2>4, <2>8, Zenon
  <2> QED
    BY <1>1, <1>5, <2>7, <2>9, <2>10, SameJobsKeeps
<1>7. CASE ~has_output[j]
  <2>1. UNCHANGED <<outpipe, written, io>>
    BY <1>1, <1>7, Zenon DEF ChildWrites
  <2>2. TypeKernel'
    BY <1>2, <1>4, <2>1, Zenon DEF ExecInv, TypeKernel
  <2>3. in' \in [Jobs -> InData]
    BY <1>5, Zenon DEF TypeIo
  <2> QED
    BY <1>1, <2>1, <2>2, <2>3, SameOutputsKeeps
<1> QED
  BY <1>6, <1>7

\* A step of a process: it can only end, and never become a writer.
LEMMA ProcessKeeps ==
    ASSUME ExecInv,
           UNCHANGED <<pid, inpipe, outpipe, owed, written, processes,
                       has_output, in, io, reply, jobs>>,
           child' \in [Jobs -> {"none", "running", "zombie", "reaped"}],
           heir' \in [Jobs -> BOOLEAN], finished' \in [Jobs -> BOOLEAN],
           \A k \in Jobs :
              /\ Holders(k)' => Holders(k)
              /\ finished'[k] => child'[k] = "reaped"
              /\ child[k] = "none" <=> child'[k] = "none"
              /\ child[k] = "reaped" => child'[k] = "reaped"
    PROVE  ExecInv'
<1>1. /\ pid' = pid /\ inpipe' = inpipe /\ outpipe' = outpipe /\ owed' = owed
      /\ written' = written /\ processes' = processes
      /\ has_output' = has_output /\ in' = in /\ io' = io /\ reply' = reply
      /\ jobs' = jobs
  BY Zenon
<1>2. TypeKernel' /\ TypeFlags' /\ TypeList' /\ TypeIo' /\ TypeReply'
  BY <1>1, Zenon
     DEF ExecInv, TypeKernel, TypeFlags, TypeList, TypeIo, TypeReply
<1>3. Buffers' /\ Replied'
  BY <1>1, Zenon DEF ExecInv, Buffers, Replied
<1>4. Consistent'
  BY <1>1, Zenon DEF ExecInv, Consistent
<1>5. Drained'
  BY <1>1, Zenon DEF ExecInv, Drained
<1>6. WatchesLive'
  BY <1>1, Zenon DEF ExecInv, WatchesLive, Started, Listed
<1> QED
  BY <1>2, <1>3, <1>4, <1>5, <1>6 DEF ExecInv

\* guest_exec_child_watch.
LEMMA ChildWatchKeeps ==
    ASSUME ExecInv, NEW j \in Jobs, guest_exec_child_watch(j)
    PROVE  ExecInv'
<1>1. UNCHANGED <<pid, inpipe, outpipe, owed, written, processes,
                  has_output, in, io, reply, jobs>>
  BY Zenon DEF guest_exec_child_watch
<1>2. /\ child[j] = "zombie" /\ child' = [child EXCEPT ![j] = "reaped"]
  BY Zenon DEF guest_exec_child_watch
<1>3. finished' = [finished EXCEPT ![j] = TRUE] /\ heir' = heir
  BY Zenon DEF guest_exec_child_watch
<1>4. child' \in [Jobs -> {"none", "running", "zombie", "reaped"}]
  BY <1>2 DEF ExecInv, TypeKernel
<1>5. heir' \in [Jobs -> BOOLEAN] /\ finished' \in [Jobs -> BOOLEAN]
  BY <1>3, Zenon DEF ExecInv, TypeFlags
<1>6. \A k \in Jobs : /\ k = j => child'[k] = "reaped"
                      /\ k # j => child'[k] = child[k]
  BY <1>2, Zenon DEF ExecInv, TypeKernel
<1>7. \A k \in Jobs : k # j => finished'[k] = finished[k]
  BY <1>3, Zenon DEF ExecInv, TypeFlags
<1>8. \A k \in Jobs :
          /\ child[k] = "none" <=> child'[k] = "none"
          /\ child[k] = "reaped" => child'[k] = "reaped"
          /\ child'[k] = "running" => child[k] = "running"
  BY <1>2, <1>6
<1>9. \A k \in Jobs : finished'[k] => child'[k] = "reaped"
  BY <1>6, <1>7, Zenon DEF ExecInv, Consistent
<1>10. \A k \in Jobs : Holders(k)' => Holders(k)
  BY <1>3, <1>8, Zenon DEF Holders
<1> QED
  BY <1>1, <1>4, <1>5, <1>8, <1>9, <1>10, ProcessKeeps

\* A child exits, and may leave its pipes to another process.
LEMMA ExitsKeeps ==
    ASSUME ExecInv, NEW j \in Jobs, ChildExits(j)
    PROVE  ExecInv'
<1>1. UNCHANGED <<pid, inpipe, outpipe, owed, written, processes,
                  has_output, in, io, reply, jobs>>
  BY Zenon DEF ChildExits, agentVars
<1>2. child[j] = "running" /\ child' = [child EXCEPT ![j] = "zombie"]
  BY Zenon DEF ChildExits
<1>3. /\ finished' = finished
      /\ heir' = heir \/ heir' = [heir EXCEPT ![j] = TRUE]
  BY Zenon DEF ChildExits, agentVars
<1>4. child' \in [Jobs -> {"none", "running", "zombie", "reaped"}]
  BY <1>2 DEF ExecInv, TypeKernel
<1>5. heir' \in [Jobs -> BOOLEAN] /\ finished' \in [Jobs -> BOOLEAN]
  BY <1>3, Zenon DEF ExecInv, TypeFlags
<1>6. \A k \in Jobs : k # j => child'[k] = child[k] /\ heir'[k] = heir[k]
  BY <1>2, <1>3, Zenon DEF ExecInv, TypeKernel, TypeFlags
<1>7. child'[j] = "zombie"
  BY <1>2, Zenon DEF ExecInv, TypeKernel
<1>8. \A k \in Jobs :
          /\ child[k] = "none" <=> child'[k] = "none"
          /\ child[k] = "reaped" => child'[k] = "reaped"
  BY <1>2, <1>6, <1>7
<1>9. \A k \in Jobs : finished'[k] => child'[k] = "reaped"
  BY <1>3, <1>8, Zenon DEF ExecInv, Consistent
<1>10. \A k \in Jobs : Holders(k)' => Holders(k)
  BY <1>2, <1>6, Zenon DEF Holders
<1> QED
  BY <1>1, <1>4, <1>5, <1>8, <1>9, <1>10, ProcessKeeps

\* The process that a child has left its pipes to exits.
LEMMA HeirKeeps ==
    ASSUME ExecInv, NEW j \in Jobs, HeirExits(j)
    PROVE  ExecInv'
<1>1. UNCHANGED <<pid, inpipe, outpipe, owed, written, processes,
                  has_output, in, io, reply, jobs>>
  BY Zenon DEF HeirExits, agentVars
<1>2. child' = child /\ finished' = finished
  BY Zenon DEF HeirExits, agentVars
<1>3. heir' = [heir EXCEPT ![j] = FALSE]
  BY Zenon DEF HeirExits
<1>4. child' \in [Jobs -> {"none", "running", "zombie", "reaped"}]
  BY <1>2 DEF ExecInv, TypeKernel
<1>5. heir' \in [Jobs -> BOOLEAN] /\ finished' \in [Jobs -> BOOLEAN]
  BY <1>2, <1>3, Zenon DEF ExecInv, TypeFlags
<1>6. /\ \A k \in Jobs : k # j => heir'[k] = heir[k]
      /\ heir'[j] = FALSE
  BY <1>3, Zenon DEF ExecInv, TypeFlags
<1>7. \A k \in Jobs : Holders(k)' => Holders(k)
  BY <1>2, <1>6, Zenon DEF Holders
<1>8. \A k \in Jobs : finished'[k] => child'[k] = "reaped"
  BY <1>2, Zenon DEF ExecInv, Consistent
<1> QED
  BY <1>1, <1>2, <1>4, <1>5, <1>7, <1>8, ProcessKeeps

\* A step that only answers, and may take records off the list.
LEMMA AnswerKeeps ==
    ASSUME ExecInv,
           UNCHANGED <<kernelVars, finished, has_output, in, io, jobs>>,
           TypeList', TypeReply', Replied',
           \A k \in Jobs : Listed(k) /\ ~Listed(k)' =>
              child[k] = "reaped" /\ \A s \in Streams : io[k][s].closed
    PROVE  ExecInv'
<1>1. /\ child' = child /\ heir' = heir /\ pid' = pid /\ inpipe' = inpipe
      /\ outpipe' = outpipe /\ owed' = owed /\ written' = written
      /\ finished' = finished /\ has_output' = has_output /\ in' = in
      /\ io' = io /\ jobs' = jobs
  BY Zenon DEF kernelVars
<1>2. TypeKernel' /\ TypeFlags' /\ TypeIo'
  BY <1>1, Zenon DEF ExecInv, TypeKernel, TypeFlags, TypeIo
<1>3. Buffers' /\ Consistent'
  BY <1>1, Zenon DEF ExecInv, Buffers, Consistent
<1>4. Drained'
  BY <1>1, Zenon DEF ExecInv, Drained, Holders
<1>5. WatchesLive'
  BY <1>1, Zenon DEF ExecInv, WatchesLive, Started
<1> QED
  BY <1>2, <1>3, <1>4, <1>5 DEF ExecInv

\* An answer that is not that of a job that has exited.
LEMMA NotExited ==
    ASSUME NEW j \in 0 .. MaxJobs
    PROVE  LET r == [NoReply EXCEPT !.job = j] IN
           /\ r.exited = FALSE
           /\ r \in [job : 0 .. MaxJobs, exited : BOOLEAN,
                     marked : SUBSET Streams, truncated : SUBSET Streams]
<1>1. 0 \in 0 .. MaxJobs
  BY ConstantsAssumption
<1>2. NoReply \in [job : 0 .. MaxJobs, exited : BOOLEAN,
                   marked : SUBSET Streams, truncated : SUBSET Streams]
  BY <1>1, Zenon DEF NoReply
<1>3. NoReply.exited = FALSE /\ "exited" \in DOMAIN NoReply
  BY Zenon DEF NoReply
<1> HIDE DEF NoReply
<1> QED
  BY <1>2, <1>3, Zenon

\* The answer of a command that fails.
LEMMA NoReplyIs ==
    /\ NoReply.exited = FALSE
    /\ NoReply \in [job : 0 .. MaxJobs, exited : BOOLEAN,
                    marked : SUBSET Streams, truncated : SUBSET Streams]
<1>1. 0 \in 0 .. MaxJobs
  BY ConstantsAssumption
<1> QED
  BY <1>1, Zenon DEF NoReply

\* The answer for a job j that has exited, m of its outputs being marked.
LEMMA ExitRecord ==
    ASSUME NEW j \in 0 .. MaxJobs, NEW m \in SUBSET Streams
    PROVE  LET r == [job |-> j, exited |-> TRUE, marked |-> m,
                     truncated |-> {}] IN
           /\ r.job = j /\ r.exited = TRUE
           /\ r \in [job : 0 .. MaxJobs, exited : BOOLEAN,
                     marked : SUBSET Streams, truncated : SUBSET Streams]
<1>1. {} \in SUBSET Streams /\ TRUE \in BOOLEAN
  BY Zenon
<1> QED
  BY <1>1, Zenon

\* A guest-exec that fails.
LEMMA ExecFailsKeeps == ExecInv /\ ExecFails => ExecInv'
<1> SUFFICES ASSUME ExecInv, ExecFails PROVE ExecInv'
  OBVIOUS
<1>1. /\ UNCHANGED <<kernelVars, finished, has_output, in, io, jobs>>
      /\ processes' = processes /\ reply' = NoReply /\ jobs' = jobs
  BY Zenon DEF ExecFails
<1>2. TypeList'
  BY <1>1, Zenon DEF ExecInv, TypeList
<1>3. TypeReply' /\ Replied'
  BY <1>1, NoReplyIs, Zenon DEF TypeReply, Replied
<1>4. \A k \in Jobs : Listed(k)' <=> Listed(k)
  BY <1>1, Zenon DEF Listed
<1> QED
  BY <1>1, <1>2, <1>3, <1>4, AnswerKeeps, Zenon

\* guest-exec-status: a record that is freed has no callbacks left.
LEMMA StatusKeeps ==
    ASSUME ExecInv, NEW p \in Pids, qmp_guest_exec_status(p)
    PROVE  ExecInv'
<1> DEFINE found == guest_exec_info_find(p)
           f == Min(found)
           j == processes[f]
<1>1. /\ UNCHANGED <<kernelVars, finished, has_output, in, io, jobs>>
      /\ has_output' = has_output /\ io' = io /\ jobs' = jobs
  BY Zenon DEF qmp_guest_exec_status
<1>2. CASE found = {} /\ reply' = NoReply /\ processes' = processes
  <2>1. TypeList'
    BY <1>1, <1>2, Zenon DEF ExecInv, TypeList
  <2>2. TypeReply' /\ Replied'
    BY <1>2, NoReplyIs, Zenon DEF TypeReply, Replied
  <2>3. \A k \in Jobs : Listed(k)' <=> Listed(k)
    BY <1>2, Zenon DEF Listed
  <2> QED
    BY <1>1, <2>1, <2>2, <2>3, AnswerKeeps, Zenon
<1>3. processes \in Seq(Jobs) /\ \A i \in DOMAIN processes :
                                    processes[i] <= jobs
  BY Zenon DEF ExecInv, TypeList
<1>4. /\ DOMAIN processes = 1 .. Len(processes) /\ Len(processes) \in Nat
      /\ \A i \in 1 .. Len(processes) : processes[i] \in Jobs
  BY <1>3
<1>5. found # {} => f \in 1 .. Len(processes)
  <2>1. found \subseteq 1 .. Len(processes)
    BY <1>4, Zenon DEF guest_exec_info_find
  <2>2. found \subseteq Nat
    BY <1>4, <2>1
  <2> HIDE DEF found
  <2> QED
    BY <2>1, <2>2, FirstPlace, Zenon
<1>6. found # {} => j \in Jobs /\ j <= jobs /\ j \in 0 .. MaxJobs
  <2>1. \A k \in Jobs : k \in 0 .. MaxJobs
    BY ConstantsAssumption DEF Jobs
  <2> QED
    BY <1>3, <1>4, <1>5, <2>1, Zenon
<1>7. CASE /\ found # {} /\ reply' = [NoReply EXCEPT !.job = j]
           /\ processes' = processes
  <2>1. TypeList'
    BY <1>1, <1>7, Zenon DEF ExecInv, TypeList
  <2>2. TypeReply' /\ Replied'
    <3> HIDE DEF found, j
    <3> QED
      BY <1>6, <1>7, NotExited, Zenon DEF TypeReply, Replied
  <2>3. \A k \in Jobs : Listed(k)' <=> Listed(k)
    BY <1>7, Zenon DEF Listed
  <2> QED
    BY <1>1, <2>1, <2>2, <2>3, AnswerKeeps, Zenon
<1>8. CASE /\ found # {} /\ Exited(j) /\ reply' = ExitStatus(j)
           /\ processes' = RemoveAt(processes, f)
  <2> HIDE DEF found, f
  <2>1. /\ processes' \in Seq(Jobs)
        /\ \A i \in DOMAIN processes' :
              \E k \in DOMAIN processes : processes'[i] = processes[k]
        /\ \A k \in DOMAIN processes : k # f =>
              \E i \in DOMAIN processes' : processes'[i] = processes[k]
    <3>1. RemoveAt(processes, f) \in Seq(Jobs)
      BY <1>3, <1>5, <1>8, RemovedPlace, Zenon
    <3> QED
      BY <1>3, <1>5, <1>8, <3>1, RemovedOthers, Zenon
  <2>2. TypeList'
    BY <1>1, <1>3, <2>1, Zenon DEF ExecInv, TypeList
  <2>3. /\ child[j] = "reaped"
        /\ \A s \in Streams : io[j][s].closed
    BY <1>6, <1>8, Zenon DEF Exited, ExecInv, Consistent
  <2>4. \A k \in Jobs : Listed(k) /\ ~Listed(k)' => k = j
    BY <2>1, Zenon DEF Listed
  <2> HIDE DEF j
  <2>5. /\ reply'.job = j /\ reply'.exited = TRUE
        /\ reply' \in [job : 0 .. MaxJobs, exited : BOOLEAN,
                       marked : SUBSET Streams, truncated : SUBSET Streams]
    <3> DEFINE m == {s \in Streams : io[j][s].length > 0
                                     /\ io[j][s].truncated}
    <3>1. reply' = [job |-> j, exited |-> TRUE, marked |-> m,
                    truncated |-> {}]
      BY <1>8, Zenon DEF ExitStatus
    <3>2. m \in SUBSET Streams
      BY Zenon
    <3> HIDE DEF m
    <3>3. j \in 0 .. MaxJobs
      BY <1>6, <1>8, Zenon
    <3> QED
      BY <3>1, <3>2, <3>3, ExitRecord, Zenon
  <2>6. TypeReply' /\ Replied'
    BY <1>1, <1>6, <1>8, <2>3, <2>5, Zenon DEF TypeReply, Replied
  <2> QED
    BY <1>1, <2>2, <2>3, <2>4, <2>6, AnswerKeeps, Zenon
<1> QED
  BY <1>2, <1>7, <1>8, Zenon DEF qmp_guest_exec_status

\* What guest-exec makes of the two inputs and outputs of its job.
LEMMA ExecData ==
    ASSUME ExecInv, NEW j \in Jobs, NEW size \in InputSizes,
           NEW has_input \in BOOLEAN, NEW capture \in BOOLEAN,
           in' = [in EXCEPT ![j].size = IF has_input THEN size ELSE 0,
                            ![j].closed = ~has_input],
           io' = [io EXCEPT ![j] = [s \in Streams |->
                     [io[j][s] EXCEPT !.closed = ~capture]]]
    PROVE  /\ TypeIo'
           /\ \A k \in Jobs : k # j => io'[k] = io[k]
           /\ \A s \in Streams :
                 /\ io'[j][s].closed = ~capture
                 /\ io'[j][s].size = io[j][s].size
                 /\ io'[j][s].length = io[j][s].length
                 /\ io'[j][s].truncated = io[j][s].truncated
<1>1. in \in [Jobs -> InData] /\ io \in [Jobs -> [Streams -> IoData]]
  BY Zenon DEF ExecInv, TypeIo
<1>2. in' \in [Jobs -> InData]
  <2> DEFINE n == IF has_input THEN size ELSE 0
             b == ~has_input
             d == [in[j] EXCEPT !.size = n, !.closed = b]
  <2>1. n \in Nat
    <3>1. size \in Nat /\ 0 \in Nat
      BY ConstantsAssumption
    <3> QED
      BY <3>1, Zenon
  <2>2. b \in BOOLEAN
    BY Zenon
  <2>3. in' = [in EXCEPT ![j] = d]
    <3> HIDE DEF n, b
    <3>1. in' = [in EXCEPT ![j].size = n, ![j].closed = b]
      BY Zenon DEF n, b
    <3> QED
      BY <1>1, <3>1, Zenon
  <2>4. in[j] \in InData
    BY <1>1, Zenon
  <2>5. d \in InData
    <3> HIDE DEF n, b
    <3> QED
      BY <2>1, <2>2, <2>4, InFields, Zenon
  <2> HIDE DEF d
  <2> QED
    BY <1>1, <2>3, <2>5
<1> DEFINE c == ~capture
           g == [s \in Streams |-> [io[j][s] EXCEPT !.closed = c]]
<1>3. io' = [io EXCEPT ![j] = g]
  BY Zenon
<1>4. c \in BOOLEAN
  BY Zenon
<1>5. \A s \in Streams :
          /\ g[s] \in IoData /\ g[s].closed = c
          /\ g[s].size = io[j][s].size /\ g[s].length = io[j][s].length
          /\ g[s].truncated = io[j][s].truncated
  <2> SUFFICES ASSUME NEW s \in Streams
               PROVE  /\ g[s] \in IoData /\ g[s].closed = c
                      /\ g[s].size = io[j][s].size
                      /\ g[s].length = io[j][s].length
                      /\ g[s].truncated = io[j][s].truncated
    BY Zenon
  <2> HIDE DEF c
  <2>1. io[j][s] \in IoData
    BY <1>1, Zenon
  <2>2. g[s] = [io[j][s] EXCEPT !.closed = c]
    BY Zenon
  <2> DEFINE d == io[j][s]
             e == [d EXCEPT !.closed = c]
  <2> HIDE DEF d
  <2>3. g[s] = e
    BY <2>2, Zenon DEF d
  <2>4. d \in IoData
    BY <2>1 DEF d
  <2>5. e \in IoData
    BY <1>4, <2>4, Marks, Zenon
  <2>6. e.closed = c /\ e.truncated = d.truncated
    BY <2>4, Zenon DEF IoData
  <2>7. e.size = d.size /\ e.length = d.length
    BY <2>4, Zenon DEF IoData
  <2> HIDE DEF e, g
  <2> QED
    BY <2>3, <2>5, <2>6, <2>7, Zenon DEF d
<1>6. g \in [Streams -> IoData]
  <2>1. g = [s \in Streams |-> g[s]]
    BY Zenon
  <2> HIDE DEF g
  <2> QED
    BY <1>5, <2>1, Zenon
<1>7. /\ io' \in [Jobs -> [Streams -> IoData]] /\ io'[j] = g
      /\ \A k \in Jobs : k # j => io'[k] = io[k]
  <2> HIDE DEF g
  <2> QED
    BY <1>1, <1>3, <1>6, Zenon
<1>8. TypeIo'
  BY <1>2, <1>7, Zenon DEF TypeIo
<1> HIDE DEF g
<1> QED
  BY <1>5, <1>7, <1>8, Zenon DEF c

\* guest-exec: the job is new, so that nothing of it has been answered.
LEMMA ExecKeeps ==
    ASSUME ExecInv, NEW p \in Pids, NEW size \in InputSizes,
           NEW has_input \in BOOLEAN, NEW capture \in BOOLEAN,
           qmp_guest_exec(p, has_input, size, capture)
    PROVE  ExecInv'
<1> DEFINE j == jobs + 1
<1>1. /\ jobs < MaxJobs /\ jobs' = j
      /\ child' = [child EXCEPT ![j] = "running"]
      /\ pid' = [pid EXCEPT ![j] = p] /\ processes' = Append(processes, j)
      /\ inpipe' = inpipe /\ outpipe' = outpipe /\ owed' = owed
      /\ written' = written /\ reply' = reply
  BY Zenon DEF qmp_guest_exec
<1>2. /\ has_output' = [has_output EXCEPT ![j] = capture]
      /\ heir' = heir /\ finished' = finished
  BY Zenon DEF qmp_guest_exec
<1>3. /\ j \in Jobs /\ j \in 0 .. MaxJobs /\ jobs \in Nat
      /\ \A k \in Jobs : /\ k > j => k > jobs
                         /\ k <= jobs => k <= j /\ k # j
      /\ j > jobs /\ ~(j > j) /\ j <= j
  BY <1>1, ConstantsAssumption DEF ExecInv, TypeList, Jobs
<1>4. /\ TypeIo'
      /\ \A k \in Jobs : k # j => io'[k] = io[k]
      /\ \A s \in Streams :
            /\ io'[j][s].closed = ~capture /\ io'[j][s].size = io[j][s].size
            /\ io'[j][s].length = io[j][s].length
            /\ io'[j][s].truncated = io[j][s].truncated
  <2>1. /\ in' = [in EXCEPT ![j].size = IF has_input THEN size ELSE 0,
                            ![j].closed = ~has_input]
        /\ io' = [io EXCEPT ![j] = [s \in Streams |->
                     [io[j][s] EXCEPT !.closed = ~capture]]]
    BY Zenon DEF qmp_guest_exec
  <2> HIDE DEF j
  <2> QED
    BY <1>3, <2>1, ExecData, ZenonT(60)
<1> HIDE DEF j
<1>5. TypeKernel'
  BY <1>1, <1>3 DEF ExecInv, TypeKernel
<1>6. /\ child'[j] = "running"
      /\ \A k \in Jobs : k # j => child'[k] = child[k]
  BY <1>1, <1>3, Zenon DEF ExecInv, TypeKernel
<1>7. /\ has_output' \in [Jobs -> BOOLEAN] /\ has_output'[j] = capture
      /\ \A k \in Jobs : k # j => has_output'[k] = has_output[k]
  BY <1>2, <1>3, Zenon DEF ExecInv, TypeFlags
<1>8. TypeFlags'
  BY <1>2, <1>7, Zenon DEF ExecInv, TypeFlags
<1>9. /\ processes' \in Seq(Jobs)
      /\ DOMAIN processes' = DOMAIN processes \cup {Len(processes) + 1}
      /\ processes'[Len(processes) + 1] = j
      /\ \A i \in DOMAIN processes : processes'[i] = processes[i]
  BY <1>1, <1>3 DEF ExecInv, TypeList
<1>10. TypeList'
  <2>1. \A i \in DOMAIN processes : processes[i] <= j
    <3> SUFFICES ASSUME NEW i \in DOMAIN processes PROVE processes[i] <= j
      BY Zenon
    <3>1. processes[i] <= jobs
      BY Zenon DEF ExecInv, TypeList
    <3>2. processes[i] \in Jobs
      BY DEF ExecInv, TypeList
    <3> QED
      BY <1>3, <3>1, <3>2, Zenon
  <2> QED
    BY <1>1, <1>3, <1>9, <2>1, Zenon DEF TypeList
<1>11. TypeReply'
  BY <1>1, Zenon DEF ExecInv, TypeReply
<1>12. Buffers'
  <2> SUFFICES ASSUME NEW k \in Jobs, NEW s \in Streams
               PROVE  Exact(io'[k][s], outpipe[k][s], written[k][s])
    BY <1>1, Zenon DEF Buffers
  <2>1. Exact(io[k][s], outpipe[k][s], written[k][s])
    BY Zenon DEF ExecInv, Buffers
  <2>2. /\ io'[k][s].size = io[k][s].size
        /\ io'[k][s].length = io[k][s].length
        /\ io'[k][s].truncated = io[k][s].truncated
    BY <1>4, Zenon
  <2> QED
    BY <2>1, <2>2, Zenon DEF Exact
<1>13. Consistent'
  <2>1. child[j] = "none" /\ ~finished[j]
    <3>1. child[j] = "none"
      BY <1>3, Zenon DEF ExecInv, Consistent
    <3>2. child[j] # "reaped"
      BY <3>1
    <3> QED
      BY <1>3, <3>1, <3>2, Zenon DEF ExecInv, Consistent
  <2> SUFFICES ASSUME NEW k \in Jobs
               PROVE  /\ finished[k] => child'[k] = "reaped"
                      /\ k > j => child'[k] = "none"
                      /\ ~has_output'[k] =>
                            \A s \in Streams : io'[k][s].closed
    BY <1>1, <1>2, Zenon DEF Consistent
  <2>2. CASE k = j
    BY <1>3, <1>4, <1>7, <2>1, <2>2, Zenon
  <2>3. CASE k # j
    BY <1>3, <1>4, <1>6, <1>7, <2>3, Zenon DEF ExecInv, Consistent
  <2> QED
    BY <2>2, <2>3
<1>14. Drained'
  <2> SUFFICES ASSUME NEW k \in Jobs, NEW s \in Streams, has_output'[k],
                      io'[k][s].closed
               PROVE  outpipe[k][s] = 0 /\ ~Holders(k)'
    BY <1>1, Zenon DEF Drained
  <2>1. k # j
    BY <1>4, <1>7, Zenon
  <2>2. Holders(k)' <=> Holders(k)
    BY <1>2, <1>6, <2>1, Zenon DEF Holders
  <2> QED
    BY <1>4, <1>7, <2>1, <2>2, Zenon DEF ExecInv, Drained
<1>15. Replied'
  <2> SUFFICES ASSUME reply.exited
               PROVE  /\ reply.job \in Jobs /\ reply.job <= j
                      /\ has_output'[reply.job] =>
                            \A s \in Streams : io'[reply.job][s].closed
    BY <1>1, Zenon DEF Replied
  <2> DEFINE k == reply.job
  <2>1. k \in Jobs /\ k <= jobs
    BY Zenon DEF ExecInv, Replied
  <2>2. k <= j /\ k # j
    BY <1>3, <2>1, Zenon
  <2> QED
    BY <1>4, <1>7, <2>1, <2>2, Zenon DEF ExecInv, Replied
<1>16. WatchesLive'
  <2> SUFFICES ASSUME NEW k \in Jobs, child'[k] # "none", ~Listed(k)'
               PROVE  /\ child'[k] = "reaped"
                      /\ \A s \in Streams : io'[k][s].closed
    BY Zenon DEF WatchesLive, Started
  <2>1. k # j /\ ~Listed(k)
    BY <1>9, Zenon DEF Listed
  <2> QED
    BY <1>4, <1>6, <2>1, Zenon DEF ExecInv, WatchesLive, Started
<1> QED
  BY <1>4, <1>5, <1>8, <1>10, <1>11, <1>12, <1>13, <1>14, <1>15, <1>16
  DEF ExecInv
-----------------------------------------------------------------------------
(* The theorems. *)

\* The invariant holds before the first command.
LEMMA InvInit == Init => ExecInv
<1> SUFFICES ASSUME Init PROVE ExecInv
  OBVIOUS
<1> DEFINE d == [size |-> 0, length |-> 0, truncated |-> FALSE,
                 closed |-> TRUE]
           c == [size |-> 0, length |-> 0, closed |-> TRUE]
<1>1. /\ child = [j \in Jobs |-> "none"] /\ inpipe = [j \in Jobs |-> 0]
      /\ outpipe = [j \in Jobs |-> [s \in Streams |-> 0]]
      /\ owed = outpipe /\ written = outpipe /\ processes = <<>> /\ jobs = 0
      /\ pid \in [Jobs -> {CHOOSE p \in Pids : TRUE}]
  BY Zenon DEF Init
<1>2. /\ heir = [j \in Jobs |-> FALSE] /\ finished = [j \in Jobs |-> FALSE]
      /\ has_output = [j \in Jobs |-> FALSE]
      /\ in = [j \in Jobs |-> c] /\ io = [j \in Jobs |-> [s \in Streams |-> d]]
      /\ reply = NoReply
  BY Zenon DEF Init
<1>3. 0 \in Nat /\ 0 \in 0 .. PipeSize /\ 0 \in 0 .. MaxJobs
  BY ConstantsAssumption
<1>4. pid \in [Jobs -> Pids]
  <2>1. (CHOOSE p \in Pids : TRUE) \in Pids
    BY ConstantsAssumption, Zenon
  <2> QED
    BY <1>1, <2>1
<1>5. TypeKernel
  BY <1>1, <1>3, <1>4 DEF TypeKernel
<1>6. TypeFlags
  BY <1>2, Zenon DEF TypeFlags
<1>7. TypeList
  BY <1>1, <1>3 DEF TypeList
<1>8. /\ d \in IoData /\ d.size = 0 /\ d.length = 0 /\ d.truncated = FALSE
      /\ d.closed = TRUE /\ c \in InData
  BY <1>3, Zenon DEF IoData, InData
<1> HIDE DEF d, c
<1>9. /\ in \in [Jobs -> InData] /\ io \in [Jobs -> [Streams -> IoData]]
      /\ \A j \in Jobs : \A s \in Streams : io[j][s] = d
  BY <1>2, <1>8, Zenon
<1>10. TypeIo
  BY <1>9, Zenon DEF TypeIo
<1>11. TypeReply /\ Replied
  BY <1>2, NoReplyIs, Zenon DEF TypeReply, Replied
<1>12. Exact(d, 0, 0)
  <2>1. 0 <= 0 /\ 0 <= MAX_OUTPUT /\ 0 % IO_SIZE = 0 /\ 0 + 0 = 0 /\ ~(0 < 0)
    BY ConstantsAssumption
  <2> QED
    BY <1>8, <2>1, Zenon DEF Exact
<1>13. Buffers
  <2>1. \A j \in Jobs : \A s \in Streams : outpipe[j][s] = 0
                                          /\ written[j][s] = 0
    BY <1>1, Zenon
  <2> QED
    BY <1>9, <1>12, <2>1, Zenon DEF Buffers
<1>14. Consistent /\ Drained
  <2>1. \A j \in Jobs : ~finished[j] /\ ~has_output[j] /\ child[j] = "none"
    BY <1>1, <1>2, Zenon
  <2> QED
    BY <1>8, <1>9, <2>1, Zenon DEF Consistent, Drained
<1>15. WatchesLive
  BY <1>1, Zenon DEF WatchesLive, Started
<1> QED
  BY <1>5, <1>6, <1>7, <1>10, <1>11, <1>13, <1>14, <1>15 DEF ExecInv

\* A step that changes nothing keeps it.
LEMMA StutterKeeps == ExecInv /\ UNCHANGED vars => ExecInv'
<1> SUFFICES ASSUME ExecInv, UNCHANGED vars PROVE ExecInv'
  OBVIOUS
<1>1. UNCHANGED sameJobs /\ UNCHANGED <<outpipe, written, io>> /\ in' = in
  BY Zenon DEF vars, sameJobs
<1>2. TypeKernel'
  BY Zenon DEF vars, ExecInv, TypeKernel
<1>3. in' \in [Jobs -> InData]
  BY <1>1, Zenon DEF ExecInv, TypeIo
<1> QED
  BY <1>1, <1>2, <1>3, SameOutputsKeeps

\* The invariant is inductive.
LEMMA InvNext == ExecInv /\ [Next]_vars => ExecInv'
<1> SUFFICES ASSUME ExecInv, [Next]_vars PROVE ExecInv'
  OBVIOUS
<1>1. ASSUME NEW p \in Pids, NEW size \in InputSizes,
             NEW has_input \in BOOLEAN, NEW capture \in BOOLEAN,
             qmp_guest_exec(p, has_input, size, capture)
      PROVE  ExecInv'
  BY <1>1, ExecKeeps, Zenon
<1>2. CASE ExecFails
  BY <1>2, ExecFailsKeeps
<1>3. ASSUME NEW p \in Pids, qmp_guest_exec_status(p) PROVE ExecInv'
  BY <1>3, StatusKeeps, Zenon
<1>4. ASSUME NEW j \in Jobs,
             \/ guest_exec_child_watch(j) \/ guest_exec_input_watch(j)
             \/ ChildReads(j) \/ ChildExits(j) \/ HeirExits(j)
      PROVE  ExecInv'
  BY <1>4, ChildWatchKeeps, InputKeeps, ReadsKeeps, ExitsKeeps, HeirKeeps,
     Zenon
<1>5. ASSUME NEW j \in Jobs, NEW s \in Streams,
             guest_exec_output_watch(j, s) \/ ChildWrites(j, s)
      PROVE  ExecInv'
  BY <1>5, ReadableKeeps, HangupKeeps, WritesKeeps, Zenon
     DEF guest_exec_output_watch
<1>6. CASE UNCHANGED vars
  BY <1>6, StutterKeeps
<1> QED
  BY <1>1, <1>2, <1>3, <1>4, <1>5, <1>6, Zenon DEF Next

\* ... and holds in every reachable state.
LEMMA InvHolds == Spec => []ExecInv
<1> QED
  BY InvInit, InvNext, PTL DEF Spec

\* Every reachable state is well typed; in particular no output buffer is ever
\* larger than GUEST_EXEC_MAX_OUTPUT, though guest_exec_output_watch adds
\* GUEST_EXEC_IO_SIZE to it without looking at what that makes.
THEOREM TypeCorrect == Spec => []TypeOK
<1>1. ExecInv => TypeOK
  <2> SUFFICES ASSUME ExecInv PROVE TypeOK
    OBVIOUS
  <2> DEFINE B == [size : 0 .. MAX_OUTPUT, length : 0 .. MAX_OUTPUT,
                   truncated : BOOLEAN, closed : BOOLEAN]
  <2>1. io \in [Jobs -> [Streams -> IoData]] /\ in \in [Jobs -> InData]
    BY Zenon DEF ExecInv, TypeIo
  <2>2. ASSUME NEW j \in Jobs, NEW s \in Streams PROVE io[j][s] \in B
    <3> DEFINE e == io[j][s]
    <3>1. e \in IoData
      BY <2>1, Zenon
    <3>2. /\ e.size \in Nat /\ e.length \in Nat
          /\ e.length <= e.size /\ e.size <= MAX_OUTPUT
      <4>1. e.size \in Nat /\ e.length \in Nat
        BY <3>1, Zenon DEF IoData
      <4> QED
        BY <4>1, Zenon DEF ExecInv, Buffers, Exact
    <3>3. e.size \in 0 .. MAX_OUTPUT /\ e.length \in 0 .. MAX_OUTPUT
      BY <3>2, ConstantsAssumption
    <3> HIDE DEF e
    <3>4. e \in B
      BY <3>1, <3>3, Zenon DEF IoData
    <3> QED
      BY <3>4 DEF e
  <2>3. io \in [Jobs -> [Streams -> B]]
    <3> HIDE DEF B
    <3> QED
      BY <2>1, <2>2
  <2> QED
    BY <2>1, <2>3, Zenon
       DEF ExecInv, TypeKernel, TypeFlags, TypeList, TypeReply, InData,
           TypeOK
<1> QED
  BY <1>1, InvHolds, PTL

\* guest_exec_output_watch marks an output as truncated exactly when bytes that
\* were written to it are neither in the buffer nor in the pipe any more.
THEOREM TruncationKnown == Spec => []TruncationExact
<1>1. ExecInv => TruncationExact
  BY Zenon DEF ExecInv, Buffers, Exact, TruncationExact
<1> QED
  BY <1>1, InvHolds, PTL

\* When guest-exec-status answers that a job with captured output has exited,
\* every byte that its processes wrote was captured, or the output is marked
\* as truncated: nothing is in the pipes and nobody is left to fill them.
THEOREM OutputsComplete == Spec => []OutputComplete
<1>1. ExecInv => OutputComplete
  <2> SUFFICES ASSUME ExecInv, reply.exited, has_output[reply.job],
                      NEW s \in Streams, ~io[reply.job][s].truncated
               PROVE  io[reply.job][s].length = written[reply.job][s]
    BY Zenon DEF OutputComplete
  <2> DEFINE j == reply.job
             l == io[j][s].length
             n == outpipe[j][s]
             w == written[j][s]
  <2>1. j \in Jobs /\ io[j][s].closed
    BY Zenon DEF ExecInv, Replied
  <2>2. n = 0
    BY <2>1, Zenon DEF ExecInv, Drained
  <2>3. l + n <= w /\ ~(l + n < w)
    BY <2>1, Zenon DEF ExecInv, Buffers, Exact
  <2>4. l \in Nat /\ w \in Nat
    <3>1. io[j][s] \in IoData /\ w \in Nat
      BY <2>1, Zenon DEF ExecInv, TypeIo, TypeKernel
    <3> QED
      BY <3>1, Zenon DEF IoData
  <2> HIDE DEF j, l, n, w
  <2>5. l = w
    BY <2>2, <2>3, <2>4
  <2> QED
    BY <2>5 DEF j, l, w
<1> QED
  BY <1>1, InvHolds, PTL

\* A job that guest-exec-status has freed has a reaped child and closed
\* outputs: neither guest_exec_child_watch nor guest_exec_output_watch can be
\* called with the freed record.
THEOREM NoCallbackOnFreed == Spec => []WatchesLive
<1>1. ExecInv => WatchesLive
  BY DEF ExecInv
<1> QED
  BY <1>1, InvHolds, PTL
=============================================================================
