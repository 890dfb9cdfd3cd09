-------------------------- MODULE WinChannelProofs --------------------------
(***************************************************************************)
(* Proofs about WinChannel for every buffer, DWORD and request size, any   *)
(* number of bytes and every set of faults: the data and the outstanding   *)
(* read share the buffer without touching each other, and the channel does *)
(* only what ByteStream allows.  Both follow from ChannelInv, which ties   *)
(* the read that the driver has to the data in the buffer.                 *)
(***************************************************************************)
EXTENDS WinChannel, SequenceTheorems, TLAPS

Buffers == [0 .. BUF_SIZE - 1 -> Byte \cup {0}]

\* TypeOK in two parts: the flag, and the rest.
TypeFlag == ov_pending \in BOOLEAN

TypeData ==
    /\ sent \in 0 .. MaxBytes /\ port \in Seq(Byte)
    /\ buf \in Buffers
    /\ cur \in 0 .. BUF_SIZE /\ pending \in 0 .. BUF_SIZE
    /\ cur + pending <= BUF_SIZE
    /\ ov \in [status : {"none", "waiting", "done", "eof", "result"},
               addr : 0 .. BUF_SIZE, len : 0 .. BUF_SIZE,
               count : 0 .. BUF_SIZE]
    /\ pending_events \subseteq {"IN", "HUP", "ERR"}
    /\ pc \in {"prepare", "poll", "dispatch", "removed"}
    /\ size \in Sizes /\ fed \in Seq(Byte)

\* The read that the driver has: what the flag says, and how much it may put
\* where.
OneRead ==
    /\ ov_pending <=> ov.status # "none"
    /\ ov.status = "done" => ov.count \in 1 .. ov.len
    /\ ov.status # "none" => /\ ov.addr = cur + pending
                             /\ ov.addr + ov.len <= BUF_SIZE

\* Every byte of the data, and of what a completed read has put behind them,
\* was sent by the host.
DataSent == \A i \in cur .. cur + pending + Completed - 1 : buf[i] \in Byte

\* A turn of the main loop starts without an event and polls with a read.
Turns ==
    /\ pc \in {"prepare", "poll"} => pending_events = {}
    /\ pc = "poll" => ov.status # "none"

ChannelInv == TypeData /\ OneRead /\ DataSent /\ Turns
-----------------------------------------------------------------------------
(* The operators. *)

\* A difference that is smaller than the modulus is its own remainder.
LEMMA SmallMod == ASSUME NEW x \in Nat, NEW m \in Nat, x < m PROVE x % m = x
OBVIOUS

\* The memmove keeps the data inside the buffer, so that the unsigned
\* difference is the room that is left behind them.
LEMMA Room ==
    ASSUME TypeData
    PROVE  LET c == CompactTo(cur, pending, ov_pending) IN
           /\ c \in 0 .. BUF_SIZE /\ c <= cur /\ c + pending <= BUF_SIZE
           /\ CountToRead(c, pending) = BUF_SIZE - c - pending
           /\ CountToRead(c, pending) \in 0 .. BUF_SIZE
           /\ ~ov_pending /\ CountToRead(c, pending) = 0 => pending > 0
           /\ ov_pending => c = cur
<1> DEFINE c == CompactTo(cur, pending, ov_pending)
<1> USE ConstantsAssumption DEF TypeData
<1>1. c \in 0 .. BUF_SIZE /\ c <= cur /\ c + pending <= BUF_SIZE
  BY DEF CompactTo
<1>2. ~ov_pending /\ c + pending = BUF_SIZE => pending > 0
  BY DEF CompactTo
<1>3. ov_pending => c = cur
  BY DEF CompactTo
<1> HIDE DEF c
<1>4. BUF_SIZE - c - pending \in Nat /\ BUF_SIZE - c - pending < DWORD_MOD
  BY <1>1
<1>5. CountToRead(c, pending) = BUF_SIZE - c - pending
  BY <1>4, SmallMod DEF CountToRead
<1>6. QED
  BY <1>1, <1>2, <1>3, <1>5 DEF c

\* What the driver puts into a buffer.
LEMMA StoredBuffer ==
    ASSUME NEW b \in Buffers, NEW addr \in Nat, NEW n \in Nat,
           port \in Seq(Byte), n <= Len(port)
    PROVE  /\ Stored(b, addr, n) \in Buffers
           /\ \A k \in 0 .. BUF_SIZE - 1 :
                 Stored(b, addr, n)[k] = IF k >= addr /\ k < addr + n
                                         THEN port[k - addr + 1] ELSE b[k]
<1>1. \A k \in 1 .. Len(port) : port[k] \in Byte
  BY ElementOfSeq
<1>2. Len(port) \in Nat
  BY LenProperties
<1>3. QED
  BY <1>1, <1>2, ConstantsAssumption DEF Stored, Buffers

\* What prepare's memmove does with the data.
LEMMA MovedBuffer ==
    ASSUME NEW b \in Buffers, NEW c \in Nat, NEW p \in Nat, NEW d \in Nat,
           c + p <= BUF_SIZE, d <= c
    PROVE  /\ Moved(b, c, p, d) \in Buffers
           /\ \A k \in 0 .. BUF_SIZE - 1 :
                 Moved(b, c, p, d)[k] = IF k >= d /\ k < d + p
                                        THEN b[k - d + c] ELSE b[k]
BY ConstantsAssumption DEF Moved, Buffers

\* What is left of the port after n bytes.
LEMMA PortRest ==
    ASSUME port \in Seq(Byte), NEW n \in Nat, n <= Len(port)
    PROVE  /\ SubSeq(port, n + 1, Len(port)) \in Seq(Byte)
           /\ Len(SubSeq(port, n + 1, Len(port))) = Len(port) - n
           /\ \A k \in 1 .. Len(port) - n :
                 SubSeq(port, n + 1, Len(port))[k] = port[n + k]
<1>1. Len(port) \in Nat /\ \A k \in 1 .. Len(port) : port[k] \in Byte
  BY ElementOfSeq, LenProperties
<1>2. \A k \in n + 1 .. Len(port) : port[k] \in Byte
  BY <1>1
<1>3. n + 1 \in Int /\ Len(port) \in Int
  BY <1>1
<1> DEFINE rest == SubSeq(port, n + 1, Len(port))
<1>4. /\ rest \in Seq(Byte)
      /\ Len(rest) = IF n + 1 <= Len(port) THEN Len(port) - (n + 1) + 1 ELSE 0
      /\ \A k \in 1 .. Len(port) - (n + 1) + 1 : rest[k] = port[n + 1 + k - 1]
  BY <1>2, <1>3, SubSeqProperties
<1> HIDE DEF rest
<1>5. Len(rest) = Len(port) - n /\ \A k \in 1 .. Len(port) - n :
                                      rest[k] = port[n + k]
  BY <1>1, <1>4
<1>6. QED
  BY <1>4, <1>5 DEF rest
-----------------------------------------------------------------------------
(* The invariant. *)

\* The flag is one: every step leaves it, sets it or clears it.
LEMMA FlagStep == TypeFlag /\ [Next]_vars => TypeFlag'
<1> SUFFICES ASSUME TypeFlag, [Next]_vars PROVE TypeFlag'
  OBVIOUS
<1> USE DEF TypeFlag
<1>1. CASE HostSends \/ DriverFails
  BY <1>1, Zenon DEF HostSends, DriverFails, readState
<1>2. CASE DriverCompletes
  BY <1>2, Zenon DEF DriverCompletes
<1>3. CASE PrepareNoRead
  BY <1>3, Zenon DEF PrepareNoRead
<1>4. CASE PrepareRead
  BY <1>4, Zenon DEF PrepareRead
<1>5. CASE ga_channel_check
  BY <1>5, Zenon DEF ga_channel_check, StillOutstanding
<1>6. CASE ga_channel_dispatch
  BY <1>6, Zenon DEF ga_channel_dispatch
<1>7. CASE UNCHANGED vars
  BY <1>7, Zenon DEF vars
<1>8. QED
  BY <1>1, <1>2, <1>3, <1>4, <1>5, <1>6, <1>7 DEF Next, ga_channel_prepare

\* What the host sends goes to the port.
LEMMA InvHostSends == ChannelInv /\ HostSends => ChannelInv'
<1> SUFFICES ASSUME ChannelInv, HostSends PROVE ChannelInv'
  OBVIOUS
<1> USE ConstantsAssumption DEF ChannelInv, TypeData, HostSends, readState
<1>1. sent + 1 \in Byte
  BY DEF Byte
<1>2. port' \in Seq(Byte)
  BY <1>1, AppendProperties
<1>3. TypeData'
  BY <1>2
<1>4. OneRead' /\ DataSent' /\ Turns'
  BY DEF OneRead, DataSent, Turns, Completed
<1>5. QED
  BY <1>3, <1>4

\* A read that completes fills the buffer behind the data.
LEMMA InvDriverCompletes == ChannelInv /\ DriverCompletes => ChannelInv'
<1> SUFFICES ASSUME ChannelInv, DriverCompletes PROVE ChannelInv'
  OBVIOUS
<1> USE ConstantsAssumption DEF ChannelInv, TypeData
<1>1. PICK n \in Transferable(ov.len) :
         /\ buf' = Stored(buf, ov.addr, n)
         /\ port' = SubSeq(port, n + 1, Len(port))
         /\ ov' = Answered("done", n)
  BY DEF DriverCompletes
<1>2. ov.status = "waiting" /\ UNCHANGED <<sent, cur, pending, pending_events,
                                           pc, size, fed, ov_pending>>
  BY DEF DriverCompletes
<1>3. n \in 1 .. ov.len /\ n <= Len(port) /\ n \in Nat /\ ov.addr \in Nat
  BY DEF Transferable
<1>4. port' \in Seq(Byte)
  BY <1>1, <1>3, PortRest
<1>5. buf' \in Buffers /\ \A k \in 0 .. BUF_SIZE - 1 :
         buf'[k] = IF k >= ov.addr /\ k < ov.addr + n
                   THEN port[k - ov.addr + 1] ELSE buf[k]
  <2>1. buf \in Buffers /\ port \in Seq(Byte)
    OBVIOUS
  <2>2. ov.addr \in Nat /\ n \in Nat /\ n <= Len(port)
    BY <1>3
  <2> HIDE DEF TypeData, ChannelInv
  <2>3. /\ Stored(buf, ov.addr, n) \in Buffers
        /\ \A k \in 0 .. BUF_SIZE - 1 : Stored(buf, ov.addr, n)[k] =
              IF k >= ov.addr /\ k < ov.addr + n
              THEN port[k - ov.addr + 1] ELSE buf[k]
    BY <2>1, <2>2, StoredBuffer, Zenon
  <2>4. QED
    BY <1>1, <2>3, Zenon
<1>6. /\ ov'.status = "done" /\ ov'.count = n /\ ov'.len = ov.len
      /\ ov'.addr = ov.addr
      /\ ov' \in [status : {"none", "waiting", "done", "eof", "result"},
                  addr : 0 .. BUF_SIZE, len : 0 .. BUF_SIZE,
                  count : 0 .. BUF_SIZE]
  BY <1>1, <1>3 DEF Answered
<1>7. TypeData'
  BY <1>2, <1>4, <1>5, <1>6
<1>8. OneRead' /\ Turns'
  BY <1>2, <1>3, <1>6 DEF OneRead, Turns
<1>9. DataSent'
  <2>1. \A k \in 1 .. Len(port) : port[k] \in Byte
    BY ElementOfSeq
  <2>2. Len(port) \in Nat
    BY LenProperties
  <2>3. ov.addr = cur + pending /\ ov.addr + ov.len <= BUF_SIZE
    BY <1>2 DEF OneRead
  <2>4. \A k \in cur .. cur + pending - 1 : buf[k] \in Byte
    BY <1>2 DEF DataSent, Completed
  <2>5. ASSUME NEW k \in cur .. cur + pending + n - 1 PROVE buf'[k] \in Byte
    <3>1. k \in 0 .. BUF_SIZE - 1
      BY <1>3, <2>3
    <3>2. CASE k < ov.addr
      <4>1. k \in cur .. cur + pending - 1 /\ ~(k >= ov.addr)
        BY <2>3, <3>1, <3>2
      <4>2. buf'[k] = buf[k]
        BY <1>5, <3>1, <4>1, Zenon
      <4> QED
        BY <2>4, <4>1, <4>2, Zenon
    <3>3. CASE k >= ov.addr
      <4>1. k - ov.addr + 1 \in 1 .. Len(port) /\ k < ov.addr + n
        BY <1>3, <2>2, <2>3, <3>3
      <4>2. QED
        BY <1>5, <2>1, <3>1, <3>3, <4>1
    <3>4. QED
      BY <1>3, <3>2, <3>3
  <2>6. QED
    BY <1>2, <1>6, <2>5 DEF DataSent, Completed
<1>10. QED
  BY <1>7, <1>8, <1>9

\* A read that fails leaves the buffer alone.
LEMMA InvDriverFails == ChannelInv /\ DriverFails => ChannelInv'
<1> SUFFICES ASSUME ChannelInv, DriverFails PROVE ChannelInv'
  OBVIOUS
<1> USE DEF ChannelInv, TypeData, DriverFails, readState
<1>1. PICK e \in {"eof", "result"} : ov' = Answered(e, 0)
  OBVIOUS
<1>2. /\ ov'.status = e /\ ov'.count = 0 /\ ov'.len = ov.len
      /\ ov'.addr = ov.addr
      /\ ov' \in [status : {"none", "waiting", "done", "eof", "result"},
                  addr : 0 .. BUF_SIZE, len : 0 .. BUF_SIZE,
                  count : 0 .. BUF_SIZE]
  BY <1>1, ConstantsAssumption DEF Answered
<1>3. TypeData'
  BY <1>2
<1>4. OneRead' /\ DataSent' /\ Turns'
  BY <1>1, <1>2 DEF OneRead, DataSent, Turns, Completed
<1>5. QED
  BY <1>3, <1>4
\* The buffer that prepare leaves: the data are the same, at their new place,
\* and nothing has moved while a read is outstanding.
LEMMA Compacted ==
    ASSUME ChannelInv
    PROVE  LET c == CompactTo(cur, pending, ov_pending)
               b == Moved(buf, cur, pending, c) IN
           /\ b \in Buffers
           /\ \A k \in 0 .. pending - 1 : b[c + k] = buf[cur + k]
           /\ \A k \in c .. c + pending - 1 : b[k] \in Byte
           /\ ov_pending => b = buf
<1> DEFINE c == CompactTo(cur, pending, ov_pending)
           b == Moved(buf, cur, pending, c)
<1>1. /\ c \in 0 .. BUF_SIZE /\ c <= cur /\ c + pending <= BUF_SIZE
      /\ ov_pending => c = cur
  BY Room DEF ChannelInv
<1>2. cur \in Nat /\ pending \in Nat /\ cur + pending <= BUF_SIZE
  BY ConstantsAssumption DEF ChannelInv, TypeData
<1>3. BUF_SIZE \in Nat /\ buf \in Buffers
  BY ConstantsAssumption DEF ChannelInv, TypeData
<1> HIDE DEF c
<1>4. /\ b \in Buffers
      /\ \A k \in 0 .. BUF_SIZE - 1 :
            b[k] = IF k >= c /\ k < c + pending THEN buf[k - c + cur]
                   ELSE buf[k]
  BY <1>1, <1>2, <1>3, MovedBuffer
<1> HIDE DEF b
<1>5. \A k \in 0 .. pending - 1 : b[c + k] = buf[cur + k]
  <2>1. ASSUME NEW k \in 0 .. pending - 1 PROVE b[c + k] = buf[cur + k]
    <3>1. /\ c + k \in 0 .. BUF_SIZE - 1 /\ c + k >= c
          /\ c + k < c + pending /\ (c + k) - c + cur = cur + k
      BY <1>1, <1>2, <1>3
    <3>2. QED
      BY <1>4, <3>1
  <2>2. QED
    BY <2>1
<1>6. \A k \in cur .. cur + pending - 1 : buf[k] \in Byte
  BY <1>2, ConstantsAssumption
  DEF ChannelInv, DataSent, Completed, TypeData, OneRead
<1>7. \A k \in c .. c + pending - 1 : b[k] \in Byte
  <2>1. ASSUME NEW k \in c .. c + pending - 1 PROVE b[k] \in Byte
    <3>1. /\ k - c \in 0 .. pending - 1 /\ c + (k - c) = k
          /\ cur + (k - c) \in cur .. cur + pending - 1
      BY <1>1, <1>2
    <3>2. QED
      BY <1>5, <1>6, <3>1
  <2>2. QED
    BY <2>1
<1>8. ASSUME ov_pending PROVE b = buf
  <2>1. \A k \in 0 .. BUF_SIZE - 1 : b[k] = buf[k]
    BY <1>1, <1>2, <1>3, <1>4, <1>8
  <2>2. QED
    BY <1>3, <1>4, <2>1 DEF Buffers
<1>9. QED
  BY <1>4, <1>5, <1>7, <1>8 DEF b, c

\* A turn without a new read: a read is outstanding, or the buffer is full of
\* data, which are an event.
LEMMA InvPrepareNoRead == ChannelInv /\ PrepareNoRead => ChannelInv'
<1> SUFFICES ASSUME ChannelInv, PrepareNoRead PROVE ChannelInv'
  OBVIOUS
<1> DEFINE c == CompactTo(cur, pending, ov_pending)
           b == Moved(buf, cur, pending, c)
<1>1. /\ c \in 0 .. BUF_SIZE /\ c + pending <= BUF_SIZE
      /\ ~ov_pending /\ CountToRead(c, pending) = 0 => pending > 0
      /\ ov_pending => c = cur
  BY Room DEF ChannelInv
<1>2. /\ b \in Buffers
      /\ \A k \in c .. c + pending - 1 : b[k] \in Byte
      /\ ov_pending => b = buf
  BY Compacted
<1>3. /\ pc = "prepare" /\ (ov_pending \/ CountToRead(c, pending) = 0)
      /\ buf' = b /\ cur' = c /\ Announce({}, pending)
      /\ UNCHANGED <<sent, port, pending, ov_pending, ov, size, fed>>
  BY DEF PrepareNoRead
<1> HIDE DEF c, b
<1> USE ConstantsAssumption DEF ChannelInv, TypeData
<1>4. pending_events = {}
  BY <1>3 DEF Turns
<1>5. /\ pending_events' = IF pending > 0 THEN {"IN"} ELSE {}
      /\ pc' = IF pending > 0 THEN "dispatch" ELSE "poll"
  BY <1>3, <1>4 DEF Announce
<1>6. TypeData'
  BY <1>1, <1>2, <1>3, <1>5
<1>7. ov_pending <=> ov.status # "none"
  BY DEF OneRead
<1>8. OneRead'
  BY <1>1, <1>3, <1>7 DEF OneRead
<1>9. Turns'
  BY <1>1, <1>3, <1>5, <1>7 DEF Turns
<1>10. DataSent'
  <2>1. CASE ov_pending
    BY <1>1, <1>2, <1>3, <2>1 DEF DataSent, Completed
  <2>2. CASE ~ov_pending
    <3>1. Completed' = 0
      BY <1>3, <1>7, <2>2 DEF Completed
    <3>2. QED
      BY <1>1, <1>2, <1>3, <3>1 DEF DataSent
  <2>3. QED
    BY <2>1, <2>2
<1>11. QED
  BY <1>6, <1>8, <1>9, <1>10
\* A turn that submits a read, however it is answered.
LEMMA InvPrepareRead == ChannelInv /\ PrepareRead => ChannelInv'
<1> SUFFICES ASSUME ChannelInv, PrepareRead PROVE ChannelInv'
  OBVIOUS
<1> DEFINE c == CompactTo(cur, pending, ov_pending)
           b == Moved(buf, cur, pending, c)
           len == CountToRead(c, pending)
           addr == c + pending
           Answers ==
             \/ \E n \in Transferable(len) :
                   /\ buf' = Stored(b, addr, n)
                   /\ port' = SubSeq(port, n + 1, Len(port))
                   /\ pending' = pending + n /\ Announce({}, pending + n)
                   /\ UNCHANGED <<ov_pending, ov>>
             \/ /\ buf' = b /\ ov_pending' = TRUE
                /\ ov' = Submitted(addr, len)
                /\ Announce({}, pending) /\ UNCHANGED <<port, pending>>
             \/ /\ buf' = b /\ Announce({"ERR"}, pending)
                /\ UNCHANGED <<port, pending, ov_pending, ov>>
<1>1. /\ c \in 0 .. BUF_SIZE /\ c + pending <= BUF_SIZE
      /\ len = BUF_SIZE - c - pending
  BY Room DEF ChannelInv
<1>2. /\ b \in Buffers
      /\ \A k \in c .. c + pending - 1 : b[k] \in Byte
  BY Compacted
<1>3. /\ pc = "prepare" /\ ~ov_pending /\ len > 0 /\ cur' = c
      /\ Answers /\ UNCHANGED <<sent, size, fed>>
  BY DEF PrepareRead
<1> HIDE DEF c, b, len
<1>4. pending_events = {} /\ ov.status = "none"
  BY <1>3 DEF ChannelInv, Turns, OneRead
<1>5. /\ BUF_SIZE \in Nat /\ pending \in Nat /\ port \in Seq(Byte)
      /\ addr \in Nat /\ c \in Nat
  BY <1>1, ConstantsAssumption DEF ChannelInv, TypeData
<1>6. ASSUME NEW n \in Transferable(len),
             buf' = Stored(b, addr, n),
             port' = SubSeq(port, n + 1, Len(port)),
             pending' = pending + n, Announce({}, pending + n),
             UNCHANGED <<ov_pending, ov>>
      PROVE  ChannelInv'
  <2>1. n \in 1 .. len /\ n \in Nat /\ n <= Len(port)
    BY <1>1, <1>5 DEF Transferable
  <2>2. port' \in Seq(Byte)
    BY <1>5, <1>6, <2>1, PortRest
  <2>3. buf' \in Buffers /\ \A k \in 0 .. BUF_SIZE - 1 :
           buf'[k] = IF k >= addr /\ k < addr + n THEN port[k - addr + 1]
                     ELSE b[k]
    BY <1>2, <1>5, <1>6, <2>1, StoredBuffer
  <2>4. pending_events' = {"IN"} /\ pc' = "dispatch"
    BY <1>4, <1>5, <1>6, <2>1 DEF Announce
  <2>5. TypeData'
    <3>1. /\ cur' \in 0 .. BUF_SIZE /\ pending' \in 0 .. BUF_SIZE
          /\ cur' + pending' <= BUF_SIZE
      BY <1>1, <1>3, <1>5, <1>6, <2>1
    <3>2. UNCHANGED <<sent, ov, size, fed>>
      BY <1>3, <1>6
    <3>3. buf' \in Buffers
      BY <2>3
    <3> HIDE DEF Answers, addr
    <3>4. QED
      BY <2>2, <2>4, <3>1, <3>2, <3>3 DEF ChannelInv, TypeData
  <2>6. OneRead' /\ Turns' /\ Completed' = 0
    BY <1>3, <1>4, <1>6, <2>4 DEF OneRead, Turns, Completed
  <2>7. DataSent'
    <3>1. Len(port) \in Nat /\ \A k \in 1 .. Len(port) : port[k] \in Byte
      BY <1>5, ElementOfSeq, LenProperties
    <3>2. ASSUME NEW k \in c .. c + pending + n - 1 PROVE buf'[k] \in Byte
      <4>1. k \in 0 .. BUF_SIZE - 1
        BY <1>1, <1>5, <2>1
      <4>2. CASE k < addr
        BY <1>2, <1>5, <2>3, <4>1, <4>2
      <4>3. CASE k >= addr
        <5>1. k - addr + 1 \in 1 .. Len(port) /\ k < addr + n
          BY <1>5, <2>1, <3>1, <4>3
        <5>2. QED
          BY <2>3, <3>1, <4>1, <4>3, <5>1
      <4>4. QED
        BY <1>5, <4>2, <4>3
    <3>3. QED
      BY <1>3, <1>6, <2>6, <3>2, <1>5, <2>1 DEF DataSent
  <2>8. QED
    BY <2>5, <2>6, <2>7 DEF ChannelInv
<1>7. ASSUME buf' = b, ov_pending' = TRUE, ov' = Submitted(addr, len),
             Announce({}, pending), UNCHANGED <<port, pending>>
      PROVE  ChannelInv'
  <2>1. /\ ov'.status = "waiting" /\ ov'.addr = addr /\ ov'.len = len
        /\ ov' \in [status : {"none", "waiting", "done", "eof", "result"},
                    addr : 0 .. BUF_SIZE, len : 0 .. BUF_SIZE,
                    count : 0 .. BUF_SIZE]
    BY <1>1, <1>5, <1>7 DEF Submitted
  <2>2. /\ pending_events' = IF pending > 0 THEN {"IN"} ELSE {}
        /\ pc' = IF pending > 0 THEN "dispatch" ELSE "poll"
    BY <1>4, <1>7 DEF Announce
  <2>3. TypeData'
    BY <1>1, <1>2, <1>3, <1>5, <1>7, <2>1, <2>2 DEF ChannelInv, TypeData
  <2>4. ov_pending' <=> ov'.status # "none"
    BY <1>7, <2>1
  <2>5. OneRead' /\ Turns' /\ Completed' = 0
    <3>1. Turns' /\ Completed' = 0
      BY <2>1, <2>2 DEF Turns, Completed
    <3>2. /\ ov'.addr = cur' + pending' /\ ov'.addr + ov'.len <= BUF_SIZE
      BY <1>1, <1>3, <1>5, <1>7, <2>1
    <3>3. QED
      BY <2>1, <2>4, <3>1, <3>2, Zenon DEF OneRead
  <2>6. DataSent'
    BY <1>2, <1>3, <1>5, <1>7, <2>5 DEF DataSent
  <2>7. QED
    BY <2>3, <2>5, <2>6 DEF ChannelInv
<1>8. ASSUME buf' = b, Announce({"ERR"}, pending),
             UNCHANGED <<port, pending, ov_pending, ov>>
      PROVE  ChannelInv'
  <2>1. /\ pending_events' \subseteq {"IN", "ERR"} /\ pc' = "dispatch"
    BY <1>4, <1>8 DEF Announce
  <2>2. TypeData'
    BY <1>1, <1>2, <1>3, <1>5, <1>8, <2>1 DEF ChannelInv, TypeData
  <2>3. OneRead' /\ Turns' /\ Completed' = 0
    BY <1>3, <1>4, <1>8, <2>1 DEF OneRead, Turns, Completed
  <2>4. DataSent'
    BY <1>2, <1>3, <1>5, <1>8, <2>3 DEF DataSent
  <2>5. QED
    BY <2>2, <2>3, <2>4 DEF ChannelInv
<1>9. QED
  BY <1>3, <1>6, <1>7, <1>8
\* What ga_channel_check makes of the read it finds: data are added to those
\* that are pending, an error or EOF is an event, anything else is none.
LEMMA CheckCases ==
    ASSUME ChannelInv, ga_channel_check
    PROVE  /\ pc = "poll" /\ pending_events = {} /\ ov.status # "none"
           /\ UNCHANGED <<sent, port, buf, cur, size, fed>>
           /\ \/ /\ ov.status = "done" /\ pending' = pending + ov.count
                 /\ ov' = NoRead /\ ov_pending' = FALSE
                 /\ pending_events' = {"IN"} /\ pc' = "dispatch"
              \/ /\ ov.status \in {"eof", "result"} /\ pending' = pending
                 /\ ov' = NoRead /\ ov_pending' = FALSE
                 /\ pending_events' = (IF ov.status = "eof" THEN {"HUP"}
                                       ELSE {"ERR"})
                 /\ pc' = "dispatch"
              \/ /\ ov.status = "waiting" /\ UNCHANGED <<pending, ov>>
                 /\ ov_pending' = ov_pending
                 /\ pending_events' = {} /\ pc' = "prepare"
<1> DEFINE events == CASE ov.status = "done" -> {"IN"}
                       [] ov.status = "eof" -> {"HUP"}
                       [] ov.status = "result" -> {"ERR"}
                       [] OTHER -> {}
<1>1. /\ pc = "poll"
      /\ pending' = IF ov.status = "done" THEN pending + ov.count ELSE pending
      /\ ov_pending' = StillOutstanding(events)
      /\ ov' = IF events # {} /\ ~ov_pending' THEN NoRead ELSE ov
      /\ pending_events' = pending_events \cup events
      /\ pc' = IF pending_events' # {} THEN "dispatch" ELSE "prepare"
      /\ UNCHANGED <<sent, port, buf, cur, size, fed>>
  BY Zenon DEF ga_channel_check
<1>2. pending_events = {} /\ ov.status \in {"waiting", "done", "eof", "result"}
  BY <1>1 DEF ChannelInv, TypeData, Turns
<1>3. events = IF ov.status = "done" THEN {"IN"}
               ELSE IF ov.status = "eof" THEN {"HUP"}
               ELSE IF ov.status = "result" THEN {"ERR"} ELSE {}
  BY <1>2
<1> HIDE DEF events
<1>4. events # {} => ov_pending' = FALSE /\ ov' = NoRead /\ pc' = "dispatch"
  <2>1. events # {} => ov_pending' = FALSE
    BY <1>1, Zenon DEF StillOutstanding
  <2>2. pending_events' = events
    BY <1>1, <1>2
  <2>3. QED
    BY <1>1, <2>1, <2>2, Zenon
<1>5. events = {} => ov_pending' = ov_pending /\ ov' = ov /\ pc' = "prepare"
  <2>1. events = {} => ov_pending' = ov_pending
    BY <1>1, Zenon DEF StillOutstanding
  <2>2. pending_events' = events
    BY <1>1, <1>2
  <2>3. QED
    BY <1>1, <2>1, <2>2, Zenon
<1>6. pending_events' = events
  BY <1>1, <1>2
<1>7. CASE ov.status = "done"
  <2>1. events = {"IN"} /\ events # {} /\ pending' = pending + ov.count
    BY <1>1, <1>3, <1>7
  <2>2. QED
    BY <1>1, <1>2, <1>4, <1>6, <1>7, <2>1, Zenon
<1>8. CASE ov.status \in {"eof", "result"}
  <2>1. /\ events = (IF ov.status = "eof" THEN {"HUP"} ELSE {"ERR"})
        /\ events # {} /\ pending' = pending /\ ov.status # "none"
    BY <1>1, <1>3, <1>8
  <2>2. QED
    BY <1>1, <1>2, <1>4, <1>6, <1>8, <2>1, Zenon
<1>9. CASE ov.status = "waiting"
  <2>1. events = {} /\ pending' = pending /\ ov.status # "none"
    BY <1>1, <1>3, <1>9
  <2>2. QED
    BY <1>1, <1>2, <1>5, <1>6, <1>9, <2>1, Zenon
<1>10. QED
  BY <1>2, <1>7, <1>8, <1>9

\* Taking the result of a read leaves what the driver may write clear.
LEMMA Invga_channel_check == ChannelInv /\ ga_channel_check => ChannelInv'
<1> SUFFICES ASSUME ChannelInv, ga_channel_check PROVE ChannelInv'
  OBVIOUS
<1>1. UNCHANGED <<sent, port, buf, cur, size, fed>> /\ ov.status # "none"
  BY CheckCases
<1>2. NoRead \in [status : {"none", "waiting", "done", "eof", "result"},
                  addr : 0 .. BUF_SIZE, len : 0 .. BUF_SIZE,
                  count : 0 .. BUF_SIZE] /\ NoRead.status = "none"
  BY ConstantsAssumption DEF NoRead
<1>3. CASE /\ ov.status = "done" /\ pending' = pending + ov.count
           /\ ov' = NoRead /\ ov_pending' = FALSE
           /\ pending_events' = {"IN"} /\ pc' = "dispatch"
  <2>1. TypeData'
    <3>1. pending' \in 0 .. BUF_SIZE /\ cur + pending' <= BUF_SIZE
      <4>1. /\ ov.count \in 1 .. ov.len /\ ov.addr = cur + pending
            /\ ov.addr + ov.len <= BUF_SIZE
        BY <1>3 DEF ChannelInv, OneRead
      <4>2. /\ cur \in Nat /\ pending \in Nat /\ ov.len \in Nat
            /\ BUF_SIZE \in Nat
        BY ConstantsAssumption DEF ChannelInv, TypeData
      <4> QED
        BY <1>3, <4>1, <4>2
    <3>2. ov' \in [status : {"none", "waiting", "done", "eof", "result"},
                   addr : 0 .. BUF_SIZE, len : 0 .. BUF_SIZE,
                   count : 0 .. BUF_SIZE]
      BY <1>2, <1>3, Zenon
    <3>3. pending_events' = {"IN"} /\ pc' = "dispatch"
      BY <1>3
    <3>4. QED
      BY <1>1, <3>1, <3>2, <3>3 DEF ChannelInv, TypeData
  <2>2. OneRead' /\ Completed' = 0 /\ Completed = ov.count
    BY <1>2, <1>3, Zenon DEF OneRead, Completed
  <2>3. DataSent' /\ Turns'
    BY <1>1, <1>3, <2>2, ConstantsAssumption
    DEF ChannelInv, DataSent, Turns, TypeData
  <2>4. QED
    BY <2>1, <2>2, <2>3 DEF ChannelInv
<1>4. CASE /\ ov.status \in {"eof", "result"} /\ pending' = pending
           /\ ov' = NoRead /\ ov_pending' = FALSE
           /\ pending_events' = (IF ov.status = "eof" THEN {"HUP"}
                                 ELSE {"ERR"})
           /\ pc' = "dispatch"
  <2>1. TypeData'
    BY <1>1, <1>2, <1>4 DEF ChannelInv, TypeData
  <2>2. OneRead' /\ Completed' = 0 /\ Completed = 0
    BY <1>2, <1>4 DEF OneRead, Completed
  <2>3. DataSent' /\ Turns'
    BY <1>1, <1>4, <2>2 DEF ChannelInv, DataSent, Turns
  <2>4. QED
    BY <2>1, <2>2, <2>3 DEF ChannelInv
<1>5. CASE /\ ov.status = "waiting" /\ UNCHANGED <<pending, ov>>
           /\ ov_pending' = ov_pending
           /\ pending_events' = {} /\ pc' = "prepare"
  BY <1>1, <1>5
  DEF ChannelInv, TypeData, OneRead, DataSent, Completed, Turns
<1>6. QED
  BY <1>3, <1>4, <1>5, CheckCases, Zenon

\* A piece of the buffer as a sequence.
LEMMA Window ==
    ASSUME NEW b, NEW c \in Nat, NEW n \in Nat,
           \A k \in c .. c + n - 1 : b[k] \in Byte
    PROVE  LET w == [i \in 1 .. n |-> b[c + i - 1]] IN
           /\ w \in Seq(Byte) /\ Len(w) = n
           /\ \A i \in 1 .. n : w[i] = b[c + i - 1]
<1> DEFINE w == [i \in 1 .. n |-> b[c + i - 1]]
<1>1. w \in [1 .. n -> Byte]
  OBVIOUS
<1>2. w \in Seq(Byte)
  BY <1>1, SeqDef
<1>3. DOMAIN w = 1 .. n
  OBVIOUS
<1>4. Len(w) = n
  BY <1>2, <1>3, LenProperties
<1>5. QED
  BY <1>2, <1>4

\* The callback takes some of the data and leaves the rest where it is.
LEMMA Invga_channel_dispatch ==
    ChannelInv /\ ga_channel_dispatch => ChannelInv'
<1> SUFFICES ASSUME ChannelInv, ga_channel_dispatch PROVE ChannelInv'
  OBVIOUS
<1> USE ConstantsAssumption DEF ChannelInv, TypeData
<1>1. pc = "dispatch" /\ UNCHANGED <<sent, port, buf, ov_pending, ov, size>>
  BY DEF ga_channel_dispatch
<1>2. CASE "ERR" \in pending_events
  <2>1. pc' = "removed" /\ UNCHANGED <<cur, pending, pending_events, fed>>
    BY <1>2 DEF ga_channel_dispatch
  <2>2. QED
    BY <1>1, <2>1 DEF OneRead, DataSent, Completed, Turns
<1>3. CASE "ERR" \notin pending_events
  <2>1. /\ fed' = fed \o [i \in 1 .. ToRead |-> buf[cur + i - 1]]
        /\ cur' = cur + ToRead /\ pending' = pending - ToRead
        /\ pending_events' = IF pending' = 0
                             THEN pending_events \ {"HUP", "IN"} ELSE {}
        /\ pc' = "prepare"
    BY <1>3 DEF ga_channel_dispatch, Advance
  <2>2. ToRead \in 0 .. pending /\ ToRead \in Nat
    BY DEF ToRead
  <2>3. \A k \in cur .. cur + ToRead - 1 : buf[k] \in Byte
    BY <2>2 DEF DataSent, Completed, OneRead
  <2>4. [i \in 1 .. ToRead |-> buf[cur + i - 1]] \in Seq(Byte)
    BY <2>2, <2>3, Window
  <2>5. fed' \in Seq(Byte)
    BY <2>1, <2>4, ConcatProperties
  <2>6. pending_events' = {}
    BY <1>3, <2>1
  <2>7. TypeData'
    <3>1. /\ cur' \in 0 .. BUF_SIZE /\ pending' \in 0 .. BUF_SIZE
          /\ cur' + pending' <= BUF_SIZE
      BY <2>1, <2>2
    <3> QED
      BY <1>1, <2>1, <2>5, <2>6, <3>1
  <2>8. OneRead' /\ Turns'
    <3>1. cur' + pending' = cur + pending
      BY <2>1, <2>2
    <3> QED
      BY <1>1, <2>1, <2>6, <3>1 DEF OneRead, Turns
  <2>9. DataSent'
    <3>1. Completed' = Completed /\ Completed \in Nat
      BY <1>1 DEF Completed
    <3>2. QED
      BY <1>1, <2>1, <2>2, <3>1 DEF DataSent
  <2>10. QED
    BY <2>7, <2>8, <2>9
<1>4. QED
  BY <1>2, <1>3
\* A channel that has just been opened satisfies the invariant.
LEMMA ChannelInvInit == Init => TypeFlag /\ ChannelInv
<1> SUFFICES ASSUME Init PROVE TypeFlag /\ ChannelInv
  OBVIOUS
<1>1. TypeFlag
  BY Zenon DEF Init, TypeFlag
<1>2. buf \in Buffers
  BY DEF Init, Buffers
<1>3. port \in Seq(Byte) /\ fed \in Seq(Byte)
  BY EmptySeq DEF Init
<1>4. TypeData
  BY <1>2, <1>3, ConstantsAssumption DEF Init, TypeData, NoRead
<1>5. OneRead /\ DataSent /\ Turns
  BY DEF Init, OneRead, DataSent, Turns, Completed, NoRead
<1>6. QED
  BY <1>1, <1>4, <1>5 DEF ChannelInv

\* Every step of the host, the driver and the source preserves it.
LEMMA ChannelInvStep == ChannelInv /\ [Next]_vars => ChannelInv'
<1> SUFFICES ASSUME ChannelInv, [Next]_vars PROVE ChannelInv'
  OBVIOUS
<1>1. CASE UNCHANGED vars
  BY <1>1 DEF vars, ChannelInv, TypeData, OneRead, DataSent, Completed, Turns
<1>2. QED
  BY <1>1, InvHostSends, InvDriverCompletes, InvDriverFails, InvPrepareNoRead,
     InvPrepareRead, Invga_channel_check, Invga_channel_dispatch
  DEF Next, ga_channel_prepare

\* The inductive invariant holds in every reachable state.
LEMMA ChannelInvCorrect == Spec => [](TypeFlag /\ ChannelInv)
BY ChannelInvInit, FlagStep, ChannelInvStep, PTL DEF Spec

\* Every reachable state is well typed, and the data lie inside the buffer, so
\* that ga_channel_prepare's unsigned difference does not wrap around.
THEOREM TypeCorrect == Spec => []TypeOK
<1>1. TypeFlag /\ ChannelInv => TypeOK
  BY Zenon DEF TypeOK, TypeFlag, ChannelInv, TypeData, Buffers
<1>2. QED
  BY <1>1, ChannelInvCorrect, PTL

\* ga_channel_check's assertion never fails: glib polls only with a read
\* outstanding.
THEOREM PollAlwaysHasRead == Spec => []PollHasRead
<1>1. ChannelInv => PollHasRead
  BY Zenon DEF ChannelInv, OneRead, Turns, PollHasRead
<1>2. QED
  BY <1>1, ChannelInvCorrect, PTL

\* What the driver may write lies inside the buffer and behind the data.
THEOREM DriverNeverOverruns == Spec => []NoOverrun
<1>1. ChannelInv => NoOverrun
  BY Zenon DEF ChannelInv, OneRead, NoOverrun
<1>2. QED
  BY <1>1, ChannelInvCorrect, PTL
-----------------------------------------------------------------------------
(* The refinement. *)

\* The bytes that the parser has not been fed: those in the buffer, then those
\* in the port.
UnreadIs ==
    /\ pending \in Nat /\ Completed \in Nat /\ Len(port) \in Nat
    /\ Unread \in Seq(Byte) /\ Len(Unread) = pending + Completed + Len(port)
    /\ \A i \in 1 .. pending + Completed + Len(port) :
          Unread[i] = IF i <= pending + Completed THEN buf[cur + i - 1]
                      ELSE port[i - (pending + Completed)]

\* The refinement mapping says so of every state.
LEMMA UnreadShape == ChannelInv => UnreadIs
<1> SUFFICES ASSUME ChannelInv PROVE UnreadIs
  OBVIOUS
<1> DEFINE n == pending + Completed
           w == [i \in 1 .. n |-> buf[cur + i - 1]]
<1>1. /\ n \in Nat /\ cur \in Nat /\ port \in Seq(Byte) /\ pending \in Nat
      /\ Completed \in Nat
  BY ConstantsAssumption DEF ChannelInv, TypeData, Completed
<1>2. \A k \in cur .. cur + n - 1 : buf[k] \in Byte
  BY <1>1 DEF ChannelInv, TypeData, DataSent, Completed
<1>3. Unread = w \o port
  BY DEF Unread
<1> HIDE DEF n
<1>4. /\ w \in Seq(Byte) /\ Len(w) = n
      /\ \A i \in 1 .. n : w[i] = buf[cur + i - 1]
  BY <1>1, <1>2, Window
<1> HIDE DEF w
<1>5. /\ w \o port \in Seq(Byte) /\ Len(w \o port) = Len(w) + Len(port)
      /\ \A i \in 1 .. Len(w) + Len(port) :
            (w \o port)[i] = IF i <= Len(w) THEN w[i] ELSE port[i - Len(w)]
  BY <1>1, <1>4, ConcatProperties
<1>6. Len(port) \in Nat
  BY <1>1, LenProperties
<1>7. \A i \in 1 .. n + Len(port) :
         Unread[i] = IF i <= n THEN buf[cur + i - 1] ELSE port[i - n]
  BY <1>1, <1>3, <1>4, <1>5, <1>6
<1>8. QED
  BY <1>1, <1>3, <1>4, <1>5, <1>6, <1>7 DEF n, UnreadIs

\* It says so of the state after a step, too.
LEMMA UnreadShapeNext == ChannelInv' => UnreadIs'
BY UnreadShape, PTL

\* Two states with the same number of bytes, and the same bytes, have the same
\* sequence.
LEMMA SameUnread ==
    ASSUME UnreadIs, UnreadIs',
           Len(Unread') = Len(Unread),
           \A i \in 1 .. Len(Unread) : Unread'[i] = Unread[i]
    PROVE  Unread' = Unread
<1>1. Unread \in Seq(Byte) /\ Unread' \in Seq(Byte)
  BY DEF UnreadIs
<1>2. QED
  BY <1>1, SeqEqual
\* What the host sends is put on the wire.
LEMMA RefHostSends ==
    ASSUME ChannelInv, ChannelInv', HostSends
    PROVE  /\ sent + 1 \in Byte /\ Stream!Send(sent + 1)
           /\ Unread' = Append(Unread, sent + 1)
<1>1. /\ UNCHANGED <<buf, cur, pending, ov, pending_events, pc, fed>>
      /\ port' = Append(port, sent + 1) /\ Completed' = Completed
  BY DEF HostSends, readState, Completed
<1>2. sent + 1 \in Byte /\ port \in Seq(Byte)
  BY ConstantsAssumption DEF HostSends, ChannelInv, TypeData, Byte
<1>3. UnreadIs /\ UnreadIs'
  BY UnreadShape, UnreadShapeNext
<1>4. /\ Len(port') = Len(port) + 1
      /\ \A k \in 1 .. Len(port) : port'[k] = port[k]
      /\ port'[Len(port) + 1] = sent + 1
  BY <1>1, <1>2, AppendProperties
<1> DEFINE t == Append(Unread, sent + 1)
<1>5. /\ t \in Seq(Byte) /\ Len(t) = Len(Unread) + 1
      /\ \A k \in 1 .. Len(Unread) : t[k] = Unread[k]
      /\ t[Len(Unread) + 1] = sent + 1
  <2>1. Unread \in Seq(Byte)
    BY <1>3 DEF UnreadIs
  <2>2. QED
    BY <1>2, <2>1, AppendProperties
<1> HIDE DEF t
<1>6. Len(Unread') = Len(t) /\ Unread' \in Seq(Byte) /\ Len(t) \in Nat
  BY <1>1, <1>3, <1>4, <1>5 DEF UnreadIs
<1>7. ASSUME NEW k \in 1 .. Len(t) PROVE Unread'[k] = t[k]
  BY <1>1, <1>3, <1>4, <1>5, <1>6 DEF UnreadIs
<1>8. Unread' = t
  BY <1>5, <1>6, <1>7, SeqEqual
<1>9. Stream!Send(sent + 1)
  BY <1>1, <1>8 DEF Stream!Send, t
<1>10. QED
  BY <1>2, <1>8, <1>9 DEF t

\* A completed read only moves bytes from the port to the buffer.
LEMMA RefDriverCompletes ==
    ASSUME ChannelInv, ChannelInv', DriverCompletes
    PROVE  UNCHANGED Stream!streamVars
<1>1. PICK n \in Transferable(ov.len) :
         /\ buf' = Stored(buf, ov.addr, n)
         /\ port' = SubSeq(port, n + 1, Len(port))
         /\ ov' = Answered("done", n)
  BY DEF DriverCompletes
<1>2. /\ ov.status = "waiting"
      /\ UNCHANGED <<cur, pending, pending_events, pc, fed>>
  BY DEF DriverCompletes
<1>3. /\ cur \in Nat /\ pending \in Nat /\ BUF_SIZE \in Nat
      /\ port \in Seq(Byte) /\ buf \in Buffers
      /\ ov.addr = cur + pending /\ ov.addr + ov.len <= BUF_SIZE
      /\ ov.len \in Nat /\ ov.addr \in Nat
  BY <1>2, ConstantsAssumption DEF ChannelInv, TypeData, OneRead
<1>4. n \in 1 .. ov.len /\ n \in Nat /\ n <= Len(port)
  BY <1>3 DEF Transferable
<1>5. Completed = 0 /\ Completed' = n
  BY <1>1, <1>2 DEF Completed, Answered
<1>6. \A k \in 0 .. BUF_SIZE - 1 :
         buf'[k] = IF k >= ov.addr /\ k < ov.addr + n
                   THEN port[k - ov.addr + 1] ELSE buf[k]
  <2>1. buf \in Buffers /\ ov.addr \in Nat /\ port \in Seq(Byte)
    BY <1>3 DEF ChannelInv, TypeData
  <2>2. \A k \in 0 .. BUF_SIZE - 1 : Stored(buf, ov.addr, n)[k] =
           IF k >= ov.addr /\ k < ov.addr + n
           THEN port[k - ov.addr + 1] ELSE buf[k]
    BY <1>4, <2>1, StoredBuffer, Zenon
  <2> QED
    BY <1>1, <2>2, Zenon
<1>7. /\ Len(port') = Len(port) - n
      /\ \A k \in 1 .. Len(port) - n : port'[k] = port[n + k]
  BY <1>1, <1>3, <1>4, PortRest
<1>8. UnreadIs /\ UnreadIs'
  BY UnreadShape, UnreadShapeNext
<1>9. /\ Len(port) \in Nat /\ Len(Unread) = pending + Len(port)
      /\ Len(Unread') = Len(Unread)
  <2>1. /\ Len(Unread) = pending + Completed + Len(port)
        /\ Len(Unread') = pending' + Completed' + Len(port')
        /\ pending \in Nat /\ Len(port) \in Nat
    BY <1>8, Zenon DEF UnreadIs
  <2>2. pending' = pending
    BY <1>2
  <2> QED
    BY <1>4, <1>5, <1>7, <2>1, <2>2
<1>10. ASSUME NEW k \in 1 .. Len(Unread) PROVE Unread'[k] = Unread[k]
  <2>1. Unread[k] = IF k <= pending THEN buf[cur + k - 1]
                    ELSE port[k - pending]
    <3>1. pending + Completed = pending
      BY <1>3, <1>5
    <3>2. Unread[k] = IF k <= pending + Completed THEN buf[cur + k - 1]
                      ELSE port[k - (pending + Completed)]
      BY <1>8, <1>10, Zenon DEF UnreadIs
    <3> QED
      BY <3>1, <3>2, Zenon
  <2>2. Unread'[k] = IF k <= pending + n THEN buf'[cur + k - 1]
                     ELSE port'[k - (pending + n)]
    BY <1>2, <1>5, <1>8, <1>9 DEF UnreadIs
  <2>3. CASE k <= pending
    <3> DEFINE j == cur + k - 1
    <3>1. j \in 0 .. BUF_SIZE - 1 /\ j < ov.addr
      BY <1>3, <1>4, <1>9, <2>3
    <3> HIDE DEF j
    <3>2. buf'[j] = buf[j]
      BY <1>3, <1>6, <3>1
    <3>3. QED
      BY <1>3, <1>4, <1>9, <2>1, <2>2, <2>3, <3>2 DEF j
  <2>4. CASE k > pending /\ k <= pending + n
    <3> DEFINE j == cur + k - 1
    <3>1. /\ j \in 0 .. BUF_SIZE - 1 /\ j >= ov.addr /\ j < ov.addr + n
          /\ j - ov.addr + 1 = k - pending
      BY <1>3, <1>4, <1>9, <2>4
    <3> HIDE DEF j
    <3>2. buf'[j] = port[k - pending]
      BY <1>6, <3>1
    <3>3. QED
      BY <1>3, <1>4, <1>9, <2>1, <2>2, <2>4, <3>2 DEF j
  <2>5. CASE k > pending + n
    <3>1. /\ k - (pending + n) \in 1 .. Len(port) - n
          /\ n + (k - (pending + n)) = k - pending
      BY <1>3, <1>4, <1>9, <2>5
    <3>2. port'[k - (pending + n)] = port[k - pending]
      BY <1>7, <3>1
    <3>3. QED
      BY <1>3, <1>4, <1>9, <2>1, <2>2, <2>5, <3>2
  <2>6. QED
    BY <1>3, <1>4, <1>9, <2>3, <2>4, <2>5
<1>11. Unread' = Unread
  BY <1>8, <1>9, <1>10, SameUnread
<1>12. QED
  BY <1>2, <1>11 DEF Stream!streamVars
\* A failed read delivers nothing.
LEMMA RefDriverFails ==
    ASSUME DriverFails
    PROVE  UNCHANGED Stream!streamVars
<1>1. Completed = 0 /\ Completed' = 0
  BY DEF DriverFails, Completed, Answered
<1>2. UNCHANGED <<buf, cur, pending, port, pending_events, pc, fed>>
  BY DEF DriverFails, readState
<1>3. Unread' = Unread
  BY <1>1, <1>2 DEF Unread
<1>4. QED
  BY <1>2, <1>3 DEF Stream!streamVars

\* Moving the data in the buffer does not change what is to be read.
LEMMA MovedUnread ==
    ASSUME UnreadIs, UnreadIs', UNCHANGED <<pending, port>>, cur \in Nat,
           cur' \in Nat, Completed = 0, Completed' = 0,
           \A k \in 0 .. pending - 1 : buf'[cur' + k] = buf[cur + k]
    PROVE  Unread' = Unread
<1>1. /\ pending \in Nat /\ Len(port) \in Nat
      /\ Len(Unread) = pending + Len(port) /\ Len(Unread') = Len(Unread)
  BY DEF UnreadIs
<1>2. ASSUME NEW k \in 1 .. Len(Unread) PROVE Unread'[k] = Unread[k]
  <2>1. Unread[k] = IF k <= pending THEN buf[cur + k - 1]
                    ELSE port[k - pending]
    BY <1>1 DEF UnreadIs
  <2>2. Unread'[k] = IF k <= pending THEN buf'[cur' + k - 1]
                     ELSE port[k - pending]
    BY <1>1 DEF UnreadIs
  <2>3. k <= pending => buf'[cur' + (k - 1)] = buf[cur + (k - 1)]
    BY <1>1
  <2>4. cur + k - 1 = cur + (k - 1) /\ cur' + k - 1 = cur' + (k - 1)
    BY <1>1
  <2>5. QED
    BY <2>1, <2>2, <2>3, <2>4
<1>3. QED
  BY <1>1, <1>2, SameUnread

\* A turn without a new read.
LEMMA RefPrepareNoRead ==
    ASSUME ChannelInv, ChannelInv', PrepareNoRead
    PROVE  UNCHANGED Stream!streamVars
<1> DEFINE c == CompactTo(cur, pending, ov_pending)
           b == Moved(buf, cur, pending, c)
<1>1. c \in 0 .. BUF_SIZE /\ (ov_pending => c = cur)
  BY Room DEF ChannelInv
<1>2. /\ \A k \in 0 .. pending - 1 : b[c + k] = buf[cur + k]
      /\ ov_pending => b = buf
  BY Compacted
<1>3. /\ pc = "prepare" /\ buf' = b /\ cur' = c /\ Announce({}, pending)
      /\ UNCHANGED <<port, pending, ov, fed>>
  BY DEF PrepareNoRead
<1> HIDE DEF c, b
<1>4. pending_events = {} /\ cur \in Nat /\ cur' \in Nat
  BY <1>1, <1>3, ConstantsAssumption DEF ChannelInv, TypeData, Turns
<1>5. pc' # "removed" /\ "ERR" \notin pending_events'
  BY <1>3, <1>4 DEF Announce
<1>6. Unread' = Unread
  <2>1. CASE ov_pending
    <3>1. buf' = buf /\ cur' = cur /\ Completed' = Completed
      BY <1>1, <1>2, <1>3, <2>1 DEF Completed
    <3>2. QED
      BY <1>3, <3>1 DEF Unread
  <2>2. CASE ~ov_pending
    <3>1. Completed = 0 /\ Completed' = 0
      BY <1>3, <2>2 DEF ChannelInv, OneRead, Completed
    <3>2. QED
      BY <1>2, <1>3, <1>4, <3>1, MovedUnread, UnreadShape, UnreadShapeNext
  <2>3. QED
    BY <2>1, <2>2
<1>7. QED
  BY <1>3, <1>4, <1>5, <1>6 DEF Stream!streamVars
\* A turn that submits a read: bytes move to the buffer, or nothing happens,
\* or the channel fails.
LEMMA RefPrepareRead ==
    ASSUME ChannelInv, ChannelInv', PrepareRead
    PROVE  Stream!Fail \/ UNCHANGED Stream!streamVars
<1> DEFINE c == CompactTo(cur, pending, ov_pending)
           b == Moved(buf, cur, pending, c)
           len == CountToRead(c, pending)
           addr == c + pending
           Answers ==
             \/ \E n \in Transferable(len) :
                   /\ buf' = Stored(b, addr, n)
                   /\ port' = SubSeq(port, n + 1, Len(port))
                   /\ pending' = pending + n /\ Announce({}, pending + n)
                   /\ UNCHANGED <<ov_pending, ov>>
             \/ /\ buf' = b /\ ov_pending' = TRUE
                /\ ov' = Submitted(addr, len)
                /\ Announce({}, pending) /\ UNCHANGED <<port, pending>>
             \/ /\ buf' = b /\ Announce({"ERR"}, pending)
                /\ UNCHANGED <<port, pending, ov_pending, ov>>
<1>1. /\ c \in 0 .. BUF_SIZE /\ c + pending <= BUF_SIZE
      /\ len = BUF_SIZE - c - pending
  BY Room DEF ChannelInv
<1>2. /\ b \in Buffers
      /\ \A k \in 0 .. pending - 1 : b[c + k] = buf[cur + k]
  BY Compacted
<1>3. /\ pc = "prepare" /\ ~ov_pending /\ cur' = c
      /\ Answers /\ UNCHANGED fed
  BY DEF PrepareRead
<1> HIDE DEF c, b, len, Answers
<1>4. pending_events = {} /\ ov.status = "none" /\ Completed = 0
  BY <1>3 DEF ChannelInv, Turns, OneRead, Completed
<1>5. /\ BUF_SIZE \in Nat /\ pending \in Nat /\ port \in Seq(Byte)
      /\ addr \in Nat /\ c \in Nat /\ cur \in Nat
  BY <1>1, ConstantsAssumption DEF ChannelInv, TypeData
<1>6. UnreadIs /\ UnreadIs'
  BY UnreadShape, UnreadShapeNext
<1>7. ASSUME NEW n \in Transferable(len),
             buf' = Stored(b, addr, n),
             port' = SubSeq(port, n + 1, Len(port)),
             pending' = pending + n, Announce({}, pending + n),
             UNCHANGED <<ov_pending, ov>>
      PROVE  UNCHANGED Stream!streamVars
  <2>1. n \in 1 .. len /\ n \in Nat /\ n <= Len(port)
    BY <1>1, <1>5, <1>7 DEF Transferable
  <2>2. /\ Len(port') = Len(port) - n
        /\ \A k \in 1 .. Len(port) - n : port'[k] = port[n + k]
    BY <1>5, <1>7, <2>1, PortRest
  <2>3. \A k \in 0 .. BUF_SIZE - 1 :
           buf'[k] = IF k >= addr /\ k < addr + n THEN port[k - addr + 1]
                     ELSE b[k]
    BY <1>2, <1>5, <1>7, <2>1, StoredBuffer
  <2>4. pc' # "removed" /\ "ERR" \notin pending_events' /\ Completed' = 0
    BY <1>4, <1>5, <1>7, <2>1 DEF Announce, Completed
  <2>5. /\ Len(port) \in Nat /\ Len(Unread) = pending + Len(port)
        /\ Len(Unread') = Len(Unread)
    <3>1. Len(port) \in Nat /\ Len(Unread) = pending + Len(port)
      BY <1>4, <1>5, <1>6 DEF UnreadIs
    <3>2. Len(Unread') = pending' + Len(port')
      BY <1>6, <2>4 DEF UnreadIs
    <3>3. QED
      BY <1>5, <1>7, <2>1, <2>2, <3>1, <3>2
  <2>6. ASSUME NEW k \in 1 .. Len(Unread) PROVE Unread'[k] = Unread[k]
    <3>1. Unread[k] = IF k <= pending THEN buf[cur + k - 1]
                      ELSE port[k - pending]
      <4>1. pending + Completed = pending
        BY <1>4, <1>5
      <4>2. Unread[k] = IF k <= pending + Completed THEN buf[cur + k - 1]
                        ELSE port[k - (pending + Completed)]
        BY <1>6, <2>6, Zenon DEF UnreadIs
      <4> QED
        BY <4>1, <4>2, Zenon
    <3>2. Unread'[k] = IF k <= pending + n THEN buf'[c + k - 1]
                       ELSE port'[k - (pending + n)]
      <4>1. /\ pending' + Completed' = pending + n /\ cur' = c
            /\ Len(Unread') = pending' + Completed' + Len(port')
            /\ k \in 1 .. Len(Unread')
        <5>1. Len(Unread') = pending' + Completed' + Len(port')
          BY <1>6 DEF UnreadIs
        <5>2. pending' + Completed' = pending + n
          BY <1>5, <1>7, <2>1, <2>4
        <5>3. k \in 1 .. Len(Unread')
          BY <2>5, <2>6
        <5>4. QED
          BY <1>3, <5>1, <5>2, <5>3
      <4>2. Unread'[k] = IF k <= pending' + Completed' THEN buf'[cur' + k - 1]
                         ELSE port'[k - (pending' + Completed')]
        BY <1>6, <4>1 DEF UnreadIs
      <4>3. QED
        BY <4>1, <4>2
    <3>3. CASE k <= pending
      <4> DEFINE j == c + k - 1
      <4>1. j \in 0 .. BUF_SIZE - 1 /\ j < addr /\ j = c + (k - 1)
        BY <1>1, <1>5, <2>5, <3>3
      <4>2. k - 1 \in 0 .. pending - 1 /\ cur + (k - 1) = cur + k - 1
        BY <1>5, <2>5, <3>3
      <4> HIDE DEF j
      <4>3. buf'[j] = b[j]
        <5>1. ~(j >= addr)
          BY <1>5, <4>1
        <5> QED
          BY <2>3, <4>1, <5>1, Zenon
      <4>4. b[j] = buf[cur + k - 1]
        BY <1>2, <4>1, <4>2
      <4>5. QED
        BY <1>5, <2>1, <2>5, <3>1, <3>2, <3>3, <4>3, <4>4 DEF j
    <3>4. CASE k > pending /\ k <= pending + n
      <4> DEFINE j == c + k - 1
      <4>1. /\ j \in 0 .. BUF_SIZE - 1 /\ j >= addr /\ j < addr + n
            /\ j - addr + 1 = k - pending
        BY <1>1, <1>5, <2>1, <2>5, <3>4
      <4> HIDE DEF j
      <4>2. buf'[j] = port[k - pending]
        BY <2>3, <4>1
      <4>3. QED
        BY <1>5, <2>1, <2>5, <3>1, <3>2, <3>4, <4>2 DEF j
    <3>5. CASE k > pending + n
      <4>1. /\ k - (pending + n) \in 1 .. Len(port) - n
            /\ n + (k - (pending + n)) = k - pending
        BY <1>5, <2>1, <2>5, <3>5
      <4>2. port'[k - (pending + n)] = port[k - pending]
        BY <2>2, <4>1
      <4>3. QED
        BY <1>5, <2>1, <2>5, <3>1, <3>2, <3>5, <4>2
    <3>6. QED
      BY <1>5, <2>1, <2>5, <3>3, <3>4, <3>5
  <2>7. Unread' = Unread
    BY <1>6, <2>5, <2>6, SameUnread
  <2>8. QED
    BY <1>3, <1>4, <2>4, <2>7 DEF Stream!streamVars
<1>8. ASSUME buf' = b, UNCHANGED <<port, pending>>, Completed' = 0
      PROVE  Unread' = Unread
  <2>1. \A k \in 0 .. pending - 1 : buf'[cur' + k] = buf[cur + k]
    BY <1>2, <1>3, <1>8
  <2>2. cur' \in Nat
    BY <1>3, <1>5
  <2>3. QED
    BY <1>4, <1>5, <1>6, <1>8, <2>1, <2>2, MovedUnread
<1>9. ASSUME buf' = b, ov_pending' = TRUE, ov' = Submitted(addr, len),
             Announce({}, pending), UNCHANGED <<port, pending>>
      PROVE  UNCHANGED Stream!streamVars
  <2>1. Completed' = 0
    BY <1>9 DEF Submitted, Completed
  <2>2. pc' # "removed" /\ "ERR" \notin pending_events'
    BY <1>4, <1>9 DEF Announce
  <2>3. Unread' = Unread
    BY <1>8, <1>9, <2>1
  <2>4. QED
    BY <1>3, <1>4, <2>2, <2>3 DEF Stream!streamVars
<1>10. ASSUME buf' = b, Announce({"ERR"}, pending),
              UNCHANGED <<port, pending, ov_pending, ov>>
       PROVE  Stream!Fail
  <2>1. Completed' = 0
    BY <1>4, <1>10 DEF Completed
  <2>2. "ERR" \in pending_events'
    BY <1>10 DEF Announce
  <2>3. Unread' = Unread
    BY <1>8, <1>10, <2>1
  <2>4. QED
    BY <1>3, <1>4, <2>2, <2>3 DEF Stream!Fail
<1>11. QED
  BY <1>3, <1>7, <1>9, <1>10 DEF Answers

\* Taking the result of a read moves no byte; an error fails the channel.
LEMMA Refga_channel_check ==
    ASSUME ChannelInv, ChannelInv', ga_channel_check
    PROVE  Stream!Fail \/ UNCHANGED Stream!streamVars
<1>1. /\ pc = "poll" /\ pending_events = {}
      /\ UNCHANGED <<port, buf, cur, fed>>
  BY CheckCases
<1>2. pending \in Nat /\ ov.count \in Nat
  BY ConstantsAssumption DEF ChannelInv, TypeData
<1>3. CASE /\ ov.status = "done" /\ pending' = pending + ov.count
           /\ ov' = NoRead /\ pending_events' = {"IN"} /\ pc' = "dispatch"
  <2>1. pending' + Completed' = pending + Completed
    BY <1>2, <1>3 DEF Completed, NoRead
  <2>2. Unread' = Unread
    BY <1>1, <2>1 DEF Unread
  <2>3. QED
    BY <1>1, <1>3, <2>2 DEF Stream!streamVars
<1>4. CASE /\ ov.status \in {"eof", "result"} /\ pending' = pending
           /\ ov' = NoRead
           /\ pending_events' = (IF ov.status = "eof" THEN {"HUP"}
                                 ELSE {"ERR"})
           /\ pc' = "dispatch"
  <2>1. pending' + Completed' = pending + Completed
    BY <1>2, <1>4 DEF Completed, NoRead
  <2>2. Unread' = Unread
    BY <1>1, <2>1 DEF Unread
  <2>3. CASE ov.status = "eof"
    BY <1>1, <1>4, <2>2, <2>3 DEF Stream!streamVars
  <2>4. CASE ov.status = "result"
    BY <1>1, <1>4, <2>2, <2>4 DEF Stream!Fail
  <2>5. QED
    BY <1>4, <2>3, <2>4
<1>5. CASE /\ ov.status = "waiting" /\ UNCHANGED <<pending, ov>>
           /\ pending_events' = {} /\ pc' = "prepare"
  <2>1. Unread' = Unread
    BY <1>1, <1>5 DEF Unread, Completed
  <2>2. QED
    BY <1>1, <1>5, <2>1 DEF Stream!streamVars
<1>6. QED
  BY <1>3, <1>4, <1>5, CheckCases, Zenon
\* The callback reads the first of the bytes that wait, or none.
LEMMA Refga_channel_dispatch ==
    ASSUME ChannelInv, ChannelInv', ga_channel_dispatch
    PROVE  Stream!Read \/ UNCHANGED Stream!streamVars
<1>1. pc = "dispatch" /\ UNCHANGED <<port, buf, ov>>
  BY DEF ga_channel_dispatch
<1>2. Completed' = Completed
  BY <1>1 DEF Completed
<1>3. CASE "ERR" \in pending_events
  <2>1. pc' = "removed" /\ UNCHANGED <<cur, pending, pending_events, fed>>
    BY <1>3 DEF ga_channel_dispatch
  <2>2. Unread' = Unread
    BY <1>1, <1>2, <2>1 DEF Unread
  <2>3. QED
    BY <1>1, <1>3, <2>1, <2>2 DEF Stream!streamVars
<1>4. CASE "ERR" \notin pending_events
  <2> DEFINE n == ToRead
             w == [i \in 1 .. n |-> buf[cur + i - 1]]
  <2>1. /\ fed' = fed \o w /\ cur' = cur + n /\ pending' = pending - n
        /\ pending_events' = IF pending' = 0
                             THEN pending_events \ {"HUP", "IN"} ELSE {}
        /\ pc' = "prepare"
    BY <1>4 DEF ga_channel_dispatch, Advance
  <2>2. /\ n \in 0 .. pending /\ n \in Nat /\ pending \in Nat /\ cur \in Nat
        /\ fed \in Seq(Byte)
    BY ConstantsAssumption DEF ToRead, ChannelInv, TypeData
  <2>3. pc' # "removed" /\ "ERR" \notin pending_events'
    BY <1>4, <2>1
  <2>4. UnreadIs /\ UnreadIs'
    BY UnreadShape, UnreadShapeNext
  <2> HIDE DEF n
  <2>5. \A k \in cur .. cur + n - 1 : buf[k] \in Byte
    <3>1. Completed \in Nat
      BY <2>4 DEF UnreadIs
    <3>2. QED
      BY <2>2, <3>1 DEF ChannelInv, DataSent
  <2>6. /\ w \in Seq(Byte) /\ Len(w) = n
        /\ \A i \in 1 .. n : w[i] = buf[cur + i - 1]
    BY <2>2, <2>5, Window
  <2> HIDE DEF w
  <2>7. /\ Len(Unread) \in Nat /\ Len(Unread') = Len(Unread) - n
        /\ Len(Unread) >= n /\ Completed \in Nat
    BY <1>1, <1>2, <2>1, <2>2, <2>4 DEF UnreadIs
  <2>8. ASSUME NEW i \in 1 .. n PROVE Unread[i] = buf[cur + i - 1]
    <3>1. /\ i \in 1 .. pending + Completed + Len(port)
          /\ i <= pending + Completed
      <4>1. Completed \in Nat /\ Len(port) \in Nat
        BY <2>4 DEF UnreadIs
      <4>2. QED
        BY <2>2, <4>1
    <3>2. QED
      BY <2>4, <3>1 DEF UnreadIs
  <2>9. \A i \in 1 .. Len(Unread) : Unread[i] \in Byte
    BY <2>4, ElementOfSeq DEF UnreadIs
  <2>10. w = SubSeq(Unread, 1, n)
    <3>1. /\ SubSeq(Unread, 1, n) \in Seq(Byte)
          /\ Len(SubSeq(Unread, 1, n)) = IF 1 <= n THEN n - 1 + 1 ELSE 0
          /\ \A i \in 1 .. n - 1 + 1 :
                SubSeq(Unread, 1, n)[i] = Unread[1 + i - 1]
      <4>1. \A i \in 1 .. n : Unread[i] \in Byte
        BY <2>2, <2>7, <2>9
      <4>2. QED
        BY <2>2, <4>1, SubSeqProperties
    <3>2. Len(SubSeq(Unread, 1, n)) = Len(w)
      BY <2>2, <2>6, <3>1
    <3>3. ASSUME NEW i \in 1 .. Len(w) PROVE SubSeq(Unread, 1, n)[i] = w[i]
      BY <2>2, <2>6, <2>8, <3>1
    <3>4. QED
      BY <2>6, <3>1, <3>2, <3>3, SeqEqual
  <2>11. Unread' = SubSeq(Unread, n + 1, Len(Unread))
    <3> DEFINE r == SubSeq(Unread, n + 1, Len(Unread))
    <3>1. /\ r \in Seq(Byte)
          /\ Len(r) = IF n + 1 <= Len(Unread)
                      THEN Len(Unread) - (n + 1) + 1 ELSE 0
          /\ \A i \in 1 .. Len(Unread) - (n + 1) + 1 :
                r[i] = Unread[n + 1 + i - 1]
      <4>1. \A i \in n + 1 .. Len(Unread) : Unread[i] \in Byte
        BY <2>2, <2>7, <2>9
      <4>2. n + 1 \in Int /\ Len(Unread) \in Int
        BY <2>2, <2>7
      <4>3. QED
        BY <4>1, <4>2, SubSeqProperties
    <3> HIDE DEF r
    <3>2. Unread' \in Seq(Byte) /\ Len(Unread') = Len(r)
      <4>1. Unread' \in Seq(Byte)
        BY <2>4 DEF UnreadIs
      <4>2. QED
        BY <2>2, <2>7, <3>1, <4>1
    <3>3. ASSUME NEW i \in 1 .. Len(Unread') PROVE Unread'[i] = r[i]
      <4>1. r[i] = Unread[n + i] /\ n + i \in 1 .. Len(Unread)
        BY <2>2, <2>7, <3>1
      <4>2. Unread[n + i] = IF n + i <= pending + Completed
                            THEN buf[cur + (n + i) - 1]
                            ELSE port[(n + i) - (pending + Completed)]
        BY <2>4, <4>1 DEF UnreadIs
      <4>3. Unread'[i] = IF i <= pending' + Completed'
                         THEN buf'[cur' + i - 1]
                         ELSE port'[i - (pending' + Completed')]
        BY <2>4 DEF UnreadIs
      <4>4. /\ n + i <= pending + Completed <=> i <= pending' + Completed'
            /\ cur + (n + i) - 1 = cur' + i - 1
            /\ (n + i) - (pending + Completed) = i - (pending' + Completed')
        BY <1>2, <2>1, <2>2, <2>7
      <4>5. QED
        BY <1>1, <4>1, <4>2, <4>3, <4>4
    <3>4. QED
      BY <3>1, <3>2, <3>3, SeqEqual DEF r
  <2>12. CASE n = 0
    <3>1. w = <<>>
      BY <2>6, <2>12, EmptySeq
    <3>2. fed' = fed
      BY <2>1, <2>2, <3>1, ConcatEmptySeq
    <3>3. Unread' = Unread
      <4>1. Unread \in Seq(Byte) /\ n + 1 = 1
        BY <2>4, <2>12 DEF UnreadIs
      <4>2. QED
        BY <2>11, <4>1, SubSeqFull
    <3>4. QED
      BY <1>1, <1>4, <2>3, <3>2, <3>3 DEF Stream!streamVars
  <2>13. CASE n > 0
    <3>1. n \in 1 .. Len(Unread)
      BY <2>2, <2>7, <2>13
    <3>2. QED
      BY <1>1, <1>4, <2>1, <2>3, <2>10, <2>11, <3>1 DEF Stream!Read
  <2>14. QED
    BY <2>2, <2>12, <2>13
<1>5. QED
  BY <1>3, <1>4
\* Every step of the channel is a step of the abstract stream, or changes
\* nothing of it.
LEMMA RefStep ==
    ASSUME ChannelInv, ChannelInv', [Next]_vars
    PROVE  [Stream!Next]_Stream!streamVars
<1>1. CASE UNCHANGED vars
  <2>1. Unread' = Unread
    BY <1>1 DEF vars, Unread, Completed
  <2>2. QED
    BY <1>1, <2>1 DEF vars, Stream!streamVars
<1>2. QED
  BY <1>1, RefHostSends, RefDriverCompletes, RefDriverFails, RefPrepareNoRead,
     RefPrepareRead, Refga_channel_check, Refga_channel_dispatch
  DEF Next, ga_channel_prepare, Stream!Next

\* The channel implements the abstract stream, its liveness left out: over
\* compactions, reads that complete at once or while the callback runs, and
\* spurious wake-ups, bytes reach the parser in order and once each, and after
\* an error none does.
THEOREM StreamRefined ==
    Spec => Stream!Init /\ [][Stream!Next]_Stream!streamVars
<1>1. Init => Stream!Init
  <2> SUFFICES ASSUME Init PROVE Stream!Init
    OBVIOUS
  <2>1. UnreadIs
    BY ChannelInvInit, UnreadShape
  <2>2. Len(Unread) = 0
    BY <2>1, EmptySeq DEF UnreadIs, Init, Completed, NoRead
  <2>3. Unread = <<>>
    BY <2>1, <2>2, EmptySeq DEF UnreadIs
  <2>4. QED
    BY <2>3 DEF Stream!Init, Init
<1>2. ChannelInv /\ ChannelInv' /\ [Next]_vars =>
         [Stream!Next]_Stream!streamVars
  BY RefStep
<1>3. QED
  BY <1>1, <1>2, ChannelInvCorrect, PTL DEF Spec
\* What the parser has been fed and what is still to be read are together what
\* the host has sent, in order: nothing is lost, duplicated or reordered, even
\* when the channel fails.
AllAccounted == fed \o Unread = [i \in 1 .. sent |-> i]

\* A read of the abstract stream takes bytes from the one end of the wire and
\* puts them at the other end of what was read.
LEMMA ReadConserves ==
    ASSUME NEW S, NEW r \in Seq(S), NEW w \in Seq(S), NEW n \in 1 .. Len(w)
    PROVE  (r \o SubSeq(w, 1, n)) \o SubSeq(w, n + 1, Len(w)) = r \o w
<1> DEFINE a == SubSeq(w, 1, n)
           z == SubSeq(w, n + 1, Len(w))
<1>1. Len(w) \in Nat /\ \A k \in 1 .. Len(w) : w[k] \in S
  BY LenProperties, ElementOfSeq
<1>2. a \in Seq(S)
  <2>1. \A k \in 1 .. n : w[k] \in S
    BY <1>1
  <2>2. QED
    BY <2>1, SubSeqProperties
<1>3. z \in Seq(S)
  <2>1. \A k \in n + 1 .. Len(w) : w[k] \in S
    BY <1>1
  <2>2. n + 1 \in Int /\ Len(w) \in Int
    BY <1>1
  <2>3. QED
    BY <2>1, <2>2, SubSeqProperties
<1>4. a \o z = w
  <2>1. /\ 1 \in 1 .. Len(w) + 1 /\ n \in 1 - 1 .. Len(w)
        /\ Len(w) \in n .. Len(w)
    BY <1>1
  <2>2. a \o z = SubSeq(w, 1, Len(w))
    BY <2>1, ConcatAdjacentSubSeq
  <2>3. QED
    BY <2>2, SubSeqFull
<1> HIDE DEF a, z
<1>5. (r \o a) \o z = r \o (a \o z)
  BY <1>2, <1>3, ConcatAssociative, SMTT(60)
<1>6. QED
  BY <1>4, <1>5 DEF a, z

\* Appending to the wire appends to the whole.
LEMMA SendExtends ==
    ASSUME NEW S, NEW r \in Seq(S), NEW w \in Seq(S), NEW e \in S
    PROVE  r \o Append(w, e) = Append(r \o w, e)
<1>1. r \o w \in Seq(S) /\ <<e>> \in Seq(S)
  BY ConcatProperties
<1>2. Append(w, e) = w \o <<e>> /\ Append(r \o w, e) = (r \o w) \o <<e>>
  BY <1>1, AppendIsConcat
<1>3. QED
  BY <1>1, <1>2, ConcatAssociative

\* Every byte is accounted for, in every reachable state.
THEOREM BytesConserved == Spec => []AllAccounted
<1>1. Init => AllAccounted
  <2> SUFFICES ASSUME Init PROVE AllAccounted
    OBVIOUS
  <2>1. UnreadIs
    BY ChannelInvInit, UnreadShape
  <2>2. Unread = <<>>
    BY <2>1, EmptySeq DEF UnreadIs, Init, Completed, NoRead
  <2>3. fed \o Unread = <<>>
    BY <2>2, EmptySeq, ConcatEmptySeq DEF Init
  <2>4. [i \in 1 .. sent |-> i] = <<>>
    BY DEF Init
  <2>5. QED
    BY <2>3, <2>4 DEF AllAccounted
<1>2. ASSUME ChannelInv, ChannelInv', [Next]_vars, AllAccounted
      PROVE  AllAccounted'
  <2>1. fed \in Seq(Byte) /\ Unread \in Seq(Byte) /\ sent \in Nat
    BY <1>2, UnreadShape, ConstantsAssumption
    DEF ChannelInv, TypeData, UnreadIs
  <2>2. CASE HostSends
    <3>1. /\ sent + 1 \in Byte /\ Unread' = Append(Unread, sent + 1)
          /\ fed' = fed /\ sent' = sent + 1
      BY <1>2, <2>2, RefHostSends DEF HostSends
    <3>2. fed' \o Unread' = Append(fed \o Unread, sent + 1)
      BY <2>1, <3>1, SendExtends
    <3>3. Append([i \in 1 .. sent |-> i], sent + 1)
             = [i \in 1 .. sent + 1 |-> i]
      BY <2>1
    <3>4. QED
      BY <1>2, <3>1, <3>2, <3>3 DEF AllAccounted
  <2>3. CASE ~HostSends
    <3>1. sent' = sent
      BY <1>2, <2>3
      DEF Next, DriverCompletes, DriverFails, ga_channel_prepare,
          PrepareNoRead, PrepareRead, ga_channel_check, ga_channel_dispatch,
          vars
    <3>2. \/ UNCHANGED <<Unread, fed>>
          \/ \E n \in 1 .. Len(Unread) :
                /\ fed' = fed \o SubSeq(Unread, 1, n)
                /\ Unread' = SubSeq(Unread, n + 1, Len(Unread))
      <4>1. Stream!Read \/ Stream!Fail \/ UNCHANGED Stream!streamVars
                       \/ UNCHANGED vars
        BY <1>2, <2>3, RefDriverCompletes, RefDriverFails, RefPrepareNoRead,
           RefPrepareRead, Refga_channel_check, Refga_channel_dispatch
        DEF Next, ga_channel_prepare
      <4>2. CASE UNCHANGED vars
        BY <4>2 DEF vars, Unread, Completed
      <4>3. CASE Stream!Fail \/ UNCHANGED Stream!streamVars
        BY <4>3 DEF Stream!Fail, Stream!streamVars
      <4>4. CASE Stream!Read
        BY <4>4 DEF Stream!Read
      <4>5. QED
        BY <4>1, <4>2, <4>3, <4>4
    <3>3. fed' \o Unread' = fed \o Unread
      BY <2>1, <3>2, ReadConserves
    <3>4. QED
      BY <1>2, <3>1, <3>3 DEF AllAccounted
  <2>4. QED
    BY <2>2, <2>3
<1>3. QED
  BY <1>1, <1>2, ChannelInvCorrect, PTL DEF Spec
=============================================================================
