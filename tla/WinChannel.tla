----------------------------- MODULE WinChannel -----------------------------
(***************************************************************************)
(* The agent's channel on Windows (qga/channel-win32.c): a glib source     *)
(* that keeps one overlapped read outstanding into a buffer, and hands     *)
(* what has arrived to channel_event_cb (qga/main.c).                      *)
(*                                                                         *)
(* glib calls ga_channel_prepare, polls unless it announced an event, then *)
(* calls ga_channel_check, also when the poll has timed out or another     *)
(* source was ready, and ga_channel_dispatch if there is an event.         *)
(* Meanwhile the driver may complete the outstanding read at any time: it  *)
(* writes to the address that it was given when the read was submitted.    *)
(*                                                                         *)
(* Abstractions: bytes are numbered in the order in which the host sends   *)
(* them.  Writing to the port is not part of it.  channel_event_cb asks    *)
(* for QGA_READ_COUNT_DEFAULT bytes, the size of the buffer; a smaller     *)
(* size, which ga_channel_read allows, leaves data in the buffer while the *)
(* next read is outstanding, so both are considered.                       *)
(***************************************************************************)
EXTENDS Integers, Sequences

CONSTANTS
    BUF_SIZE,   \* QGA_READ_COUNT_DEFAULT
    Sizes,      \* what the callback may ask ga_channel_read for
    DWORD_MOD,  \* one more than the largest DWORD
    MaxBytes,   \* bound on the bytes the host sends
    Faults      \* "submit", "result", "eof": how a read may fail

ASSUME ConstantsAssumption ==
    /\ BUF_SIZE \in Nat \ {0} /\ DWORD_MOD \in Nat /\ BUF_SIZE < DWORD_MOD
    /\ Sizes \subseteq Nat \ {0} /\ MaxBytes \in Nat
    /\ Faults \subseteq {"submit", "result", "eof"}

VARIABLES
    sent,           \* how many bytes the host has sent
    port,           \* those that the driver still has
    buf, cur, pending, ov_pending,  \* GAChannelReadState
    ov,             \* its OVERLAPPED, as the driver sees it
    pending_events, \* GAChannel.pending_events
    pc,             \* where glib is with the source
    size,           \* what the callback asks for
    fed             \* history: what was handed to the parser

readState == <<buf, cur, pending, ov_pending>>
vars == <<sent, port, buf, cur, pending, ov_pending, ov, pending_events, pc,
          size, fed>>

Byte == 1 .. MaxBytes

\* A read of len bytes to addr: "none", "waiting", "done" with count bytes,
\* or the error that GetOverlappedResult is going to report.
NoRead == [status |-> "none", addr |-> 0, len |-> 0, count |-> 0]
Submitted(addr, len) ==
    [status |-> "waiting", addr |-> addr, len |-> len, count |-> 0]

Init ==
    /\ sent = 0 /\ port = <<>>
    /\ buf = [i \in 0 .. BUF_SIZE - 1 |-> 0]
    /\ cur = 0 /\ pending = 0 /\ ov_pending = FALSE
    /\ ov = NoRead /\ pending_events = {} /\ pc = "prepare"
    /\ size \in Sizes /\ fed = <<>>

-----------------------------------------------------------------------------
(* The host and the driver. *)

HostSends ==
    /\ sent < MaxBytes /\ sent' = sent + 1 /\ port' = Append(port, sent + 1)
    /\ UNCHANGED <<readState, ov, pending_events, pc, size, fed>>

\* What the memory at b becomes when the driver puts n bytes at addr.  A byte
\* beyond the end is not kept: NoOverrun says that there is none.
Stored(b, addr, n) ==
    [i \in DOMAIN b |-> IF i >= addr /\ i < addr + n THEN port[i - addr + 1]
                        ELSE b[i]]

\* How many bytes a read of len bytes can be given: some of those there are.
Transferable(len) == {n \in 1 .. len : n <= Len(port)}

\* The outstanding read with its result.
Answered(status, n) ==
    [status |-> status, addr |-> ov.addr, len |-> ov.len, count |-> n]

DriverCompletes ==
    /\ ov.status = "waiting"
    /\ \E n \in Transferable(ov.len) :
          /\ buf' = Stored(buf, ov.addr, n)
          /\ port' = SubSeq(port, n + 1, Len(port))
          /\ ov' = Answered("done", n)
    /\ UNCHANGED <<sent, cur, pending, ov_pending, pending_events, pc, size,
                   fed>>

\* Nobody is attached on the host ("eof"), or the read fails ("result").
DriverFails ==
    /\ ov.status = "waiting"
    /\ \E e \in Faults \cap {"eof", "result"} :
          ov' = Answered(e, 0)
    /\ UNCHANGED <<sent, port, readState, pending_events, pc, size, fed>>

-----------------------------------------------------------------------------
(* The source. *)

\* Mutant: the buffer is never compacted.
CompactNever(c, p, outstanding) == c

\* Where the data start after prepare's memmove, which waits until the buffer
\* is used to its end and no read is outstanding.
CompactTo(c, p, outstanding) ==
    IF ~outstanding /\ c + p >= BUF_SIZE THEN 0 ELSE c

\* memmove of the p bytes at c to d.
Moved(b, c, p, d) ==
    [i \in DOMAIN b |-> IF i >= d /\ i < d + p THEN b[i - d + c] ELSE b[i]]

\* Mutant: what has been read already counts as room.
RoomFromStart(c, p) == BUF_SIZE - p

\* count_to_read: an unsigned difference, which is compared with zero.
CountToRead(c, p) == (BUF_SIZE - c - p) % DWORD_MOD

\* Prepare's end: data in the buffer are an event, and any event that is
\* pending makes glib skip the poll.
Announce(events, p) ==
    /\ pending_events' = pending_events \cup events
                         \cup (IF p > 0 THEN {"IN"} ELSE {})
    /\ pc' = IF pending_events' # {} THEN "dispatch" ELSE "poll"

\* ga_channel_prepare with a read outstanding, or with a full buffer.
PrepareNoRead ==
    LET c == CompactTo(cur, pending, ov_pending) IN
    /\ pc = "prepare"
    /\ ov_pending \/ CountToRead(c, pending) = 0
    /\ buf' = Moved(buf, cur, pending, c) /\ cur' = c
    /\ Announce({}, pending)
    /\ UNCHANGED <<sent, port, pending, ov_pending, ov, size, fed>>

\* ga_channel_prepare submits a read: it is answered at once with data (EOF
\* is never, see the comment in ga_channel_check), is outstanding, or fails.
PrepareRead ==
    LET c == CompactTo(cur, pending, ov_pending)
        b == Moved(buf, cur, pending, c)
        len == CountToRead(c, pending)
        addr == c + pending IN
    /\ pc = "prepare" /\ ~ov_pending /\ len > 0
    /\ cur' = c
    /\ \/ \E n \in Transferable(len) :
             /\ buf' = Stored(b, addr, n)
             /\ port' = SubSeq(port, n + 1, Len(port))
             /\ pending' = pending + n /\ Announce({}, pending + n)
             /\ UNCHANGED <<ov_pending, ov>>
       \/ /\ buf' = b /\ ov_pending' = TRUE /\ ov' = Submitted(addr, len)
          /\ Announce({}, pending) /\ UNCHANGED <<port, pending>>
       \/ /\ "submit" \in Faults /\ buf' = b /\ Announce({"ERR"}, pending)
          /\ UNCHANGED <<port, pending, ov_pending, ov>>
    /\ UNCHANGED <<sent, size, fed>>

ga_channel_prepare == PrepareNoRead \/ PrepareRead

\* Mutant: the read stays outstanding when its result has been taken.
KeepsOutstanding(events) == ov_pending

\* A result that is an event ends the read; ERROR_IO_INCOMPLETE is none.
StillOutstanding(events) == IF events # {} THEN FALSE ELSE ov_pending

\* ga_channel_check, called after the poll.
ga_channel_check ==
    LET events == CASE ov.status = "done" -> {"IN"}
                    [] ov.status = "eof" -> {"HUP"}
                    [] ov.status = "result" -> {"ERR"}
                    [] OTHER -> {}
    IN
    /\ pc = "poll"
    /\ pending' = IF ov.status = "done" THEN pending + ov.count ELSE pending
    /\ ov_pending' = StillOutstanding(events)
    /\ ov' = IF events # {} /\ ~ov_pending' THEN NoRead ELSE ov
    /\ pending_events' = pending_events \cup events
    /\ pc' = IF pending_events' # {} THEN "dispatch" ELSE "prepare"
    /\ UNCHANGED <<sent, port, buf, cur, size, fed>>

\* Mutant: the callback forgets to move on.
ReadAgain(n) == UNCHANGED <<cur, pending>>

\* ga_channel_read: how much it copies, and what that leaves.
ToRead == IF size < pending THEN size ELSE pending
Advance(n) == cur' = cur + n /\ pending' = pending - n

\* ga_channel_dispatch, with channel_event_cb and ga_channel_read: an error
\* removes the source, whatever the buffer holds; else the parser is fed.
ga_channel_dispatch ==
    /\ pc = "dispatch"
    /\ IF "ERR" \in pending_events
       THEN /\ pc' = "removed"
            /\ UNCHANGED <<cur, pending, pending_events, fed>>
       ELSE /\ fed' = fed \o [i \in 1 .. ToRead |-> buf[cur + i - 1]]
            /\ Advance(ToRead)
            /\ pending_events' = IF pending' = 0
                                 THEN pending_events \ {"HUP", "IN"} ELSE {}
            /\ pc' = "prepare"
    /\ UNCHANGED <<sent, port, buf, ov_pending, ov, size>>

Next ==
    \/ HostSends \/ DriverCompletes \/ DriverFails
    \/ ga_channel_prepare \/ ga_channel_check \/ ga_channel_dispatch

Spec == Init /\ [][Next]_vars

\* The main loop runs.  A driver may answer EOF now and then, but does not do
\* so for ever when it has data for the read that waits for it.
FairSpec ==
    /\ Spec
    /\ WF_vars(ga_channel_prepare) /\ WF_vars(ga_channel_check)
    /\ WF_vars(ga_channel_dispatch)
    /\ SF_vars(DriverCompletes)

-----------------------------------------------------------------------------
(* Properties. *)

\* Type invariant.  The data lie inside the buffer, so that the unsigned
\* difference in ga_channel_prepare does not wrap around.
TypeOK ==
    /\ sent \in 0 .. MaxBytes /\ port \in Seq(Byte)
    /\ buf \in [0 .. BUF_SIZE - 1 -> Byte \cup {0}]
    /\ cur \in 0 .. BUF_SIZE /\ pending \in 0 .. BUF_SIZE
    /\ cur + pending <= BUF_SIZE
    /\ ov_pending \in BOOLEAN
    /\ ov \in [status : {"none", "waiting", "done", "eof", "result"},
               addr : 0 .. BUF_SIZE, len : 0 .. BUF_SIZE,
               count : 0 .. BUF_SIZE]
    /\ pending_events \subseteq {"IN", "HUP", "ERR"}
    /\ pc \in {"prepare", "poll", "dispatch", "removed"}
    /\ size \in Sizes /\ fed \in Seq(Byte)

\* The assertion of ga_channel_check, "failing this implies we issued a read
\* that completed immediately, yet no data was placed into the buffer": glib
\* never polls without an outstanding read.
PollHasRead == pc = "poll" => ov_pending

\* While a read is outstanding, the driver may write from the end of the data
\* to the end of its read: this stays inside the buffer and clear of the data,
\* however often the callback has read, and the buffer was compacted, since.
NoOverrun ==
    ov_pending => /\ ov.addr = cur + pending
                  /\ ov.addr + ov.len <= BUF_SIZE

\* The bytes that a completed read has put behind those that are pending.
Completed == IF ov.status = "done" THEN ov.count ELSE 0

\* What was sent and not yet fed to the parser: in the buffer, or still with
\* the driver.
Unread == [i \in 1 .. pending + Completed |-> buf[cur + i - 1]] \o port

Stream == INSTANCE ByteStream WITH
              wire <- Unread,
              read <- fed,
              open <- pc # "removed" /\ "ERR" \notin pending_events

\* The channel implements the abstract stream: over compactions, reads that
\* complete at once or while the callback runs, and spurious wake-ups, bytes
\* reach the parser in order, once each, and as long as no read fails all of
\* them do.
ImplementsStream == Stream!Spec
=============================================================================
