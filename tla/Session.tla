------------------------------ MODULE Session ------------------------------
(***************************************************************************)
(* The conversation of qemu-ga with its clients: the channel               *)
(* (qga/channel-posix.c), the JSON streamer (qobject/json-streamer.c), the *)
(* dispatch of a request and its response (qga/main.c,                     *)
(* qapi/qmp-dispatch.c), and clients that keep to the protocol the schema  *)
(* describes for guest-sync-delimited.                                     *)
(*                                                                         *)
(* A client may be interrupted in the middle of a request, give up waiting *)
(* or disconnect; what it leaves behind, in the channel or in the          *)
(* streamer's token list, is met by the next one.  The agent answers one   *)
(* request at a time and does not read while it writes.                    *)
(*                                                                         *)
(* Abstractions: the input is a sequence of tokens, each of size one, and  *)
(* a request is named by its number.  A token that is cut short is left    *)
(* out: the 0xFF that the next client sends first ends it in every state   *)
(* of the lexer.  Brackets are counted as braces are.  A response is one   *)
(* symbol, after the 0xFF if it has one.                                   *)
(***************************************************************************)
EXTENDS Integers, Sequences, SequencesExt

CONSTANTS
    Methods,        \* the channel methods considered
    Commands,       \* the kinds of request a client sends once in sync
    READ_COUNT,     \* QGA_READ_COUNT_DEFAULT, in tokens
    MAX_TOKEN_SIZE, \* of the streamer, in tokens
    MAX_NESTING,
    Capacity,       \* of the channel, in each direction
    Faults,         \* "read", "write": a serial port may fail
    MaxSessions, MaxRequests, MaxKills  \* bounds on a behaviour

Kinds == {"sync", "call", "quiet", "noexec", "long", "deep"}

ASSUME ConstantsAssumption ==
    /\ Methods \subseteq {"virtio-serial", "isa-serial", "unix-listen"}
    /\ Commands \subseteq Kinds \ {"sync"}
    /\ READ_COUNT \in Nat \ {0} /\ Capacity \in Nat \ {0}
    /\ MAX_TOKEN_SIZE \in Nat /\ MAX_TOKEN_SIZE >= 3
    /\ MAX_NESTING \in Nat \ {0}
    /\ Faults \subseteq {"read", "write"}
    /\ MaxSessions \in Nat /\ MaxRequests \in Nat /\ MaxKills \in Nat

VARIABLES
    method,      \* GAChannel.method
    open,        \* client_channel # NULL
    listening,   \* ga_channel_listen_accept is watching the socket
    peer,        \* the session last accepted by it
    toGuest, toHost,  \* what is in the channel
    pc,          \* where the main loop is
    buf,         \* what channel_event_cb has read and not yet fed
    tokens, brace_count,  \* the JSONMessageParser
    out,         \* what ga_channel_write_all has still to write
    session,     \* how many clients there have been
    client,      \* what the client does
    csend,       \* what it has still to send
    current,     \* its last request
    sentinel,    \* it has just received 0xFF
    requests,    \* how many requests there have been
    clean,       \* history: in sync, and nothing has spoilt it since
    lost,        \* history: the agent has lost what the client waits for
    kills

channelVars == <<method, open, listening, peer>>
parserVars == <<tokens, brace_count>>
clientVars == <<session, client, csend, current, sentinel, requests, clean,
                lost>>
vars == <<method, open, listening, peer, toGuest, toHost, pc, buf, tokens,
          brace_count, out, session, client, csend, current, sentinel,
          requests, clean, lost, kills>>

Min2(a, b) == IF a < b THEN a ELSE b

\* A request is named by its kind and its number, which is a sync's id.
NoMsg == [kind |-> "none", n |-> 0]
Msg(kind, n) == [kind |-> kind, n |-> n]
Messages == [kind : Kinds, n : 1 .. MaxRequests]

\* What is sent to the agent: tokens, 0xFF and the end of a connection.
Token(t, m) == [t |-> t, msg |-> m]
FF == Token("ff", NoMsg)
EOF == Token("eof", NoMsg)
Copies(x, n) == [i \in 1 .. n |-> x]

\* The tokens of a request: as it should be, or beyond a limit.
Text(m) ==
    LET braces == IF m.kind = "deep" THEN MAX_NESTING + 1 ELSE 1
        body == IF m.kind = "long" THEN MAX_TOKEN_SIZE ELSE 1
    IN  Copies(Token("{", m), braces) \o Copies(Token("body", m), body)
        \o Copies(Token("}", m), braces)

\* What is sent to a client: 0xFF, and the answer to a request, NoMsg being
\* that of no request in particular.
Response(kind, m) == [kind |-> kind, msg |-> m]
Sentinel == Response("ff", NoMsg)

Unix == method = "unix-listen"
Connected == client # "off"

Init ==
    /\ method \in Methods
    /\ open = (IF Unix THEN FALSE ELSE TRUE)
    /\ listening = (IF Unix THEN TRUE ELSE FALSE) /\ peer = 0
    /\ toGuest = <<>> /\ toHost = <<>>
    /\ pc = "loop" /\ buf = <<>> /\ tokens = <<>> /\ brace_count = 0
    /\ out = <<>>
    /\ session = 0 /\ client = "off" /\ csend = <<>> /\ current = NoMsg
    /\ sentinel = FALSE /\ requests = 0 /\ clean = FALSE /\ lost = FALSE
    /\ kills = 0

-----------------------------------------------------------------------------
(* The channel. *)

\* ga_channel_listen_accept: only one connection at a time.  Clients wait in
\* the backlog, and may have left it again.
ga_channel_listen_accept ==
    /\ pc = "loop" /\ listening /\ peer < session
    /\ peer' = peer + 1 /\ open' = TRUE /\ listening' = FALSE
    /\ UNCHANGED <<method, toGuest, toHost, pc, buf, parserVars, out,
                   clientVars, kills>>

\* The connection is closed; a socket is listened to again.
ga_channel_client_close ==
    open' = FALSE /\ listening' = IF Unix THEN TRUE ELSE listening

\* How much can be read before the end of the connection.
Available ==
    LET ends == {i \in DOMAIN toGuest : toGuest[i] = EOF}
    IN  IF ends = {} THEN Len(toGuest)
        ELSE Min(ends) - 1

\* channel_event_cb, with data to read.
ReadData ==
    LET n == Min2(Available, READ_COUNT) IN
    /\ pc = "loop" /\ open /\ n > 0
    /\ buf' = SubSeq(toGuest, 1, n)
    /\ toGuest' = SubSeq(toGuest, n + 1, Len(toGuest))
    /\ pc' = "feed"
    /\ UNCHANGED <<channelVars, toHost, parserVars, out, clientVars, kills>>

\* The client has gone: its data are read to the end, or the read fails
\* because it left answers unread.  The parser keeps what it has.
ReadEnd ==
    /\ pc = "loop" /\ open /\ Unix /\ Available < Len(toGuest)
    /\ toGuest' = SubSeq(toGuest, Available + 2, Len(toGuest))
    /\ ga_channel_client_close
    /\ UNCHANGED <<method, peer, toHost, pc, buf, parserVars, out, clientVars,
                   kills>>

\* A serial port that answers an error, or an isa-serial one that answers EOF,
\* is closed for good.
ReadFails ==
    /\ "read" \in Faults /\ pc = "loop" /\ open /\ ~Unix
    /\ ga_channel_client_close /\ lost' = TRUE
    /\ UNCHANGED <<method, peer, toGuest, toHost, pc, buf, parserVars, out,
                   session, client, csend, current, sentinel, requests, clean,
                   kills>>

\* The main loop after a response, or after feeding a token.
Onward(b) == IF b = <<>> THEN "loop" ELSE "feed"

\* Nobody can receive what is written.
WriteFails ==
    IF Unix THEN ~(Connected /\ peer = session) ELSE "write" \in Faults

\* ga_channel_write_all: it tries again until the channel has room; when a
\* write fails, the rest of the response is dropped.
ga_channel_write_all ==
    /\ pc = "write"
    /\ \/ /\ WriteFails /\ out' = <<>> /\ UNCHANGED toHost
          /\ lost' = IF Unix THEN lost ELSE TRUE
       \/ /\ ~(Unix /\ WriteFails) /\ Len(toHost) < Capacity
          /\ toHost' = Append(toHost, Head(out)) /\ out' = Tail(out)
          /\ UNCHANGED lost
    /\ pc' = IF out' = <<>> THEN Onward(buf) ELSE "write"
    /\ UNCHANGED <<channelVars, toGuest, buf, parserVars, session, client,
                   csend, current, sentinel, requests, clean, kills>>

-----------------------------------------------------------------------------
(* The streamer and the dispatch of what it emits. *)

\* The response as send_response writes it; guest-sync-delimited has asked for
\* 0xFF before its own.
send_response(r) ==
    IF r.kind = "return" /\ r.msg.kind = "sync" THEN <<Sentinel, r>> ELSE <<r>>

\* Mutant: an error without a text is not reported.
SilentErrors(m) ==
    CASE m.kind = "sync" -> {send_response(Response("return", m))}
      [] m.kind \in {"call", "quiet"} ->
            {<<>>, send_response(Response("return", m))}

\* What a command may answer.  qmp_dispatch reports every error; a command
\* without a success response says nothing when it succeeds.
qmp_dispatch(m) ==
    CASE m.kind = "sync" -> {send_response(Response("return", m))}
      [] m.kind = "quiet" -> {<<>>, send_response(Response("error", m))}
      [] OTHER -> {send_response(Response("return", m)),
                   send_response(Response("error", m))}

\* Mutant: a command is also answered as if it were not one.
AnswersTwice(ts) ==
    LET m == ts[1].msg IN
    IF ts = Text(m) /\ m.kind \in {"sync", "call", "quiet"}
    THEN {r \o send_response(Response("error", m)) : r \in qmp_dispatch(m)}
    ELSE {send_response(Response("error", NoMsg))}

\* process_event: the tokens are a request, or a dictionary that is none, or
\* cannot be parsed.
process_event(ts) ==
    LET m == ts[1].msg IN
    IF ts = Text(m) /\ m.kind # "noexec" THEN qmp_dispatch(m)
    ELSE {send_response(Response("error", IF ts = Text(m) THEN m ELSE NoMsg))}

\* Mutant: there is no limit.
NoLimit(ts, braces) == FALSE

\* The limits on a message.
OverLimit(ts, braces) == Len(ts) > MAX_TOKEN_SIZE \/ braces > MAX_NESTING

\* Mutant: an error token leaves what was read before it.
ErrorKeepsTokens(x) ==
    /\ tokens' = tokens /\ brace_count' = brace_count
    /\ out' = send_response(Response("error", NoMsg))

\* A token the lexer could not make sense of: what was read so far is dropped.
ErrorToken(x) ==
    /\ tokens' = <<>> /\ brace_count' = 0
    /\ out' = send_response(Response("error", NoMsg))

\* Any other token: a message is emitted when its braces balance, or when it
\* is too large.
PlainToken(x) ==
    LET ts == Append(tokens, x)
        braces == CASE x.t = "{" -> brace_count + 1
                    [] x.t = "}" -> brace_count - 1
                    [] OTHER -> brace_count
    IN  IF braces <= 0 \/ OverLimit(ts, braces)
        THEN tokens' = <<>> /\ brace_count' = 0 /\ out' \in process_event(ts)
        ELSE tokens' = ts /\ brace_count' = braces /\ out' = <<>>

json_message_process_token(x) ==
    IF x = FF THEN ErrorToken(x) ELSE PlainToken(x)

\* json_message_parser_feed, one token; a response is written before the next.
json_message_parser_feed ==
    /\ pc = "feed"
    /\ json_message_process_token(Head(buf))
    /\ buf' = Tail(buf)
    /\ pc' = IF out' # <<>> THEN "write" ELSE Onward(buf')
    /\ UNCHANGED <<channelVars, toGuest, toHost, clientVars, kills>>

-----------------------------------------------------------------------------
(* The clients, as the schema describes them. *)

\* 0xFF, to flush what the agent has read, and guest-sync-delimited with a new
\* id.
StartSync ==
    LET m == Msg("sync", requests + 1) IN
    /\ requests < MaxRequests /\ requests' = requests + 1
    /\ client' = "syncing" /\ current' = m
    /\ csend' = <<FF>> \o Text(m)
    /\ sentinel' = FALSE /\ clean' = FALSE
    /\ lost' = IF Unix \/ open THEN FALSE ELSE TRUE

\* A client attaches to the port, which may have kept or discarded what nobody
\* has read, or connects to the socket.
Connect ==
    /\ client = "off" /\ session < MaxSessions
    /\ session' = session + 1 /\ StartSync
    /\ \E n \in 0 .. Len(toHost) : toHost' = SubSeq(toHost, n + 1, Len(toHost))
    /\ UNCHANGED <<channelVars, toGuest, pc, buf, parserVars, out, kills>>

\* "after any client-side timeouts (including timeouts on receiving a response
\* to this command)"; the request may be half sent.
TimeOut ==
    /\ client \in {"syncing", "waiting"}
    /\ StartSync
    /\ UNCHANGED <<channelVars, toGuest, toHost, pc, buf, parserVars, out,
                   session, kills>>

Disconnect ==
    /\ Connected /\ session < MaxSessions
    /\ client' = "off" /\ csend' = <<>> /\ sentinel' = FALSE /\ clean' = FALSE
    /\ toGuest' = IF Unix THEN Append(toGuest, EOF) ELSE toGuest
    /\ toHost' = IF Unix THEN <<>> ELSE toHost
    /\ UNCHANGED <<channelVars, pc, buf, parserVars, out, session, current,
                   requests, lost, kills>>

Send ==
    /\ csend # <<>> /\ Len(toGuest) < Capacity
    /\ toGuest' = Append(toGuest, Head(csend)) /\ csend' = Tail(csend)
    /\ UNCHANGED <<channelVars, toHost, pc, buf, parserVars, out, session,
                   client, current, sentinel, requests, clean, lost, kills>>

\* A request of a client that is in sync.  One beyond the limits of the
\* streamer is answered more than once.
Request(kind) ==
    LET m == Msg(kind, requests + 1) IN
    /\ client = "ready" /\ csend = <<>> /\ requests < MaxRequests
    /\ requests' = requests + 1 /\ client' = "waiting"
    /\ current' = m /\ csend' = Text(m)
    /\ clean' = IF kind \in {"long", "deep"} THEN FALSE ELSE clean
    /\ UNCHANGED <<channelVars, toGuest, toHost, pc, buf, parserVars, out,
                   session, sentinel, lost, kills>>

\* Until it is in sync a client ignores everything but the answer to its sync,
\* after 0xFF; then it takes what it receives for the answer to its request.
Receive ==
    LET r == Head(toHost)
        synced == sentinel /\ r = Response("return", current) IN
    /\ Connected /\ toHost # <<>> /\ toHost' = Tail(toHost)
    /\ sentinel' = IF r = Sentinel THEN TRUE ELSE FALSE
    /\ CASE client = "syncing" /\ synced -> client' = "ready" /\ clean' = TRUE
         [] client = "waiting" /\ r # Sentinel ->
               client' = "ready" /\ UNCHANGED clean
         [] OTHER -> UNCHANGED <<client, clean>>
    /\ UNCHANGED <<channelVars, toGuest, pc, buf, parserVars, out, session,
                   csend, current, requests, lost, kills>>

\* The agent is killed and started again.  A virtio port keeps what was sent;
\* opening an isa-serial one discards it (TCIFLUSH); a socket's clients lose
\* their connection.
Restart ==
    /\ kills < MaxKills /\ kills' = kills + 1
    /\ pc' = "loop" /\ buf' = <<>> /\ tokens' = <<>> /\ brace_count' = 0
    /\ out' = <<>> /\ open' = (IF Unix THEN FALSE ELSE TRUE)
    /\ listening' = (IF Unix THEN TRUE ELSE FALSE) /\ peer' = session
    /\ toGuest' = IF method = "virtio-serial" THEN toGuest ELSE <<>>
    /\ clean' = FALSE /\ lost' = TRUE
    /\ IF Unix
       THEN /\ client' = "off" /\ csend' = <<>> /\ sentinel' = FALSE
            /\ toHost' = <<>>
       ELSE UNCHANGED <<client, csend, sentinel, toHost>>
    /\ UNCHANGED <<method, session, current, requests>>

Next ==
    \/ ga_channel_listen_accept \/ ReadData \/ ReadEnd \/ ReadFails
    \/ ga_channel_write_all \/ json_message_parser_feed
    \/ Connect \/ TimeOut \/ Disconnect \/ Send \/ Receive
    \/ \E kind \in Commands : Request(kind)
    \/ Restart

Spec == Init /\ [][Next]_vars

\* The main loop runs, and a client goes on sending and receiving while it is
\* connected; nothing makes it time out, leave or ask for anything.
FairSpec ==
    /\ Spec
    /\ WF_vars(ga_channel_listen_accept) /\ WF_vars(ReadData)
    /\ WF_vars(ReadEnd) /\ WF_vars(ga_channel_write_all)
    /\ WF_vars(json_message_parser_feed)
    /\ WF_vars(Send) /\ WF_vars(Receive)

-----------------------------------------------------------------------------
(* Properties. *)

Tokens == [t : {"{", "body", "}", "ff", "eof"}, msg : Messages \cup {NoMsg}]
Responses == [kind : {"ff", "return", "error"}, msg : Messages \cup {NoMsg}]

\* Type invariant.  The streamer never holds more than its limits allow.
TypeOK ==
    /\ method \in Methods /\ open \in BOOLEAN /\ listening \in BOOLEAN
    /\ peer \in 0 .. MaxSessions /\ session \in 0 .. MaxSessions
    /\ toGuest \in Seq(Tokens) /\ toHost \in Seq(Responses)
    /\ Len(toHost) <= Capacity
    /\ pc \in {"loop", "feed", "write"}
    /\ buf \in Seq(Tokens) /\ Len(buf) <= READ_COUNT
    /\ tokens \in Seq(Tokens) /\ Len(tokens) <= MAX_TOKEN_SIZE
    /\ brace_count \in 0 .. MAX_NESTING
    /\ out \in Seq(Responses)
    /\ client \in {"off", "syncing", "ready", "waiting"}
    /\ csend \in Seq(Tokens) /\ current \in Messages \cup {NoMsg}
    /\ sentinel \in BOOLEAN /\ requests \in 0 .. MaxRequests
    /\ clean \in BOOLEAN /\ lost \in BOOLEAN /\ kills \in 0 .. MaxKills

\* "to ensure the stream is in sync and doesn't contain stale data from
\* previous client": once a client has received the answer to its
\* guest-sync-delimited, whatever is on its way to it answers the request that
\* it is waiting for, and nothing is on its way when it waits for none - over
\* half-sent requests, late answers to requests it or a client before it gave
\* up on, and answers that were discarded.  (Until the agent is restarted, or
\* the client exceeds the limits of the streamer.)
NothingStale ==
    clean => \A r \in Range(toHost) \cup Range(out) :
                 client = "waiting" /\ r.msg = current

\* "clients should also precede this *request* with a 0xFF byte to make sure
\* the guest agent flushes any partially read JSON data": a client that goes on
\* sending and receiving gets into sync, whatever the agent had read before,
\* however full the channel was and after whatever failures - unless it is the
\* answer to this very sync that a failing port or a restart has lost.
SyncCompletes ==
    client = "syncing" /\ ~lost ~> (client # "syncing" \/ lost)

\* A client in sync is answered, whether its request succeeds, fails or is
\* none: process_event, qmp_dispatch and ga_channel_write_all lose no response
\* unless the port fails.
RequestAnswered ==
    clean /\ ~lost /\ client = "waiting" /\ current.kind # "quiet"
        ~> ~(clean /\ client = "waiting") \/ lost
=============================================================================
