--------------------------- MODULE SessionProofs ---------------------------
(***************************************************************************)
(* Proofs about Session for any number of clients and requests, channels   *)
(* of every capacity and any limits of the streamer: the streamer stays    *)
(* within its limits, and a client that has synchronised is sent nothing   *)
(* but the answer to the request it waits for.                             *)
(***************************************************************************)
EXTENDS Session, ListLemmas

\* The requests so far, the tokens and the answers they have given rise to.
SoFar == {m \in Messages \cup {NoMsg} : m.n <= requests}
TokensSoFar == [t : {"{", "body", "}", "ff", "eof"}, msg : SoFar]
ResponsesSoFar == [kind : {"ff", "return", "error"}, msg : SoFar]

TypeCounts ==
    /\ method \in Methods /\ session \in 0 .. MaxSessions
    /\ peer \in 0 .. MaxSessions /\ requests \in 0 .. MaxRequests
    /\ kills \in 0 .. MaxKills

TypeFlags ==
    /\ open \in BOOLEAN /\ listening \in BOOLEAN /\ sentinel \in BOOLEAN
    /\ clean \in BOOLEAN /\ lost \in BOOLEAN

\* The request of a client that is connected is the last one.
TypeClient ==
    /\ client \in {"off", "syncing", "ready", "waiting"} /\ current \in SoFar
    /\ client # "off" => current \in Messages /\ current.n = requests
    /\ client = "syncing" => current.kind = "sync"

TypeInput ==
    /\ toGuest \in Seq(TokensSoFar) /\ csend \in Seq(TokensSoFar)
    /\ buf \in Seq(TokensSoFar) /\ Len(buf) <= READ_COUNT

\* The streamer counts braces exactly while it holds tokens.
TypeParser ==
    /\ tokens \in Seq(TokensSoFar) /\ Len(tokens) <= MAX_TOKEN_SIZE
    /\ brace_count \in 0 .. MAX_NESTING
    /\ brace_count = 0 <=> tokens = <<>>

TypeOutput ==
    /\ toHost \in Seq(ResponsesSoFar) /\ Len(toHost) <= Capacity
    /\ out \in Seq(ResponsesSoFar)

\* Where the main loop is.
Loop ==
    \/ pc = "loop" /\ buf = <<>> /\ out = <<>>
    \/ pc = "feed" /\ buf # <<>> /\ out = <<>>
    \/ pc = "write" /\ out # <<>>

\* What the agent has still to be fed, with what the client has still to send.
Pipe == (buf \o toGuest) \o csend

\* The three tokens of a request within the limits.
Whole(m) == <<Token("{", m), Token("body", m), Token("}", m)>>

\* In p, the tokens of the request m are at their places from the end: nothing
\* comes after them.
Placed(p, m) ==
    \A i \in 1 .. Len(p) : p[i].msg = m =>
        /\ Len(p) - i <= 2
        /\ p[i] = Whole(m)[3 - (Len(p) - i)]

\* The answer to the sync is the last thing that the agent says.
SaidLast(h, o, r) ==
    /\ \A i \in 1 .. Len(h) : h[i] = r => i = Len(h) /\ o = <<>>
    /\ \A i \in 1 .. Len(o) : o[i] = r => i = Len(o)

Occurs(h, o, r) ==
    (\E i \in 1 .. Len(h) : h[i] = r) \/ (\E i \in 1 .. Len(o) : o[i] = r)

\* While a client waits for the answer to its sync.
Syncing ==
    client = "syncing" =>
        /\ Placed(Pipe, current)
        /\ SaidLast(toHost, out, Response("return", current))
        /\ Occurs(toHost, out, Response("return", current)) =>
              Pipe = <<>> /\ tokens = <<>>

\* The request is on its way to the agent: what it has read of it and what it
\* has not make it up.
OnItsWay(ts, p, m) ==
    /\ Len(ts) + Len(p) = 3
    /\ \A i \in 1 .. Len(ts) : ts[i] = Whole(m)[i]
    /\ \A i \in 1 .. Len(p) : p[i] = Whole(m)[i + Len(ts)]

\* At most one answer to it is on its way back.
OneAnswer(h, o, m) ==
    /\ Len(h) + Len(o) <= 1
    /\ \A i \in 1 .. Len(h) : h[i].msg = m /\ h[i].kind # "ff"
    /\ \A i \in 1 .. Len(o) : o[i].msg = m /\ o[i].kind # "ff"

Silent == toHost = <<>> /\ out = <<>>
Fed == Pipe = <<>> /\ tokens = <<>>

\* While a client is in sync.
InSync ==
    clean =>
        \/ client = "ready" /\ Fed /\ Silent
        \/ /\ client = "waiting"
           /\ current.kind \in {"call", "quiet", "noexec"}
           /\ \/ Silent /\ OnItsWay(tokens, Pipe, current)
                 /\ brace_count = (IF tokens = <<>> THEN 0 ELSE 1)
              \/ Fed /\ OneAnswer(toHost, out, current)

\* The inductive invariant.
SessionInv ==
    /\ TypeCounts /\ TypeFlags /\ TypeClient /\ TypeInput /\ TypeParser
    /\ TypeOutput /\ Loop /\ Syncing /\ InSync
-----------------------------------------------------------------------------
(* The input. *)

\* What remains of the input p when its first tokens have been taken.
Remains(p, q) ==
    \E k \in Nat : /\ Len(q) = Len(p) - k
                   /\ \A i \in 1 .. Len(q) : q[i] = p[i + k]

\* Copies of a token.
LEMMA CopiesAre ==
    ASSUME NEW S, NEW x \in S, NEW n \in Nat
    PROVE  Copies(x, n) \in Seq(S) /\ Len(Copies(x, n)) = n
BY DEF Copies

\* The text of a request consists of its tokens.
LEMMA TextTokens ==
    ASSUME NEW M, NEW m \in M
    PROVE  Text(m) \in Seq([t : {"{", "body", "}", "ff", "eof"}, msg : M])
<1> DEFINE S == [t : {"{", "body", "}", "ff", "eof"}, msg : M]
           braces == IF m.kind = "deep" THEN MAX_NESTING + 1 ELSE 1
           body == IF m.kind = "long" THEN MAX_TOKEN_SIZE ELSE 1
           a == Copies(Token("{", m), braces)
           b == Copies(Token("body", m), body)
           c == Copies(Token("}", m), braces)
<1>1. braces \in Nat /\ body \in Nat
  <2>1. MAX_NESTING + 1 \in Nat /\ MAX_TOKEN_SIZE \in Nat /\ 1 \in Nat
    BY ConstantsAssumption
  <2> QED
    BY <2>1, Zenon
<1>2. Token("{", m) \in S /\ Token("body", m) \in S /\ Token("}", m) \in S
  BY Zenon DEF Token
<1> HIDE DEF braces, body, S
<1>3. a \in Seq(S) /\ b \in Seq(S) /\ c \in Seq(S)
  BY <1>1, <1>2, CopiesAre, Zenon
<1> HIDE DEF a, b, c
<1>4. a \o b \o c \in Seq(S)
  BY <1>3
<1>5. Text(m) = a \o b \o c
  BY Zenon DEF Text, a, b, c, braces, body
<1> QED
  BY <1>4, <1>5 DEF S

\* That of a request within the limits has three.
LEMMA TextWhole ==
    ASSUME NEW m, m.kind # "deep", m.kind # "long"
    PROVE  Text(m) = Whole(m)
<1> DEFINE x == Token("{", m)
           y == Token("body", m)
           z == Token("}", m)
<1>1. Text(m) = Copies(x, 1) \o Copies(y, 1) \o Copies(z, 1)
  BY Zenon DEF Text
<1> HIDE DEF x, y, z
<1>2. Copies(x, 1) = <<x>> /\ Copies(y, 1) = <<y>> /\ Copies(z, 1) = <<z>>
  BY DEF Copies
<1>3. <<x>> \o <<y>> \o <<z>> = <<x, y, z>>
  <2> DEFINE S == {x, y, z}
             a == <<x>> \o <<y>>
             b == a \o <<z>>
             c == <<x, y, z>>
  <2>1. /\ a \in Seq(S) /\ Len(a) = 2 /\ a[1] = x /\ a[2] = y
        /\ <<z>> \in Seq(S)
    OBVIOUS
  <2> HIDE DEF a
  <2>2. b \in Seq(S) /\ Len(b) = 3 /\ b[1] = x /\ b[2] = y /\ b[3] = z
    <3> DEFINE e == <<z>>
    <3>1. e \in Seq(S) /\ Len(e) = 1 /\ e[1] = z
      OBVIOUS
    <3> HIDE DEF e
    <3>2. a \o e \in Seq(S) /\ Len(a \o e) = Len(a) + Len(e)
          /\ \A i \in 1 .. Len(a) + Len(e) :
                (a \o e)[i] = IF i <= Len(a) THEN a[i] ELSE e[i - Len(a)]
      <4>1. a \in Seq(S)
        BY <2>1
      <4>2. e \in Seq(S)
        BY <3>1
      <4> HIDE DEF S
      <4> QED
        BY <4>1, <4>2, ConcatProperties, Zenon
    <3> QED
      BY <2>1, <3>1, <3>2 DEF e
  <2>3. c \in Seq(S) /\ Len(c) = 3 /\ c[1] = x /\ c[2] = y /\ c[3] = z
    OBVIOUS
  <2> HIDE DEF b, c, S
  <2>4. \A i \in 1 .. Len(b) : b[i] = c[i]
    BY <2>2, <2>3
  <2> QED
    BY <2>2, <2>3, <2>4, SeqEqual DEF a, b, c
<1> QED
  BY <1>1, <1>2, <1>3 DEF Whole, x, y, z

\* The input and its parts.
LEMMA PipeIs ==
    ASSUME NEW S, NEW b \in Seq(S), NEW g \in Seq(S), NEW c \in Seq(S)
    PROVE  LET p == (b \o g) \o c IN
           /\ p \in Seq(S) /\ Len(p) = Len(b) + Len(g) + Len(c)
           /\ Len(b) \in Nat /\ Len(g) \in Nat /\ Len(c) \in Nat
           /\ \A i \in 1 .. Len(p) : p[i] =
                 IF i <= Len(b) THEN b[i]
                 ELSE IF i <= Len(b) + Len(g) THEN g[i - Len(b)]
                 ELSE c[i - (Len(b) + Len(g))]
<1> DEFINE q == b \o g
           p == q \o c
<1>1. /\ q \in Seq(S) /\ Len(q) = Len(b) + Len(g)
      /\ \A i \in 1 .. Len(b) + Len(g) :
            q[i] = IF i <= Len(b) THEN b[i] ELSE g[i - Len(b)]
  BY ConcatProperties, Zenon
<1>2. Len(b) \in Nat /\ Len(g) \in Nat /\ Len(c) \in Nat
  OBVIOUS
<1> HIDE DEF q
<1>3. /\ p \in Seq(S) /\ Len(p) = Len(q) + Len(c)
      /\ \A i \in 1 .. Len(q) + Len(c) :
            p[i] = IF i <= Len(q) THEN q[i] ELSE c[i - Len(q)]
  <2>1. q \in Seq(S)
    BY <1>1
  <2> QED
    BY <2>1, ConcatProperties, Zenon
<1> HIDE DEF p
<1>4. \A i \in 1 .. Len(p) : p[i] =
         IF i <= Len(b) THEN b[i]
         ELSE IF i <= Len(b) + Len(g) THEN g[i - Len(b)]
         ELSE c[i - (Len(b) + Len(g))]
  BY <1>1, <1>2, <1>3
<1> QED
  BY <1>1, <1>2, <1>3, <1>4, Zenon DEF p, q

\* It is empty when its parts are.
LEMMA PipeEmpty ==
    ASSUME NEW S, NEW b \in Seq(S), NEW g \in Seq(S), NEW c \in Seq(S)
    PROVE  (b \o g) \o c = <<>> <=> b = <<>> /\ g = <<>> /\ c = <<>>
BY ConcatEqualIffEmpty, ConcatProperties

\* Taking tokens keeps the places from the end.
LEMMA PlacedRemains ==
    ASSUME NEW S, NEW p \in Seq(S), NEW q \in Seq(S), NEW m,
           Remains(p, q), Placed(p, m)
    PROVE  Placed(q, m)
<1>1. PICK k \in Nat : /\ Len(q) = Len(p) - k
                       /\ \A i \in 1 .. Len(q) : q[i] = p[i + k]
  BY DEF Remains
<1> SUFFICES ASSUME NEW i \in 1 .. Len(q), q[i].msg = m
             PROVE  /\ Len(q) - i <= 2
                    /\ q[i] = Whole(m)[3 - (Len(q) - i)]
  BY DEF Placed
<1>2. i + k \in 1 .. Len(p) /\ Len(p) - (i + k) = Len(q) - i
  BY <1>1
<1>3. q[i] = p[i + k]
  BY <1>1
<1> QED
  BY <1>2, <1>3, Zenon DEF Placed

\* channel_event_cb moves what it reads into its buffer.
LEMMA PipeRead ==
    ASSUME NEW S, NEW g \in Seq(S), NEW c \in Seq(S), NEW n \in 0 .. Len(g)
    PROVE  (SubSeq(g, 1, n) \o SubSeq(g, n + 1, Len(g))) \o c
              = (<<>> \o g) \o c
<1>1. SubSeq(g, 1, n) \o SubSeq(g, n + 1, Len(g)) = SubSeq(g, 1, Len(g))
  <2>1. /\ 1 \in 1 .. Len(g) + 1 /\ n \in 1 - 1 .. Len(g)
        /\ Len(g) \in n .. Len(g)
    OBVIOUS
  <2> QED
    BY <2>1, ConcatAdjacentSubSeq, Zenon
<1>2. SubSeq(g, 1, Len(g)) = g /\ <<>> \o g = g
  BY SubSeqFull, ConcatEmptySeq, Zenon
<1> QED
  BY <1>1, <1>2

\* Moving the head of c to the end of g does not change the input.
Moves(b, g, c) == (b \o Append(g, Head(c))) \o Tail(c) = (b \o g) \o c

\* A client's token moves into the channel.
LEMMA PipeSend ==
    ASSUME NEW S, NEW b \in Seq(S), NEW g \in Seq(S), NEW c \in Seq(S),
           c # <<>>
    PROVE  Moves(b, g, c)
<1> DEFINE h == Append(g, Head(c))
           t == Tail(c)
           p == (b \o h) \o t
           q == (b \o g) \o c
<1>1. /\ h \in Seq(S) /\ t \in Seq(S) /\ Len(h) = Len(g) + 1
      /\ Len(t) = Len(c) - 1 /\ h[Len(g) + 1] = c[1]
      /\ \A i \in 1 .. Len(g) : h[i] = g[i]
      /\ \A i \in 1 .. Len(t) : t[i] = c[i + 1]
  OBVIOUS
<1>2. h \in Seq(S)
  BY <1>1
<1>3. t \in Seq(S)
  BY <1>1
<1> HIDE DEF h, t
<1>4. /\ p \in Seq(S) /\ Len(p) = Len(b) + Len(h) + Len(t)
      /\ \A i \in 1 .. Len(p) : p[i] =
            IF i <= Len(b) THEN b[i]
            ELSE IF i <= Len(b) + Len(h) THEN h[i - Len(b)]
            ELSE t[i - (Len(b) + Len(h))]
  BY <1>2, <1>3, PipeIs
<1>5. /\ q \in Seq(S) /\ Len(q) = Len(b) + Len(g) + Len(c)
      /\ Len(b) \in Nat /\ Len(g) \in Nat /\ Len(c) \in Nat
      /\ \A i \in 1 .. Len(q) : q[i] =
            IF i <= Len(b) THEN b[i]
            ELSE IF i <= Len(b) + Len(g) THEN g[i - Len(b)]
            ELSE c[i - (Len(b) + Len(g))]
  BY PipeIs
<1> HIDE DEF p, q
<1>6. Len(p) = Len(q)
  BY <1>1, <1>4, <1>5
<1>7. ASSUME NEW i \in 1 .. Len(p) PROVE p[i] = q[i]
  <2>1. CASE i <= Len(b) + Len(g)
    <3>1. CASE i <= Len(b)
      BY <1>4, <1>5, <1>6, <3>1
    <3>2. CASE ~(i <= Len(b))
      <4> DEFINE k == i - Len(b)
      <4>1. k \in 1 .. Len(g) /\ i <= Len(b) + Len(h)
        BY <1>1, <1>5, <2>1, <3>2
      <4>2. p[i] = h[k]
        BY <1>4, <3>2, <4>1, Zenon
      <4>3. q[i] = g[k]
        BY <1>5, <1>6, <2>1, <3>2, Zenon
      <4> HIDE DEF k
      <4> QED
        BY <1>1, <4>1, <4>2, <4>3
    <3> QED
      BY <3>1, <3>2
  <2>2. CASE i = Len(b) + Len(g) + 1
    BY <1>1, <1>4, <1>5, <1>6, <2>2, SMTT(60)
  <2>3. CASE i > Len(b) + Len(g) + 1
    <3> DEFINE k == i - (Len(b) + Len(h))
    <3>1. /\ k \in 1 .. Len(t) /\ k + 1 = i - (Len(b) + Len(g))
          /\ ~(i <= Len(b)) /\ ~(i <= Len(b) + Len(h))
          /\ ~(i <= Len(b) + Len(g))
      BY <1>1, <1>4, <1>5, <2>3
    <3>2. p[i] = t[k]
      BY <1>4, <3>1, Zenon
    <3>3. q[i] = c[i - (Len(b) + Len(g))]
      BY <1>5, <1>6, <3>1, Zenon
    <3> HIDE DEF k
    <3> QED
      BY <1>1, <3>1, <3>2, <3>3
  <2> QED
    BY <1>5, <2>1, <2>2, <2>3
<1> QED
  BY <1>4, <1>5, <1>6, <1>7, SeqEqual DEF Moves, p, q, h, t

\* The streamer takes a token out of the buffer.
LEMMA PipeFeed ==
    ASSUME NEW S, NEW b \in Seq(S), NEW g \in Seq(S), NEW c \in Seq(S),
           b # <<>>
    PROVE  LET p == (b \o g) \o c
               q == (Tail(b) \o g) \o c IN
           /\ p # <<>> /\ p[1] = Head(b) /\ Len(q) = Len(p) - 1
           /\ \A i \in 1 .. Len(q) : q[i] = p[i + 1]
<1> DEFINE p == (b \o g) \o c
           u == Tail(b)
           q == (u \o g) \o c
<1>1. /\ u \in Seq(S) /\ Len(u) = Len(b) - 1 /\ Len(b) \in Nat /\ Len(b) > 0
      /\ \A i \in 1 .. Len(u) : u[i] = b[i + 1]
      /\ Head(b) = b[1]
  OBVIOUS
<1> HIDE DEF u
<1>2. /\ p \in Seq(S) /\ Len(p) = Len(b) + Len(g) + Len(c)
      /\ Len(g) \in Nat /\ Len(c) \in Nat
      /\ \A i \in 1 .. Len(p) : p[i] =
            IF i <= Len(b) THEN b[i]
            ELSE IF i <= Len(b) + Len(g) THEN g[i - Len(b)]
            ELSE c[i - (Len(b) + Len(g))]
  BY PipeIs
<1>3. /\ q \in Seq(S) /\ Len(q) = Len(u) + Len(g) + Len(c)
      /\ \A i \in 1 .. Len(q) : q[i] =
            IF i <= Len(u) THEN u[i]
            ELSE IF i <= Len(u) + Len(g) THEN g[i - Len(u)]
            ELSE c[i - (Len(u) + Len(g))]
  <2>1. u \in Seq(S)
    BY <1>1
  <2> QED
    BY <2>1, PipeIs
<1> HIDE DEF p, q
<1>4. p # <<>> /\ p[1] = Head(b) /\ Len(q) = Len(p) - 1
  BY <1>1, <1>2, <1>3
<1>5. ASSUME NEW i \in 1 .. Len(q) PROVE q[i] = p[i + 1]
  <2>1. i + 1 \in 1 .. Len(p) /\ i \in Nat
    BY <1>1, <1>2, <1>3
  <2>2. CASE i <= Len(u)
    BY <1>1, <1>2, <1>3, <2>1, <2>2
  <2>3. CASE ~(i <= Len(u)) /\ i <= Len(u) + Len(g)
    <3>1. /\ ~(i + 1 <= Len(b)) /\ i + 1 <= Len(b) + Len(g)
          /\ (i + 1) - Len(b) = i - Len(u)
      BY <1>1, <1>2, <2>1, <2>3
    <3>2. p[i + 1] = g[(i + 1) - Len(b)]
      BY <1>2, <2>1, <3>1, Zenon
    <3>3. q[i] = g[i - Len(u)]
      BY <1>3, <2>3, Zenon
    <3> QED
      BY <3>1, <3>2, <3>3, Zenon
  <2>4. CASE ~(i <= Len(u)) /\ ~(i <= Len(u) + Len(g))
    <3>1. /\ ~(i + 1 <= Len(b)) /\ ~(i + 1 <= Len(b) + Len(g))
          /\ (i + 1) - (Len(b) + Len(g)) = i - (Len(u) + Len(g))
      BY <1>1, <1>2, <2>1, <2>4
    <3>2. p[i + 1] = c[(i + 1) - (Len(b) + Len(g))]
      BY <1>2, <2>1, <3>1, Zenon
    <3>3. q[i] = c[i - (Len(u) + Len(g))]
      BY <1>3, <2>4, Zenon
    <3> QED
      BY <3>1, <3>2, <3>3, Zenon
  <2> QED
    BY <2>2, <2>3, <2>4
<1> QED
  BY <1>4, <1>5 DEF p, q, u

\* What was in front of a part of the channel is dropped.
LEMMA PipeDrop ==
    ASSUME NEW S, NEW b \in Seq(S), NEW g \in Seq(S), NEW c \in Seq(S),
           NEW n \in 1 .. Len(g) + 1
    PROVE  Remains((b \o g) \o c, (<<>> \o SubSeq(g, n, Len(g))) \o c)
<1> DEFINE h == SubSeq(g, n, Len(g))
           p == (b \o g) \o c
           q == (<<>> \o h) \o c
           k == Len(b) + (n - 1)
<1>1. /\ h \in Seq(S) /\ Len(h) = Len(g) - (n - 1) /\ Len(g) \in Nat
      /\ n \in Nat
      /\ \A i \in 1 .. Len(h) : h[i] = g[i + (n - 1)]
  OBVIOUS
<1> HIDE DEF h
<1>2. /\ p \in Seq(S) /\ Len(p) = Len(b) + Len(g) + Len(c)
      /\ Len(b) \in Nat /\ Len(c) \in Nat
      /\ \A i \in 1 .. Len(p) : p[i] =
            IF i <= Len(b) THEN b[i]
            ELSE IF i <= Len(b) + Len(g) THEN g[i - Len(b)]
            ELSE c[i - (Len(b) + Len(g))]
  BY PipeIs
<1>3. <<>> \o h = h
  BY <1>1, ConcatEmptySeq, Zenon
<1>4. /\ q \in Seq(S) /\ Len(q) = Len(h) + Len(c)
      /\ \A i \in 1 .. Len(h) + Len(c) :
            q[i] = IF i <= Len(h) THEN h[i] ELSE c[i - Len(h)]
  <2>1. h \in Seq(S)
    BY <1>1
  <2>2. q = h \o c
    BY <1>3
  <2> HIDE DEF q
  <2> QED
    BY <2>1, <2>2, ConcatProperties
<1> HIDE DEF p, q
<1>5. k \in Nat /\ Len(q) = Len(p) - k
  BY <1>1, <1>2, <1>4
<1>6. ASSUME NEW i \in 1 .. Len(q) PROVE q[i] = p[i + k]
  <2>1. i + k \in 1 .. Len(p) /\ i \in Nat /\ ~(i + k <= Len(b))
    BY <1>1, <1>2, <1>4, <1>5
  <2>2. CASE i <= Len(h)
    <3>1. i + k <= Len(b) + Len(g) /\ (i + k) - Len(b) = i + (n - 1)
      BY <1>1, <1>2, <2>1, <2>2
    <3>2. i \in 1 .. Len(h)
      BY <1>1, <2>2
    <3> HIDE DEF k
    <3> QED
      BY <1>1, <1>2, <1>4, <2>1, <2>2, <3>1, <3>2, Zenon
  <2>3. CASE ~(i <= Len(h))
    <3>1. ~(i + k <= Len(b) + Len(g))
          /\ (i + k) - (Len(b) + Len(g)) = i - Len(h)
      BY <1>1, <1>2, <2>1, <2>3
    <3> HIDE DEF k
    <3> QED
      BY <1>1, <1>2, <1>4, <2>1, <2>3, <3>1, Zenon
  <2> QED
    BY <2>2, <2>3
<1> HIDE DEF k
<1>7. Remains(p, q)
  BY <1>5, <1>6 DEF Remains
<1> QED
  BY <1>7 DEF p, q, h
-----------------------------------------------------------------------------
(* The steps of the channel. *)

\* NoMsg is older than every request.
LEMMA NoMsgOld ==
    ASSUME TypeCounts
    PROVE  /\ NoMsg \in SoFar /\ NoMsg.n = 0
           /\ FF \in TokensSoFar /\ EOF \in TokensSoFar
           /\ Sentinel \in ResponsesSoFar /\ FF.msg = NoMsg
<1>1. NoMsg.n = 0
  BY Zenon DEF NoMsg
<1>2. 0 <= requests
  BY ConstantsAssumption DEF TypeCounts
<1>3. NoMsg \in SoFar
  BY <1>1, <1>2, Zenon DEF SoFar
<1> QED
  BY <1>1, <1>3, Zenon
     DEF FF, EOF, Token, Sentinel, Response, TokensSoFar, ResponsesSoFar

\* Without a new request nothing new can be talked about.
LEMMA SameRequests ==
    ASSUME requests' = requests
    PROVE  /\ SoFar' = SoFar /\ TokensSoFar' = TokensSoFar
           /\ ResponsesSoFar' = ResponsesSoFar
BY Zenon DEF SoFar, TokensSoFar, ResponsesSoFar

\* What is in the input, from the types of its parts.
LEMMA PipeTokens == TypeInput => Pipe \in Seq(TokensSoFar)
<1> SUFFICES ASSUME TypeInput PROVE Pipe \in Seq(TokensSoFar)
  OBVIOUS
<1> HIDE DEF TokensSoFar
<1>1. buf \in Seq(TokensSoFar)
  BY DEF TypeInput
<1>2. toGuest \in Seq(TokensSoFar)
  BY DEF TypeInput
<1>3. csend \in Seq(TokensSoFar)
  BY DEF TypeInput
<1> QED
  BY <1>1, <1>2, <1>3, PipeIs DEF Pipe

\* What the client and the streamer have, and the answers on their way.
talk == <<tokens, brace_count, toHost, out, client, current, requests, clean>>

\* A step that leaves the conversation as it is.
LEMMA SameTalk ==
    ASSUME SessionInv, UNCHANGED talk, Pipe' = Pipe
    PROVE  TypeClient' /\ TypeParser' /\ TypeOutput' /\ Syncing' /\ InSync'
<1>1. /\ tokens' = tokens /\ brace_count' = brace_count /\ toHost' = toHost
      /\ out' = out /\ client' = client /\ current' = current
      /\ requests' = requests /\ clean' = clean
  BY Zenon DEF talk
<1>2. /\ SoFar' = SoFar /\ TokensSoFar' = TokensSoFar
      /\ ResponsesSoFar' = ResponsesSoFar
  BY <1>1, SameRequests, Zenon
<1>3. TypeClient' /\ TypeParser' /\ TypeOutput'
  BY <1>1, <1>2, Zenon
     DEF SessionInv, TypeClient, TypeParser, TypeOutput
<1>4. Syncing'
  BY <1>1, Zenon DEF SessionInv, Syncing
<1>5. InSync'
  BY <1>1, Zenon DEF SessionInv, InSync, Fed, Silent
<1> QED
  BY <1>3, <1>4, <1>5

\* A client is accepted.
LEMMA AcceptKeeps == SessionInv /\ ga_channel_listen_accept => SessionInv'
<1> SUFFICES ASSUME SessionInv, ga_channel_listen_accept PROVE SessionInv'
  OBVIOUS
<1> USE DEF ga_channel_listen_accept, parserVars, clientVars
<1>1. /\ UNCHANGED talk /\ buf' = buf /\ toGuest' = toGuest
      /\ csend' = csend /\ pc' = pc
  BY Zenon DEF talk
<1>2. Pipe' = Pipe
  BY <1>1, Zenon DEF Pipe
<1>3. TypeCounts'
  <2>1. /\ peer < session /\ peer' = peer + 1 /\ method' = method
        /\ session' = session /\ requests' = requests /\ kills' = kills
    BY Zenon
  <2> QED
    BY <2>1, ConstantsAssumption DEF SessionInv, TypeCounts
<1>4. TypeFlags'
  BY Zenon DEF SessionInv, TypeFlags
<1>5. requests' = requests /\ out' = out
  BY <1>1, Zenon DEF talk
<1>6. TypeInput' /\ Loop'
  BY <1>1, <1>5, SameRequests, Zenon DEF SessionInv, TypeInput, Loop
<1> QED
  BY <1>1, <1>2, <1>3, <1>4, <1>6, SameTalk DEF SessionInv

\* What can be read is in the channel; the end of a connection follows it, if
\* anything does.
LEMMA AvailableIs ==
    ASSUME NEW S, toGuest \in Seq(S)
    PROVE  /\ Available \in 0 .. Len(toGuest)
           /\ Available < Len(toGuest) => toGuest[Available + 1] = EOF
<1> DEFINE ends == {i \in DOMAIN toGuest : toGuest[i] = EOF}
<1>1. DOMAIN toGuest = 1 .. Len(toGuest) /\ Len(toGuest) \in Nat
  OBVIOUS
<1>2. Available = IF ends = {} THEN Len(toGuest) ELSE Min(ends) - 1
  BY Zenon DEF Available
<1>3. ends \subseteq Nat /\ ends \subseteq 1 .. Len(toGuest)
  BY <1>1
<1>4. \A i \in ends : toGuest[i] = EOF
  OBVIOUS
<1> HIDE DEF ends
<1>5. ends # {} => Min(ends) \in ends
  BY <1>3, FirstPlace, Zenon
<1>6. CASE ends = {}
  BY <1>1, <1>2, <1>6
<1>7. CASE ends # {}
  <2> DEFINE f == Min(ends)
  <2>1. f \in 1 .. Len(toGuest) /\ toGuest[f] = EOF
    BY <1>3, <1>4, <1>5, <1>7, Zenon
  <2>2. Available = f - 1
    BY <1>2, <1>7, Zenon
  <2> HIDE DEF f
  <2>3. Available + 1 = f /\ Available \in 0 .. Len(toGuest)
    BY <1>1, <2>1, <2>2
  <2> QED
    BY <2>1, <2>3, Zenon
<1> QED
  BY <1>6, <1>7

\* channel_event_cb reads what there is, as much as its buffer holds.
LEMMA ReadKeeps == SessionInv /\ ReadData => SessionInv'
<1> SUFFICES ASSUME SessionInv, ReadData PROVE SessionInv'
  OBVIOUS
<1> DEFINE n == Min2(Available, READ_COUNT)
<1>1. /\ UNCHANGED talk /\ csend' = csend
      /\ pc = "loop" /\ n > 0 /\ buf' = SubSeq(toGuest, 1, n)
      /\ toGuest' = SubSeq(toGuest, n + 1, Len(toGuest)) /\ pc' = "feed"
  BY Zenon DEF ReadData, talk, parserVars, clientVars
<1>2. requests' = requests /\ out' = out
  BY <1>1, Zenon DEF talk
<1>3. TypeCounts'
  BY Zenon DEF ReadData, channelVars, clientVars, SessionInv, TypeCounts
<1>4. TypeFlags'
  BY Zenon DEF ReadData, channelVars, clientVars, SessionInv, TypeFlags
<1>5. /\ toGuest \in Seq(TokensSoFar) /\ csend \in Seq(TokensSoFar)
      /\ TokensSoFar' = TokensSoFar
  BY <1>2, SameRequests, Zenon DEF SessionInv, TypeInput
<1>6. toGuest \in Seq(TokensSoFar)
  BY <1>5
<1>7. Available \in 0 .. Len(toGuest)
  BY <1>6, AvailableIs, Zenon
<1>8. n \in 1 .. Len(toGuest) /\ n <= READ_COUNT
  BY <1>1, <1>6, <1>7, ConstantsAssumption DEF Min2
<1>9. buf = <<>> /\ out = <<>>
  BY <1>1 DEF SessionInv, Loop
<1> HIDE DEF n
<1>10. Pipe' = Pipe
  <2>1. csend \in Seq(TokensSoFar) /\ n \in 0 .. Len(toGuest)
    BY <1>5, <1>8
  <2>2. (SubSeq(toGuest, 1, n) \o SubSeq(toGuest, n + 1, Len(toGuest)))
           \o csend = (<<>> \o toGuest) \o csend
    BY <1>6, <2>1, PipeRead, Zenon
  <2> QED
    BY <1>1, <1>9, <2>2, Zenon DEF Pipe
<1>11. /\ buf' \in Seq(TokensSoFar) /\ toGuest' \in Seq(TokensSoFar)
       /\ Len(buf') = n /\ buf' # <<>>
  <2>1. buf' = SubSeq(toGuest, 1, n)
        /\ toGuest' = SubSeq(toGuest, n + 1, Len(toGuest))
    BY <1>1, Zenon
  <2> QED
    BY <1>6, <1>8, <2>1
<1>12. TypeInput' /\ Loop'
  BY <1>1, <1>2, <1>5, <1>8, <1>9, <1>11, Zenon DEF TypeInput, Loop
<1> QED
  BY <1>1, <1>3, <1>4, <1>10, <1>12, SameTalk DEF SessionInv

\* A client sends a token.
LEMMA SendKeeps == SessionInv /\ Send => SessionInv'
<1> SUFFICES ASSUME SessionInv, Send PROVE SessionInv'
  OBVIOUS
<1>1. /\ UNCHANGED talk /\ csend # <<>> /\ buf' = buf /\ pc' = pc
      /\ toGuest' = Append(toGuest, Head(csend)) /\ csend' = Tail(csend)
  BY Zenon DEF Send, talk, parserVars
<1>2. requests' = requests /\ out' = out
  BY <1>1, Zenon DEF talk
<1>3. TypeCounts'
  BY Zenon DEF Send, channelVars, SessionInv, TypeCounts
<1>4. TypeFlags'
  BY Zenon DEF Send, channelVars, SessionInv, TypeFlags
<1>5. TokensSoFar' = TokensSoFar
  BY <1>2, SameRequests, Zenon
<1>6. buf \in Seq(TokensSoFar) /\ Len(buf) <= READ_COUNT
  BY DEF SessionInv, TypeInput
<1>7. toGuest \in Seq(TokensSoFar)
  BY DEF SessionInv, TypeInput
<1>8. csend \in Seq(TokensSoFar)
  BY DEF SessionInv, TypeInput
<1>9. Pipe' = Pipe
  <2>1. buf \in Seq(TokensSoFar)
    BY <1>6
  <2>2. csend # <<>>
    BY <1>1
  <2>3. Moves(buf, toGuest, csend)
    BY <1>7, <1>8, <2>1, <2>2, PipeSend, Zenon
  <2> QED
    BY <1>1, <2>3, Zenon DEF Pipe, Moves
<1>10. toGuest' \in Seq(TokensSoFar) /\ csend' \in Seq(TokensSoFar)
  BY <1>1, <1>7, <1>8
<1>11. TypeInput' /\ Loop'
  BY <1>1, <1>2, <1>5, <1>6, <1>10, Zenon DEF SessionInv, TypeInput, Loop
<1> QED
  BY <1>1, <1>3, <1>4, <1>9, <1>11, SameTalk DEF SessionInv

\* A serial port fails.
LEMMA ReadFailsKeeps == SessionInv /\ ReadFails => SessionInv'
<1> SUFFICES ASSUME SessionInv, ReadFails PROVE SessionInv'
  OBVIOUS
<1>1. /\ UNCHANGED talk /\ buf' = buf /\ toGuest' = toGuest
      /\ csend' = csend /\ pc' = pc
  BY Zenon DEF ReadFails, talk, parserVars
<1>2. requests' = requests /\ out' = out
  BY <1>1, Zenon DEF talk
<1>3. Pipe' = Pipe
  BY <1>1, Zenon DEF Pipe
<1>4. TypeCounts'
  BY Zenon DEF ReadFails, SessionInv, TypeCounts
<1>5. TypeFlags'
  BY Zenon DEF ReadFails, ga_channel_client_close, SessionInv, TypeFlags
<1>6. TypeInput' /\ Loop'
  BY <1>1, <1>2, SameRequests, Zenon DEF SessionInv, TypeInput, Loop
<1> QED
  BY <1>1, <1>3, <1>4, <1>5, <1>6, SameTalk DEF SessionInv

\* The tokens of a request within the limits.
LEMMA WholeIs ==
    ASSUME NEW m
    PROVE  /\ Whole(m)[1] = Token("{", m) /\ Whole(m)[2] = Token("body", m)
           /\ Whole(m)[3] = Token("}", m) /\ Len(Whole(m)) = 3
           /\ \A i \in 1 .. 3 : /\ Whole(m)[i].msg = m
                                /\ Whole(m)[i] # EOF /\ Whole(m)[i] # FF
                                /\ Whole(m)[i] = Token("}", m) => i = 3
<1> DEFINE x == Token("{", m)
           y == Token("body", m)
           z == Token("}", m)
<1>1. /\ x.msg = m /\ x.t = "{" /\ y.msg = m /\ y.t = "body"
      /\ z.msg = m /\ z.t = "}" /\ EOF.t = "eof" /\ FF.t = "ff"
  BY Zenon DEF Token, EOF, FF
<1> HIDE DEF x, y, z
<1>2. Whole(m) = <<x, y, z>>
  BY DEF Whole, x, y, z
<1>3. /\ <<x, y, z>>[1] = x /\ <<x, y, z>>[2] = y /\ <<x, y, z>>[3] = z
      /\ Len(<<x, y, z>>) = 3
  OBVIOUS
<1>4. /\ x # EOF /\ y # EOF /\ z # EOF /\ x # FF /\ y # FF /\ z # FF
      /\ x # z /\ y # z
  <2>1. "{" # "eof" /\ "body" # "eof" /\ "}" # "eof" /\ "{" # "ff"
        /\ "body" # "ff" /\ "}" # "ff" /\ "{" # "}" /\ "body" # "}"
    OBVIOUS
  <2> QED
    BY <1>1, <2>1, Zenon
<1>5. Whole(m)[1] = x /\ Whole(m)[2] = y /\ Whole(m)[3] = z
  BY <1>2, <1>3, Zenon
<1>6. \A i \in 1 .. 3 : i = 1 \/ i = 2 \/ i = 3
  OBVIOUS
<1>7. \A i \in 1 .. 3 : /\ Whole(m)[i].msg = m
                        /\ Whole(m)[i] # EOF /\ Whole(m)[i] # FF
                        /\ Whole(m)[i] = z => i = 3
  BY <1>1, <1>4, <1>5, <1>6, Zenon
<1> QED
  BY <1>2, <1>3, <1>5, <1>7, Zenon DEF x, y, z

\* Taking tokens from the input, dropping those the streamer has or dropping an
\* answer, keeps what holds while a client waits for its sync.
LEMMA RemainsKeeps ==
    ASSUME SessionInv, TypeInput', Remains(Pipe, Pipe'),
           client' = client, current' = current, requests' = requests,
           toHost' = toHost, out' = out \/ out' = <<>>,
           tokens' = tokens \/ tokens' = <<>>
    PROVE  Syncing'
<1> SUFFICES ASSUME client = "syncing"
             PROVE  /\ Placed(Pipe', current)
                    /\ SaidLast(toHost, out', Response("return", current))
                    /\ Occurs(toHost, out', Response("return", current)) =>
                          Pipe' = <<>> /\ tokens' = <<>>
  BY Zenon DEF Syncing
<1> DEFINE R == Response("return", current)
<1>1. /\ Placed(Pipe, current) /\ SaidLast(toHost, out, R)
      /\ Occurs(toHost, out, R) => Pipe = <<>> /\ tokens = <<>>
  BY Zenon DEF SessionInv, Syncing
<1>2. Pipe \in Seq(TokensSoFar)
  BY PipeTokens DEF SessionInv
<1>3. Pipe' \in Seq(TokensSoFar)
  <2>1. TokensSoFar' = TokensSoFar
    BY SameRequests, Zenon
  <2>2. (Pipe \in Seq(TokensSoFar))'
    BY PipeTokens, PTL
  <2> QED
    BY <2>1, <2>2, Zenon
<1>4. Placed(Pipe', current)
  BY <1>1, <1>2, <1>3, PlacedRemains, Zenon
<1> HIDE DEF R
<1>5. Len(<<>>) = 0 /\ \A i \in 1 .. 0 : FALSE
  OBVIOUS
<1>6. /\ SaidLast(toHost, out', R)
      /\ Occurs(toHost, out', R) => Occurs(toHost, out, R)
  <2>1. CASE out' = out
    BY <1>1, <2>1, Zenon
  <2>2. CASE out' = <<>>
    BY <1>1, <1>5, <2>2, Zenon DEF SaidLast, Occurs
  <2> QED
    BY <2>1, <2>2
<1>7. Pipe = <<>> => Pipe' = <<>>
  <2> SUFFICES ASSUME Pipe = <<>> PROVE Pipe' = <<>>
    OBVIOUS
  <2>1. PICK k \in Nat : Len(Pipe') = Len(Pipe) - k
    BY DEF Remains
  <2> QED
    BY <1>3, <2>1
<1> QED
  BY <1>1, <1>4, <1>6, <1>7, Zenon DEF R

\* A connection that has ended is closed; what was left of it is not read.
LEMMA ReadEndKeeps == SessionInv /\ ReadEnd => SessionInv'
<1> SUFFICES ASSUME SessionInv, ReadEnd PROVE SessionInv'
  OBVIOUS
<1>1. /\ UNCHANGED talk /\ csend' = csend /\ buf' = buf
      /\ pc = "loop" /\ pc' = pc /\ Available < Len(toGuest)
      /\ toGuest' = SubSeq(toGuest, Available + 2, Len(toGuest))
  BY Zenon DEF ReadEnd, talk, parserVars, clientVars
<1>2. /\ tokens' = tokens /\ brace_count' = brace_count /\ toHost' = toHost
      /\ out' = out /\ client' = client /\ current' = current
      /\ requests' = requests /\ clean' = clean
  BY <1>1, Zenon DEF talk
<1>3. TypeCounts'
  BY Zenon DEF ReadEnd, clientVars, SessionInv, TypeCounts
<1>4. TypeFlags'
  BY Zenon DEF ReadEnd, ga_channel_client_close, clientVars, SessionInv,
               TypeFlags
<1>5. /\ SoFar' = SoFar /\ TokensSoFar' = TokensSoFar
      /\ ResponsesSoFar' = ResponsesSoFar
  BY <1>2, SameRequests, Zenon
<1>6. toGuest \in Seq(TokensSoFar)
  BY DEF SessionInv, TypeInput
<1>7. csend \in Seq(TokensSoFar)
  BY DEF SessionInv, TypeInput
<1>8. buf = <<>> /\ out = <<>>
  BY <1>1 DEF SessionInv, Loop
<1>9. Available \in 0 .. Len(toGuest) /\ toGuest[Available + 1] = EOF
  BY <1>1, <1>6, AvailableIs, Zenon
<1> DEFINE n == Available + 2
           f == Available + 1
<1>10. /\ n \in 1 .. Len(toGuest) + 1 /\ f \in 1 .. Len(toGuest)
       /\ toGuest' \in Seq(TokensSoFar) /\ Len(toGuest) \in Nat
  BY <1>1, <1>6, <1>9
<1>11. toGuest' = SubSeq(toGuest, n, Len(toGuest)) /\ toGuest[f] = EOF
  BY <1>1, <1>9
<1> HIDE DEF n, f
<1>12. TypeInput'
  BY <1>1, <1>5, <1>10, Zenon DEF SessionInv, TypeInput
<1>13. Remains(Pipe, Pipe')
  <2>1. <<>> \in Seq(TokensSoFar) /\ n \in 1 .. Len(toGuest) + 1
    BY <1>10
  <2>2. Remains((<<>> \o toGuest) \o csend,
                (<<>> \o SubSeq(toGuest, n, Len(toGuest))) \o csend)
    BY <1>6, <1>7, <2>1, PipeDrop, Zenon
  <2> QED
    BY <1>1, <1>8, <1>11, <2>2, Zenon DEF Pipe
<1>14. Syncing'
  BY <1>2, <1>12, <1>13, RemainsKeeps, Zenon
<1>15. ~clean
  <2>1. f \in 1 .. Len(Pipe) /\ Pipe[f] = EOF /\ Len(Pipe) \in Nat
    <3>1. <<>> \in Seq(TokensSoFar) /\ Len(<<>>) = 0
      OBVIOUS
    <3> DEFINE p == (<<>> \o toGuest) \o csend
    <3>2. /\ Len(p) = Len(<<>>) + Len(toGuest) + Len(csend)
          /\ p \in Seq(TokensSoFar) /\ Len(csend) \in Nat
          /\ \A i \in 1 .. Len(p) : p[i] =
                IF i <= Len(<<>>) THEN <<>>[i]
                ELSE IF i <= Len(<<>>) + Len(toGuest)
                     THEN toGuest[i - Len(<<>>)]
                ELSE csend[i - (Len(<<>>) + Len(toGuest))]
      BY <1>6, <1>7, <3>1, PipeIs
    <3>3. p = Pipe
      BY <1>8 DEF Pipe
    <3> HIDE DEF p
    <3>4. f \in 1 .. Len(p) /\ Len(p) \in Nat /\ ~(f <= 0)
          /\ f <= 0 + Len(toGuest) /\ f - 0 = f
      BY <1>10, <3>1, <3>2
    <3>5. p[f] = toGuest[f]
      BY <3>1, <3>2, <3>4, Zenon
    <3> QED
      BY <1>11, <3>3, <3>4, <3>5, Zenon
  <2>2. ~(Pipe = <<>>)
    BY <2>1
  <2>3. ASSUME OnItsWay(tokens, Pipe, current) PROVE FALSE
    <3>1. tokens \in Seq(TokensSoFar)
      BY DEF SessionInv, TypeParser
    <3>2. f + Len(tokens) \in 1 .. 3
      BY <2>1, <2>3, <3>1 DEF OnItsWay
    <3>3. Pipe[f] = Whole(current)[f + Len(tokens)]
      BY <2>1, <2>3, Zenon DEF OnItsWay
    <3> QED
      BY <2>1, <3>2, <3>3, WholeIs, ZenonT(60)
  <2> QED
    BY <2>2, <2>3, Zenon DEF SessionInv, InSync, Fed
<1>16. InSync'
  BY <1>2, <1>15, Zenon DEF InSync
<1>17. TypeClient' /\ TypeParser' /\ TypeOutput' /\ Loop'
  BY <1>1, <1>2, <1>5, Zenon
     DEF SessionInv, TypeClient, TypeParser, TypeOutput, Loop
<1> QED
  BY <1>3, <1>4, <1>12, <1>14, <1>16, <1>17 DEF SessionInv

\* A client disconnects: it expects nothing any more.
LEMMA DisconnectKeeps == SessionInv /\ Disconnect => SessionInv'
<1> SUFFICES ASSUME SessionInv, Disconnect PROVE SessionInv'
  OBVIOUS
<1>1. /\ client' = "off" /\ csend' = <<>> /\ buf' = buf /\ pc' = pc
      /\ toGuest' = toGuest \/ toGuest' = Append(toGuest, EOF)
      /\ toHost' = toHost \/ toHost' = <<>>
      /\ tokens' = tokens /\ brace_count' = brace_count /\ out' = out
      /\ current' = current /\ requests' = requests
  BY Zenon DEF Disconnect, parserVars
<1>2. clean' = FALSE
  BY Zenon DEF Disconnect
<1>3. TypeCounts'
  BY Zenon DEF Disconnect, channelVars, SessionInv, TypeCounts
<1>4. TypeFlags'
  BY Zenon DEF Disconnect, channelVars, SessionInv, TypeFlags
<1>5. /\ SoFar' = SoFar /\ TokensSoFar' = TokensSoFar
      /\ ResponsesSoFar' = ResponsesSoFar
  BY <1>1, SameRequests, Zenon
<1>6. EOF \in TokensSoFar
  BY NoMsgOld DEF SessionInv
<1>7. toGuest' \in Seq(TokensSoFar) /\ <<>> \in Seq(TokensSoFar)
  BY <1>1, <1>6 DEF SessionInv, TypeInput
<1>8. toHost' \in Seq(ResponsesSoFar) /\ Len(toHost') <= Capacity
  <2>1. <<>> \in Seq(ResponsesSoFar) /\ Len(<<>>) <= Capacity
    BY ConstantsAssumption
  <2> QED
    BY <1>1, <2>1, Zenon DEF SessionInv, TypeOutput
<1>9. TypeInput' /\ TypeParser' /\ TypeOutput' /\ Loop'
  BY <1>1, <1>5, <1>7, <1>8, Zenon
     DEF SessionInv, TypeInput, TypeParser, TypeOutput, Loop
<1>10. /\ client' # "syncing"
       /\ client' \in {"off", "syncing", "ready", "waiting"}
  BY <1>1
<1>11. TypeClient' /\ Syncing'
  BY <1>1, <1>5, <1>10, Zenon DEF SessionInv, TypeClient, Syncing
<1>12. InSync'
  BY <1>2, Zenon DEF InSync
<1> QED
  BY <1>3, <1>4, <1>9, <1>11, <1>12 DEF SessionInv

\* The agent is killed and started again: a client of a serial port waits on,
\* with less on its way.
LEMMA RestartKeeps == SessionInv /\ Restart => SessionInv'
<1> SUFFICES ASSUME SessionInv, Restart PROVE SessionInv'
  OBVIOUS
<1>1. /\ kills < MaxKills /\ kills' = kills + 1
      /\ pc' = "loop" /\ buf' = <<>> /\ tokens' = <<>> /\ brace_count' = 0
      /\ out' = <<>> /\ peer' = session
      /\ toGuest' = toGuest \/ toGuest' = <<>>
      /\ method' = method /\ session' = session
      /\ current' = current /\ requests' = requests
  BY Zenon DEF Restart
<1>2. \/ client' = client /\ csend' = csend /\ toHost' = toHost
      \/ client' = "off" /\ csend' = <<>> /\ toHost' = <<>>
  BY Zenon DEF Restart
<1>3. clean' = FALSE
  BY Zenon DEF Restart
<1>4. TypeCounts'
  BY <1>1, ConstantsAssumption DEF SessionInv, TypeCounts
<1>5. TypeFlags'
  BY Zenon DEF Restart, SessionInv, TypeFlags
<1>6. /\ SoFar' = SoFar /\ TokensSoFar' = TokensSoFar
      /\ ResponsesSoFar' = ResponsesSoFar
  BY <1>1, SameRequests, Zenon
<1>7. /\ <<>> \in Seq(TokensSoFar) /\ <<>> \in Seq(ResponsesSoFar)
      /\ Len(<<>>) = 0 /\ 0 <= READ_COUNT /\ 0 <= MAX_TOKEN_SIZE
      /\ 0 <= Capacity /\ 0 \in 0 .. MAX_NESTING
  BY ConstantsAssumption
<1>8. buf \in Seq(TokensSoFar)
  BY DEF SessionInv, TypeInput
<1>9. toGuest \in Seq(TokensSoFar)
  BY DEF SessionInv, TypeInput
<1>10. csend \in Seq(TokensSoFar)
  BY DEF SessionInv, TypeInput
<1>11. TypeInput'
  BY <1>1, <1>2, <1>6, <1>7, <1>9, <1>10, Zenon DEF TypeInput
<1>12. TypeParser' /\ Loop'
  BY <1>1, <1>6, <1>7, Zenon DEF TypeParser, Loop
<1>13. TypeOutput'
  BY <1>1, <1>2, <1>6, <1>7, Zenon DEF SessionInv, TypeOutput
<1>14. TypeClient'
  <2>1. "off" # "syncing"
        /\ "off" \in {"off", "syncing", "ready", "waiting"}
    OBVIOUS
  <2> QED
    BY <1>1, <1>2, <1>6, <2>1, Zenon DEF SessionInv, TypeClient
<1>15. InSync'
  BY <1>3, Zenon DEF InSync
<1>16. Syncing'
  <2>1. CASE client' = "off"
    <3>1. client' # "syncing"
      BY <2>1
    <3> QED
      BY <3>1 DEF Syncing
  <2>2. CASE client' = client /\ csend' = csend /\ toHost' = toHost
    <3>1. PICK n \in 1 .. Len(toGuest) + 1 :
             toGuest' = SubSeq(toGuest, n, Len(toGuest))
      <4>1. Len(toGuest) \in Nat
        BY <1>9
      <4>2. CASE toGuest' = toGuest
        <5>1. SubSeq(toGuest, 1, Len(toGuest)) = toGuest
          BY <1>9, SubSeqFull, Zenon
        <5>2. 1 \in 1 .. Len(toGuest) + 1
          BY <4>1
        <5> QED
          BY <4>2, <5>1, <5>2, Zenon
      <4>3. CASE toGuest' = <<>>
        <5> DEFINE n == Len(toGuest) + 1
        <5>1. n \in 1 .. Len(toGuest) + 1 /\ n \in Int /\ Len(toGuest) \in Int
              /\ Len(toGuest) < n
          BY <4>1
        <5> HIDE DEF n
        <5>2. SubSeq(toGuest, n, Len(toGuest)) = <<>>
          BY <5>1, SubSeqEmpty, Zenon
        <5> QED
          BY <4>3, <5>1, <5>2, Zenon
      <4> QED
        BY <1>1, <4>2, <4>3
    <3>2. Remains((buf \o toGuest) \o csend,
                  (<<>> \o SubSeq(toGuest, n, Len(toGuest))) \o csend)
      BY <1>8, <1>9, <1>10, PipeDrop, Zenon
    <3>3. Remains(Pipe, Pipe')
      BY <1>1, <2>2, <3>1, <3>2, Zenon DEF Pipe
    <3> QED
      BY <1>1, <1>11, <2>2, <3>3, RemainsKeeps, Zenon
  <2> QED
    BY <1>2, <2>1, <2>2
<1> QED
  BY <1>4, <1>5, <1>11, <1>12, <1>13, <1>14, <1>15, <1>16 DEF SessionInv
-----------------------------------------------------------------------------
(* The steps of the clients. *)

\* A new request: everything there was before it is older.
LEMMA NewRequest ==
    ASSUME TypeCounts, requests < MaxRequests, requests' = requests + 1,
           NEW kind \in Kinds
    PROVE  LET m == Msg(kind, requests + 1) IN
           /\ m \in Messages /\ m \in SoFar' /\ m.n = requests'
           /\ m.kind = kind /\ SoFar \subseteq SoFar'
           /\ TokensSoFar \subseteq TokensSoFar'
           /\ ResponsesSoFar \subseteq ResponsesSoFar'
           /\ \A o \in SoFar : o # m
<1> DEFINE k == requests + 1
           m == Msg(kind, k)
<1>1. /\ requests \in Nat /\ k \in 1 .. MaxRequests /\ k <= k
      /\ ~(k <= requests) /\ requests' \in Nat /\ k = requests'
  BY ConstantsAssumption DEF TypeCounts
<1>2. \A o \in Messages \cup {NoMsg} : o.n \in Nat
  <2>1. \A o \in Messages : o.n \in 1 .. MaxRequests
    BY Zenon DEF Messages
  <2>2. NoMsg.n = 0
    BY Zenon DEF NoMsg
  <2>3. \A i \in 1 .. MaxRequests : i \in Nat
    BY ConstantsAssumption
  <2>4. 0 \in Nat
    OBVIOUS
  <2> QED
    BY <2>1, <2>2, <2>3, <2>4, Zenon
<1>3. SoFar \subseteq SoFar'
  <2>1. \A i \in Nat : i <= requests => i <= requests'
    BY <1>1
  <2> QED
    BY <1>2, <2>1, Zenon DEF SoFar
<1> HIDE DEF k
<1>4. m \in Messages /\ m.n = k /\ m.kind = kind
  BY <1>1, Zenon DEF Msg, Messages
<1> HIDE DEF m
<1>5. m \in SoFar' /\ \A o \in SoFar : o # m
  BY <1>1, <1>4, Zenon DEF SoFar
<1>6. /\ TokensSoFar \subseteq TokensSoFar'
      /\ ResponsesSoFar \subseteq ResponsesSoFar'
  BY <1>3, Zenon DEF TokensSoFar, ResponsesSoFar
<1> QED
  BY <1>1, <1>3, <1>4, <1>5, <1>6, Zenon DEF k, m

\* guest-sync-delimited: all its tokens are at the end of the input, and the
\* agent cannot have answered it.
LEMMA StartSyncKeeps ==
    ASSUME SessionInv, StartSync,
           UNCHANGED <<method, peer, open, listening, toGuest, pc, buf,
                       tokens, brace_count, out, kills>>,
           session' \in 0 .. MaxSessions,
           toHost' \in Seq(ResponsesSoFar), Len(toHost') <= Capacity
    PROVE  SessionInv'
<1> DEFINE m == Msg("sync", requests + 1)
<1>1. /\ requests < MaxRequests /\ requests' = requests + 1
      /\ client' = "syncing" /\ current' = m /\ csend' = <<FF>> \o Text(m)
  BY Zenon DEF StartSync
<1>2. clean' = FALSE /\ sentinel' = FALSE /\ lost' \in BOOLEAN
  BY Zenon DEF StartSync
<1>3. /\ method' = method /\ peer' = peer /\ toGuest' = toGuest /\ pc' = pc
      /\ buf' = buf /\ tokens' = tokens /\ brace_count' = brace_count
      /\ out' = out /\ kills' = kills
  BY Zenon
<1>4. TypeCounts'
  BY <1>1, <1>3, ConstantsAssumption DEF SessionInv, TypeCounts
<1>5. TypeFlags'
  BY <1>2, Zenon DEF SessionInv, TypeFlags
<1>6. /\ m \in Messages /\ m \in SoFar' /\ m.n = requests' /\ m.kind = "sync"
      /\ SoFar \subseteq SoFar' /\ TokensSoFar \subseteq TokensSoFar'
      /\ ResponsesSoFar \subseteq ResponsesSoFar' /\ \A o \in SoFar : o # m
  <2>1. "sync" \in Kinds
    BY DEF Kinds
  <2>2. TypeCounts /\ requests < MaxRequests /\ requests' = requests + 1
    BY <1>1 DEF SessionInv
  <2> QED
    BY <2>1, <2>2, NewRequest, Zenon
<1> HIDE DEF m
<1>7. /\ toGuest' \in Seq(TokensSoFar') /\ buf' \in Seq(TokensSoFar')
      /\ tokens' \in Seq(TokensSoFar') /\ out' \in Seq(ResponsesSoFar')
      /\ toHost' \in Seq(ResponsesSoFar')
  BY <1>3, <1>6, SeqMonotonic, Zenon
     DEF SessionInv, TypeInput, TypeParser, TypeOutput
<1>8. Text(m) = Whole(m)
  <2>1. m.kind # "deep" /\ m.kind # "long"
    BY <1>6
  <2> QED
    BY <2>1, TextWhole, Zenon
<1>9. /\ csend' \in Seq(TokensSoFar') /\ Len(csend') = 4 /\ csend'[1] = FF
      /\ \A i \in 2 .. 4 : csend'[i] = Whole(m)[i - 1]
  <2>1. FF \in TokensSoFar
    BY NoMsgOld DEF SessionInv
  <2>2. FF \in TokensSoFar'
    BY <1>6, <2>1, Zenon
  <2> DEFINE f == <<FF>>
             w == Whole(m)
  <2>3. f \in Seq(TokensSoFar') /\ Len(f) = 1 /\ f[1] = FF
    BY <2>2
  <2>4. w \in Seq(TokensSoFar')
    <3>1. Text(m) \in Seq([t : {"{", "body", "}", "ff", "eof"}, msg : SoFar'])
      BY <1>6, TextTokens, Zenon
    <3> QED
      BY <1>8, <3>1, Zenon DEF TokensSoFar
  <2>5. Len(w) = 3
    BY WholeIs, Zenon
  <2>6. csend' = f \o w
    BY <1>1, <1>8, Zenon
  <2> HIDE DEF f, w
  <2>7. /\ csend' \in Seq(TokensSoFar') /\ Len(csend') = Len(f) + Len(w)
        /\ \A i \in 1 .. Len(f) + Len(w) :
              csend'[i] = IF i <= Len(f) THEN f[i] ELSE w[i - Len(f)]
    <3>1. f \in Seq(TokensSoFar')
      BY <2>3
    <3> QED
      BY <2>4, <2>6, <3>1, ConcatProperties
  <2> QED
    BY <2>3, <2>5, <2>7 DEF w
<1>10. TypeInput'
  BY <1>3, <1>7, <1>9, Zenon DEF SessionInv, TypeInput
<1>11. TypeParser' /\ TypeOutput' /\ Loop'
  BY <1>3, <1>7, Zenon DEF SessionInv, TypeParser, TypeOutput, Loop
<1>12. TypeClient'
  <2>1. client' \in {"off", "syncing", "ready", "waiting"}
    BY <1>1
  <2> QED
    BY <1>1, <1>6, <2>1, Zenon DEF TypeClient
<1>13. InSync'
  BY <1>2, Zenon DEF InSync
<1>14. Placed(Pipe', m)
  <2> DEFINE p == Pipe'
             s == Len(buf) + Len(toGuest)
  <2>1. buf' \in Seq(TokensSoFar')
    BY <1>7
  <2>2. toGuest' \in Seq(TokensSoFar')
    BY <1>7
  <2>3. csend' \in Seq(TokensSoFar')
    BY <1>9
  <2>4. /\ Len(p) = Len(buf') + Len(toGuest') + Len(csend')
        /\ Len(buf') \in Nat /\ Len(toGuest') \in Nat
        /\ \A i \in 1 .. Len(p) : p[i] =
              IF i <= Len(buf') THEN buf'[i]
              ELSE IF i <= Len(buf') + Len(toGuest')
                   THEN toGuest'[i - Len(buf')]
              ELSE csend'[i - (Len(buf') + Len(toGuest'))]
    <3> DEFINE q == (buf' \o toGuest') \o csend'
    <3>1. /\ Len(q) = Len(buf') + Len(toGuest') + Len(csend')
          /\ Len(buf') \in Nat /\ Len(toGuest') \in Nat
          /\ \A i \in 1 .. Len(q) : q[i] =
                IF i <= Len(buf') THEN buf'[i]
                ELSE IF i <= Len(buf') + Len(toGuest')
                     THEN toGuest'[i - Len(buf')]
                ELSE csend'[i - (Len(buf') + Len(toGuest'))]
      BY <2>1, <2>2, <2>3, PipeIs
    <3>2. p = q
      BY DEF Pipe
    <3> HIDE DEF p, q
    <3> QED
      BY <3>1, <3>2
  <2> HIDE DEF p
  <2>5. /\ s \in Nat /\ Len(p) = s + 4
        /\ \A i \in 1 .. Len(p) : p[i] =
              IF i <= Len(buf) THEN buf[i]
              ELSE IF i <= s THEN toGuest[i - Len(buf)] ELSE csend'[i - s]
    BY <1>3, <1>9, <2>4
  <2>6. \A x \in TokensSoFar : x.msg # m
    BY <1>6, Zenon DEF TokensSoFar
  <2> SUFFICES ASSUME NEW i \in 1 .. Len(p), p[i].msg = m
               PROVE  /\ Len(p) - i <= 2
                      /\ p[i] = Whole(m)[3 - (Len(p) - i)]
    BY DEF Placed, p
  <2>7. ~(i <= s)
    <3> SUFFICES ASSUME i <= s PROVE FALSE
      OBVIOUS
    <3>1. buf \in Seq(TokensSoFar) /\ toGuest \in Seq(TokensSoFar)
      BY DEF SessionInv, TypeInput
    <3>2. p[i] \in TokensSoFar
      <4>1. CASE i <= Len(buf)
        BY <2>5, <3>1, <4>1
      <4>2. CASE ~(i <= Len(buf))
        <5>1. i - Len(buf) \in 1 .. Len(toGuest)
          BY <2>4, <1>3, <4>2
        <5>2. p[i] = toGuest[i - Len(buf)]
          BY <2>5, <4>2, Zenon
        <5> QED
          BY <3>1, <5>1, <5>2
      <4> QED
        BY <4>1, <4>2
    <3> QED
      BY <2>6, <3>2, Zenon
  <2>8. i - s \in 1 .. 4 /\ Len(p) - i = 4 - (i - s) /\ ~(i <= Len(buf))
    <3>1. Len(buf) \in Nat /\ Len(toGuest) \in Nat
      BY DEF SessionInv, TypeInput
    <3>2. ~(i <= Len(buf))
      BY <2>7, <3>1
    <3>3. s \in Nat /\ Len(p) = s + 4
      BY <2>5
    <3> HIDE DEF s
    <3> QED
      BY <2>7, <3>2, <3>3
  <2>9. p[i] = csend'[i - s]
    BY <2>5, <2>7, <2>8, Zenon
  <2>10. i - s # 1
    <3>1. FF.msg = NoMsg /\ NoMsg \in SoFar
      BY NoMsgOld DEF SessionInv
    <3> QED
      BY <1>6, <1>9, <2>9, <3>1
  <2>11. i - s \in 2 .. 4 /\ 3 - (Len(p) - i) = (i - s) - 1
         /\ Len(p) - i <= 2
    BY <2>8, <2>10
  <2> QED
    BY <1>9, <2>9, <2>11, Zenon
<1>15. Syncing'
  <2> DEFINE R == Response("return", m)
  <2>1. R.msg = m
    BY Zenon DEF Response
  <2>2. \A x \in ResponsesSoFar : x.msg # m
    BY <1>6, Zenon DEF ResponsesSoFar
  <2> HIDE DEF R
  <2>3. \A i \in 1 .. Len(toHost') : toHost'[i] # R
    <3>1. \A i \in 1 .. Len(toHost') : toHost'[i] \in ResponsesSoFar
      OBVIOUS
    <3> QED
      BY <2>1, <2>2, <3>1, Zenon
  <2>4. \A i \in 1 .. Len(out') : out'[i] # R
    <3>1. \A i \in 1 .. Len(out) : out[i] \in ResponsesSoFar
      BY DEF SessionInv, TypeOutput
    <3> QED
      BY <1>3, <2>1, <2>2, <3>1, Zenon
  <2>5. SaidLast(toHost', out', R) /\ ~Occurs(toHost', out', R)
    BY <2>3, <2>4, Zenon DEF SaidLast, Occurs
  <2> QED
    BY <1>1, <1>14, <2>5, Zenon DEF Syncing, R
<1> QED
  BY <1>4, <1>5, <1>10, <1>11, <1>12, <1>13, <1>15 DEF SessionInv

\* A client connects, and synchronises.
LEMMA ConnectKeeps == SessionInv /\ Connect => SessionInv'
<1> SUFFICES ASSUME SessionInv, Connect PROVE SessionInv'
  OBVIOUS
<1>1. /\ StartSync /\ session < MaxSessions /\ session' = session + 1
      /\ UNCHANGED <<method, peer, open, listening, toGuest, pc, buf,
                     tokens, brace_count, out, kills>>
  BY Zenon DEF Connect, channelVars, parserVars
<1>2. PICK n \in 0 .. Len(toHost) :
         toHost' = SubSeq(toHost, n + 1, Len(toHost))
  BY Zenon DEF Connect
<1>3. session' \in 0 .. MaxSessions
  BY <1>1, ConstantsAssumption DEF SessionInv, TypeCounts
<1>4. toHost' \in Seq(ResponsesSoFar) /\ Len(toHost') <= Capacity
  <2>1. /\ toHost \in Seq(ResponsesSoFar) /\ Len(toHost) <= Capacity
        /\ Capacity \in Nat
    BY ConstantsAssumption DEF SessionInv, TypeOutput
  <2> QED
    BY <1>2, <2>1
<1> QED
  BY <1>1, <1>3, <1>4, StartSyncKeeps

\* A client gives up on an answer, and synchronises.
LEMMA TimeOutKeeps == SessionInv /\ TimeOut => SessionInv'
<1> SUFFICES ASSUME SessionInv, TimeOut PROVE SessionInv'
  OBVIOUS
<1>1. /\ StartSync /\ session' = session /\ toHost' = toHost
      /\ UNCHANGED <<method, peer, open, listening, toGuest, pc, buf,
                     tokens, brace_count, out, kills>>
  BY Zenon DEF TimeOut, channelVars, parserVars
<1>2. session' \in 0 .. MaxSessions
  BY <1>1 DEF SessionInv, TypeCounts
<1>3. toHost' \in Seq(ResponsesSoFar) /\ Len(toHost') <= Capacity
  BY <1>1, Zenon DEF SessionInv, TypeOutput
<1> QED
  BY <1>1, <1>2, <1>3, StartSyncKeeps

\* A request of a client in sync: there is nothing else on its way.
LEMMA RequestKeeps ==
    ASSUME SessionInv, NEW kind \in Commands, Request(kind)
    PROVE  SessionInv'
<1> DEFINE m == Msg(kind, requests + 1)
<1>1. /\ requests < MaxRequests /\ requests' = requests + 1
      /\ client = "ready" /\ client' = "waiting"
      /\ current' = m /\ csend' = Text(m)
      /\ toGuest' = toGuest /\ toHost' = toHost /\ pc' = pc /\ buf' = buf
      /\ tokens' = tokens /\ brace_count' = brace_count /\ out' = out
      /\ method' = method /\ peer' = peer /\ session' = session
      /\ kills' = kills
  BY Zenon DEF Request, channelVars, parserVars
<1>2. /\ clean' => clean /\ ~(kind \in {"long", "deep"})
      /\ clean' \in BOOLEAN
  BY Zenon DEF Request, SessionInv, TypeFlags
<1>3. TypeCounts'
  BY <1>1, ConstantsAssumption DEF SessionInv, TypeCounts
<1>4. TypeFlags'
  BY <1>2, Zenon DEF Request, channelVars, SessionInv, TypeFlags
<1>5. kind \in Kinds /\ kind # "sync"
  BY ConstantsAssumption DEF Kinds
<1>6. /\ m \in Messages /\ m \in SoFar' /\ m.n = requests' /\ m.kind = kind
      /\ SoFar \subseteq SoFar' /\ TokensSoFar \subseteq TokensSoFar'
      /\ ResponsesSoFar \subseteq ResponsesSoFar'
  <2>1. TypeCounts /\ requests < MaxRequests /\ requests' = requests + 1
    BY <1>1 DEF SessionInv
  <2> QED
    BY <1>5, <2>1, NewRequest, Zenon
<1> HIDE DEF m
<1>7. /\ toGuest' \in Seq(TokensSoFar') /\ buf' \in Seq(TokensSoFar')
      /\ tokens' \in Seq(TokensSoFar') /\ out' \in Seq(ResponsesSoFar')
      /\ toHost' \in Seq(ResponsesSoFar')
  BY <1>1, <1>6, SeqMonotonic, Zenon
     DEF SessionInv, TypeInput, TypeParser, TypeOutput
<1>8. csend' \in Seq(TokensSoFar')
  <2>1. Text(m) \in Seq([t : {"{", "body", "}", "ff", "eof"}, msg : SoFar'])
    BY <1>6, TextTokens, Zenon
  <2> QED
    BY <1>1, <2>1, Zenon DEF TokensSoFar
<1>9. TypeInput' /\ TypeParser' /\ TypeOutput' /\ Loop'
  BY <1>1, <1>7, <1>8, Zenon
     DEF SessionInv, TypeInput, TypeParser, TypeOutput, Loop
<1>10. client' \in {"off", "syncing", "ready", "waiting"}
       /\ client' # "syncing"
  BY <1>1
<1>11. TypeClient' /\ Syncing'
  BY <1>1, <1>6, <1>10, Zenon DEF TypeClient, Syncing
<1>12. InSync'
  <2> SUFFICES ASSUME clean'
               PROVE  /\ client' = "waiting"
                      /\ current'.kind \in {"call", "quiet", "noexec"}
                      /\ Silent' /\ OnItsWay(tokens', Pipe', current')
                      /\ brace_count' = (IF tokens' = <<>> THEN 0 ELSE 1)
    BY Zenon DEF InSync
  <2>1. client # "waiting"
    BY <1>1
  <2>2. Fed /\ Silent
    BY <1>2, <2>1, Zenon DEF SessionInv, InSync
  <2>3. m.kind \in {"call", "quiet", "noexec"}
    BY <1>2, <1>5, <1>6 DEF Kinds
  <2>4. Text(m) = Whole(m)
    <3>1. m.kind # "deep" /\ m.kind # "long"
      BY <2>3
    <3> QED
      BY <3>1, TextWhole, Zenon
  <2>5. buf = <<>> /\ toGuest = <<>> /\ csend = <<>>
    <3>1. buf \in Seq(TokensSoFar) /\ toGuest \in Seq(TokensSoFar)
          /\ csend \in Seq(TokensSoFar)
      BY DEF SessionInv, TypeInput
    <3>2. (buf \o toGuest) \o csend = <<>>
      BY <2>2 DEF Fed, Pipe
    <3> QED
      BY <3>1, <3>2, PipeEmpty
  <2> DEFINE w == Whole(m)
  <2>6. Pipe' = w
    <3>1. csend' = w
      BY <1>1, <2>4, Zenon
    <3>2. (<<>> \o <<>>) \o csend' = csend'
      BY <1>8
    <3> HIDE DEF w
    <3> QED
      BY <1>1, <2>5, <3>1, <3>2, Zenon DEF Pipe
  <2>7. tokens = <<>> /\ brace_count = 0
    BY <2>2, Zenon DEF Fed, SessionInv, TypeParser
  <2>8. OnItsWay(<<>>, w, m)
    <3>1. Len(w) = 3
      BY WholeIs, Zenon
    <3>2. Len(<<>>) = 0
      OBVIOUS
    <3>3. Len(<<>>) + Len(w) = 3
      BY <3>1, <3>2
    <3>4. \A i \in 1 .. Len(w) : i + Len(<<>>) = i
      BY <3>1, <3>2
    <3>5. \A i \in 1 .. Len(<<>>) : FALSE
      OBVIOUS
    <3> HIDE DEF w
    <3>6. \A i \in 1 .. Len(w) : w[i] = w[i + Len(<<>>)]
      BY <3>4, Zenon
    <3> QED
      BY <3>3, <3>5, <3>6, Zenon DEF OnItsWay, w
  <2> HIDE DEF w
  <2> QED
    BY <1>1, <2>2, <2>3, <2>6, <2>7, <2>8, Zenon DEF Silent
<1> QED
  BY <1>3, <1>4, <1>9, <1>11, <1>12 DEF SessionInv

\* A client receives an answer: after the answer to its sync, or to a request
\* in sync, there is nothing left.
LEMMA ReceiveKeeps == SessionInv /\ Receive => SessionInv'
<1> SUFFICES ASSUME SessionInv, Receive PROVE SessionInv'
  OBVIOUS
<1> DEFINE r == Head(toHost)
           R == Response("return", current)
<1>1. /\ client # "off" /\ toHost # <<>> /\ toHost' = Tail(toHost)
      /\ toGuest' = toGuest /\ pc' = pc /\ buf' = buf /\ csend' = csend
      /\ tokens' = tokens /\ brace_count' = brace_count /\ out' = out
      /\ current' = current /\ requests' = requests
  BY Zenon DEF Receive, Connected, parserVars
<1>2. \/ client = "syncing" /\ r = R /\ client' = "ready" /\ clean' = TRUE
      \/ /\ client = "waiting" /\ r # Sentinel /\ client' = "ready"
         /\ clean' = clean
      \/ /\ client' = client /\ clean' = clean
         /\ ~(client = "waiting" /\ r # Sentinel)
  BY Zenon DEF Receive
<1>3. sentinel' \in BOOLEAN
  BY Zenon DEF Receive
<1>4. TypeCounts'
  BY Zenon DEF Receive, channelVars, SessionInv, TypeCounts
<1>5. TypeFlags'
  <2>1. clean' \in BOOLEAN
    BY <1>2, Zenon DEF SessionInv, TypeFlags
  <2>2. open' = open /\ listening' = listening /\ lost' = lost
    BY Zenon DEF Receive, channelVars
  <2> QED
    BY <1>3, <2>1, <2>2, Zenon DEF SessionInv, TypeFlags
<1>6. /\ SoFar' = SoFar /\ TokensSoFar' = TokensSoFar
      /\ ResponsesSoFar' = ResponsesSoFar
  BY <1>1, SameRequests, Zenon
<1>7. /\ toHost' \in Seq(ResponsesSoFar) /\ Len(toHost') = Len(toHost) - 1
      /\ Len(toHost) \in Nat \ {0} /\ Len(toHost') <= Capacity
      /\ \A i \in 1 .. Len(toHost') :
            i + 1 \in 1 .. Len(toHost) /\ toHost'[i] = toHost[i + 1]
      /\ r = toHost[1] /\ 1 \in 1 .. Len(toHost)
      /\ Len(toHost) = 1 => toHost' = <<>>
  <2>1. /\ toHost \in Seq(ResponsesSoFar) /\ Len(toHost) <= Capacity
        /\ Capacity \in Nat
    BY ConstantsAssumption DEF SessionInv, TypeOutput
  <2> QED
    BY <1>1, <2>1
<1> HIDE DEF r, R
<1>8. TypeInput' /\ TypeParser' /\ TypeOutput' /\ Loop'
  BY <1>1, <1>6, <1>7, Zenon
     DEF SessionInv, TypeInput, TypeParser, TypeOutput, Loop
<1>9. /\ client' \in {"off", "syncing", "ready", "waiting"}
      /\ client' = "syncing" => client = "syncing"
  BY <1>2 DEF SessionInv, TypeClient
<1>10. TypeClient'
  BY <1>1, <1>6, <1>9, Zenon DEF SessionInv, TypeClient
<1>11. Pipe' = Pipe
  BY <1>1, Zenon DEF Pipe
<1>12. Syncing'
  <2> SUFFICES ASSUME client = "syncing"
               PROVE  /\ Placed(Pipe, current) /\ SaidLast(toHost', out, R)
                      /\ Occurs(toHost', out, R) =>
                            Pipe = <<>> /\ tokens = <<>>
    BY <1>1, <1>9, <1>11, Zenon DEF Syncing, R
  <2>1. /\ Placed(Pipe, current) /\ SaidLast(toHost, out, R)
        /\ Occurs(toHost, out, R) => Pipe = <<>> /\ tokens = <<>>
    BY Zenon DEF SessionInv, Syncing, R
  <2>2. SaidLast(toHost', out, R)
    <3>1. \A i \in 1 .. Len(toHost') :
             i + 1 = Len(toHost) => i = Len(toHost')
      BY <1>7
    <3> QED
      BY <1>7, <2>1, <3>1, Zenon DEF SaidLast
  <2>3. Occurs(toHost', out, R) => Occurs(toHost, out, R)
    BY <1>7, Zenon DEF Occurs
  <2> QED
    BY <2>1, <2>2, <2>3, Zenon
<1>13. ASSUME client = "syncing", r = R, client' = "ready"
       PROVE  InSync'
  <2>1. /\ SaidLast(toHost, out, R)
        /\ Occurs(toHost, out, R) => Pipe = <<>> /\ tokens = <<>>
    BY <1>13, Zenon DEF SessionInv, Syncing, R
  <2>2. 1 = Len(toHost) /\ out = <<>> /\ Pipe = <<>> /\ tokens = <<>>
    BY <1>7, <1>13, <2>1, Zenon DEF SaidLast, Occurs
  <2>3. toHost' = <<>>
    BY <1>7, <2>2
  <2> QED
    BY <1>1, <1>11, <1>13, <2>2, <2>3, Zenon DEF InSync, Fed, Silent
<1>14. ASSUME client = "waiting", r # Sentinel, client' = "ready",
              clean' = clean
       PROVE  InSync'
  <2> SUFFICES ASSUME clean PROVE Fed' /\ Silent'
    BY <1>14, Zenon DEF InSync
  <2>1. client # "ready"
    BY <1>14
  <2>2. Fed /\ OneAnswer(toHost, out, current)
    BY <1>1, <2>1, Zenon DEF SessionInv, InSync, Silent
  <2>3. Len(toHost) = 1 /\ out = <<>>
    <3>1. out \in Seq(ResponsesSoFar)
      BY DEF SessionInv, TypeOutput
    <3> QED
      BY <1>7, <2>2, <3>1 DEF OneAnswer
  <2>4. toHost' = <<>>
    BY <1>7, <2>3
  <2> QED
    BY <1>1, <1>11, <2>2, <2>3, <2>4, Zenon DEF Fed, Silent
<1>15. ASSUME client' = client, clean' = clean,
              ~(client = "waiting" /\ r # Sentinel)
       PROVE  InSync'
  <2> SUFFICES ASSUME clean PROVE FALSE
    BY <1>15, Zenon DEF InSync
  <2>1. client = "waiting" /\ OneAnswer(toHost, out, current)
    BY <1>1, Zenon DEF SessionInv, InSync, Silent
  <2>2. r.kind # "ff"
    BY <1>7, <2>1, Zenon DEF OneAnswer
  <2>3. Sentinel.kind = "ff"
    BY Zenon DEF Sentinel, Response
  <2> QED
    BY <1>15, <2>1, <2>2, <2>3, Zenon
<1>16. InSync'
  BY <1>2, <1>13, <1>14, <1>15, Zenon
<1> QED
  BY <1>4, <1>5, <1>8, <1>10, <1>12, <1>16 DEF SessionInv
-----------------------------------------------------------------------------
(* The steps of the agent. *)

\* ga_channel_write_all: a response goes out in order, or is dropped.
LEMMA WriteKeeps == SessionInv /\ ga_channel_write_all => SessionInv'
<1> SUFFICES ASSUME SessionInv, ga_channel_write_all PROVE SessionInv'
  OBVIOUS
<1>1. /\ pc = "write" /\ toGuest' = toGuest /\ buf' = buf /\ csend' = csend
      /\ tokens' = tokens /\ brace_count' = brace_count /\ client' = client
      /\ current' = current /\ requests' = requests
      /\ pc' = IF out' = <<>> THEN Onward(buf) ELSE "write"
  BY Zenon DEF ga_channel_write_all, parserVars
<1>2. \/ out' = <<>> /\ toHost' = toHost
      \/ /\ Len(toHost) < Capacity /\ toHost' = Append(toHost, Head(out))
         /\ out' = Tail(out)
  BY Zenon DEF ga_channel_write_all
<1>3. clean' = clean
  BY Zenon DEF ga_channel_write_all
<1>4. TypeCounts'
  BY Zenon DEF ga_channel_write_all, channelVars, SessionInv, TypeCounts
<1>5. TypeFlags'
  BY Zenon DEF ga_channel_write_all, channelVars, SessionInv, TypeFlags
<1>6. /\ SoFar' = SoFar /\ TokensSoFar' = TokensSoFar
      /\ ResponsesSoFar' = ResponsesSoFar
  BY <1>1, SameRequests, Zenon
<1>7. out # <<>>
  BY <1>1 DEF SessionInv, Loop
<1>8. /\ out \in Seq(ResponsesSoFar) /\ toHost \in Seq(ResponsesSoFar)
      /\ Len(toHost) <= Capacity /\ Capacity \in Nat
  BY ConstantsAssumption DEF SessionInv, TypeOutput
<1>9. /\ toHost' \in Seq(ResponsesSoFar) /\ out' \in Seq(ResponsesSoFar)
      /\ Len(toHost') <= Capacity
  <2>1. CASE out' = <<>> /\ toHost' = toHost
    BY <1>8, <2>1
  <2>2. CASE /\ Len(toHost) < Capacity /\ toHost' = Append(toHost, Head(out))
             /\ out' = Tail(out)
    BY <1>7, <1>8, <2>2
  <2> QED
    BY <1>2, <2>1, <2>2, Zenon
<1>10. Loop'
  <2>1. CASE out' = <<>> /\ buf = <<>>
    BY <1>1, <2>1, Zenon DEF Loop, Onward
  <2>2. CASE out' = <<>> /\ buf # <<>>
    BY <1>1, <2>2, Zenon DEF Loop, Onward
  <2>3. CASE out' # <<>>
    BY <1>1, <2>3, Zenon DEF Loop
  <2> QED
    BY <2>1, <2>2, <2>3
<1>11. TypeInput' /\ TypeParser' /\ TypeOutput' /\ TypeClient'
  BY <1>1, <1>6, <1>9, Zenon
     DEF SessionInv, TypeInput, TypeParser, TypeOutput, TypeClient
<1>12. Pipe' = Pipe
  BY <1>1, Zenon DEF Pipe
<1>13. /\ \A i \in 1 .. Len(toHost') :
             \/ i \in 1 .. Len(toHost) /\ toHost'[i] = toHost[i]
             \/ /\ i = Len(toHost') /\ toHost'[i] = out[1]
                /\ 1 = Len(out) => out' = <<>>
       /\ \A i \in 1 .. Len(out') :
             /\ i + 1 \in 1 .. Len(out) /\ out'[i] = out[i + 1]
             /\ i + 1 = Len(out) => i = Len(out')
       /\ 1 \in 1 .. Len(out)
       /\ Len(toHost') + Len(out') <= Len(toHost) + Len(out)
  <2>1. Len(toHost) \in Nat /\ Len(out) \in Nat /\ Len(out) > 0
    BY <1>7, <1>8
  <2>2. CASE out' = <<>> /\ toHost' = toHost
    BY <2>1, <2>2
  <2>3. CASE toHost' = Append(toHost, Head(out)) /\ out' = Tail(out)
    <3>1. /\ Head(out) = out[1] /\ Head(out) \in ResponsesSoFar
          /\ Len(out') = Len(out) - 1
          /\ \A i \in 1 .. Len(out') : out'[i] = out[i + 1]
          /\ Len(out) = 1 => out' = <<>>
      BY <1>7, <1>8, <2>3
    <3>2. /\ Len(toHost') = Len(toHost) + 1
          /\ toHost'[Len(toHost) + 1] = out[1]
          /\ \A i \in 1 .. Len(toHost) : toHost'[i] = toHost[i]
      BY <1>8, <2>3, <3>1
    <3> QED
      BY <2>1, <3>1, <3>2
  <2> QED
    BY <1>2, <2>2, <2>3
<1>14. Syncing'
  <2> DEFINE R == Response("return", current)
  <2> SUFFICES ASSUME client = "syncing"
               PROVE  /\ Placed(Pipe, current) /\ SaidLast(toHost', out', R)
                      /\ Occurs(toHost', out', R) =>
                            Pipe = <<>> /\ tokens = <<>>
    BY <1>1, <1>12, Zenon DEF Syncing
  <2>1. /\ Placed(Pipe, current) /\ SaidLast(toHost, out, R)
        /\ Occurs(toHost, out, R) => Pipe = <<>> /\ tokens = <<>>
    BY Zenon DEF SessionInv, Syncing
  <2> HIDE DEF R
  <2>2. \A i \in 1 .. Len(toHost) : toHost[i] # R
    BY <1>7, <2>1, Zenon DEF SaidLast
  <2>3. SaidLast(toHost', out', R)
    BY <1>13, <2>1, <2>2, Zenon DEF SaidLast
  <2>4. Occurs(toHost', out', R) => Occurs(toHost, out, R)
    BY <1>13, Zenon DEF Occurs
  <2> QED
    BY <2>1, <2>3, <2>4, Zenon
<1>15. InSync'
  <2> SUFFICES ASSUME clean
               PROVE  /\ client = "waiting"
                      /\ current.kind \in {"call", "quiet", "noexec"}
                      /\ Fed /\ OneAnswer(toHost', out', current)
    BY <1>1, <1>3, <1>12, Zenon DEF InSync, Fed
  <2>1. /\ client = "waiting"
        /\ current.kind \in {"call", "quiet", "noexec"}
        /\ Fed /\ OneAnswer(toHost, out, current)
    BY <1>7, Zenon DEF SessionInv, InSync, Silent
  <2>2. Len(toHost') + Len(out') <= 1
    BY <1>8, <1>9, <1>13, <2>1 DEF OneAnswer
  <2>3. OneAnswer(toHost', out', current)
    BY <1>13, <2>1, <2>2, Zenon DEF OneAnswer
  <2> QED
    BY <2>1, <2>3
<1> QED
  BY <1>4, <1>5, <1>10, <1>11, <1>14, <1>15 DEF SessionInv

\* What the agent says to the tokens ts of a message: an error for what is no
\* request, and the answer to the request that it is.
Answers(ts, o) ==
    LET m == ts[1].msg IN
    \/ ts # Text(m) /\ o = <<Response("error", NoMsg)>>
    \/ /\ ts = Text(m) /\ m.kind = "sync"
       /\ o = <<Sentinel, Response("return", m)>>
    \/ /\ ts = Text(m)
       /\ o \in {<<>>, <<Response("return", m)>>, <<Response("error", m)>>}
       /\ m.kind = "sync" => o # <<Response("return", m)>>

\* process_event says no more than that.
LEMMA EventIs ==
    ASSUME NEW ts, NEW o \in process_event(ts)
    PROVE  Answers(ts, o)
<1> DEFINE m == ts[1].msg
           e(k) == Response("error", k)
           a == Response("return", m)
<1>1. \A k : e(k).kind = "error"
  BY Zenon DEF Response
<1>2. \A k : e(k).kind # "return"
  BY <1>1
<1>3. \A k : send_response(e(k)) = <<e(k)>>
  BY <1>2, Zenon DEF send_response
<1>4. a.kind = "return" /\ a.msg = m
  BY Zenon DEF Response
<1> HIDE DEF a, e
<1>5. send_response(a) = IF m.kind = "sync" THEN <<Sentinel, a>> ELSE <<a>>
  BY <1>4, Zenon DEF send_response
<1>6. CASE ts # Text(m)
  <2>1. o = send_response(e(NoMsg))
    BY <1>6, Zenon DEF process_event, e
  <2> QED
    BY <1>3, <1>6, <2>1, Zenon DEF Answers, e
<1>7. CASE ts = Text(m) /\ m.kind = "noexec"
  <2>1. o = send_response(e(m))
    BY <1>7, Zenon DEF process_event, e
  <2>2. m.kind # "sync"
    BY <1>7
  <2> QED
    BY <1>3, <1>7, <2>1, <2>2, Zenon DEF Answers, e
<1>8. CASE ts = Text(m) /\ m.kind # "noexec"
  <2>1. o \in qmp_dispatch(m)
    BY <1>8, Zenon DEF process_event
  <2>2. CASE m.kind = "sync"
    <3>1. o = send_response(a)
      BY <2>1, <2>2, Zenon DEF qmp_dispatch, a
    <3> QED
      BY <1>5, <1>8, <2>2, <3>1, Zenon DEF Answers, a
  <2>3. CASE m.kind # "sync"
    <3>1. o = <<>> \/ o = send_response(a) \/ o = send_response(e(m))
      BY <2>1, <2>3, Zenon DEF qmp_dispatch, a, e
    <3>2. o = <<>> \/ o = <<a>> \/ o = <<e(m)>>
      BY <1>3, <1>5, <2>3, <3>1, Zenon
    <3> QED
      BY <1>8, <2>3, <3>2, Zenon DEF Answers, a, e
  <2> QED
    BY <2>2, <2>3
<1> QED
  BY <1>6, <1>7, <1>8

\* Such answers are about requests that were made.
LEMMA AnswersTyped ==
    ASSUME TypeCounts, NEW ts \in Seq(TokensSoFar), ts # <<>>,
           NEW o, Answers(ts, o)
    PROVE  o \in Seq(ResponsesSoFar)
<1> DEFINE m == ts[1].msg
           E == Response("error", NoMsg)
           A == Response("return", m)
           B == Response("error", m)
<1>1. m \in SoFar
  <2>1. ts[1] \in TokensSoFar
    OBVIOUS
  <2> QED
    BY <2>1, Zenon DEF TokensSoFar
<1>2. NoMsg \in SoFar /\ Sentinel \in ResponsesSoFar
  BY NoMsgOld
<1>3. E \in ResponsesSoFar /\ A \in ResponsesSoFar /\ B \in ResponsesSoFar
  BY <1>1, <1>2, Zenon DEF Response, ResponsesSoFar
<1>4. \/ o = <<E>> \/ o = <<Sentinel, A>> \/ o = <<>> \/ o = <<A>>
      \/ o = <<B>>
  BY Zenon DEF Answers
<1> HIDE DEF E, A, B
<1>5. /\ <<E>> \in Seq(ResponsesSoFar) /\ <<A>> \in Seq(ResponsesSoFar)
      /\ <<B>> \in Seq(ResponsesSoFar) /\ <<>> \in Seq(ResponsesSoFar)
      /\ <<Sentinel, A>> \in Seq(ResponsesSoFar)
  BY <1>2, <1>3
<1> QED
  BY <1>4, <1>5, Zenon

\* What the streamer makes of a token x: it drops what it holds and reports an
\* error, keeps the token, or emits the message that the token ends.
Streams(x, braces) ==
    LET ts == Append(tokens, x) IN
    \/ /\ x = FF /\ tokens' = <<>> /\ brace_count' = 0
       /\ out' = <<Response("error", NoMsg)>>
    \/ /\ x # FF /\ braces > 0 /\ ~OverLimit(ts, braces)
       /\ tokens' = ts /\ brace_count' = braces /\ out' = <<>>
    \/ /\ x # FF /\ (braces <= 0 \/ OverLimit(ts, braces))
       /\ tokens' = <<>> /\ brace_count' = 0 /\ Answers(ts, out')

\* The braces that are open after a token.
Braces(x, braces) ==
    /\ x.t = "{" => braces = brace_count + 1
    /\ x.t = "}" => braces = brace_count - 1
    /\ x.t = "body" => braces = brace_count
    /\ braces \in Int

\* json_message_process_token does nothing else.
LEMMA TokenSteps ==
    ASSUME SessionInv, NEW x \in TokensSoFar, json_message_process_token(x)
    PROVE  \E braces : Braces(x, braces) /\ Streams(x, braces)
<1> DEFINE braces == CASE x.t = "{" -> brace_count + 1
                       [] x.t = "}" -> brace_count - 1
                       [] OTHER -> brace_count
           ts == Append(tokens, x)
<1>1. Braces(x, braces)
  <2>1. /\ x.t = "{" => braces = brace_count + 1
        /\ x.t = "}" => braces = brace_count - 1
        /\ x.t # "{" /\ x.t # "}" => braces = brace_count
    <3>1. "{" # "}"
      OBVIOUS
    <3> QED
      BY <3>1, Zenon
  <2>2. x.t = "body" => x.t # "{" /\ x.t # "}"
    OBVIOUS
  <2> HIDE DEF braces
  <2>3. brace_count + 1 \in Int /\ brace_count - 1 \in Int
        /\ brace_count \in Int
    BY ConstantsAssumption DEF SessionInv, TypeParser
  <2> QED
    BY <2>1, <2>2, <2>3, Zenon DEF Braces
<1>2. CASE x = FF
  <2>1. /\ tokens' = <<>> /\ brace_count' = 0
        /\ out' = send_response(Response("error", NoMsg))
    BY <1>2, Zenon DEF json_message_process_token, ErrorToken
  <2> DEFINE e == Response("error", NoMsg)
  <2>2. e.kind = "error"
    BY Zenon DEF Response
  <2>3. e.kind # "return"
    BY <2>2
  <2> HIDE DEF e
  <2>4. out' = <<e>>
    BY <2>1, <2>3, Zenon DEF send_response, e
  <2> QED
    BY <1>1, <1>2, <2>1, <2>4, Zenon DEF Streams, e
<1>3. CASE x # FF
  <2>1. IF braces <= 0 \/ OverLimit(ts, braces)
        THEN tokens' = <<>> /\ brace_count' = 0 /\ out' \in process_event(ts)
        ELSE tokens' = ts /\ brace_count' = braces /\ out' = <<>>
    BY <1>3, Zenon DEF json_message_process_token, PlainToken
  <2> HIDE DEF braces
  <2>2. braces \in Int
    BY <1>1, Zenon DEF Braces
  <2>3. ~(braces <= 0) => braces > 0
    BY <2>2
  <2>4. CASE braces <= 0 \/ OverLimit(ts, braces)
    <3>1. out' \in process_event(ts)
      BY <2>1, <2>4, Zenon
    <3>2. Answers(ts, out')
      BY <3>1, EventIs, Zenon
    <3> QED
      BY <1>1, <1>3, <2>1, <2>4, <3>2, Zenon DEF Streams
  <2>5. CASE ~(braces <= 0 \/ OverLimit(ts, braces))
    BY <1>1, <1>3, <2>1, <2>3, <2>5, Zenon DEF Streams
  <2> QED
    BY <2>4, <2>5
<1> QED
  BY <1>2, <1>3

\* A token that is fed to the streamer: what the invariant says of its types.
LEMMA FeedTypes ==
    ASSUME SessionInv, NEW x \in TokensSoFar, NEW braces,
           Braces(x, braces), Streams(x, braces), requests' = requests
    PROVE  /\ TypeParser' /\ out' \in Seq(ResponsesSoFar)
<1> DEFINE ts == Append(tokens, x)
<1>1. TokensSoFar' = TokensSoFar
  BY SameRequests, Zenon
<1>2. ts \in Seq(TokensSoFar) /\ ts # <<>> /\ Len(ts) \in Nat
  BY DEF SessionInv, TypeParser
<1>3. braces \in Int
  BY Zenon DEF Braces
<1>4. /\ <<>> \in Seq(TokensSoFar) /\ <<>> \in Seq(ResponsesSoFar)
      /\ Len(<<>>) <= MAX_TOKEN_SIZE /\ 0 \in 0 .. MAX_NESTING
  BY ConstantsAssumption
<1>5. NoMsg \in SoFar /\ TypeCounts
  BY NoMsgOld DEF SessionInv
<1> HIDE DEF ts
<1>6. CASE tokens' = <<>> /\ brace_count' = 0
  <2>1. TypeParser'
    BY <1>1, <1>4, <1>6, Zenon DEF TypeParser
  <2>2. CASE out' = <<Response("error", NoMsg)>>
    <3> DEFINE e == Response("error", NoMsg)
    <3>1. e \in ResponsesSoFar
      BY <1>5, Zenon DEF Response, ResponsesSoFar
    <3> HIDE DEF e
    <3>2. <<e>> \in Seq(ResponsesSoFar)
      BY <3>1
    <3> QED
      BY <2>1, <2>2, <3>2, Zenon DEF e
  <2>3. CASE out' = <<>>
    BY <1>4, <2>1, <2>3, Zenon
  <2>4. CASE Answers(ts, out')
    BY <1>2, <1>5, <2>1, <2>4, AnswersTyped, Zenon
  <2> QED
    BY <2>2, <2>3, <2>4, Zenon DEF Streams, ts
<1>7. CASE /\ braces > 0 /\ ~OverLimit(ts, braces) /\ tokens' = ts
           /\ brace_count' = braces /\ out' = <<>>
  <2>1. Len(ts) <= MAX_TOKEN_SIZE /\ braces \in 0 .. MAX_NESTING /\ braces # 0
    BY <1>2, <1>3, <1>7, ConstantsAssumption DEF OverLimit
  <2> QED
    BY <1>1, <1>2, <1>4, <1>7, <2>1, Zenon DEF TypeParser
<1> QED
  BY <1>6, <1>7, Zenon DEF Streams, ts

\* While a client waits for its sync: only the last token of the sync makes the
\* agent answer it, and there is nothing after that token.
LEMMA FeedSyncing ==
    ASSUME SessionInv, NEW x \in TokensSoFar, NEW braces,
           Streams(x, braces), client = "syncing", client' = client,
           current' = current, toHost' = toHost, TypeInput',
           requests' = requests,
           out = <<>>, Pipe # <<>>, Pipe[1] = x, Len(Pipe') = Len(Pipe) - 1,
           \A i \in 1 .. Len(Pipe') : Pipe'[i] = Pipe[i + 1]
    PROVE  Syncing'
<1> DEFINE R == Response("return", current)
           ts == Append(tokens, x)
<1>1. /\ Placed(Pipe, current) /\ SaidLast(toHost, out, R)
      /\ ~Occurs(toHost, out, R)
  BY Zenon DEF SessionInv, Syncing
<1>2. Pipe \in Seq(TokensSoFar)
  BY PipeTokens DEF SessionInv
<1>3. Pipe' \in Seq(TokensSoFar)
  <2>1. TokensSoFar' = TokensSoFar
    BY SameRequests, Zenon
  <2>2. (Pipe \in Seq(TokensSoFar))'
    BY PipeTokens, PTL
  <2> QED
    BY <2>1, <2>2, Zenon
<1>4. Remains(Pipe, Pipe')
  <2>1. 1 \in Nat
    OBVIOUS
  <2> QED
    BY <2>1, Zenon DEF Remains
<1>5. Placed(Pipe', current)
  BY <1>1, <1>2, <1>3, <1>4, PlacedRemains, Zenon
<1>6. /\ current \in Messages /\ current.kind = "sync" /\ current # NoMsg
  <2>1. client # "off"
    OBVIOUS
  <2>2. current \in Messages /\ current.kind = "sync"
    BY <2>1, Zenon DEF SessionInv, TypeClient
  <2>3. NoMsg.kind = "none"
    BY Zenon DEF NoMsg
  <2>4. current # NoMsg
    BY <2>2, <2>3
  <2> QED
    BY <2>2, <2>4
<1>7. \A i \in 1 .. Len(toHost) : toHost[i] # R
  BY <1>1, Zenon DEF Occurs
<1>8. R.kind = "return" /\ R.msg = current
  BY Zenon DEF Response
<1> HIDE DEF R
<1>9. CASE \A i \in 1 .. Len(out') : out'[i] # R
  <2>1. SaidLast(toHost', out', R) /\ ~Occurs(toHost', out', R)
    BY <1>7, <1>9, Zenon DEF SaidLast, Occurs
  <2> QED
    BY <1>5, <2>1, Zenon DEF Syncing, R
<1>10. CASE \E i \in 1 .. Len(out') : out'[i] = R
  <2> DEFINE m == ts[1].msg
             A == Response("return", m)
             B == Response("error", m)
             E == Response("error", NoMsg)
  <2>1. /\ A.kind = "return" /\ A.msg = m /\ B.kind = "error"
        /\ E.kind = "error" /\ Sentinel.kind = "ff"
    BY Zenon DEF Response, Sentinel
  <2> HIDE DEF A, B, E
  <2>2. B # R /\ E # R /\ Sentinel # R
    BY <1>8, <2>1
  <2>3. PICK i \in 1 .. Len(out') : out'[i] = R
    BY <1>10
  <2>4. out' # <<>> /\ out' # <<E>> /\ out' # <<B>>
    BY <2>2, <2>3
  <2>5. Answers(ts, out') /\ tokens' = <<>>
    BY <2>4, Zenon DEF Streams, E
  <2>6. /\ ts = Text(m)
        /\ out' = <<A>> \/ out' = <<Sentinel, A>>
        /\ out' = <<A>> => m.kind # "sync"
    <3> HIDE DEF ts
    <3>1. \/ out' = <<E>>
          \/ ts = Text(m) /\ out' = <<Sentinel, A>>
          \/ /\ ts = Text(m) /\ out' \in {<<>>, <<A>>, <<B>>}
             /\ m.kind = "sync" => out' # <<A>>
      BY <2>5, Zenon DEF Answers, A, B, E
    <3> HIDE DEF m
    <3>2. <<Sentinel, A>> # <<A>>
      OBVIOUS
    <3> QED
      BY <2>4, <3>1, <3>2, Zenon
  <2>7. A = R
    <3> HIDE DEF ts, m
    <3>1. CASE out' = <<A>>
      BY <2>3, <3>1
    <3>2. CASE out' = <<Sentinel, A>>
      <4>1. i = 1 \/ i = 2
        BY <2>3, <3>2
      <4> QED
        BY <2>2, <2>3, <3>2, <4>1
    <3> QED
      BY <2>6, <3>1, <3>2
  <2>8. m = current
    BY <1>8, <2>1, <2>7, Zenon
  <2>9. out' = <<Sentinel, R>>
    BY <1>6, <2>6, <2>7, <2>8, Zenon
  <2>10. x = Token("}", current)
    <3>1. current.kind # "deep" /\ current.kind # "long"
      BY <1>6
    <3>2. ts = Whole(current)
      BY <2>6, <2>8, <3>1, TextWhole, Zenon
    <3>3. Whole(current)[3] = Token("}", current) /\ Len(Whole(current)) = 3
      BY WholeIs, Zenon
    <3>4. tokens \in Seq(TokensSoFar)
      BY DEF SessionInv, TypeParser
    <3>5. ts[Len(ts)] = x
      BY <3>4
    <3> HIDE DEF ts
    <3> QED
      BY <3>2, <3>3, <3>5, Zenon
  <2>11. x.msg = current
    <3>1. Token("}", current).msg = current
      BY Zenon DEF Token
    <3> QED
      BY <2>10, <3>1
  <2>12. Len(Pipe) = 1
    <3>1. Len(Pipe) \in Nat /\ Len(Pipe) > 0 /\ 1 \in 1 .. Len(Pipe)
      BY <1>2
    <3>2. /\ Len(Pipe) - 1 <= 2
          /\ x = Whole(current)[3 - (Len(Pipe) - 1)]
      BY <1>1, <2>11, <3>1, Zenon DEF Placed
    <3> DEFINE k == 3 - (Len(Pipe) - 1)
    <3>3. k \in 1 .. 3
      BY <3>1, <3>2
    <3>4. k = 3
      <4> HIDE DEF k
      <4>1. x = Whole(current)[k]
        BY <3>2 DEF k
      <4>2. k = 3
        <5>1. \A j \in 1 .. 3 : Whole(current)[j] = Token("}", current) =>
                                   j = 3
          BY WholeIs, Zenon
        <5> QED
          BY <2>10, <3>3, <4>1, <5>1
      <4> QED
        BY <4>2
    <3> QED
      BY <3>1, <3>4
  <2>13. Pipe' = <<>>
    BY <1>3, <2>12
  <2>14. SaidLast(toHost', out', R)
    <3>1. /\ Len(<<Sentinel, R>>) = 2 /\ <<Sentinel, R>>[1] = Sentinel
          /\ \A k \in 1 .. 2 : k = 1 \/ k = 2
      OBVIOUS
    <3> QED
      BY <1>7, <2>2, <2>9, <3>1, Zenon DEF SaidLast
  <2> QED
    BY <1>5, <2>5, <2>13, <2>14, Zenon DEF Syncing, R
<1> QED
  BY <1>9, <1>10, Zenon

\* While a client is in sync: the agent reads its request to the end, and then
\* answers it or says nothing.
LEMMA FeedInSync ==
    ASSUME SessionInv, NEW x \in TokensSoFar, NEW braces,
           Braces(x, braces), Streams(x, braces), client' = client,
           current' = current, toHost' = toHost, clean' = clean,
           TypeInput', requests' = requests,
           Pipe # <<>>, Pipe[1] = x, Len(Pipe') = Len(Pipe) - 1,
           \A i \in 1 .. Len(Pipe') : Pipe'[i] = Pipe[i + 1]
    PROVE  InSync'
<1> SUFFICES ASSUME clean PROVE InSync'
  BY Zenon DEF InSync
<1> DEFINE L == Len(tokens)
           ts == Append(tokens, x)
           w == Whole(current)
<1>1. /\ client = "waiting" /\ current.kind \in {"call", "quiet", "noexec"}
      /\ Silent /\ OnItsWay(tokens, Pipe, current)
      /\ brace_count = (IF tokens = <<>> THEN 0 ELSE 1)
  BY Zenon DEF SessionInv, InSync, Fed
<1>2. tokens \in Seq(TokensSoFar)
  BY DEF SessionInv, TypeParser
<1>3. Pipe \in Seq(TokensSoFar)
  BY PipeTokens DEF SessionInv
<1>4. Pipe' \in Seq(TokensSoFar)
  <2>1. TokensSoFar' = TokensSoFar
    BY SameRequests, Zenon
  <2>2. (Pipe \in Seq(TokensSoFar))'
    BY PipeTokens, PTL
  <2> QED
    BY <2>1, <2>2, Zenon
<1>5. /\ L + Len(Pipe) = 3 /\ \A i \in 1 .. L : tokens[i] = w[i]
      /\ \A i \in 1 .. Len(Pipe) : Pipe[i] = w[i + L]
  BY <1>1, Zenon DEF OnItsWay
<1>6. /\ w[1] = Token("{", current) /\ w[2] = Token("body", current)
      /\ w[3] = Token("}", current) /\ Len(w) = 3
      /\ \A i \in 1 .. 3 : w[i] # FF
  BY WholeIs, Zenon
<1>7. Whole(current) \in Seq({w[1], w[2], w[3]})
  BY DEF Whole
<1> HIDE DEF w
<1>8. /\ L \in 0 .. 2 /\ x = w[L + 1] /\ L + 1 \in 1 .. 3
      /\ tokens = <<>> <=> L = 0
      /\ Len(Pipe') = 2 - L
  <2>1. /\ L \in Nat /\ Len(Pipe) \in Nat /\ Len(Pipe) > 0
        /\ tokens = <<>> <=> L = 0
    BY <1>2, <1>3
  <2>2. L + Len(Pipe) = 3 /\ Len(Pipe') = Len(Pipe) - 1
    BY <1>5, Zenon
  <2> HIDE DEF L
  <2>4. /\ 1 \in 1 .. Len(Pipe) /\ L \in 0 .. 2 /\ 1 + L = L + 1
        /\ Len(Pipe') = 2 - L /\ L + 1 \in 1 .. 3
    BY <2>1, <2>2
  <2>3. Pipe[1] = w[1 + L]
    BY <1>5, <2>4, Zenon
  <2> QED
    BY <2>1, <2>3, <2>4, Zenon
<1>9. x # FF
  BY <1>6, <1>8, Zenon
<1>10. /\ ts \in Seq(TokensSoFar) /\ Len(ts) = L + 1 /\ ts # <<>>
       /\ \A i \in 1 .. L + 1 : ts[i] = w[i]
  <2>1. /\ Len(ts) = L + 1 /\ ts[L + 1] = x /\ ts \in Seq(TokensSoFar)
        /\ ts # <<>> /\ \A i \in 1 .. L : ts[i] = tokens[i]
    BY <1>2
  <2> HIDE DEF ts
  <2> QED
    BY <1>5, <1>8, <2>1
<1>11. /\ L = 0 => x.t = "{" /\ brace_count = 0
       /\ L = 1 => x.t = "body" /\ brace_count = 1
       /\ L = 2 => x.t = "}" /\ brace_count = 1
  <2>1. /\ Token("{", current).t = "{" /\ Token("body", current).t = "body"
        /\ Token("}", current).t = "}"
    BY Zenon DEF Token
  <2> HIDE DEF L
  <2>2. /\ L = 0 => L + 1 = 1
        /\ L = 1 => L + 1 = 2 /\ L # 0
        /\ L = 2 => L + 1 = 3 /\ L # 0
    OBVIOUS
  <2>3. /\ L = 0 => x = w[1]
        /\ L = 1 => x = w[2]
        /\ L = 2 => x = w[3]
    BY <1>8, <2>2, Zenon
  <2> QED
    BY <1>1, <1>6, <1>8, <2>1, <2>2, <2>3, Zenon
<1> HIDE DEF ts
<1>12. CASE L \in 0 .. 1
  <2>1. braces = 1
    <3> HIDE DEF L
    <3>1. L = 0 \/ L = 1
      BY <1>12
    <3>2. /\ L = 0 => brace_count = 0 /\ braces = brace_count + 1
          /\ L = 1 => brace_count = 1 /\ braces = brace_count
      BY <1>11, Zenon DEF Braces
    <3> QED
      BY <3>1, <3>2
  <2>2. ~OverLimit(ts, braces) /\ ~(braces <= 0)
    BY <1>8, <1>10, <1>12, <2>1, ConstantsAssumption DEF OverLimit
  <2>3. tokens' = ts /\ brace_count' = 1 /\ out' = <<>>
    BY <1>9, <2>1, <2>2, Zenon DEF Streams, ts
  <2>4. OnItsWay(ts, Pipe', current)
    <3>1. Len(ts) + Len(Pipe') = 3
      BY <1>8, <1>10
    <3>2. \A i \in 1 .. Len(ts) : ts[i] = w[i]
      BY <1>10
    <3>3. ASSUME NEW i \in 1 .. Len(Pipe') PROVE Pipe'[i] = w[i + Len(ts)]
      <4>1. i + 1 \in 1 .. Len(Pipe) /\ (i + 1) + L = i + Len(ts)
        BY <1>3, <1>4, <1>8, <1>10
      <4>2. Pipe[i + 1] = w[(i + 1) + L]
        BY <1>5, <4>1, Zenon
      <4> QED
        BY <4>1, <4>2, Zenon
    <3> QED
      BY <3>1, <3>2, <3>3, Zenon DEF OnItsWay, w
  <2>5. Silent'
    BY <1>1, <2>3, Zenon DEF Silent
  <2> QED
    BY <1>1, <1>10, <2>3, <2>4, <2>5, Zenon DEF InSync
<1>13. CASE L = 2
  <2>1. braces = 0
    <3>1. brace_count = 1 /\ braces = brace_count - 1
      BY <1>11, <1>13, Zenon DEF Braces
    <3> QED
      BY <3>1
  <2>2. braces <= 0 /\ ~(braces > 0)
    BY <2>1
  <2>3. tokens' = <<>> /\ Answers(ts, out')
    BY <1>9, <2>2, Zenon DEF Streams, ts
  <2>4. ts = w
    <3>1. ts \in Seq(TokensSoFar \cup {w[1], w[2], w[3]})
          /\ w \in Seq(TokensSoFar \cup {w[1], w[2], w[3]})
      <4> DEFINE S == {w[1], w[2], w[3]}
      <4>1. w \in Seq(S)
        BY <1>7 DEF w
      <4>2. ts \in Seq(TokensSoFar)
        BY <1>10
      <4> HIDE DEF S
      <4>3. /\ S \subseteq TokensSoFar \cup S
            /\ TokensSoFar \subseteq TokensSoFar \cup S
        BY Zenon
      <4>4. /\ w \in Seq(TokensSoFar \cup S) /\ ts \in Seq(TokensSoFar \cup S)
        BY <4>1, <4>2, <4>3, SeqMonotonic, Zenon
      <4> QED
        BY <4>4 DEF S
    <3>2. Len(ts) = Len(w) /\ \A i \in 1 .. Len(ts) : ts[i] = w[i]
      <4>1. Len(ts) = L + 1 /\ L = 2 /\ Len(w) = 3
        BY <1>6, <1>10, <1>13, Zenon
      <4> HIDE DEF L
      <4>2. Len(ts) = 3 /\ L + 1 = 3
        BY <4>1
      <4> QED
        BY <1>10, <4>1, <4>2, Zenon
    <3> QED
      BY <3>1, <3>2, SeqEqual, Zenon
  <2>5. /\ current.kind # "deep" /\ current.kind # "long"
        /\ current.kind # "sync"
    BY <1>1
  <2>6. Text(current) = w
    BY <2>5, TextWhole, Zenon DEF w
  <2>7. ts[1].msg = current
    <3>1. Token("{", current).msg = current
      BY Zenon DEF Token
    <3> QED
      BY <1>6, <2>4, <3>1, Zenon
  <2> DEFINE A == Response("return", current)
             B == Response("error", current)
  <2>8. out' \in {<<>>, <<A>>, <<B>>}
    BY <2>3, <2>4, <2>5, <2>6, <2>7, Zenon DEF Answers
  <2>9. A.msg = current /\ B.msg = current /\ A.kind # "ff" /\ B.kind # "ff"
    <3>1. /\ A.msg = current /\ B.msg = current /\ A.kind = "return"
          /\ B.kind = "error"
      BY Zenon DEF Response
    <3> HIDE DEF A, B
    <3> QED
      BY <3>1
  <2> HIDE DEF A, B
  <2>10. /\ Len(out') <= 1 /\ Len(out') \in Nat
         /\ \A i \in 1 .. Len(out') : out'[i] = A \/ out'[i] = B
    <3>1. CASE out' = <<>>
      BY <3>1
    <3>2. CASE out' = <<A>>
      BY <3>2
    <3>3. CASE out' = <<B>>
      BY <3>3
    <3> QED
      BY <2>8, <3>1, <3>2, <3>3, Zenon
  <2>11. OneAnswer(toHost', out', current)
    <3>1. /\ toHost' = <<>> /\ Len(<<>>) = 0
          /\ \A i \in 1 .. Len(<<>>) : FALSE
      BY <1>1 DEF Silent
    <3>2. Len(toHost') + Len(out') <= 1
      BY <2>10, <3>1
    <3> QED
      BY <2>9, <2>10, <3>1, <3>2, Zenon DEF OneAnswer
  <2>12. Fed'
    <3>1. Pipe' = <<>>
      BY <1>4, <1>8, <1>13
    <3> QED
      BY <2>3, <3>1, Zenon DEF Fed
  <2> QED
    BY <1>1, <2>11, <2>12, Zenon DEF InSync
<1> QED
  BY <1>8, <1>12, <1>13

\* json_message_parser_feed.
LEMMA FeedKeeps == SessionInv /\ json_message_parser_feed => SessionInv'
<1> SUFFICES ASSUME SessionInv, json_message_parser_feed PROVE SessionInv'
  OBVIOUS
<1> DEFINE x == Head(buf)
<1>1. /\ pc = "feed" /\ json_message_process_token(x) /\ buf' = Tail(buf)
      /\ pc' = IF out' # <<>> THEN "write" ELSE Onward(buf')
      /\ toGuest' = toGuest /\ toHost' = toHost /\ csend' = csend
      /\ client' = client /\ current' = current /\ requests' = requests
  BY Zenon DEF json_message_parser_feed, clientVars
<1>2. clean' = clean
  BY Zenon DEF json_message_parser_feed, clientVars
<1>3. TypeCounts'
  BY Zenon DEF json_message_parser_feed, clientVars, channelVars, SessionInv,
               TypeCounts
<1>4. TypeFlags'
  BY Zenon DEF json_message_parser_feed, clientVars, channelVars, SessionInv,
               TypeFlags
<1>5. /\ SoFar' = SoFar /\ TokensSoFar' = TokensSoFar
      /\ ResponsesSoFar' = ResponsesSoFar
  BY <1>1, SameRequests, Zenon
<1>6. buf # <<>> /\ out = <<>>
  BY <1>1 DEF SessionInv, Loop
<1>7. buf \in Seq(TokensSoFar)
  BY DEF SessionInv, TypeInput
<1>8. toGuest \in Seq(TokensSoFar)
  BY DEF SessionInv, TypeInput
<1>9. csend \in Seq(TokensSoFar)
  BY DEF SessionInv, TypeInput
<1>10. /\ x \in TokensSoFar /\ buf' \in Seq(TokensSoFar)
       /\ Len(buf') <= READ_COUNT
  <2>1. Len(buf) <= READ_COUNT /\ READ_COUNT \in Nat
    BY ConstantsAssumption DEF SessionInv, TypeInput
  <2> QED
    BY <1>1, <1>6, <1>7, <2>1
<1>11. TypeInput'
  BY <1>1, <1>5, <1>8, <1>9, <1>10, Zenon DEF TypeInput
<1>12. /\ Pipe # <<>> /\ Pipe[1] = x /\ Len(Pipe') = Len(Pipe) - 1
       /\ \A i \in 1 .. Len(Pipe') : Pipe'[i] = Pipe[i + 1]
  <2> DEFINE p == (buf \o toGuest) \o csend
             q == (Tail(buf) \o toGuest) \o csend
  <2>1. /\ p # <<>> /\ p[1] = Head(buf) /\ Len(q) = Len(p) - 1
        /\ \A i \in 1 .. Len(q) : q[i] = p[i + 1]
    BY <1>6, <1>7, <1>8, <1>9, PipeFeed
  <2>2. p = Pipe
    BY DEF Pipe
  <2>3. q = Pipe'
    BY <1>1, Zenon DEF Pipe
  <2> HIDE DEF p, q
  <2> QED
    BY <2>1, <2>2, <2>3, Zenon
<1>13. PICK braces : Braces(x, braces) /\ Streams(x, braces)
  BY <1>1, <1>10, TokenSteps, Zenon
<1> HIDE DEF x
<1>14. TypeParser' /\ out' \in Seq(ResponsesSoFar)
  BY <1>1, <1>10, <1>13, FeedTypes, Zenon
<1>15. TypeOutput'
  BY <1>1, <1>5, <1>14, Zenon DEF SessionInv, TypeOutput
<1>16. Loop'
  <2>1. CASE out' # <<>>
    BY <1>1, <2>1, Zenon DEF Loop
  <2>2. CASE out' = <<>> /\ buf' = <<>>
    BY <1>1, <2>2, Zenon DEF Loop, Onward
  <2>3. CASE out' = <<>> /\ buf' # <<>>
    BY <1>1, <2>3, Zenon DEF Loop, Onward
  <2> QED
    BY <2>1, <2>2, <2>3
<1>17. TypeClient'
  BY <1>1, <1>5, Zenon DEF SessionInv, TypeClient
<1>18. Syncing'
  <2>1. CASE client = "syncing"
    BY <1>1, <1>6, <1>10, <1>11, <1>12, <1>13, <2>1, FeedSyncing
  <2>2. CASE client # "syncing"
    BY <1>1, <2>2, Zenon DEF Syncing
  <2> QED
    BY <2>1, <2>2
<1>19. InSync'
  BY <1>1, <1>2, <1>10, <1>11, <1>12, <1>13, FeedInSync
<1> QED
  BY <1>3, <1>4, <1>11, <1>14, <1>15, <1>16, <1>17, <1>18, <1>19
  DEF SessionInv
-----------------------------------------------------------------------------
(* The theorems. *)

\* The invariant holds before the first client.
LEMMA InvInit == Init => SessionInv
<1> SUFFICES ASSUME Init PROVE SessionInv
  OBVIOUS
<1>1. /\ method \in Methods /\ peer = 0 /\ session = 0 /\ requests = 0
      /\ kills = 0 /\ toGuest = <<>> /\ toHost = <<>> /\ pc = "loop"
      /\ buf = <<>> /\ tokens = <<>> /\ brace_count = 0 /\ out = <<>>
      /\ client = "off" /\ csend = <<>> /\ current = NoMsg
  BY Zenon DEF Init
<1>2. /\ open \in BOOLEAN /\ listening \in BOOLEAN /\ sentinel = FALSE
      /\ clean = FALSE /\ lost = FALSE
  BY Zenon DEF Init
<1>3. TypeCounts
  BY <1>1, ConstantsAssumption DEF TypeCounts
<1>4. TypeFlags /\ InSync
  BY <1>2, Zenon DEF TypeFlags, InSync
<1>5. /\ <<>> \in Seq(TokensSoFar) /\ <<>> \in Seq(ResponsesSoFar)
      /\ Len(<<>>) <= READ_COUNT /\ Len(<<>>) <= MAX_TOKEN_SIZE
      /\ Len(<<>>) <= Capacity /\ 0 \in 0 .. MAX_NESTING
  BY ConstantsAssumption
<1>6. TypeInput /\ TypeParser /\ TypeOutput /\ Loop
  BY <1>1, <1>5, Zenon DEF TypeInput, TypeParser, TypeOutput, Loop
<1>7. /\ client # "syncing"
      /\ client \in {"off", "syncing", "ready", "waiting"}
  BY <1>1
<1>8. TypeClient /\ Syncing
  BY <1>1, <1>3, <1>7, NoMsgOld, Zenon DEF TypeClient, Syncing
<1> QED
  BY <1>3, <1>4, <1>6, <1>8 DEF SessionInv

\* A step that changes nothing keeps it.
LEMMA StutterKeeps == SessionInv /\ UNCHANGED vars => SessionInv'
<1> SUFFICES ASSUME SessionInv, UNCHANGED vars PROVE SessionInv'
  OBVIOUS
<1>1. /\ UNCHANGED talk /\ buf' = buf /\ toGuest' = toGuest
      /\ csend' = csend /\ pc' = pc /\ requests' = requests /\ out' = out
  BY Zenon DEF vars, talk
<1>2. Pipe' = Pipe
  BY <1>1, Zenon DEF Pipe
<1>3. TypeCounts' /\ TypeFlags'
  BY Zenon DEF vars, SessionInv, TypeCounts, TypeFlags
<1>4. TypeInput' /\ Loop'
  BY <1>1, SameRequests, Zenon DEF SessionInv, TypeInput, Loop
<1> QED
  BY <1>1, <1>2, <1>3, <1>4, SameTalk DEF SessionInv

\* The invariant is inductive.
LEMMA InvNext == SessionInv /\ [Next]_vars => SessionInv'
<1> SUFFICES ASSUME SessionInv, [Next]_vars PROVE SessionInv'
  OBVIOUS
<1>1. CASE \/ ga_channel_listen_accept \/ ReadData \/ ReadEnd \/ ReadFails
           \/ ga_channel_write_all \/ json_message_parser_feed
  BY <1>1, AcceptKeeps, ReadKeeps, ReadEndKeeps, ReadFailsKeeps, WriteKeeps,
     FeedKeeps, Zenon
<1>2. CASE \/ Connect \/ TimeOut \/ Disconnect \/ Send \/ Receive \/ Restart
  BY <1>2, ConnectKeeps, TimeOutKeeps, DisconnectKeeps, SendKeeps,
     ReceiveKeeps, RestartKeeps, Zenon
<1>3. ASSUME NEW kind \in Commands, Request(kind) PROVE SessionInv'
  BY <1>3, RequestKeeps, Zenon
<1>4. CASE UNCHANGED vars
  BY <1>4, StutterKeeps
<1> QED
  BY <1>1, <1>2, <1>3, <1>4, Zenon DEF Next

\* ... and holds in every reachable state.
LEMMA InvHolds == Spec => []SessionInv
<1> QED
  BY InvInit, InvNext, PTL DEF Spec

\* Every reachable state is well typed; in particular the token list and the
\* nesting of the streamer stay within MAX_TOKEN_SIZE and MAX_NESTING whatever
\* clients send, leave behind or repeat.
THEOREM TypeCorrect == Spec => []TypeOK
<1>1. SessionInv => TypeOK
  <2> SUFFICES ASSUME SessionInv PROVE TypeOK
    OBVIOUS
  <2>1. /\ SoFar \subseteq Messages \cup {NoMsg}
        /\ TokensSoFar \subseteq Tokens /\ ResponsesSoFar \subseteq Responses
    BY Zenon DEF SoFar, TokensSoFar, ResponsesSoFar, Tokens, Responses
  <2>2. /\ toGuest \in Seq(Tokens) /\ buf \in Seq(Tokens)
        /\ csend \in Seq(Tokens) /\ tokens \in Seq(Tokens)
        /\ toHost \in Seq(Responses) /\ out \in Seq(Responses)
    BY <2>1, SeqMonotonic, Zenon
       DEF SessionInv, TypeInput, TypeParser, TypeOutput
  <2>3. current \in Messages \cup {NoMsg}
    BY <2>1, Zenon DEF SessionInv, TypeClient
  <2>4. pc \in {"loop", "feed", "write"}
    BY DEF SessionInv, Loop
  <2> QED
    BY <2>2, <2>3, <2>4, Zenon
       DEF SessionInv, TypeCounts, TypeFlags, TypeClient, TypeInput,
           TypeParser, TypeOutput, TypeOK
<1> QED
  BY <1>1, InvHolds, PTL

\* Once a client has received the answer to its guest-sync-delimited, whatever
\* the agent has said and the client has not received answers the request that
\* the client waits for: what clients before it left in the channel, in the
\* streamer or unread is gone.
THEOREM SyncFlushes == Spec => []NothingStale
<1>1. SessionInv => NothingStale
  <2> SUFFICES ASSUME SessionInv, clean,
                      NEW r \in Range(toHost) \cup Range(out)
               PROVE  client = "waiting" /\ r.msg = current
    BY Zenon DEF NothingStale
  <2>1. toHost \in Seq(ResponsesSoFar) /\ out \in Seq(ResponsesSoFar)
    BY DEF SessionInv, TypeOutput
  <2>2. \/ \E i \in 1 .. Len(toHost) : r = toHost[i]
        \/ \E i \in 1 .. Len(out) : r = out[i]
    BY <2>1, RangeEquality
  <2>3. ~Silent
    BY <2>2 DEF Silent
  <2>4. client = "waiting" /\ OneAnswer(toHost, out, current)
    BY <2>3, Zenon DEF SessionInv, InSync
  <2> QED
    BY <2>2, <2>4, Zenon DEF OneAnswer
<1> QED
  BY <1>1, InvHolds, PTL
=============================================================================
