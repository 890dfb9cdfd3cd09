----------------------------- MODULE ByteStream -----------------------------
(***************************************************************************)
(* What the agent expects of its channel: the bytes that the host sends    *)
(* are read once each, in the order in which they were sent, until the     *)
(* channel fails; after that nothing is read any more.                     *)
(***************************************************************************)
EXTENDS Naturals, Sequences

CONSTANT Byte       \* what can be sent

VARIABLES
    wire,           \* sent and not yet read
    read,           \* what the reader has been given
    open            \* the channel has not failed

streamVars == <<wire, read, open>>

Init == wire = <<>> /\ read = <<>> /\ open = TRUE

Send(b) ==
    /\ wire' = Append(wire, b)
    /\ UNCHANGED <<read, open>>

\* The reader takes some of the bytes that wait for it.
Read ==
    /\ open
    /\ \E n \in 1 .. Len(wire) :
          /\ read' = read \o SubSeq(wire, 1, n)
          /\ wire' = SubSeq(wire, n + 1, Len(wire))
    /\ UNCHANGED open

Fail == open /\ open' = FALSE /\ UNCHANGED <<wire, read>>

Next == (\E b \in Byte : Send(b)) \/ Read \/ Fail

Spec == Init /\ [][Next]_streamVars /\ WF_streamVars(Read)
=============================================================================
