------------------------------- MODULE Framing ------------------------------
(***************************************************************************)
(* network/net/Connection.hpp: sendMessage at a node and recvMessage at    *)
(* the master, over one direction of a TCP connection, a stream of bytes   *)
(* that send() and recv() transfer in pieces of any size.  The node sends  *)
(* its report and then PONGs, as NodeClient.cpp does.                      *)
(***************************************************************************)
EXTENDS Protocol

CONSTANTS Reports,    \* what a node may have to report
          MaxFrames,  \* bound: how many messages a node sends
          Buffer      \* how many bytes the connection holds

ASSUME FramingAssumption ==
    /\ Reports \subseteq Payload
    /\ MaxFrames \in Nat
    /\ Buffer \in Nat \ {0}

VARIABLES
    node, master,   \* the byte order of the two hosts
    report,         \* what the node has to report
    out,            \* what sendAll has still to send
    wire,           \* bytes sent and not yet received
    got, want,      \* what recvAll has, and how much it is asked for
    reading,        \* the recvAll of recvMessage: "header", "body"; "ended" once it
                    \* has returned false
    nodeUp, masterUp,      \* the ends that are open
    accepted, delivered    \* the messages that have gone in and come out

hostVars == <<node, master, report>>
sendVars == <<out, nodeUp, accepted>>
recvVars == <<got, want, reading, masterUp, delivered>>
vars == <<hostVars, sendVars, recvVars, wire>>

ReportMessage(h, p) == [type |-> RESOURCE_REPORT, payload |-> encodeResourceReport(h, p)]
PongMessage == [type |-> PONG, payload |-> <<>>]
Message == {ReportMessage(h, p) : h \in Host, p \in Reports} \cup {PongMessage}

TypeOK ==
    /\ node \in Host /\ master \in Host /\ report \in Reports
    /\ out \in Seq(Byte) /\ wire \in Seq(Byte) /\ Len(wire) <= Buffer
    /\ got \in Seq(Byte) /\ want \in Nat /\ Len(got) <= want
    /\ reading \in {"header", "body", "ended"}
    /\ nodeUp \in BOOLEAN /\ masterUp \in BOOLEAN
    /\ accepted \in Seq(Message) /\ delivered \in Seq(Message)

Init ==
    /\ node \in Host /\ master \in Host /\ report \in Reports
    /\ out = <<>> /\ wire = <<>>
    /\ got = <<>> /\ want = 4 /\ reading = "header"
    /\ nodeUp = TRUE /\ masterUp = TRUE
    /\ accepted = <<>> /\ delivered = <<>>

-----------------------------------------------------------------------------
(* The node: sendMessage.                                                  *)

Frame(m) ==
    Memory(node, hostToNet32(node, Word(1 + Len(m.payload)))) \o <<m.type>> \o m.payload

SendMessage(m) ==
    /\ nodeUp /\ out = <<>> /\ Len(accepted) < MaxFrames
    /\ out' = Frame(m)
    /\ accepted' = Append(accepted, m)
    /\ UNCHANGED <<hostVars, nodeUp, recvVars, wire>>

SendReport == accepted = <<>> /\ SendMessage(ReportMessage(node, report))

SendPong == accepted # <<>> /\ SendMessage(PongMessage)

\* send() takes n bytes of what is left, as many as there is room for.
Taken(n) ==
    /\ nodeUp /\ masterUp
    /\ n \in 1..Len(out) /\ Len(wire) + n <= Buffer
    /\ wire' = wire \o SubSeq(out, 1, n)

\* Mutant: one send() per frame, whatever it returns.
SendOnce(n) == Taken(n) /\ out' = <<>> /\ UNCHANGED <<hostVars, nodeUp, accepted, recvVars>>

SendSome(n) ==
    /\ Taken(n)
    /\ out' = SubSeq(out, n + 1, Len(out))
    /\ UNCHANGED <<hostVars, nodeUp, accepted, recvVars>>

\* send() fails, sendMessage returns false and the node ends; or it ends, by
\* close() or a crash, of its own accord.  A crash of the host may take what
\* is still under way with it.
NodeEnds ==
    /\ nodeUp
    /\ nodeUp' = FALSE /\ out' = <<>>
    /\ \E n \in 0..Len(wire) : wire' = SubSeq(wire, 1, n)
    /\ UNCHANGED <<hostVars, accepted, recvVars>>

-----------------------------------------------------------------------------
(* The master: recvMessage.                                                *)

\* Mutant: recv() is asked for the whole of len again.
RecvTooMuch(n) ==
    /\ reading # "ended" /\ Len(got) < want
    /\ n \in 1..Len(wire) /\ n <= want
    /\ got' = got \o SubSeq(wire, 1, n)
    /\ wire' = SubSeq(wire, n + 1, Len(wire))
    /\ UNCHANGED <<hostVars, sendVars, want, reading, masterUp, delivered>>

RecvSome(n) ==
    /\ reading # "ended"
    /\ n \in 1..Len(wire) /\ n <= want - Len(got)
    /\ got' = got \o SubSeq(wire, 1, n)
    /\ wire' = SubSeq(wire, n + 1, Len(wire))
    /\ UNCHANGED <<hostVars, sendVars, want, reading, masterUp, delivered>>

Ask(next, n) == reading' = next /\ want' = n /\ got' = <<>>

\* A length of zero makes recvMessage return false.
Header ==
    /\ reading = "header" /\ Len(got) = want
    /\ LET len == Value(netToHost32(master, Load(master, got)))
       IN  Ask(IF len = 0 THEN "ended" ELSE "body", len)
    /\ UNCHANGED <<hostVars, sendVars, masterUp, delivered, wire>>

Body ==
    /\ reading = "body" /\ Len(got) = want
    /\ delivered' = Append(delivered, [type |-> got[1], payload |-> SubSeq(got, 2, Len(got))])
    /\ Ask("header", 4)
    /\ UNCHANGED <<hostVars, sendVars, masterUp, wire>>

\* recv() returns 0 or an error.
RecvFails ==
    /\ reading # "ended" /\ Len(got) < want
    /\ ~nodeUp /\ wire = <<>>
    /\ Ask("ended", 0)
    /\ UNCHANGED <<hostVars, sendVars, masterUp, delivered, wire>>

\* The master closes the connection, from another thread or after a false.
MasterEnds ==
    /\ masterUp
    /\ masterUp' = FALSE /\ wire' = <<>>
    /\ Ask("ended", 0)
    /\ UNCHANGED <<hostVars, sendVars, delivered>>

-----------------------------------------------------------------------------
NodeStep == SendReport \/ SendPong \/ \E n \in 1..Buffer : SendSome(n)
MasterStep == Header \/ Body \/ RecvFails \/ \E n \in 1..Buffer : RecvSome(n)

\* Nobody has anything left to do.
Quiet ==
    /\ out = <<>> /\ wire = <<>> /\ (Len(accepted) = MaxFrames \/ ~nodeUp)
    /\ UNCHANGED vars

Next == NodeStep \/ MasterStep \/ NodeEnds \/ MasterEnds \/ Quiet

\* Each thread goes on when its call can; nobody is made to close.
Fairness == WF_vars(NodeStep) /\ WF_vars(MasterStep)

SafetySpec == Init /\ [][Next]_vars
Spec == SafetySpec /\ Fairness

-----------------------------------------------------------------------------
(* Properties                                                              *)

\* Connection.hpp: sendAll and recvAll make a channel of whole messages out
\* of the stream, however it cuts them, and the loss of its tail at the end
\* of the connection never makes a message of a piece of one.
Channel == INSTANCE FrameChannel WITH over <- ~nodeUp \/ ~masterUp
ImplementsChannel == Channel!ChannelSpec

\* Protocol.hpp: the master knows the threads of the node between any two
\* hosts, but its memory only between hosts of one byte order.
ReportUnderstood ==
    \A i \in DOMAIN delivered :
        delivered[i].type = RESOURCE_REPORT =>
            LET r == decodeResourceReport(master, delivered[i].payload)
            IN  /\ r.threads = report.threads
                /\ node = master => r.ramBytes = report.ramBytes

=============================================================================
