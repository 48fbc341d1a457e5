---------------------------- MODULE FrameChannel ----------------------------
(***************************************************************************)
(* What one direction of a Connection promises: messages come out whole,   *)
(* in the order they went in, none twice and none skipped, and all of them *)
(* as long as neither end closes it.  Nothing is said of bytes.            *)
(***************************************************************************)
EXTENDS Naturals, Sequences

CONSTANT Message

VARIABLES accepted,   \* the messages given to sendMessage
          delivered,  \* the messages recvMessage has returned
          over        \* one end has closed the connection, or died

channelVars == <<accepted, delivered, over>>

ChannelInit == accepted = <<>> /\ delivered = <<>> /\ over = FALSE

Accept(m) ==
    /\ accepted' = Append(accepted, m)
    /\ UNCHANGED <<delivered, over>>

\* What was under way when the connection ended may still come out.
Deliver ==
    /\ Len(delivered) < Len(accepted)
    /\ delivered' = Append(delivered, accepted[Len(delivered) + 1])
    /\ UNCHANGED <<accepted, over>>

End == ~over /\ over' = TRUE /\ UNCHANGED <<accepted, delivered>>

ChannelNext == Deliver \/ End \/ \E m \in Message : Accept(m)

ChannelSafety == ChannelInit /\ [][ChannelNext]_channelVars
ChannelSpec == ChannelSafety /\ WF_channelVars(~over /\ Deliver)

=============================================================================
