---------------------------- MODULE MCHeartbeat -----------------------------
(* The time-out is the shortest that LiveNodeKept allows, and PINGs may    *)
(* overtake the answers of earlier ones.                                   *)
EXTENDS Heartbeat

MCInterval == 3
MCWork == 1
MCJitter == 1
MCDelay == 6
MCTimeout == MCInterval + MCJitter + MCWork + MCDelay
MCHorizon == 32

=============================================================================
