----------------------------- MODULE MCTickDemux -----------------------------
(***************************************************************************)
(* TickDemux with the three clocks Consensus.Start wires to it.            *)
(***************************************************************************)
EXTENDS TickDemux

CONSTANTS poolClock, leaderClock, viewChangerClock

MCConsumers == {poolClock, leaderClock, viewChangerClock}

=============================================================================
