------------------------------ MODULE TickFanout ------------------------------
(***************************************************************************)
(* What the TickDemultiplexer (internal/bft/util.go) promises its          *)
(* consumers: one clock fanned out in lockstep.  A tick is emitted only    *)
(* once every consumer has received every earlier tick, and each consumer  *)
(* receives the current tick exactly once.  The consumers therefore see    *)
(* the same ticks, in the order the clock produced them.                   *)
(***************************************************************************)
EXTENDS Naturals, Sequences

CONSTANT Consumers      \* the Out channels of the demultiplexer

VARIABLES
    emitted,    \* number of ticks taken from the clock
    rcv         \* rcv[c]: the ticks consumer c has received, in order

Init ==
    /\ emitted = 0
    /\ rcv = [c \in Consumers |-> << >>]

(* The clock advances only when every consumer has caught up.             *)
Emit ==
    /\ \A c \in Consumers : Len(rcv[c]) = emitted
    /\ emitted' = emitted + 1
    /\ UNCHANGED rcv

(* A consumer that has not yet received the current tick receives it.     *)
Deliver(c) ==
    /\ Len(rcv[c]) < emitted
    /\ rcv' = [rcv EXCEPT ![c] = Append(@, emitted)]
    /\ UNCHANGED emitted

Next == Emit \/ \E c \in Consumers : Deliver(c)

Spec == Init /\ [][Next]_<<emitted, rcv>>

=============================================================================
