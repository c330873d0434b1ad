------------------------------ MODULE TickDemux ------------------------------
(***************************************************************************)
(* The TickDemultiplexer of internal/bft/util.go, and the part of          *)
(* Consensus.Start/Stop (pkg/consensus/consensus.go) that drives it.       *)
(*                                                                         *)
(* One goroutine selects between stopChan and the scheduler channel In;    *)
(* for each tick, tick() starts one goroutine per Out channel that sends   *)
(* the tick and waits on a WaitGroup until every send is done.  The three  *)
(* consumers (RequestPool, HeartbeatMonitor, ViewChanger; not under src/)  *)
(* each read their clock channel in their own loop and spend some time on  *)
(* every tick.  Consensus.Stop stops the demultiplexer, then the          *)
(* ViewChanger, then the Controller; only the ViewChanger stops reading.   *)
(***************************************************************************)
EXTENDS Naturals, Sequences

CONSTANTS
    Consumers,  \* the Out channels: poolClock, leaderClock, viewChangerClock
    VC,         \* the ViewChanger's clock, the one consumer Consensus.Stop stops
    MaxTicks    \* bound: the scheduler produces at most MaxTicks ticks

ASSUME TickConstantsAssumption ==
    /\ VC \in Consumers
    /\ MaxTicks \in Nat

VARIABLES
    dpc,        \* the demultiplexer goroutine: in its select, in tick(), or returned
    inflight,   \* <<c, k>>: the goroutine of tick() sending tick k on Out c
    emitted,    \* ticks taken from In
    recv,       \* recv[c]: the ticks consumer c has received, in order
    cst,        \* consumer c is ready to receive, busy with a tick, or stopped
    tdStop,     \* the demultiplexer's stopChan is closed
    cs          \* Consensus.Stop: 0 not called, i executing call i, then returned

vars == <<dpc, inflight, emitted, recv, cst, tdStop, cs>>

(* Mutant: the viewChanger is stopped before the demultiplexer.           *)
StopOrderSwapped == << "viewChanger", "timeDemux", "controller" >>

(* Consensus.Stop: timeDemux.Stop(); viewChanger.Stop(); controller.Stop() *)
StopOrder == << "timeDemux", "viewChanger", "controller" >>

StopCall == IF cs \in 1..Len(StopOrder) THEN StopOrder[cs] ELSE "none"

StopReturned == cs = Len(StopOrder) + 1

(* Consensus.Start: TickDemultiplexer.Start makes stopChan and starts the  *)
(* goroutine; every consumer is already running its loop.                  *)
Init ==
    /\ dpc = "select"
    /\ inflight = {}
    /\ emitted = 0
    /\ recv = [c \in Consumers |-> << >>]
    /\ cst = [c \in Consumers |-> "ready"]
    /\ tdStop = FALSE
    /\ cs = 0

-----------------------------------------------------------------------------
(* The demultiplexer *)

(* Mutant: the next tick is stamped before the counter moves.             *)
TakeTickOffByOne ==
    /\ dpc = "select"
    /\ emitted < MaxTicks
    /\ inflight' = {<<c, emitted + 1>> : c \in Consumers}
    /\ dpc' = "tick"
    /\ UNCHANGED <<emitted, recv, cst, tdStop, cs>>

(* case now := <-td.In: tick(now) adds len(Out) to the WaitGroup and       *)
(* starts one sending goroutine per Out channel.  Go's select may take     *)
(* this case even when stopChan is closed.                                 *)
TakeTick ==
    /\ dpc = "select"
    /\ emitted < MaxTicks
    /\ emitted' = emitted + 1
    /\ inflight' = {<<c, emitted + 1>> : c \in Consumers}
    /\ dpc' = "tick"
    /\ UNCHANGED <<recv, cst, tdStop, cs>>

(* out <- now, received by a consumer waiting on its clock; wg.Done.       *)
SendTick(c, k) ==
    /\ <<c, k>> \in inflight
    /\ cst[c] = "ready"
    /\ inflight' = inflight \ {<<c, k>>}
    /\ recv' = [recv EXCEPT ![c] = Append(@, k)]
    /\ cst' = [cst EXCEPT ![c] = "busy"]
    /\ UNCHANGED <<dpc, emitted, tdStop, cs>>

(* Mutant: tick() returns without wg.Wait().                              *)
TickDoneNoWait ==
    /\ dpc = "tick"
    /\ dpc' = "select"
    /\ UNCHANGED <<inflight, emitted, recv, cst, tdStop, cs>>

(* wg.Wait() returns once every send is done; back to the select.          *)
TickDone ==
    /\ dpc = "tick"
    /\ inflight = {}
    /\ dpc' = "select"
    /\ UNCHANGED <<inflight, emitted, recv, cst, tdStop, cs>>

(* case <-td.stopChan: return; the deferred running.Done().                *)
DemuxExit ==
    /\ dpc = "select"
    /\ tdStop
    /\ dpc' = "done"
    /\ UNCHANGED <<inflight, emitted, recv, cst, tdStop, cs>>

-----------------------------------------------------------------------------
(* The consumers (spec sections 4.5, 4.6, 4.3): each handles a tick it     *)
(* received, then reads its clock again.                                   *)
ConsumerProcess(c) ==
    /\ cst[c] = "busy"
    /\ cst' = [cst EXCEPT ![c] = "ready"]
    /\ UNCHANGED <<dpc, inflight, emitted, recv, tdStop, cs>>

-----------------------------------------------------------------------------
(* Consensus.Stop, called once by the application *)

RequestStop ==
    /\ cs = 0
    /\ cs' = 1
    /\ UNCHANGED <<dpc, inflight, emitted, recv, cst, tdStop>>

(* TickDemultiplexer.Stop, inside stopOnce: close(td.stopChan) ...         *)
TimeDemuxStopClose ==
    /\ StopCall = "timeDemux"
    /\ ~tdStop
    /\ tdStop' = TRUE
    /\ UNCHANGED <<dpc, inflight, emitted, recv, cst, cs>>

(* ... then td.running.Wait(): returns once the goroutine has returned.    *)
TimeDemuxStopReturn ==
    /\ StopCall = "timeDemux"
    /\ tdStop
    /\ dpc = "done"
    /\ cs' = cs + 1
    /\ UNCHANGED <<dpc, inflight, emitted, recv, cst, tdStop>>

(* viewChanger.Stop(): the ViewChanger leaves its loop the next time it    *)
(* selects, and from then on reads its clock no more.                      *)
ViewChangerStop ==
    /\ StopCall = "viewChanger"
    /\ cst[VC] = "ready"
    /\ cst' = [cst EXCEPT ![VC] = "stopped"]
    /\ cs' = cs + 1
    /\ UNCHANGED <<dpc, inflight, emitted, recv, tdStop>>

(* controller.Stop(): the Controller reads no clock (see Controller.tla).  *)
ControllerStop ==
    /\ StopCall = "controller"
    /\ cs' = cs + 1
    /\ UNCHANGED <<dpc, inflight, emitted, recv, cst, tdStop>>

-----------------------------------------------------------------------------
Next ==
    \/ TakeTick
    \/ \E c \in Consumers, k \in 1..MaxTicks : SendTick(c, k)
    \/ TickDone
    \/ DemuxExit
    \/ \E c \in Consumers : ConsumerProcess(c)
    \/ RequestStop
    \/ TimeDemuxStopClose \/ TimeDemuxStopReturn
    \/ ViewChangerStop \/ ControllerStop

Spec == Init /\ [][Next]_vars

(* Go schedules every runnable goroutine: the demultiplexer, its sending   *)
(* goroutines, the Stop caller, and consumers that return to their loop.   *)
(* The scheduler's ticks and the call of Stop are the environment.         *)
DemuxFairness ==
    /\ \A c \in Consumers, k \in 1..MaxTicks : WF_vars(SendTick(c, k))
    /\ WF_vars(TickDone) /\ WF_vars(DemuxExit)
    /\ WF_vars(TimeDemuxStopClose) /\ WF_vars(TimeDemuxStopReturn)
    /\ WF_vars(ViewChangerStop) /\ WF_vars(ControllerStop)

FairSpec ==
    Spec /\ DemuxFairness /\ \A c \in Consumers : WF_vars(ConsumerProcess(c))

(* The ViewChanger handles its ticks in the goroutine that also calls      *)
(* Controller.ViewChanged, which may block for ever (Controller.tla,       *)
(* ViewChangeEventuallyTaken): nothing makes it return to its clock.       *)
FairSpecVCMayBlock ==
    Spec /\ DemuxFairness
         /\ \A c \in Consumers \ {VC} : WF_vars(ConsumerProcess(c))

-----------------------------------------------------------------------------
TypeOK ==
    /\ dpc \in {"select", "tick", "done"}
    /\ inflight \subseteq Consumers \X (1..emitted)
    /\ emitted \in 0..MaxTicks
    /\ recv \in [Consumers -> Seq(1..MaxTicks)]
    /\ cst \in [Consumers -> {"ready", "busy", "stopped"}]
    /\ tdStop \in BOOLEAN
    /\ cs \in 0..(Len(StopOrder) + 1)

(* Consensus.Stop returns: stopping the demultiplexer first, while every   *)
(* consumer still reads its clock, lets tick() finish its sends, so        *)
(* td.running.Wait() returns and the rest of Stop runs.                    *)
StopReturns == (cs >= 1) ~> StopReturned

Fanout == INSTANCE TickFanout WITH emitted <- emitted, rcv <- recv

(* The demultiplexer implements the lockstep fan-out: tick() waits for     *)
(* every send before the select takes the next tick, so no consumer is     *)
(* ever handed a tick while another still lacks the previous one, and      *)
(* every consumer receives the ticks in clock order.                       *)
TickFanoutRefined == Fanout!Spec

=============================================================================
