--------------------------- MODULE TickDemuxProofs ---------------------------
(***************************************************************************)
(* Proofs about the TickDemultiplexer (TickDemux.tla): type correctness,  *)
(* and that it implements the lockstep fan-out of TickFanout, for every    *)
(* set of consumers and every bound on the ticks.                          *)
(***************************************************************************)
EXTENDS TickDemux, TLAPS

(* The lockstep invariant: outside tick() no send is pending and every     *)
(* consumer has received every tick; inside it, the only pending sends are *)
(* of the current tick, and a consumer has the current tick exactly when   *)
(* its send is no longer pending.                                          *)
Lockstep ==
    /\ dpc # "tick" => inflight = {}
    /\ inflight \subseteq Consumers \X {emitted}
    /\ \A c \in Consumers :
          Len(recv[c]) = IF <<c, emitted>> \in inflight THEN emitted - 1
                                                      ELSE emitted

Inv == TypeOK /\ Lockstep

LEMMA InvInit == Init => Inv
<1> SUFFICES ASSUME Init PROVE Inv
  OBVIOUS
<1>1. recv \in [Consumers -> Seq(1..MaxTicks)]
  BY DEF Init
<1>2. \A c \in Consumers : Len(recv[c]) = 0
  BY DEF Init
<1>3. cs \in 0..(Len(StopOrder) + 1)
  BY DEF Init, StopOrder
<1>4. Lockstep
  BY <1>2 DEF Init, Lockstep
<1>8. cst \in [Consumers -> {"ready", "busy", "stopped"}]
  BY DEF Init
<1>9. emitted \in 0..MaxTicks
  BY TickConstantsAssumption DEF Init
<1>5. /\ cst \in [Consumers -> {"ready", "busy", "stopped"}]
      /\ emitted \in 0..MaxTicks
      /\ dpc \in {"select", "tick", "done"} /\ tdStop \in BOOLEAN
  BY <1>8, <1>9 DEF Init
<1>6. inflight \subseteq Consumers \X (1..emitted)
  BY DEF Init
<1>7. TypeOK
  BY <1>1, <1>3, <1>5, <1>6 DEF TypeOK
<1>. QED
  BY <1>4, <1>7 DEF Inv

LEMMA InvNext == Inv /\ [Next]_vars => Inv'
<1> SUFFICES ASSUME Inv, [Next]_vars PROVE Inv'
  OBVIOUS
<1> USE TickConstantsAssumption DEF Inv, TypeOK, Lockstep
<1>1. CASE TakeTick
  <2>1. \A c \in Consumers : <<c, emitted'>> \in inflight'
    BY <1>1 DEF TakeTick
  <2>2. inflight' \subseteq Consumers \X {emitted'}
    BY <1>1 DEF TakeTick
  <2>3. emitted' \in 0..MaxTicks /\ emitted' = emitted + 1
    BY <1>1 DEF TakeTick
  <2>7. inflight = {} /\ \A c \in Consumers : Len(recv[c]) = emitted
    BY <1>1 DEF TakeTick
  <2>4. \A c \in Consumers : Len(recv'[c]) = emitted' - 1
    BY <1>1, <2>3, <2>7 DEF TakeTick
  <2>5. inflight' \subseteq Consumers \X (1..emitted')
    BY <2>2, <2>3
  <2>6. UNCHANGED <<recv, cst, tdStop, cs>> /\ dpc' = "tick"
    BY <1>1 DEF TakeTick
  <2>. QED
    BY <2>1, <2>2, <2>3, <2>4, <2>5, <2>6
<1>2. ASSUME NEW c \in Consumers, NEW k \in 1..MaxTicks, SendTick(c, k)
      PROVE Inv'
  <2>1. k = emitted /\ Len(recv[c]) = emitted - 1 /\ emitted \in 1..MaxTicks
    BY <1>2 DEF SendTick
  <2>2. recv'[c] = Append(recv[c], k) /\ Len(recv'[c]) = emitted
    BY <1>2, <2>1 DEF SendTick
  <2>3. recv' \in [Consumers -> Seq(1..MaxTicks)]
    BY <1>2, <2>1 DEF SendTick
  <2>4. \A d \in Consumers \ {c} : recv'[d] = recv[d]
    BY <1>2 DEF SendTick
  <2>5. ASSUME NEW d \in Consumers
        PROVE Len(recv'[d]) = IF <<d, emitted'>> \in inflight' THEN emitted' - 1
                                                             ELSE emitted'
    <3>1. CASE d = c
      BY <1>2, <2>2, <3>1 DEF SendTick
    <3>2. CASE d # c
      BY <1>2, <2>4, <3>2 DEF SendTick
    <3>. QED
      BY <3>1, <3>2
  <2>6. cst' \in [Consumers -> {"ready", "busy", "stopped"}]
    BY <1>2 DEF SendTick
  <2>. QED
    BY <1>2, <2>3, <2>5, <2>6 DEF SendTick
<1>3. CASE TickDone
  BY <1>3 DEF TickDone
<1>4. CASE DemuxExit
  BY <1>4 DEF DemuxExit
<1>5. ASSUME NEW c \in Consumers, ConsumerProcess(c) PROVE Inv'
  BY <1>5 DEF ConsumerProcess
<1>6. CASE RequestStop
  BY <1>6 DEF RequestStop, StopOrder
<1>7. CASE TimeDemuxStopClose
  BY <1>7 DEF TimeDemuxStopClose
<1>8. CASE TimeDemuxStopReturn \/ ViewChangerStop \/ ControllerStop
  <2>1. cs \in 1..Len(StopOrder) /\ cs' = cs + 1
    BY <1>8 DEF TimeDemuxStopReturn, ViewChangerStop, ControllerStop, StopCall
  <2>2. cs' \in 0..(Len(StopOrder) + 1)
    BY <2>1
  <2>3. UNCHANGED <<dpc, inflight, emitted, recv, tdStop>>
    BY <1>8 DEF TimeDemuxStopReturn, ViewChangerStop, ControllerStop
  <2>4. cst' \in [Consumers -> {"ready", "busy", "stopped"}]
    BY <1>8 DEF TimeDemuxStopReturn, ViewChangerStop, ControllerStop
  <2>. QED
    BY <2>2, <2>3, <2>4
<1>9. CASE UNCHANGED vars
  BY <1>9 DEF vars
<1>10. QED
  BY <1>1, <1>2, <1>3, <1>4, <1>5, <1>6, <1>7, <1>8, <1>9 DEF Next

(* Every reachable state of the demultiplexer is well typed.              *)
THEOREM TickTypeCorrect == Spec => []TypeOK
<1>1. Inv => TypeOK
  BY DEF Inv
<1>. QED
  BY InvInit, InvNext, <1>1, PTL DEF Spec

-----------------------------------------------------------------------------
(* Refinement.  Taking a tick is the abstract Emit: the select runs only  *)
(* after wg.Wait(), when every consumer has the previous tick.  A send is  *)
(* the abstract Deliver of the current tick.  Every other step leaves the  *)
(* clock and the received ticks alone.                                     *)
LEMMA StepRefines == Inv /\ [Next]_vars => [Fanout!Next]_<<emitted, recv>>
<1> SUFFICES ASSUME Inv, [Next]_vars PROVE [Fanout!Next]_<<emitted, recv>>
  OBVIOUS
<1> USE DEF Inv, TypeOK, Lockstep
<1>1. CASE TakeTick
  <2>1. inflight = {} /\ \A c \in Consumers : Len(recv[c]) = emitted
    BY <1>1 DEF TakeTick
  <2>. QED
    BY <1>1, <2>1 DEF TakeTick, Fanout!Next, Fanout!Emit
<1>2. ASSUME NEW c \in Consumers, NEW k \in 1..MaxTicks, SendTick(c, k)
      PROVE [Fanout!Next]_<<emitted, recv>>
  <2>1. k = emitted /\ Len(recv[c]) < emitted
    BY <1>2 DEF SendTick
  <2>2. Fanout!Deliver(c)
    BY <1>2, <2>1 DEF SendTick, Fanout!Deliver
  <2>. QED
    BY <2>2 DEF Fanout!Next
<1>3. CASE \/ TickDone \/ DemuxExit \/ RequestStop \/ TimeDemuxStopClose
           \/ TimeDemuxStopReturn \/ ViewChangerStop \/ ControllerStop
           \/ \E c \in Consumers : ConsumerProcess(c)
           \/ UNCHANGED vars
  BY <1>3 DEF TickDone, DemuxExit, RequestStop, TimeDemuxStopClose,
              TimeDemuxStopReturn, ViewChangerStop, ControllerStop,
              ConsumerProcess, vars
<1>. QED
  BY <1>1, <1>2, <1>3 DEF Next

(* The demultiplexer implements TickFanout: every consumer receives the   *)
(* same ticks, in clock order, and no tick is taken from In before every   *)
(* consumer has received the previous one.                                 *)
THEOREM FanoutRefinement == Spec => TickFanoutRefined
<1>1. Init => Fanout!Init
  BY DEF Init, Fanout!Init
<1>. QED
  BY InvInit, InvNext, StepRefines, <1>1, PTL
  DEF Spec, TickFanoutRefined, Fanout!Spec
=============================================================================
