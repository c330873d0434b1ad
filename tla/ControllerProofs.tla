--------------------------- MODULE ControllerProofs ---------------------------
(***************************************************************************)
(* Proofs about the Controller run loop (Controller.tla): type            *)
(* correctness, and that the leader token is held only by the leader of   *)
(* the current view, for every value of the constants.                    *)
(***************************************************************************)
EXTENDS Controller, FiniteSetTheorems, TLAPS

(* The type invariant is inductive as it stands.                         *)
LEMMA TypeOKInit == Init => TypeOK
<1> SUFFICES ASSUME Init PROVE TypeOK
  OBVIOUS
<1>1. vw \in [num : Nat, seq : Nat, phase : ViewPhases, aborted : BOOLEAN,
              dec : SUBSET Requests] /\ vw.phase = "running"
  BY ConstantsAssumption DEF Init, NewView, ViewPhases
<1>2. /\ nextView \in [num : Nat, seq : Nat]
      /\ vc \in [pc : {"idle", "sending", "closing"}, view : Nat, seq : Nat]
      /\ delivered \in Seq(Decisions)
      /\ token \in BOOLEAN
  BY ConstantsAssumption DEF Init
<1>. QED
  BY <1>1, <1>2, ConstantsAssumption DEF Init, TypeOK, CtlStates

LEMMA TypeOKNext == TypeOK /\ [Next]_vars => TypeOK'
<1> SUFFICES ASSUME TypeOK, [Next]_vars PROVE TypeOK'
  OBVIOUS
<1> USE ConstantsAssumption DEF TypeOK
<1> DEFINE VwType == [num : Nat, seq : Nat, phase : ViewPhases,
                      aborted : BOOLEAN, dec : SUBSET Requests]
<1> USE DEF VwType
<1>1. ASSUME NEW r \in Requests, SubmitRequest(r) PROVE TypeOK'
  BY <1>1 DEF SubmitRequest
<1>2. CASE ViewCommit
  <2>1. PICK reqs \in Batches :
               vw' = [vw EXCEPT !.phase = "deciding", !.dec = reqs]
    BY <1>2 DEF ViewCommit
  <2>2. vw' \in VwType /\ vw'.phase = "deciding"
    BY <2>1 DEF ViewPhases, Batches
  <2>. QED
    BY <1>2, <2>2 DEF ViewCommit
<1>3. CASE ViewAdvance
  <2>1. vw' = [num |-> vw.num, seq |-> vw.seq + 1, phase |-> "running",
               aborted |-> vw.aborted, dec |-> {}]
    BY <1>3 DEF ViewAdvance
  <2>2. vw' \in VwType /\ vw'.phase = "running"
    BY <2>1 DEF ViewPhases
  <2>. QED
    BY <1>3, <2>2 DEF ViewAdvance
<1>4. CASE ViewExit
  <2>1. vw' \in VwType /\ vw'.phase = "ended"
    BY <1>4 DEF ViewExit, ViewPhases
  <2>. QED
    BY <1>4, <2>1 DEF ViewExit
<1>5. CASE DeliverDecision
  <2>1. vw.dec \in Batches
    BY <1>5 DEF DeliverDecision, Batches
  <2>2. [view |-> vw.num, seq |-> vw.seq, reqs |-> vw.dec] \in Decisions
    BY <2>1 DEF Decisions
  <2>3. delivered' \in Seq(Decisions)
    BY <1>5, <2>2 DEF DeliverDecision
  <2>4. vw' \in VwType /\ vw'.phase = "acked"
    BY <1>5 DEF DeliverDecision, ViewPhases
  <2>5. /\ pending' \subseteq Proposals /\ pool' \subseteq Requests
        /\ readmitted' \subseteq Requests
    BY <1>5 DEF DeliverDecision, RemoveDeliveredFromPool
  <2>6. token' \in BOOLEAN
    BY <1>5 DEF DeliverDecision
  <2>. QED
    BY <1>5, <2>3, <2>4, <2>5, <2>6 DEF DeliverDecision
<1>6. CASE ChangeView
  <2>1. vc' \in [pc : {"idle", "sending", "closing"}, view : Nat, seq : Nat]
    BY <1>6 DEF ChangeView
  <2>2. CASE curView > vc.view
    BY <1>6, <2>1, <2>2 DEF ChangeView
  <2>3. CASE ~(curView > vc.view)
    <3>1. vw' \in VwType /\ vw'.phase = vw.phase /\ vw'.dec = vw.dec
      BY <1>6, <2>3 DEF ChangeView
    <3>2. nextView' \in [num : Nat, seq : Nat] /\ ctl' \in CtlStates
      BY <1>6, <2>3 DEF ChangeView, CtlStates
    <3>. QED
      BY <1>6, <2>1, <2>3, <3>1, <3>2 DEF ChangeView
  <2>. QED
    BY <2>2, <2>3
<1>7. CASE InstallView
  <2>1. vw' \in VwType /\ vw'.phase = "running"
    BY <1>7 DEF InstallView, NewView, ViewPhases
  <2>2. /\ curView' \in Nat /\ pending' = {} /\ ctl' \in CtlStates
        /\ remainder' \subseteq Requests /\ closed' \in BOOLEAN
        /\ token' \in BOOLEAN
    BY <1>7 DEF InstallView, CtlStates
  <2>. QED
    BY <1>7, <2>1, <2>2 DEF InstallView
<1>8. CASE TakeLeaderToken
  BY <1>8 DEF TakeLeaderToken, CtlStates
<1>9. CASE ProposeBatch
  <2>1. PICK batch \in SUBSET (remainder \cup pool) :
           \E incl \in SUBSET batch :
              /\ remainder' = (remainder \ batch) \cup (batch \ incl)
              /\ pending' = pending \cup {[seq |-> vw.seq, reqs |-> incl]}
    BY <1>9 DEF ProposeBatch
  <2>2. PICK incl \in SUBSET batch :
              /\ remainder' = (remainder \ batch) \cup (batch \ incl)
              /\ pending' = pending \cup {[seq |-> vw.seq, reqs |-> incl]}
    BY <2>1
  <2>3. [seq |-> vw.seq, reqs |-> incl] \in Proposals
    BY <2>2 DEF Proposals, Batches
  <2>4. pending' \subseteq Proposals /\ remainder' \subseteq Requests
    BY <2>2, <2>3
  <2>5. ctl' \in CtlStates
    BY <1>9 DEF ProposeBatch, CtlStates
  <2>. QED
    BY <1>9, <2>4, <2>5 DEF ProposeBatch
<1>10. CASE ProposeStopped
  BY <1>10 DEF ProposeStopped, CtlStates
<1>11. CASE Exit
  <2>1. vw' \in VwType /\ vw'.phase = vw.phase /\ vw'.dec = vw.dec
    BY <1>11 DEF Exit
  <2>. QED
    BY <1>11, <2>1 DEF Exit, CtlStates
<1>12. CASE Exited
  BY <1>12 DEF Exited, CtlStates
<1>13. ASSUME NEW v \in (vc.view + 1)..MaxView, ViewChanged(v) PROVE TypeOK'
  <2>1. LastDeliveredSeq + 1 \in Nat
    <3>1. CASE delivered = << >>
      BY <3>1 DEF LastDeliveredSeq
    <3>2. CASE delivered # << >>
      <4>1. Len(delivered) \in 1..Len(delivered)
        BY <3>2
      <4>2. delivered[Len(delivered)] \in Decisions
        BY <4>1
      <4>3. delivered[Len(delivered)].seq \in Nat
        BY <4>2 DEF Decisions
      <4>. QED
        BY <3>2, <4>3 DEF LastDeliveredSeq
    <3>. QED
      BY <3>1, <3>2
  <2>2. v \in Nat
    OBVIOUS
  <2>3. vc' \in [pc : {"idle", "sending", "closing"}, view : Nat, seq : Nat]
    BY <1>13, <2>1, <2>2 DEF ViewChanged
  <2>. QED
    BY <1>13, <2>3 DEF ViewChanged
<1>14. CASE BatcherClose
  BY <1>14 DEF BatcherClose
<1>15. CASE Stop
  BY <1>15 DEF Stop
<1>16. CASE UNCHANGED vars
  BY <1>16 DEF vars
<1>17. QED
  BY <1>1, <1>2, <1>3, <1>4, <1>5, <1>6, <1>7, <1>8, <1>9, <1>10, <1>11,
     <1>12, <1>13, <1>14, <1>15, <1>16 DEF Next

(* Every reachable state of the Controller is well typed.                 *)
THEOREM TypeCorrect == Spec => []TypeOK
  BY TypeOKInit, TypeOKNext, PTL DEF Spec

-----------------------------------------------------------------------------
(* The leader token.  TokenOnlyWhenLeader is not inductive: InstallView   *)
(* changes the current view without touching a token that some earlier    *)
(* step might have left full.  It is inductive together with the fact that *)
(* changeView always drains the token before it waits on viewEnd.         *)
TokenInv ==
    /\ TokenOnlyWhenLeader
    /\ ctl = "viewEnding" => ~token

LEMMA TokenInvInit == Init => TokenInv
  BY DEF Init, TokenInv, TokenOnlyWhenLeader, IAmTheLeader

LEMMA TokenInvNext == TypeOK /\ TokenInv /\ [Next]_vars => TokenInv'
<1> SUFFICES ASSUME TypeOK, TokenInv, [Next]_vars PROVE TokenInv'
  OBVIOUS
<1> USE DEF TokenInv, TokenOnlyWhenLeader, IAmTheLeader
<1>1. ASSUME NEW r \in Requests, SubmitRequest(r) PROVE TokenInv'
  BY <1>1 DEF SubmitRequest
<1>2. CASE ViewCommit \/ ViewAdvance \/ ViewExit \/ BatcherClose
  <2>1. UNCHANGED <<ctl, token, curView>>
    BY <1>2 DEF ViewCommit, ViewAdvance, ViewExit, BatcherClose
  <2>. QED
    BY <2>1
<1>3. CASE DeliverDecision
  BY <1>3 DEF DeliverDecision
<1>4. CASE ChangeView
  BY <1>4 DEF ChangeView
<1>5. CASE InstallView
  BY <1>5 DEF InstallView
<1>6. CASE TakeLeaderToken \/ ProposeBatch \/ ProposeStopped
  BY <1>6 DEF TakeLeaderToken, ProposeBatch, ProposeStopped
<1>7. CASE Exit \/ Exited \/ Stop
  BY <1>7 DEF Exit, Exited, Stop
<1>8. ASSUME NEW v \in (vc.view + 1)..MaxView, ViewChanged(v) PROVE TokenInv'
  BY <1>8 DEF ViewChanged
<1>9. CASE UNCHANGED vars
  BY <1>9 DEF vars
<1>10. QED
  BY <1>1, <1>2, <1>3, <1>4, <1>5, <1>6, <1>7, <1>8, <1>9 DEF Next

(* The run loop holds the leader token, or runs propose(), only while this *)
(* replica leads its current view (relinquishLeaderToken in changeView,    *)
(* and the leader checks before acquireLeaderToken).                       *)
THEOREM TokenHeldOnlyByLeader == Spec => []TokenOnlyWhenLeader
<1>1. Init => TypeOK /\ TokenInv
  BY TypeOKInit, TokenInvInit
<1>2. TypeOK /\ TokenInv /\ [Next]_vars => (TypeOK /\ TokenInv)'
  BY TypeOKNext, TokenInvNext
<1>3. TokenInv => TokenOnlyWhenLeader
  BY DEF TokenInv
<1>. QED
  BY <1>1, <1>2, <1>3, PTL DEF Spec

-----------------------------------------------------------------------------
(* Backpressure.  OneProposalAhead is inductive with four facts: the View  *)
(* runs the current view; at most one proposal is pending; while one is,   *)
(* the token is empty and propose() is not running; and a leader's View    *)
(* blocked in Decide is deciding the pending proposal of its sequence, so  *)
(* that the token the decision case re-claims comes with an empty pending. *)
AheadInv ==
    /\ vw.num = curView
    /\ pending = {} \/ \E p : pending = {p}
    /\ pending # {} => ~token /\ ctl # "proposing"
    /\ ~(token /\ ctl = "proposing")
    /\ (vw.phase = "deciding" /\ Leader(vw.num) = Self)
          => \E p \in pending : p.seq = vw.seq

LEMMA AheadInvInit == Init => AheadInv
  BY DEF Init, AheadInv, NewView

LEMMA AheadInvNext == TypeOK /\ AheadInv /\ [Next]_vars => AheadInv'
<1> SUFFICES ASSUME TypeOK, AheadInv, [Next]_vars PROVE AheadInv'
  OBVIOUS
<1> USE DEF AheadInv, TypeOK
<1>1. ASSUME NEW r \in Requests, SubmitRequest(r) PROVE AheadInv'
  BY <1>1 DEF SubmitRequest
<1>2. CASE ViewCommit
  BY <1>2 DEF ViewCommit
<1>3. CASE ViewAdvance
  BY <1>3 DEF ViewAdvance
<1>13. CASE ViewExit
  BY <1>13 DEF ViewExit
<1>4. CASE DeliverDecision
  <2>1. CASE IAmTheLeader
    <3>1. pending' = {}
      BY <1>4, <2>1 DEF DeliverDecision, IAmTheLeader
    <3>. QED
      BY <1>4, <3>1 DEF DeliverDecision
  <2>2. CASE ~IAmTheLeader
    <3>1. token' = token /\ pending' \subseteq pending
      BY <1>4, <2>2 DEF DeliverDecision
    <3>2. pending' = {} \/ \E p : pending' = {p}
      <4>1. CASE pending' # {}
        <5>1. PICK p : pending = {p}
          BY <3>1, <4>1
        <5>2. pending' = {p}
          BY <3>1, <4>1, <5>1
        <5>. QED
          BY <5>2
      <4>. QED
        BY <4>1
    <3>3. pending' # {} => ~token' /\ ctl' # "proposing"
      BY <1>4, <3>1 DEF DeliverDecision
    <3>4. ~(token' /\ ctl' = "proposing") /\ vw'.phase # "deciding"
      BY <1>4 DEF DeliverDecision
    <3>5. vw'.num = curView'
      BY <1>4 DEF DeliverDecision
    <3>. QED
      BY <3>2, <3>3, <3>4, <3>5
  <2>. QED
    BY <2>1, <2>2
<1>5. CASE ChangeView
  BY <1>5 DEF ChangeView
<1>6. CASE InstallView
  BY <1>6 DEF InstallView, NewView
<1>7. CASE TakeLeaderToken \/ ProposeStopped
  BY <1>7 DEF TakeLeaderToken, ProposeStopped
<1>8. CASE ProposeBatch
  <2>1. PICK incl : pending' = pending \cup {[seq |-> vw.seq, reqs |-> incl]}
    BY <1>8 DEF ProposeBatch
  <2>2. pending = {}
    BY <1>8 DEF ProposeBatch
  <2>3. \E p : pending' = {p}
    BY <2>1, <2>2
  <2>. QED
    BY <1>8, <2>1, <2>3 DEF ProposeBatch
<1>9. CASE Exit
  BY <1>9 DEF Exit
<1>14. CASE Exited
  BY <1>14 DEF Exited
<1>16. CASE BatcherClose
  BY <1>16 DEF BatcherClose
<1>15. CASE Stop
  BY <1>15 DEF Stop
<1>10. ASSUME NEW v \in (vc.view + 1)..MaxView, ViewChanged(v) PROVE AheadInv'
  BY <1>10 DEF ViewChanged
<1>11. CASE UNCHANGED vars
  BY <1>11 DEF vars
<1>12. QED
  BY <1>1, <1>2, <1>3, <1>4, <1>5, <1>6, <1>7, <1>8, <1>9, <1>10, <1>11,
     <1>13, <1>14, <1>15, <1>16 DEF Next

(* The leader is at most one proposal ahead of the decision stream: the    *)
(* token is re-claimed only in the decision case, after the View has       *)
(* decided the one proposal propose() handed it.                           *)
THEOREM AtMostOneProposalAhead == Spec => []OneProposalAhead
<1>1. TypeOK /\ AheadInv => OneProposalAhead
  <2> SUFFICES ASSUME TypeOK, AheadInv PROVE OneProposalAhead
    OBVIOUS
  <2> USE DEF TypeOK, AheadInv
  <2>1. CASE pending = {}
    BY <2>1, FS_EmptySet DEF OneProposalAhead
  <2>2. CASE pending # {}
    <3>1. PICK p : pending = {p}
      BY <2>2
    <3>2. Cardinality(pending) = 1
      BY <3>1, FS_Singleton
    <3>. QED
      BY <2>2, <3>2 DEF OneProposalAhead
  <2>. QED
    BY <2>1, <2>2
<1>2. Init => TypeOK /\ AheadInv
  BY TypeOKInit, AheadInvInit
<1>3. TypeOK /\ AheadInv /\ [Next]_vars => (TypeOK /\ AheadInv)'
  BY TypeOKNext, AheadInvNext
<1>. QED
  BY <1>1, <1>2, <1>3, PTL DEF Spec
=============================================================================
