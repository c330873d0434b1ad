---------------------------- MODULE DecisionProofs ----------------------------
(***************************************************************************)
(* Proofs about the decision stream of the Controller (Controller.tla),    *)
(* for every value of the constants: a replica proposes a request it has   *)
(* already delivered only after a new submission readmitted it to the     *)
(* pool, never from stale state (NoStaleReproposal).                       *)
(***************************************************************************)
EXTENDS ControllerProofs

(* The requests of every decision in a sequence of decisions.             *)
DeliveredOf(s) == {r \in Requests : \E i \in 1..Len(s) : r \in s[i].reqs}

(* NoStaleReproposal is not inductive.  Every place a proposal's requests  *)
(* come from must hold a delivered request only if it was readmitted:      *)
(*  - the pool, since the decision case removes the decided requests;      *)
(*  - the Batcher's remainder while this replica leads its current view    *)
(*    (Batcher.Reset drops what a follower kept from an earlier            *)
(*    leadership), and a pending proposal shares nothing with it;          *)
(*  - only a leader has a pending proposal, and a leader's View blocked in *)
(*    Decide decides exactly its pending proposal, so the requests whose   *)
(*    readmission that delivery consumes are in no other place.           *)
ReproInv ==
    /\ pool \cap DeliveredReqs \subseteq readmitted
    /\ \A p \in pending : /\ p.reqs \cap DeliveredReqs \subseteq readmitted
                          /\ p.reqs \cap remainder = {}
    /\ (Leader(curView) = Self /\ ctl \in {"loop", "proposing"})
          => remainder \cap DeliveredReqs \subseteq readmitted
    /\ Leader(vw.num) # Self => pending = {}
    /\ (vw.phase = "deciding" /\ Leader(vw.num) = Self)
          => \E p \in pending : p.seq = vw.seq /\ p.reqs = vw.dec

-----------------------------------------------------------------------------
(* What the decision case's Append does to the delivered requests.        *)
LEMMA DeliveredOfAppend ==
    ASSUME NEW s \in Seq(Decisions), NEW d \in Decisions
    PROVE  DeliveredOf(Append(s, d)) = DeliveredOf(s) \cup d.reqs
<1>1. d.reqs \subseteq Requests
  BY DEF Decisions, Batches
<1>2. /\ Len(Append(s, d)) = Len(s) + 1
      /\ \A i \in 1..Len(s) : Append(s, d)[i] = s[i]
      /\ Append(s, d)[Len(s) + 1] = d
  OBVIOUS
<1>. QED
  BY <1>1, <1>2 DEF DeliveredOf

LEMMA ReproInvInit == Init => ReproInv
<1> SUFFICES ASSUME Init PROVE ReproInv
  OBVIOUS
<1>1. DeliveredReqs = {}
  BY DEF Init, DeliveredReqs
<1>. QED
  BY <1>1 DEF Init, ReproInv, NewView

LEMMA ReproInvNext ==
    TypeOK /\ TokenInv /\ AheadInv /\ ReproInv /\ [Next]_vars => ReproInv'
<1> SUFFICES ASSUME TypeOK, TokenInv, AheadInv, ReproInv, [Next]_vars
             PROVE  ReproInv'
  OBVIOUS
<1> USE DEF ReproInv, TypeOK
<1>1. ASSUME NEW r \in Requests, SubmitRequest(r) PROVE ReproInv'
  <2>1. DeliveredReqs' = DeliveredReqs
    BY <1>1 DEF SubmitRequest, DeliveredReqs
  <2>2. /\ pool' = pool \cup {r} /\ readmitted' = readmitted \cup {r}
        /\ UNCHANGED <<ctl, curView, vw, pending, remainder>>
    BY <1>1 DEF SubmitRequest
  <2>. QED
    BY <2>1, <2>2
<1>2. CASE ViewCommit
  <2>1. PICK reqs \in Batches :
          /\ Leader(vw.num) = Self =>
                \E p \in pending : p.seq = vw.seq /\ p.reqs = reqs
          /\ vw' = [vw EXCEPT !.phase = "deciding", !.dec = reqs]
    BY <1>2 DEF ViewCommit
  <2>2. DeliveredReqs' = DeliveredReqs
    BY <1>2 DEF ViewCommit, DeliveredReqs
  <2>3. vw'.num = vw.num /\ vw'.seq = vw.seq /\ vw'.dec = reqs
    BY <2>1
  <2>. QED
    BY <1>2, <2>1, <2>2, <2>3 DEF ViewCommit
<1>3. CASE ViewAdvance \/ ViewExit
  <2>1. vw'.num = vw.num /\ vw'.phase # "deciding"
    BY <1>3 DEF ViewAdvance, ViewExit
  <2>2. DeliveredReqs' = DeliveredReqs
    BY <1>3 DEF ViewAdvance, ViewExit, DeliveredReqs
  <2>. QED
    BY <1>3, <2>1, <2>2 DEF ViewAdvance, ViewExit
<1>4. CASE DeliverDecision
  <2>1. vw.dec \subseteq Requests /\ vw.num \in Nat /\ vw.seq \in Nat
    OBVIOUS
  <2>2. [view |-> vw.num, seq |-> vw.seq, reqs |-> vw.dec] \in Decisions
    BY <2>1 DEF Decisions, Batches
  <2>3. DeliveredReqs' = DeliveredReqs \cup vw.dec
    <3>1. DeliveredReqs = DeliveredOf(delivered)
      BY DEF DeliveredReqs, DeliveredOf
    <3>2. DeliveredReqs' = DeliveredOf(delivered')
      BY DEF DeliveredReqs, DeliveredOf
    <3>. QED
      BY <1>4, <2>2, <3>1, <3>2, DeliveredOfAppend DEF DeliverDecision
  <2>4. /\ pool' = pool \ vw.dec
        /\ readmitted' = readmitted \ vw.dec
        /\ UNCHANGED <<remainder, ctl, curView>>
        /\ vw'.num = vw.num /\ vw'.phase = "acked"
        /\ pending' = {p \in pending : p.seq # vw.seq}
    BY <1>4 DEF DeliverDecision, RemoveDeliveredFromPool
  <2>5. pool' \cap DeliveredReqs' \subseteq readmitted'
    BY <2>3, <2>4
  <2>6. CASE Leader(vw.num) = Self
    <3>1. PICK p \in pending : p.seq = vw.seq /\ p.reqs = vw.dec
      BY <1>4, <2>6 DEF DeliverDecision
    <3>2. pending = {p}
      BY <3>1 DEF AheadInv
    <3>3. pending' = {}
      BY <2>4, <3>1, <3>2
    <3>4. remainder \cap vw.dec = {}
      BY <3>1
    <3>5. ctl = "loop" /\ Leader(curView) = Self
      BY <1>4, <2>6 DEF DeliverDecision, AheadInv
    <3>6. remainder \cap DeliveredReqs \subseteq readmitted
      BY <3>5
    <3>7. remainder' \cap DeliveredReqs' \subseteq readmitted'
      BY <2>3, <2>4, <3>4, <3>6
    <3>. QED
      BY <2>4, <2>5, <3>3, <3>7
  <2>7. CASE Leader(vw.num) # Self
    <3>1. pending = {} /\ pending' = {}
      BY <2>4, <2>7
    <3>2. Leader(curView) # Self
      BY <2>7 DEF AheadInv
    <3>. QED
      BY <2>4, <2>5, <2>7, <3>1, <3>2
  <2>. QED
    BY <2>6, <2>7
<1>5. CASE ChangeView
  <2>1. DeliveredReqs' = DeliveredReqs
    BY <1>5 DEF ChangeView, DeliveredReqs
  <2>2. /\ UNCHANGED <<pool, remainder, readmitted, pending, curView>>
        /\ vw'.num = vw.num /\ vw'.phase = vw.phase /\ vw'.dec = vw.dec
        /\ vw'.seq = vw.seq
        /\ ctl' \in {ctl, "viewEnding"}
    BY <1>5 DEF ChangeView
  <2>. QED
    BY <2>1, <2>2
<1>6. CASE InstallView
  <2>1. DeliveredReqs' = DeliveredReqs
    BY <1>6 DEF InstallView, DeliveredReqs
  <2>2. /\ pending' = {} /\ vw'.phase = "running"
        /\ curView' = nextView.num
        /\ UNCHANGED <<pool, readmitted>>
    BY <1>6 DEF InstallView, NewView
  <2>3. Leader(curView') = Self => remainder' = {}
    BY <1>6 DEF InstallView
  <2>4. Leader(curView') # Self => remainder' = remainder
    BY <1>6 DEF InstallView
  <2>. QED
    BY <2>1, <2>2, <2>3, <2>4
<1>7. CASE ProposeBatch
  <2>0. PICK batch \in SUBSET (remainder \cup pool) :
           \E incl \in SUBSET batch :
              /\ remainder' = (remainder \ batch) \cup (batch \ incl)
              /\ pending' = pending \cup {[seq |-> vw.seq, reqs |-> incl]}
    BY <1>7 DEF ProposeBatch
  <2>1. PICK incl \in SUBSET batch :
              /\ remainder' = (remainder \ batch) \cup (batch \ incl)
              /\ pending' = pending \cup {[seq |-> vw.seq, reqs |-> incl]}
    BY <2>0
  <2>2. DeliveredReqs' = DeliveredReqs
    BY <1>7 DEF ProposeBatch, DeliveredReqs
  <2>3. /\ UNCHANGED <<pool, readmitted, vw, curView>> /\ ctl' = "loop"
        /\ ctl = "proposing"
    BY <1>7 DEF ProposeBatch
  <2>4. Leader(curView) = Self /\ pending = {}
    BY <2>3 DEF TokenInv, TokenOnlyWhenLeader, IAmTheLeader, AheadInv
  <2>5. remainder \cap DeliveredReqs \subseteq readmitted
    BY <2>3, <2>4
  <2>6. pending' = {[seq |-> vw.seq, reqs |-> incl]}
    BY <2>1, <2>4
  <2>7. Leader(vw.num) = Self
    BY <2>4 DEF AheadInv
  <2>. QED
    BY <2>1, <2>2, <2>3, <2>5, <2>6, <2>7
<1>8. CASE TakeLeaderToken \/ ProposeStopped \/ Exit \/ Exited
  <2>1. DeliveredReqs' = DeliveredReqs
    BY <1>8 DEF TakeLeaderToken, ProposeStopped, Exit, Exited, DeliveredReqs
  <2>2. /\ UNCHANGED <<pool, remainder, readmitted, pending, curView>>
        /\ vw'.num = vw.num /\ vw'.phase = vw.phase /\ vw'.dec = vw.dec
        /\ vw'.seq = vw.seq
        /\ ctl' \in {"loop", "proposing", "exiting", "exited"}
        /\ ctl' \in {"loop", "proposing"} => ctl \in {"loop", "proposing"}
    BY <1>8 DEF TakeLeaderToken, ProposeStopped, Exit, Exited
  <2>. QED
    BY <2>1, <2>2
<1>9. ASSUME NEW v \in (vc.view + 1)..MaxView, ViewChanged(v) PROVE ReproInv'
  <2>1. DeliveredReqs' = DeliveredReqs
    BY <1>9 DEF ViewChanged, DeliveredReqs
  <2>. QED
    BY <1>9, <2>1 DEF ViewChanged
<1>10. CASE BatcherClose \/ Stop
  <2>1. DeliveredReqs' = DeliveredReqs
    BY <1>10 DEF BatcherClose, Stop, DeliveredReqs
  <2>. QED
    BY <1>10, <2>1 DEF BatcherClose, Stop
<1>11. CASE UNCHANGED vars
  <2>1. DeliveredReqs' = DeliveredReqs
    BY <1>11 DEF vars, DeliveredReqs
  <2>. QED
    BY <1>11, <2>1 DEF vars
<1>12. QED
  BY <1>1, <1>2, <1>3, <1>4, <1>5, <1>6, <1>7, <1>8, <1>9, <1>10, <1>11
     DEF Next

(* A request this replica has delivered is in a proposal it hands its View *)
(* only if a submission readmitted it to the pool after its delivery:       *)
(* removeDeliveredFromPool, and Batcher.Reset on becoming leader, keep     *)
(* stale delivered requests out of every batch getNextBatch returns.       *)
THEOREM NoStaleReproposalHolds == Spec => []NoStaleReproposal
<1>1. ReproInv => NoStaleReproposal
  BY DEF ReproInv, NoStaleReproposal
<1>2. Init => TypeOK /\ TokenInv /\ AheadInv /\ ReproInv
  BY TypeOKInit, TokenInvInit, AheadInvInit, ReproInvInit
<1>3. TypeOK /\ TokenInv /\ AheadInv /\ ReproInv /\ [Next]_vars
        => (TypeOK /\ TokenInv /\ AheadInv /\ ReproInv)'
  BY TypeOKNext, TokenInvNext, AheadInvNext, ReproInvNext
<1>. QED
  BY <1>1, <1>2, <1>3, PTL DEF Spec

=============================================================================
