----------------------------- MODULE Controller -----------------------------
(***************************************************************************)
(* One replica's Controller (internal/bft/controller.go) and the tasks it  *)
(* talks to through channels:                                              *)
(*   - its run loop (one action per select case of Controller.run, and     *)
(*     one per blocking point inside changeView and propose);              *)
(*   - the goroutine of the current View, which calls Decide and blocks    *)
(*     until the run loop has delivered (the View is not under src/: its   *)
(*     phase loop is taken from the spec, section 4.2);                    *)
(*   - the ViewChanger goroutine calling ViewChanged (send on the          *)
(*     unbuffered viewChange channel, then Batcher.Close);                 *)
(*   - Stop, called from Consensus.Stop;                                   *)
(*   - clients calling SubmitRequest, and the Batcher and RequestPool the  *)
(*     run loop draws batches from (spec sections 4.4 and 4.5).            *)
(* The three-phase exchange with the other replicas is abstracted into one *)
(* step of the View: the quorum commits its current proposal.              *)
(***************************************************************************)
EXTENDS Naturals, Sequences, FiniteSets, BftUtil

CONSTANTS
    N,          \* cluster size (Controller.N)
    Self,       \* this replica's identifier (Controller.ID)
    Requests,   \* the requests clients may submit
    PoolSize,   \* RequestPool capacity (PoolOptions.QueueSize)
    BatchSize,  \* Batcher maximal batch size
    StartView,  \* startViewNumber of Controller.Start
    StartSeq,   \* startProposalSequence of Controller.Start
    MaxView,    \* bound: the ViewChanger requests no view above MaxView
    MaxSeq      \* bound: the View decides no sequence above MaxSeq

ASSUME ConstantsAssumption ==
    /\ N \in Nat \ {0}
    /\ Self \in Nat
    /\ IsFiniteSet(Requests)
    /\ PoolSize \in Nat \ {0}
    /\ BatchSize \in Nat \ {0}
    /\ StartView \in Nat
    /\ StartSeq \in Nat
    /\ MaxView \in Nat
    /\ MaxSeq \in Nat

VARIABLES
    ctl,        \* program counter of the run goroutine
    nextView,   \* view being installed while changeView waits on viewEnd
    token,      \* the one-slot leaderToken channel is full
    curView,    \* currViewNumber
    stopped,    \* stopChan is closed
    vw,         \* the current View instance and its phase-loop goroutine
    pending,    \* proposals handed to the current View by Propose, undecided
    pool,       \* requests in the RequestPool
    remainder,  \* requests held back in the Batcher by BatchRemainder
    closed,     \* the Batcher is closed
    delivered,  \* decisions delivered to the Application, in order
    vc,         \* the ViewChanger goroutine inside ViewChanged
    readmitted  \* history: requests admitted to the pool since they were
                \* last delivered (no code reads it)

vars == <<ctl, nextView, token, curView, stopped, vw, pending, pool,
          remainder, closed, delivered, vc, readmitted>>

CtlStates == {"loop", "proposing", "viewEnding", "exiting", "exited"}

(* Phases of the View goroutine: running its three-phase loop, blocked in  *)
(* Decide on the decisionChan send, back from Decide before advancing its  *)
(* sequence, or returned (the Future that viewEnd.Wait waits on is done).  *)
ViewPhases == {"running", "deciding", "acked", "ended"}

(* A proposal or decision carries a batch, possibly empty: propose() hands *)
(* the View whatever AssembleProposal includes of the non-empty batch, and *)
(* a follower decides whatever its leader proposed.                        *)
Batches == SUBSET Requests

Proposals == [seq : Nat, reqs : Batches]

Decisions == [view : Nat, seq : Nat, reqs : Batches]

Leader(v) == ControllerLeaderID(v, N)

IAmTheLeader == Leader(curView) = Self

NewView(num, seq) ==
    [num |-> num, seq |-> seq, phase |-> "running", aborted |-> FALSE,
     dec |-> {}]

LastDeliveredSeq ==
    IF delivered = << >> THEN StartSeq - 1 ELSE delivered[Len(delivered)].seq

(* removeDeliveredFromPool: RemoveRequest for every request of the        *)
(* decision; one that is not (or no longer) pooled yields an error that is *)
(* logged and skipped.                                                     *)
RemoveDeliveredFromPool(p, reqs) == p \ reqs

-----------------------------------------------------------------------------
(* Controller.Start: start the first view and claim the leader token if    *)
(* this replica leads it.                                                  *)
Init ==
    /\ ctl = "loop"
    /\ nextView = [num |-> StartView, seq |-> StartSeq]
    /\ curView = StartView
    /\ token = (Leader(StartView) = Self)
    /\ stopped = FALSE
    /\ vw = NewView(StartView, StartSeq)
    /\ pending = {}
    /\ pool = {}
    /\ remainder = {}
    /\ closed = FALSE
    /\ delivered = << >>
    /\ vc = [pc |-> "idle", view |-> StartView, seq |-> StartSeq]
    /\ readmitted = {}

-----------------------------------------------------------------------------
(* Clients *)

(* SubmitRequest: the pool admits a request that is neither pooled nor    *)
(* over capacity, also one delivered before (a client retry, or a request  *)
(* forwarded late); otherwise Submit returns an error and nothing changes, *)
(* a stuttering step.                                                      *)
SubmitRequest(r) ==
    /\ r \notin pool
    /\ Cardinality(pool) < PoolSize
    /\ pool' = pool \cup {r}
    /\ readmitted' = readmitted \cup {r}
    /\ UNCHANGED <<ctl, nextView, token, curView, stopped, vw, pending,
                   remainder, closed, delivered, vc>>

-----------------------------------------------------------------------------
(* The View goroutine (spec section 4.2) *)

(* A quorum commits the View's current sequence and the View calls Decide, *)
(* blocking on the unbuffered decisionChan.  As leader the View decides    *)
(* the proposal it was handed for that sequence; as follower it decides    *)
(* whatever batch the leader proposed, requests this replica may never     *)
(* have seen.                                                              *)
ViewCommit ==
    /\ vw.phase = "running"
    /\ ~vw.aborted
    /\ vw.seq <= MaxSeq
    /\ \E reqs \in Batches :
          /\ Leader(vw.num) = Self =>
                \E p \in pending : p.seq = vw.seq /\ p.reqs = reqs
          /\ vw' = [vw EXCEPT !.phase = "deciding", !.dec = reqs]
    /\ UNCHANGED <<ctl, nextView, token, curView, stopped, pending, pool,
                   remainder, closed, delivered, vc, readmitted>>

(* Decide returned: the View clears its vote sets and moves to the next    *)
(* sequence (the "Advance" row of the phase table).                        *)
ViewAdvance ==
    /\ vw.phase = "acked"
    /\ vw' = [vw EXCEPT !.phase = "running", !.seq = @ + 1, !.dec = {}]
    /\ UNCHANGED <<ctl, nextView, token, curView, stopped, pending, pool,
                   remainder, closed, delivered, vc, readmitted>>

(* The phase loop observes Abort and returns.  A View blocked inside       *)
(* Decide cannot observe it.                                               *)
ViewExit ==
    /\ vw.aborted
    /\ vw.phase \in {"running", "acked"}
    /\ vw' = [vw EXCEPT !.phase = "ended"]
    /\ UNCHANGED <<ctl, nextView, token, curView, stopped, pending, pool,
                   remainder, closed, delivered, vc, readmitted>>

-----------------------------------------------------------------------------
(* The run goroutine of the Controller *)

(* case d := <-c.decisionChan: deliver, remove the decided requests from   *)
(* the pool, release the View (deliverChan), and re-claim the leader token *)
(* if still the leader.  maybePruneRevokedRequests returns at once: the    *)
(* verification sequence does not change in this model.                   *)
DeliverDecision ==
    /\ ctl = "loop"
    /\ vw.phase = "deciding"
    /\ delivered' = Append(delivered,
                           [view |-> vw.num, seq |-> vw.seq, reqs |-> vw.dec])
    /\ pool' = RemoveDeliveredFromPool(pool, vw.dec)
    /\ pending' = {p \in pending : p.seq # vw.seq}
    /\ vw' = [vw EXCEPT !.phase = "acked"]
    /\ token' = (token \/ IAmTheLeader)
    /\ readmitted' = readmitted \ vw.dec
    /\ UNCHANGED <<ctl, nextView, curView, stopped, remainder, closed, vc>>

(* Mutant: changeView without relinquishLeaderToken.                      *)
ChangeViewKeepsToken ==
    /\ ctl = "loop"
    /\ vc.pc = "sending"
    /\ vc' = [vc EXCEPT !.pc = "closing"]
    /\ IF curView > vc.view
         THEN UNCHANGED <<ctl, nextView, vw>>
         ELSE /\ vw' = [vw EXCEPT !.aborted = TRUE]
              /\ nextView' = [num |-> vc.view, seq |-> vc.seq]
              /\ ctl' = "viewEnding"
    /\ UNCHANGED <<token, curView, stopped, pending, pool, remainder, closed,
                   delivered, readmitted>>

(* case newView := <-c.viewChange: changeView first drains the leader      *)
(* token, then ignores a view older than the current one; otherwise it     *)
(* aborts the current view and waits for it to end.  The ViewChanger,      *)
(* released from its send, goes on to Batcher.Close.                       *)
ChangeView ==
    /\ ctl = "loop"
    /\ vc.pc = "sending"
    /\ vc' = [vc EXCEPT !.pc = "closing"]
    /\ token' = FALSE
    /\ IF curView > vc.view
         THEN UNCHANGED <<ctl, nextView, vw>>
         ELSE /\ vw' = [vw EXCEPT !.aborted = TRUE]
              /\ nextView' = [num |-> vc.view, seq |-> vc.seq]
              /\ ctl' = "viewEnding"
    /\ UNCHANGED <<curView, stopped, pending, pool, remainder, closed,
                   delivered, readmitted>>

(* Mutant: Batcher.Reset reopens the Batcher but keeps the remainder.     *)
InstallViewKeepsRemainder ==
    /\ ctl = "viewEnding"
    /\ vw.phase = "ended"
    /\ curView' = nextView.num
    /\ vw' = NewView(nextView.num, nextView.seq)
    /\ pending' = {}
    /\ IF Leader(nextView.num) = Self
         THEN /\ closed' = FALSE
              /\ token' = TRUE
              /\ UNCHANGED remainder
         ELSE UNCHANGED <<remainder, closed, token>>
    /\ ctl' = "loop"
    /\ UNCHANGED <<nextView, stopped, pool, delivered, vc, readmitted>>

(* viewEnd.Wait() returned: install the new view, start its View, and if   *)
(* this replica leads it reset the Batcher and claim the leader token.     *)
InstallView ==
    /\ ctl = "viewEnding"
    /\ vw.phase = "ended"
    /\ curView' = nextView.num
    /\ vw' = NewView(nextView.num, nextView.seq)
    /\ pending' = {}
    /\ IF Leader(nextView.num) = Self
         THEN /\ remainder' = {}
              /\ closed' = FALSE
              /\ token' = TRUE
         ELSE UNCHANGED <<remainder, closed, token>>
    /\ ctl' = "loop"
    /\ UNCHANGED <<nextView, stopped, pool, delivered, vc, readmitted>>

(* Mutant: the run loop checks the token without taking it.               *)
TakeLeaderTokenPeek ==
    /\ ctl = "loop"
    /\ token
    /\ ctl' = "proposing"
    /\ UNCHANGED <<token, nextView, curView, stopped, vw, pending, pool,
                   remainder, closed, delivered, vc, readmitted>>

(* case <-c.leaderToken: start propose(), which first loops in            *)
(* getNextBatch until the Batcher returns a non-empty batch or the         *)
(* controller is stopped.                                                  *)
TakeLeaderToken ==
    /\ ctl = "loop"
    /\ token
    /\ token' = FALSE
    /\ ctl' = "proposing"
    /\ UNCHANGED <<nextView, curView, stopped, vw, pending, pool, remainder,
                   closed, delivered, vc, readmitted>>

(* NextBatch returned a non-empty batch (remainder first, then the pool,   *)
(* at most BatchSize requests; the pool is only peeked) and the controller *)
(* is not stopped: the Assembler includes some part, maybe none, the rest  *)
(* back with BatchRemainder, and View.Propose stamps the View's current    *)
(* sequence on the proposal.  A closed Batcher returns empty batches, and  *)
(* an empty pool only empty ones after BatchTimeout: getNextBatch then     *)
(* loops, which changes nothing.                                           *)
ProposeBatch ==
    /\ ctl = "proposing"
    /\ ~closed
    /\ ~stopped
    /\ \E batch \in SUBSET (remainder \cup pool) :
         /\ batch # {}
         /\ Cardinality(batch) <= BatchSize
         /\ remainder \subseteq batch \/ batch \subseteq remainder
         /\ \E incl \in SUBSET batch :
              /\ remainder' = (remainder \ batch) \cup (batch \ incl)
              /\ pending' = pending \cup {[seq |-> vw.seq, reqs |-> incl]}
    /\ ctl' = "loop"
    /\ UNCHANGED <<nextView, token, curView, stopped, vw, pool, closed,
                   delivered, vc, readmitted>>

(* getNextBatch sees stopChan closed after NextBatch returned (Stop closes *)
(* the Batcher): propose returns without proposing.                       *)
ProposeStopped ==
    /\ ctl = "proposing"
    /\ stopped
    /\ ctl' = "loop"
    /\ UNCHANGED <<nextView, token, curView, stopped, vw, pending, pool,
                   remainder, closed, delivered, vc, readmitted>>

(* case <-c.stopChan: run returns, and its deferred function aborts the    *)
(* current view and waits for it to end.                                   *)
Exit ==
    /\ ctl = "loop"
    /\ stopped
    /\ vw' = [vw EXCEPT !.aborted = TRUE]
    /\ ctl' = "exiting"
    /\ UNCHANGED <<nextView, token, curView, stopped, pending, pool,
                   remainder, closed, delivered, vc, readmitted>>

Exited ==
    /\ ctl = "exiting"
    /\ vw.phase = "ended"
    /\ ctl' = "exited"
    /\ UNCHANGED <<nextView, token, curView, stopped, vw, pending, pool,
                   remainder, closed, delivered, vc, readmitted>>

-----------------------------------------------------------------------------
(* Callers of the Controller from other goroutines *)

(* The ViewChanger agrees on a higher view and computes its first          *)
(* sequence from its checkpoint (the last delivered decision), then calls  *)
(* ViewChanged, which blocks on the unbuffered viewChange send.            *)
ViewChanged(v) ==
    /\ vc.pc = "idle"
    /\ ~stopped
    /\ vc' = [pc |-> "sending", view |-> v, seq |-> LastDeliveredSeq + 1]
    /\ UNCHANGED <<ctl, nextView, token, curView, stopped, vw, pending, pool,
                   remainder, closed, delivered, readmitted>>

(* ViewChanged, after the send: c.Batcher.Close().                         *)
BatcherClose ==
    /\ vc.pc = "closing"
    /\ closed' = TRUE
    /\ vc' = [vc EXCEPT !.pc = "idle"]
    /\ UNCHANGED <<ctl, nextView, token, curView, stopped, vw, pending, pool,
                   remainder, delivered, readmitted>>

(* Controller.Stop: close stopChan once, close the Batcher, drain the      *)
(* leader token.  A second call returns at once.                           *)
Stop ==
    /\ ~stopped
    /\ stopped' = TRUE
    /\ closed' = TRUE
    /\ token' = FALSE
    /\ UNCHANGED <<ctl, nextView, curView, vw, pending, pool, remainder,
                   delivered, vc, readmitted>>

-----------------------------------------------------------------------------
Next ==
    \/ \E r \in Requests : SubmitRequest(r)
    \/ ViewCommit \/ ViewAdvance \/ ViewExit
    \/ DeliverDecision \/ ChangeView \/ InstallView
    \/ TakeLeaderToken \/ ProposeBatch \/ ProposeStopped \/ Exit \/ Exited
    \/ \E v \in (vc.view + 1)..MaxView : ViewChanged(v)
    \/ BatcherClose
    \/ Stop

(* Every goroutine of the replica is scheduled whenever it can run.  The   *)
(* clients, the ViewChanger's decisions and Stop are the environment and   *)
(* need not happen.                                                        *)
Fairness ==
    /\ WF_vars(ViewCommit) /\ WF_vars(ViewAdvance) /\ WF_vars(ViewExit)
    /\ WF_vars(DeliverDecision) /\ WF_vars(ChangeView)
    /\ WF_vars(InstallView) /\ WF_vars(TakeLeaderToken)
    /\ WF_vars(ProposeBatch) /\ WF_vars(ProposeStopped)
    /\ WF_vars(Exit) /\ WF_vars(Exited) /\ WF_vars(BatcherClose)

Spec == Init /\ [][Next]_vars

FairSpec == Spec /\ Fairness

-----------------------------------------------------------------------------
TypeOK ==
    /\ ctl \in CtlStates
    /\ nextView \in [num : Nat, seq : Nat]
    /\ token \in BOOLEAN
    /\ curView \in Nat
    /\ stopped \in BOOLEAN
    /\ vw \in [num : Nat, seq : Nat, phase : ViewPhases, aborted : BOOLEAN,
               dec : SUBSET Requests]
    /\ pending \subseteq Proposals
    /\ pool \subseteq Requests
    /\ remainder \subseteq Requests
    /\ closed \in BOOLEAN
    /\ delivered \in Seq(Decisions)
    /\ vc \in [pc : {"idle", "sending", "closing"}, view : Nat, seq : Nat]
    /\ readmitted \subseteq Requests

-----------------------------------------------------------------------------
(* Safety properties of the run loop *)

(* The leader token is the permit to propose: this replica holds it, or is *)
(* inside propose(), only while it leads its current view.  changeView     *)
(* drains it before switching views (controller.go relinquishLeaderToken); *)
(* the decision case and changeView claim it only when leader.            *)
TokenOnlyWhenLeader ==
    (token \/ ctl = "proposing") => IAmTheLeader

(* Backpressure: the leader is at most one proposal ahead of the decision  *)
(* stream.  The undecided proposals handed to the View, plus the one the   *)
(* leader token still permits, never exceed one.                           *)
OneProposalAhead ==
    Cardinality(pending) + (IF token \/ ctl = "proposing" THEN 1 ELSE 0) <= 1

(* The requests of the decisions delivered so far.                       *)
DeliveredReqs ==
    {r \in Requests : \E i \in 1..Len(delivered) : r \in delivered[i].reqs}

(* A request this replica has delivered is proposed by it again only when  *)
(* a new submission put it back in the pool after that delivery: never     *)
(* from stale state.  The decision case prunes delivered requests from the *)
(* pool (removeDeliveredFromPool), and Batcher.Reset drops what the        *)
(* Assembler held back in an earlier leadership, when requests decided     *)
(* under another leader meanwhile may still sit in the remainder.          *)
NoStaleReproposal ==
    \A p \in pending : p.reqs \cap DeliveredReqs \subseteq readmitted

-----------------------------------------------------------------------------
(* Properties the code is meant to have and does not (violation runs) *)

(* Spec section 5: a view change aborts the View and awaits its Future.    *)
(* changeView, and run's deferred exit, wait on viewEnd while the View may *)
(* be blocked in Decide on the decisionChan only the run loop receives:    *)
(* the two wait on each other for ever.                                    *)
NoWaitOnDecidingView ==
    ctl \in {"viewEnding", "exiting"} => vw.phase # "deciding"

(* Spec section 4.3: the ViewChanger installs the new view through          *)
(* Controller.ViewChanged.  Its send on viewChange is eventually received,  *)
(* unless the controller stops.                                            *)
ViewChangeEventuallyTaken ==
    (vc.pc = "sending") ~> (vc.pc # "sending" \/ stopped)

(* Spec section 4.2: the leader's proposal carries the sequence the View    *)
(* is to decide next; a proposal stamped with an older sequence is dropped  *)
(* by every View and never decided.                                        *)
ProposalsCarryNextSeq ==
    \A p \in pending : p.seq >= vw.seq

(* Spec section 5: Deliver is called in sequence order, each decision at   *)
(* the sequence after the previous one.                                    *)
DeliveryContiguous ==
    \A i \in 1..Len(delivered) :
        delivered[i].seq = IF i = 1 THEN StartSeq ELSE delivered[i - 1].seq + 1

=============================================================================
