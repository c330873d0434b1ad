# TLA+ models of the SmartBFT-Go consensus library

This directory holds TLA+ models of the parts of SmartBFT-Go/consensus that are
under `src/`. It contains the TLC configurations that model-check them and the
TLAPS proofs of their main safety properties. `PROJECT.json` records the
following:

- the components;
- the runs and what each one checks;
- the mutants that show each property can fail;
- the map from every definition to the Go lines it models;
- the findings;
- the hazards;
- the theorems.

## The system and its parts

The repository under `src/` holds three Go files.

**`internal/bft/controller.go`: the Controller of one replica.** It ties the
other components together:

- the current `View` runs the three-phase protocol for one view;
- the `Batcher` and the `RequestPool` supply batches of client requests;
- the `ViewChanger` decides view changes;
- the `Application` receives the decisions.

The Controller's goroutine `run` is a `select` over four channels:

- `decisionChan`: the View calls `Decide`, which blocks on this unbuffered
  channel and then on `deliverChan`;
- `viewChange`: `ViewChanged` sends here, and the run loop calls `changeView`;
- `stopChan`: `Stop` closes it;
- `leaderToken`: a one-slot channel. A permit in it lets the leader run
  `propose`, and `propose` loops in `getNextBatch`.

The other goroutines that touch the Controller:

- client goroutines call `SubmitRequest`;
- the `ViewChanger` calls `ViewChanged`;
- `Consensus.Stop` calls `Stop`;
- the request-pool timers call `OnRequestTimeout` and its siblings;
- the network calls `ProcessMessages`.

**`internal/bft/util.go`: shared helpers.** It holds:

- `computeQuorum` (Q and F from N) and `getLeaderID`;
- `voteSet`;
- `InFlightData`, the in-flight proposal shared with the ViewChanger;
- `ProposalMaker`, which builds Views and restores the first one from the
  WAL;
- `TickDemultiplexer`, which fans one scheduler clock out to three consumers.

**`pkg/consensus/consensus.go`: the public `Consensus` type.** It builds and
wires the components, and starts and stops them in order.

The `View`, `ViewChanger`, `Batcher`, `RequestPool`, `PersistedState` and
WAL are not under `src/`. Where the Controller depends on them, their
behaviour is taken from `spec.md`, and `PROJECT.json` marks those
definitions `spec_modelled`.

## Modules

| Module | Models |
|---|---|
| `BftUtil` | `computeQuorum` in both copies (util.go:144, controller.go:121), with Go's truncating division and the float ceiling; `getLeaderID`; `Controller.leaderID`. Pure operators with no RECURSIVE definition. |
| `MCBftUtil` | A state machine over the cluster size `n` and the view, so that TLC evaluates the operators for every `n` in 1..MaxN. `RefQuorum` is a brute-force reference: the least q such that any two q-subsets of 1..n share F+1 members. |
| `BftUtilProofs` | TLAPS proofs about the quorum arithmetic. |
| `MCBftUtilProofs` | TLAPS proofs of the two invariants of the `bftutil_quorum` run, for every cluster size. |
| `Controller` | One replica's Controller and the goroutines it talks to (see below). |
| `MCController` | Gives `Requests` two model values. |
| `ControllerProofs` | TLAPS proofs of the Controller's type invariant and two safety invariants. |
| `DecisionProofs` | TLAPS proof of `NoStaleReproposal`: a delivered request is proposed again only after a new submission. |
| `TickFanout` | The abstract specification of the `TickDemultiplexer`: one clock fanned out in lockstep. A tick is emitted only when every consumer has received every earlier one, and each consumer then receives it once. |
| `TickDemux` | The `TickDemultiplexer` (util.go:259-300), the three clock consumers, and `Consensus.Start`/`Stop`'s part in driving it (consensus.go:120-148). |
| `MCTickDemux` | Three consumers as model values: `poolClock`, `leaderClock`, `viewChangerClock`. |
| `TickDemuxProofs` | TLAPS proofs of the demultiplexer's type invariant, and of its refinement of `TickFanout`. |
| `InFlight` | `InFlightData` (util.go:150-205), written by the View, one sequence after the other, and read by the ViewChanger through its two accessors. |
| `MCInFlight` | MaxSeq = 3. |
| `InFlightProofs` | TLAPS proof that the stored value is always consistent. |

### Controller: state and actions

Each variable stands for a piece of Go state:

- `ctl`: where the run goroutine is. `loop` means in the `select`;
  `proposing` means inside `propose`; `viewEnding` means inside
  `changeView`, waiting on `viewEnd`; `exiting` means in the deferred
  function of `run`; `exited` means `run` has returned.
- `token`: the one-slot `leaderToken` channel is full.
- `curView`: `currViewNumber`.
- `stopped`: `stopChan` is closed.
- `vw`: the current View, with its number, proposal sequence, phase,
  abort flag and the batch it is deciding. The phases are: running the
  protocol, blocked in `Decide`, back from `Decide`, and ended (its Future
  is done).
- `pending`: the proposals `propose` handed to this View.
- `pool`, `remainder` and `closed`: the RequestPool, the Batcher's
  remainder, and the Batcher's closed flag.
- `delivered`: the decisions delivered to the Application, in order.
- `vc`: the ViewChanger goroutine while it is inside `ViewChanged`.
- `readmitted`: a history variable that no code reads. It holds the requests that the pool admitted after they were last delivered, and the property `NoStaleReproposal` is stated with it.

Each action covers one whole handler, or the part of a handler up to a
point where it blocks:

| Action | Code |
|---|---|
| `Init` | `Controller.Start`: start the view; take the token if leader. |
| `SubmitRequest(r)` | `Controller.SubmitRequest` and `RequestPool.Submit`. A request not in the pool is admitted while there is room, including one delivered before (a client retry, or a late forward). A full pool or a duplicate returns an error, and nothing changes. |
| `ViewCommit` | The View's quorum commits, and the View blocks in `Decide`'s send on `decisionChan`. As leader it decides the proposal it was handed. As follower it decides any batch, possibly of requests this replica never saw. |
| `DeliverDecision` | The decision case of `run`: `Deliver`, `removeDeliveredFromPool`, release the View on `deliverChan`, `maybePruneRevokedRequests` (a no-op here), and `acquireLeaderToken` if leader. |
| `ViewAdvance`, `ViewExit` | The View's phase loop (spec): advance the sequence after `Decide` returns, and return after `Abort`. |
| `ChangeView` | `changeView` up to `viewEnd.Wait()`: `relinquishLeaderToken`, the stale-view check, `Abort`. The ViewChanger is released from its send. |
| `InstallView` | The rest of `changeView`: set the view number; `startView`; if leader, `Batcher.Reset` and `acquireLeaderToken`. |
| `TakeLeaderToken` | `case <-c.leaderToken`: enter `propose`. |
| `ProposeBatch` | `getNextBatch` yields a non-empty batch (the remainder first, at most BatchSize requests), `AssembleProposal` splits it (it may include nothing, and the proposal is then empty), `BatchRemainder` keeps the rest, and `View.Propose` stamps the View's current sequence on the proposal. |
| `ProposeStopped` | `getNextBatch` sees `stopChan` closed, and `propose` returns. |
| `Exit`, `Exited` | `case <-stopChan`, then the deferred `Abort` and `viewEnd.Wait()`. |
| `ViewChanged(v)` | The ViewChanger picks a higher view and the sequence after its checkpoint, then blocks on the unbuffered send. |
| `BatcherClose` | The `c.Batcher.Close()` that `ViewChanged` calls after the send. |
| `Stop` | `Controller.Stop`: close `stopChan` once, close the Batcher, drain the token. |

`getNextBatch` loops on empty batches. A loop that changes nothing is a
stutter, so it has no action of its own. This is why `ProposeBatch` is not
enabled when the Batcher is closed or the pool is empty.

### TickDemux: state and actions

- `dpc`: the demultiplexer goroutine. `select` means in its `select`;
  `tick` means inside `tick()`, waiting on the WaitGroup; `done` means the
  goroutine has returned.
- `inflight`: the sending goroutines that `tick()` started and that have
  not yet finished, as pairs <<channel, tick>>.
- `emitted`: the ticks taken from `In`.
- `recv[c]`: what consumer `c` has received.
- `cst[c]`: consumer `c` is ready to read its clock, busy with a tick, or
  stopped.
- `tdStop`: `stopChan` is closed.
- `cs`: the progress of `Consensus.Stop` through its three calls.

| Action | Code |
|---|---|
| `TakeTick` | `case now := <-td.In`, then `tick`: `wg.Add(len(Out))`, and one goroutine per `Out` channel. |
| `SendTick(c, k)` | One of those goroutines: `out <- now` received, then `wg.Done()`. |
| `TickDone` | `wg.Wait()` returns, and the loop goes back to its `select`. |
| `DemuxExit` | `case <-td.stopChan: return`, with the deferred `running.Done()`. |
| `ConsumerProcess(c)` | A consumer handles its tick and reads its clock again (spec). |
| `RequestStop` | The application calls `Consensus.Stop`. |
| `TimeDemuxStopClose`, `TimeDemuxStopReturn` | `TickDemultiplexer.Stop`: `close(stopChan)`, then `running.Wait()`. |
| `ViewChangerStop`, `ControllerStop` | The next two calls of `Consensus.Stop`. The ViewChanger stops reading its clock. |

The refinement mapping to `TickFanout` is the identity on `emitted` and on
the received sequences (`rcv <- recv`). `TakeTick` is `Emit`, `SendTick` is
`Deliver`, and every other step is a stutter.

### InFlight: state and actions

A proposal is named by its sequence number. Prepares are named by the
sequence of the proposal whose digest they carry, and 0 is nil. `slot` is
the value in the `atomic.Value`. The View's steps are these:

- `StoreProposal`;
- `StorePrepares`, split at the point where its `Load` and its `Store`
  could be interleaved: `StorePreparesLoad` (and its panic) and
  `StorePreparesStore`.

The ViewChanger calls `InFlightProposal` (`ReadProposal`) and
`InFlightPrepares` (`ReadPrepares`) in either order, and starts again for a
later view change (`ReaderRestart`).

`PersistedState` also holds a pointer to the same `InFlightData`
(consensus.go:76). It restores it from the WAL when the first View is built,
in the Controller's goroutine, before that View runs. It is not modelled.

## Runs

| Run | Expect | What it shows |
|---|---|---|
| `bftutil_quorum` | pass | For N = 1..7, Q = computeQuorum(N) makes any two quorums share F+1 nodes (`QuorumIntersection`). It also checks that Q is the least such size and at most N−F (`QuorumMatchesReference`). |
| `bftutil_leader` | violation | `Controller.leaderID` is `view % N`. The spec's leader is `sort(nodes)[view mod N]` (which `getLeaderID` implements). The two differ for the identifiers 1..N that the tests use. |
| `controller` | pass | Checks three safety properties. `TokenOnlyWhenLeader`: the token, or `propose`, only while leading the current view. `OneProposalAhead`: at most one outstanding proposal, counting the token's permit. `NoStaleReproposal`: a request this replica delivered is in one of its pending proposals only if the pool admitted it again after that delivery. So nothing is proposed from stale state: neither from the pool, which `removeDeliveredFromPool` prunes, nor from a Batcher remainder kept from an earlier leadership, which `Batcher.Reset` drops. |
| `controller_decide_deadlock` | violation | `changeView`, or the deferred exit, waits on `viewEnd` while the View is blocked in `Decide`'s send, which only the run loop can receive. |
| `controller_viewchange_starved` | violation | Under weak fairness of every goroutine, a `ViewChanged` send is never received: the leader spins in `getNextBatch` with an empty pool. |
| `controller_stale_seq` | violation | The leader token is re-taken before the View advances its sequence. The next proposal is stamped with the sequence just decided. |
| `controller_redelivery` | violation | The sequence that `changeView` installs was computed before the last delivery, so the same sequence is delivered twice. |
| `tickdemux` | pass | With every consumer eventually returning to its clock: `TypeOK`; `TickFanoutRefined`, that the demultiplexer implements `TickFanout`, so every consumer sees the same ticks in clock order and none is a tick ahead of another; and `StopReturns`, that `Consensus.Stop` returns once called. |
| `tickdemux_blocked_consumer` | violation | The ViewChanger's goroutine is the one that calls `Controller.ViewChanged`, which can block for ever (`controller_viewchange_starved`). If it does so while a tick is being sent to it, `tick()` never finishes and `Consensus.Stop` hangs in `timeDemux.Stop`. |
| `inflight_torn_read` | violation | `ReadConsistent`: the ViewChanger's two loads can return no proposal (or an older one) with the prepares of a newer one. |

Each violation run is a finding in `PROJECT.json`. The three Controller
code bugs are the Decide/Abort deadlock, the starved view change and the
stale proposal sequence. The redelivery run is a spec gap: nothing says who
checks the new sequence. The leader rule is a divergence between the spec
and the code.

Two more runs are divergences between the spec and the code. First, the
blocked-consumer hang: the spec says Stop never blocks on external sends.
Second, the torn read: the spec describes InFlightData as one tuple that is
replaced atomically, but the code can only be read through two separate
loads.

### Bounds

`MCController` uses N = 2 and Self = 0, so this replica leads views 0 and 2
and follows in view 1. Both a leader-to-follower and a follower-to-leader
view change happen.

- Two requests, with PoolSize = 2 and BatchSize = 2. These are enough for a
  batch that the Assembler splits into an included part and a remainder.
  They are also enough for a remainder that outlives a leadership.
- Views 0..2 and sequences up to 2. Clients may resubmit a request once it
  has left the pool, and a follower may decide any of the four batches. A
  stale remainder needs only one sequence: the leader holds back a request
  in view 0, a follower decision in view 1 delivers it, and view 2 would
  propose it again.
- The state space has 2,712,137 distinct states and is exhausted in about
  15 seconds. With sequences up to 3 it grows to 152 million states.

Every counterexample above needs at most two view changes and three
decisions.

`MCTickDemux` has three consumers, as in `Consensus.Start`, and
MaxTicks = 3. The demultiplexer can then be stopped before, during and
after a tick, with consumers at every point of their loop. It has 616
states.

`MCInFlight` lets the View go through three sequences. The reader's two
loads can then straddle a `StoreProposal`, a `StorePrepares` and a whole
sequence. It has 130 states.

`MCBftUtil` takes N up to 7, which covers all three residues of N − 1
modulo 3, including N = 3f+3, where Q is smaller than N − f.

### Fairness

`FairSpec` assumes weak fairness of every step of the replica's own
goroutines:

- the View;
- the run loop;
- the ViewChanger's `Close` after its send.

Go's scheduler runs every runnable goroutine eventually, so this assumption
is justified. Clients, the ViewChanger's decision to change view, and
`Stop` are the environment and get no fairness.

`TickDemux!FairSpec` gives weak fairness to the following:

- the demultiplexer;
- its sending goroutines;
- the steps of `Consensus.Stop`;
- every consumer's return to its clock.

The scheduler's ticks and the call of `Stop` get none.

`FairSpecVCMayBlock` withholds fairness from the ViewChanger's return to
its clock. That return is not guaranteed by the code: the same goroutine
calls `ViewChanged`, whose send the Controller may never receive. The
`tickdemux_blocked_consumer` run uses this weaker assumption.

## Proofs

| Theorem | Statement |
|---|---|
| `BftUtilProofs!QuorumIntersectionHolds` | For every finite set S, any two subsets of size at least computeQuorum(\|S\|) share at least F+1 members. It rests on the lemma `QuorumArithmetic`: for N ≥ 1, 2Q − N ≥ F + 1 and Q ≤ N − F. It also uses the inclusion–exclusion facts of `FiniteSetTheorems`. |
| `ControllerProofs!TypeCorrect` | `Spec => []TypeOK`, with batches and decisions possibly empty. |
| `ControllerProofs!TokenHeldOnlyByLeader` | `Spec => []TokenOnlyWhenLeader`. |
| `ControllerProofs!AtMostOneProposalAhead` | `Spec => []OneProposalAhead`. |
| `TickDemuxProofs!TickTypeCorrect` | `Spec => []TypeOK` for the demultiplexer. |
| `TickDemuxProofs!FanoutRefinement` | `Spec => TickFanoutRefined`: the demultiplexer implements `TickFanout` under the mapping `rcv <- recv`. |
| `InFlightProofs!InFlightTypeCorrect` | `Spec => []TypeOK` for InFlightData, for every natural bound MaxSeq. |
| `DecisionProofs!NoStaleReproposalHolds` | `Spec => []NoStaleReproposal`. |
| `MCBftUtilProofs!QuorumIntersectionInvariant` | `Spec => []QuorumIntersection` for the `bftutil_quorum` state machine, by `QuorumIntersectionHolds` on 1..n. |
| `MCBftUtilProofs!QuorumMatchesReferenceInvariant` | `Spec => []QuorumMatchesReference`: computeQuorum is the least size at which quorums intersect in F+1 members, and at most N−F. |

The constants are assumed to satisfy `ConstantsAssumption`: N ≥ 1, the
request set is finite, and the sizes are positive. None of the safety
properties is inductive as it stands, so each proof uses a strengthening.

`TypeOK` of the Controller is inductive as it stands.

**`TokenInv`** adds that the token is empty while `changeView` waits on
`viewEnd`. `InstallView` changes the current view without touching the
token. Only this fact, which holds because `relinquishLeaderToken` runs
first, rules out a token surviving into a view that this replica does not
lead.

**`AheadInv`** adds four facts:

- the View runs the current view;
- `pending` has at most one element;
- while a proposal is pending, the token is empty and `propose` is not
  running;
- a leader's View blocked in `Decide` is deciding the pending proposal of
  its sequence.

The last fact is needed because the decision case re-takes the token. It
removes the pending proposal of that same sequence at the same moment, so
the re-taken permit never comes with a second proposal.

**`Lockstep`**, in `TickDemuxProofs`, is the invariant behind the
refinement. It holds three facts:

- outside `tick()` no send is in flight;
- every send in flight carries the current tick;
- each consumer has received exactly `emitted` ticks, or `emitted - 1` when
  its send is still in flight.

With `Lockstep` and `TypeOK`, `TakeTick` satisfies `Emit`'s guard, since
every consumer has caught up. `SendTick` appends exactly the current tick,
as `Deliver` does. The lemma `StepRefines` states this for every step, and
the theorem combines it with `Init => Fanout!Init` by `PTL`.

**`IInv`**, in `InFlightProofs`, is behind the type proof. It adds that
every stored value is one consistent tuple (`SlotConsistent`), and two
more facts:

- between `StoreProposal` and `StorePrepares`, the slot holds the proposal
  of the View's current sequence, so the load never finds nil;
- the View is then still within MaxSeq.

**`ReproInv`**, in `DecisionProofs`, is the strengthening behind
`NoStaleReproposal`. The property speaks only of pending proposals, but a
proposal is built from the pool and the Batcher's remainder. `ReproInv`
therefore covers every place a request can be, and in each of them a
delivered request must be one the pool readmitted:

- the pool, because `removeDeliveredFromPool` takes the decided requests
  out as the delivery consumes their readmission;
- the remainder, while this replica leads its current view. As a follower,
  the remainder may hold requests that another leader has since decided.
  Only `Batcher.Reset` on becoming leader again drops them, and that is
  the fact the mutant `InstallViewKeepsRemainder` breaks;
- a pending proposal, which also shares no request with the remainder;
- only a leader has a pending proposal, and a leader's View blocked in
  `Decide` decides exactly that proposal. So a delivery takes back the
  readmission only of requests that are in no other place.

The proof also uses `TokenInv` (a proposing run loop leads its view) and
`AheadInv` (at most one proposal is pending). One lemma describes what
`Append` does to the set of delivered requests.

**`MCBftUtilProofs`** proves that Q is the least intersecting size in two
directions. First, Q itself intersects, by `QuorumIntersectionHolds`.
Second, any q < Q does not: the first q and the last q members of 1..n
share max(0, 2q − n) ≤ F members, and `FS_Interval` gives their
cardinalities. The configuration invariant `n ∈ Nat \ {0}` then carries
both facts to every state of the run.

Each Controller strengthening was first checked by TLC as an invariant
of the `controller` configuration. Each proof then has one step per action, and
the last step combines them with `PTL`.

Only TLC checks the following:

- the liveness property `StopReturns`, and the violated
  `ViewChangeEventuallyTaken`, because the provers do not handle fairness
  or ENABLED;
- the violation runs, whose properties do not hold.

Every invariant that a passing run checks is also stated by a theorem.
The type invariants of the Controller and of InFlightData are proved but
checked by no run: no realistic bug in the code breaks them without
breaking a bound of the model first.

## What is not modelled

- `OnRequestTimeout`, `OnLeaderFwdRequestTimeout` and `OnAutoRemoveTimeout`.
  They change no Controller state. Their hazard is a stale leader read,
  which is listed in `PROJECT.json`.
- `ProcessMessages` and its unsynchronised read of `currView`. The View's
  message handling is abstracted to one commit step.
- `maybePruneRevokedRequests`. The verification sequence is constant in the
  model, so the function returns at once, and its pruning is not exercised.
- `voteSet` and `ProposalMaker`. They are listed as components. `voteSet` belongs to the abstracted three-phase exchange.
  `ProposalMaker`'s restore needs the WAL, which is not under `src/`.
- The forwarding methods of `Consensus`, and the test harness.
- The composition of `TickDemux` with `Controller`. The blocked-consumer
  run abstracts `ViewChanged`'s block as the ViewChanger never returning to
  its clock, and `controller_viewchange_starved` shows that block.

## Plan

1. Add the request-timeout callbacks, with the stale-leader hazard, and a
   liveness property for the leader: pending requests are eventually
   proposed. This would expose a Batcher closed after `Reset`.
2. Write an abstract specification of the decision stream that the
   Controller promises (an ordered log of batches). Show that the Controller
   refines it where the code allows.
3. Compose `TickDemux` with the Controller's `ViewChanged`, so that the
   blocked-consumer hang is reached from the Controller's own steps.
