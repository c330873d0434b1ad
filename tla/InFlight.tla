------------------------------ MODULE InFlight ------------------------------
(***************************************************************************)
(* InFlightData (internal/bft/util.go): an atomic.Value holding the        *)
(* in-flight proposal and, once it is prepared, its prepares.  The View    *)
(* goroutine writes it, one sequence after the other (spec section 4.2);   *)
(* the ViewChanger reads it while building its ViewData (spec section      *)
(* 4.3), through the two accessors InFlightProposal and InFlightPrepares. *)
(* A proposal is named by its sequence; prepares by the sequence of the    *)
(* proposal whose digest they carry; 0 stands for nil.                     *)
(***************************************************************************)
EXTENDS Integers

CONSTANT MaxSeq     \* bound: the View goes through sequences 1..MaxSeq

VARIABLES
    slot,       \* the value in the atomic.Value; NoData before the first Store
    wseq,       \* the View's current sequence
    wpc,        \* the View: before StoreProposal, before StorePrepares, inside it
    wloaded,    \* the proposal StorePrepares loaded
    rprop,      \* what the ViewChanger got from InFlightProposal (-1: not yet)
    rpreps      \* what it got from InFlightPrepares (-1: not yet)

vars == <<slot, wseq, wpc, wloaded, rprop, rpreps>>

NoData == [prop |-> 0, preps |-> 0]

(* A Load of the atomic.Value, seen through either accessor: nil when no  *)
(* value was ever stored.                                                  *)
InFlightProposal == slot.prop

InFlightPrepares == slot.preps

Init ==
    /\ slot = NoData
    /\ wseq = 1
    /\ wpc = "preprepare"
    /\ wloaded = 0
    /\ rprop = -1
    /\ rpreps = -1

-----------------------------------------------------------------------------
(* The writer: the View's phase loop *)

(* StoreProposal: the View accepted the pre-prepare of its sequence; the   *)
(* new value has no prepares.                                              *)
StoreProposal ==
    /\ wpc = "preprepare"
    /\ wseq <= MaxSeq
    /\ slot' = [prop |-> wseq, preps |-> 0]
    /\ wpc' = "prepare"
    /\ UNCHANGED <<wseq, wloaded, rprop, rpreps>>

(* StorePrepares, first half: load the in-flight proposal; panic if there  *)
(* is none.                                                                *)
StorePreparesLoad ==
    /\ wpc = "prepare"
    /\ wloaded' = InFlightProposal
    /\ wpc' = IF InFlightProposal = 0 THEN "panicked" ELSE "storing"
    /\ UNCHANGED <<slot, wseq, rprop, rpreps>>

(* StorePrepares, second half: build the prepares from the loaded          *)
(* proposal's digest and store both; the View then moves on to commit and  *)
(* to the next sequence.                                                   *)
StorePreparesStore ==
    /\ wpc = "storing"
    /\ slot' = [prop |-> wloaded, preps |-> wloaded]
    /\ wpc' = "preprepare"
    /\ wseq' = wseq + 1
    /\ UNCHANGED <<wloaded, rprop, rpreps>>

-----------------------------------------------------------------------------
(* The reader: the ViewChanger, building the in-flight part of ViewData    *)
(* with one call of each accessor, in either order.                        *)

ReadProposal ==
    /\ rprop = -1
    /\ rprop' = InFlightProposal
    /\ UNCHANGED <<slot, wseq, wpc, wloaded, rpreps>>

ReadPrepares ==
    /\ rpreps = -1
    /\ rpreps' = InFlightPrepares
    /\ UNCHANGED <<slot, wseq, wpc, wloaded, rprop>>

(* The ViewData is sent; a later view change reads again.                 *)
ReaderRestart ==
    /\ rprop # -1
    /\ rpreps # -1
    /\ rprop' = -1
    /\ rpreps' = -1
    /\ UNCHANGED <<slot, wseq, wpc, wloaded>>

Next ==
    \/ StoreProposal \/ StorePreparesLoad \/ StorePreparesStore
    \/ ReadProposal \/ ReadPrepares \/ ReaderRestart

Spec == Init /\ [][Next]_vars

-----------------------------------------------------------------------------
TypeOK ==
    /\ slot \in [prop : 0..MaxSeq, preps : 0..MaxSeq]
    /\ wseq \in 1..(MaxSeq + 1)
    /\ wpc \in {"preprepare", "prepare", "storing", "panicked"}
    /\ wloaded \in 0..MaxSeq
    /\ rprop \in -1..MaxSeq
    /\ rpreps \in -1..MaxSeq

(* The stored value is one tuple of the spec: prepares, when present,      *)
(* carry the digest of the proposal stored with them (StorePrepares copies *)
(* the proposal it loaded into the new value), and the View never panics   *)
(* for want of a proposal.  With the View the only writer this follows     *)
(* from the order of its stores; it is a step of the type proof.          *)
SlotConsistent ==
    /\ slot.preps \in {0, slot.prop}
    /\ wpc # "panicked"

(* Spec section 3: InFlightData holds at most one tuple {Proposal,          *)
(* Prepares}, replaced atomically.  The ViewChanger reading it through the *)
(* two accessors gets prepares, if any, of the proposal it got.            *)
ReadConsistent ==
    (rprop # -1 /\ rpreps # -1) => rpreps \in {0, rprop}

=============================================================================
