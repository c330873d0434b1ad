--------------------------- MODULE InFlightProofs ---------------------------
(* Proof that the InFlightData model is well typed, for every bound on     *)
(* the sequences; the strengthening records that each stored value is one *)
(* consistent tuple.                                                       *)
EXTENDS InFlight, TLAPS

(* The bound on the sequences is a natural number.                        *)
MaxSeqOK == MaxSeq \in Nat

(* The strengthening: while the View is between StoreProposal and          *)
(* StorePrepares, the slot holds the proposal of its current sequence,     *)
(* which is never nil, and it has not yet run past its last sequence.      *)
IInv ==
    /\ TypeOK
    /\ SlotConsistent
    /\ wpc = "prepare" => slot.prop = wseq
    /\ wpc \in {"prepare", "storing"} => wseq <= MaxSeq

LEMMA IInvInit ==
    ASSUME MaxSeqOK PROVE Init => IInv
BY DEF MaxSeqOK, Init, IInv, TypeOK, SlotConsistent, NoData

LEMMA IInvNext ==
    ASSUME MaxSeqOK PROVE IInv /\ [Next]_vars => IInv'
<1> SUFFICES ASSUME IInv, [Next]_vars PROVE IInv'
  OBVIOUS
<1> USE DEF MaxSeqOK, IInv, TypeOK, SlotConsistent
<1>1. CASE StoreProposal
  BY <1>1 DEF StoreProposal
<1>2. CASE StorePreparesLoad
  BY <1>2 DEF StorePreparesLoad, InFlightProposal
<1>3. CASE StorePreparesStore
  BY <1>3 DEF StorePreparesStore
<1>4. CASE ReadProposal
  BY <1>4 DEF ReadProposal, InFlightProposal
<1>5. CASE ReadPrepares
  BY <1>5 DEF ReadPrepares, InFlightPrepares
<1>6. CASE ReaderRestart
  BY <1>6 DEF ReaderRestart
<1>7. CASE UNCHANGED vars
  BY <1>7 DEF vars
<1>8. QED
  BY <1>1, <1>2, <1>3, <1>4, <1>5, <1>6, <1>7 DEF Next

(* Every reachable state of the InFlightData model is well typed: the View *)
(* stores no proposal past its last sequence and the reader records only   *)
(* what it loaded.                                                         *)
THEOREM InFlightTypeCorrect ==
    ASSUME MaxSeqOK PROVE Spec => []TypeOK
<1>1. IInv => TypeOK
  BY DEF IInv
<1>2. Init => IInv
  BY IInvInit
<1>3. IInv /\ [Next]_vars => IInv'
  BY IInvNext
<1>4. QED
  BY <1>1, <1>2, <1>3, PTL DEF Spec

=============================================================================
