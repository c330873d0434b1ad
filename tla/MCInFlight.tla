----------------------------- MODULE MCInFlight -----------------------------
(* InFlightData with the View going through three sequences while the     *)
(* ViewChanger reads it again and again.                                   *)
EXTENDS InFlight

MCMaxSeq == 3

=============================================================================
