---------------------------- MODULE MCController ----------------------------
(***************************************************************************)
(* A small instance of Controller: two replicas (this one, 0, leads the    *)
(* even views), two client requests, views up to 2, sequences up to 3.     *)
(***************************************************************************)
EXTENDS Controller

CONSTANTS r1, r2

MCRequests == {r1, r2}
=============================================================================
