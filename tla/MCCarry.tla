------------------------------ MODULE MCCarry ------------------------------
(***************************************************************************)
(* Model values and bounds for Carry: a writer and a carrier.              *)
(***************************************************************************)
EXTENDS Carry

=============================================================================
