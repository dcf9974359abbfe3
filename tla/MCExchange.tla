----------------------------- MODULE MCExchange -----------------------------
(***************************************************************************)
(* Instances of Exchange for TLC: a seller, a buyer, one or two listings   *)
(* and two purchases over a handful of seeds.                              *)
(***************************************************************************)
EXTENDS Exchange, TLC

CONSTANTS a, b

\* Two keyed accounts; one seed each for the protocol accounts genesis funds.
MCGenesis == (a :> 1) @@ (b :> 4) @@ (Treasury :> 1) @@ (FoundingPool :> 1)
             @@ (Reserve :> 0)

\* Purchases are told apart by nothing but their txid.
Symmetry == Permutations(EscrowId)
=============================================================================
