------------------------------ MODULE MCGrants ------------------------------
(***************************************************************************)
(* Instances of Grants for TLC: two accounts that can become each other's  *)
(* correspondents, the register empty or holding a genesis account.        *)
(***************************************************************************)
EXTENDS Grants, TLC

CONSTANTS a, b

\* Newcomers with nothing, and pools that pay a few grants and one seat.
MCGenesis == (a :> 0) @@ (b :> 0) @@ (Treasury :> 5) @@ (FoundingPool :> 1)
             @@ (Reserve :> 0)

\* Funded registrars, two seats, and something in the reserve.
MCFunded == (a :> 2) @@ (b :> 1) @@ (Treasury :> 3) @@ (FoundingPool :> 2)
            @@ (Reserve :> 1)

MCTierAmount == ("starter" :> 2) @@ ("service-1" :> 2) @@ ("service-2" :> 4)
MCMinCorrespondents == ("starter" :> 0) @@ ("service-1" :> 1)
                       @@ ("service-2" :> 1)
=============================================================================
