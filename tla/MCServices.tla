----------------------------- MODULE MCServices -----------------------------
(***************************************************************************)
(* The services beside a node and the light client of a phone, on small    *)
(* chains.                                                                 *)
(***************************************************************************)
EXTENDS Services, TLC

\* Two forks after a common block: the shorter one is the heavier.
LightForks == {<<1, 1, 1>>, <<1, 3>>}

=============================================================================
