----------------------------- MODULE MCMailbox -----------------------------
(***************************************************************************)
(* Instances of Mailbox for TLC: one account that rotates and renames, one *)
(* that writes to it, and two keys to rotate to.                           *)
(***************************************************************************)
EXTENDS Mailbox, TLC

CONSTANTS a, b, ra, rb, k1, k2, l1, x, y

MCRootKey == (a :> ra) @@ (b :> rb)

\* Fresh keys are told apart by nothing but their name.
Symmetry == Permutations({k1, k2})
=============================================================================
