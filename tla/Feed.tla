-------------------------------- MODULE Feed --------------------------------
(***************************************************************************)
(* A node as the services beside it read it: its height, its blocks and    *)
(* its mempool (GET /status, /blocks, /block and /mempool of node.py).  Of *)
(* what is in a block only the letters to the address a phone watches and  *)
(* the payments for one parcel matter here.                                *)
(***************************************************************************)
EXTENDS Integers, Sequences, FiniteSets

CONSTANTS
    Letters,        \* letters to one watched address
    Payments,       \* transfers to the room with the memo of one parcel
    MaxHeight,      \* bound: blocks
    MaxReorgs       \* bound: reorganisations

ASSUME FeedAssumption ==
    /\ IsFiniteSet(Letters) /\ IsFiniteSet(Payments)
    /\ Letters \cap Payments = {}
    /\ {MaxHeight, MaxReorgs} \subseteq Nat

VARIABLES blocks, mempool, reorgs

feedVars == <<blocks, mempool, reorgs>>

Tip == Len(blocks)
InBlocks(lo, hi) == UNION {blocks[h] : h \in (lo .. hi) \cap (1 .. Tip)}
InChain == InBlocks(1, Tip)

Arrive(tx) ==
    /\ tx \notin mempool \cup InChain
    /\ mempool' = mempool \cup {tx}
    /\ UNCHANGED <<blocks, reorgs>>

Mine(txs) ==
    /\ Tip < MaxHeight
    /\ blocks' = Append(blocks, txs)
    /\ mempool' = mempool \ txs
    /\ UNCHANGED reorgs

\* A heavier chain of the same height, one block deep.  What the block that
\* goes had and the new one has not is in no mempool (chain.py replace_with).
Reorganise(txs) ==
    /\ reorgs < MaxReorgs
    /\ Tip > 0
    /\ blocks' = [blocks EXCEPT ![Tip] = txs]
    /\ mempool' = mempool \ txs
    /\ reorgs' = reorgs + 1

FeedInit ==
    /\ blocks = <<>>
    /\ mempool = {}
    /\ reorgs = 0

FeedNext ==
    \/ \E tx \in Letters \cup Payments : Arrive(tx)
    \/ \E txs \in SUBSET mempool : Mine(txs)
    \/ \E txs \in SUBSET (mempool \cup InBlocks(Tip, Tip)) : Reorganise(txs)

=============================================================================
