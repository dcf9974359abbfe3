------------------------------- MODULE Chain -------------------------------
(***************************************************************************)
(* Blocks, work, fork choice and the mempool of one chain                  *)
(* (berrychain/chain.py): what the node does under the chain's lock.       *)
(*                                                                         *)
(* A chain is the sequence of its blocks after the genesis block, so its   *)
(* height is its length.  A block hash covers the hash of the block before *)
(* it: two blocks are the same block exactly when they end the same        *)
(* sequence, and "hash" is the sequence up to the block.  Of a transaction *)
(* the chain keeps what decides its place: sender and nonce.               *)
(*                                                                         *)
(* A definition written just before the one it resembles is that           *)
(* definition with a bug a change to the code could bring, which the       *)
(* checks must catch; so in Node.                                          *)
(***************************************************************************)
EXTENDS Totals, SequencesExt

CONSTANTS
  Nodes,
  Txs,             \* transactions somebody signs
  Sender,          \* tx["from"] of each of them
  Nonce,           \* tx["nonce"] of each of them
  BaseWork,        \* work_for_target(profile["max_target"])
  Works,           \* the works a target may stand for
  Window,          \* profile["difficulty_window"]
  MaxReorgDepth,   \* MAX_REORG_DEPTH
  MaxBlockTxs,     \* MAX_BLOCK_TXS
  MaxMempoolTxs,   \* MAX_MEMPOOL_TXS
  MaxPending       \* MAX_PENDING_PER_SENDER

ASSUME ChainAssumption ==
  /\ IsFiniteSet(Nodes) /\ IsFiniteSet(Txs)
  /\ Nonce \in [Txs -> Nat] /\ DOMAIN Sender = Txs
  /\ Works \subseteq Nat \ {0} /\ BaseWork \in Works
  /\ Window \in Nat \ {0, 1}
  /\ {MaxReorgDepth, MaxBlockTxs, MaxMempoolTxs, MaxPending} \subseteq Nat

Senders == {Sender[t] : t \in Txs}

\* next is the work its timestamp, and those before it, leave to the block
\* after it.
Block == [miner: Nodes, work: Works, next: Works, txs: Seq(Txs)]

\* The mempool: its transactions in order, and the nonces of _mempool_state,
\* the state in which all of them are applied.
Mempool == [txs: Seq(Txs), next: [Senders -> Nat]]

----------------------------------------------------------------------------
(* Work and forks. *)

\* Cumulative work: the genesis block counts for nothing.
Work(c) == Total([h \in DOMAIN c |-> c[h].work], DOMAIN c)

Prefix(c, h) == SubSeq(c, 1, h)

\* c ends with a block whose prev_hash is the tip of d.
Extends(c, d) == Len(c) = Len(d) + 1 /\ Prefix(c, Len(d)) = d

\* Height of the last block two chains share.
ForkPoint(c, d) ==
  Max({h \in 0..Minimum(Len(c), Len(d)) : Prefix(c, h) = Prefix(d, h)})

ReorgAllowed(own, c) == Len(own) - ForkPoint(own, c) <= MaxReorgDepth

Heavier(c, own) == Work(c) > Work(own)

\* The work a block on top of c must have: its target is a function of the
\* headers of c.
WorkAfter(c) == IF c = << >> THEN BaseWork ELSE Last(c).next

\* What the timestamp of a block on top of c can make of the target of the
\* block after it: nothing but at a retarget, and there within a factor of
\* four and never above max_target.
Retargets(c) ==
  LET w == WorkAfter(c)
  IN IF (Len(c) + 2) % Window = 0
     THEN {v \in Works : v <= 4 * w /\ w <= 4 * v /\ v >= BaseWork}
     ELSE {w}

----------------------------------------------------------------------------
(* Transactions. *)

Confirmed(c) == UNION {ToSet(c[h].txs) : h \in DOMAIN c}

\* The nonce the state of chain c expects of each sender.
StateNonces(c) ==
  [s \in Senders |-> Cardinality({t \in Confirmed(c) : Sender[t] = s})]

\* A gap in the nonces goes unnoticed.
NonceAtLeast(next, t) == Nonce[t] >= next[Sender[t]]

\* apply_tx takes a sender's transactions in the order of their nonces.
Applies(next, t) == Nonce[t] = next[Sender[t]]

Applied(next, t) == [next EXCEPT ![Sender[t]] = @ + 1]

HasRoom(pool, t) ==
  /\ Len(pool.txs) < MaxMempoolTxs
  /\ Cardinality({u \in ToSet(pool.txs) : Sender[u] = Sender[t]}) < MaxPending

\* add_tx: what is known already is left alone, what does not apply is refused.
CanAdd(pool, c, t) ==
  /\ t \notin ToSet(pool.txs) \cup Confirmed(c)
  /\ HasRoom(pool, t)
  /\ Applies(pool.next, t)

Add(pool, t) == [txs |-> Append(pool.txs, t), next |-> Applied(pool.next, t)]

EmptyPool(c) == [txs |-> << >>, next |-> StateNonces(c)]

\* The pending transactions that fit, one after the other, on top of c.
Filled(pool, c, Fits(_, _)) ==
  LET filled[i \in 0..Len(pool.txs)] ==
        IF i = 0 THEN EmptyPool(c)
        ELSE IF Fits(filled[i - 1], pool.txs[i])
             THEN Add(filled[i - 1], pool.txs[i])
             ELSE filled[i - 1]
  IN filled[Len(pool.txs)]

\* _rebuild_mempool, and the end of replace_with: the pending transactions
\* are added again, in order, to the state of the new chain.
Rebuilt(pool, c) == Filled(pool, c, LAMBDA acc, t : CanAdd(acc, c, t))

\* One more than fits.
ChosenOneTooMany(pool, c) ==
  Filled(pool, c, LAMBDA acc, t : /\ Len(acc.txs) <= MaxBlockTxs
                                  /\ Applies(acc.next, t)).txs

\* The transactions of block_template: those that apply in order, up to a
\* full block.
Chosen(pool, c) ==
  Filled(pool, c, LAMBDA acc, t : /\ Len(acc.txs) < MaxBlockTxs
                                  /\ Applies(acc.next, t)).txs

\* A body whose transactions all apply on top of c.
ValidBody(c, b) ==
  /\ ToSet(b.txs) \cap Confirmed(c) = {}
  /\ Chosen([EmptyPool(c) EXCEPT !.txs = b.txs], c) = b.txs

\* add_block on top of `own` of the block that ends c.
CanAppend(own, c) ==
  /\ Extends(c, own)
  /\ Last(c).work = WorkAfter(own)
  /\ ValidBody(own, Last(c))

\* Taken for granted: whoever offers a chain has looked at its headers.
CanReplaceUnchecked(own, c) ==
  \A h \in DOMAIN c : ValidBody(Prefix(c, h - 1), c[h])

\* replace_with: more work, no more than MaxReorgDepth blocks undone, and
\* every block replayed.
CanReplace(own, c) ==
  /\ Heavier(c, own)
  /\ ReorgAllowed(own, c)
  /\ \A h \in DOMAIN c : ValidBody(Prefix(c, h - 1), c[h])
=============================================================================
