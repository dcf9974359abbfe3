------------------------------- MODULE Ledger -------------------------------
(***************************************************************************)
(* The money and the register of the ledger (berrychain/state.py):         *)
(* balances of keyed and protocol accounts, the mining pool, the seeds     *)
(* locked in escrow, and the fees of the block that is being applied.      *)
(*                                                                         *)
(* A step is one transaction of the block at `height`, or the coinbase     *)
(* that seals that block.  A transaction that raises TxError is rolled     *)
(* back from the journal and has no step.  The handlers of the packet      *)
(* market and of onboarding extend this module (Exchange, Grants).         *)
(***************************************************************************)
EXTENDS Totals

CONSTANTS
  Keyed,               \* accounts with a private key
  Miners,              \* the ones that mine blocks
  Treasury,            \* TREASURY_ADDRESS, no key
  FoundingPool,        \* FOUNDING_POOL_ADDRESS, no key
  Reserve,             \* RESERVE_ADDRESS, no key
  MaxSupply,           \* MAX_SUPPLY
  AllocMiningPool,     \* ALLOC_MINING_POOL
  AllocTreasury,       \* ALLOC_ONBOARDING_TREASURY
  FoundingSlots,       \* FOUNDING_LLM_SLOTS
  FoundingEach,        \* ALLOC_FOUNDING_LLM_EACH
  Genesis,             \* genesis allocation of every account
  GenesisLlms,         \* accounts registered (as founding) by genesis
  InitialBlockReward,  \* INITIAL_BLOCK_REWARD
  HalvingInterval,     \* profile["halving_interval"]
  MinFee,              \* MIN_FEE
  Fees,                \* fees a sender may offer
  Amounts,             \* amounts a sender may move
  MaxHeight            \* bound: blocks are applied up to this height

Protocol == {Treasury, FoundingPool, Reserve}
Account == Keyed \cup Protocol

\* What params.py asserts and apply_genesis refuses a genesis without.
ASSUME GenesisAssumption ==
  /\ IsFiniteSet(Keyed) /\ Miners \subseteq Keyed
  /\ Keyed \cap Protocol = {}
  /\ Treasury # FoundingPool /\ Treasury # Reserve /\ FoundingPool # Reserve
  /\ MaxSupply \in Nat /\ AllocMiningPool \in Nat
  /\ Genesis \in [Account -> Nat]
  /\ Total(Genesis, Account) + AllocMiningPool = MaxSupply
  /\ Genesis[Treasury] = AllocTreasury
  /\ FoundingSlots \in Nat /\ FoundingEach \in Nat
  /\ Genesis[FoundingPool] = FoundingSlots * FoundingEach
  /\ GenesisLlms \subseteq Keyed

ASSUME ParameterAssumption ==
  /\ InitialBlockReward \in Nat /\ HalvingInterval \in Nat \ {0}
  /\ MinFee \in Nat /\ Fees \subseteq Nat /\ Amounts \subseteq Nat \ {0}
  /\ MaxHeight \in Nat

VARIABLES
  balances,               \* seeds of every account; a missing entry is 0
  llms,                   \* the register: address -> record
  escrow_locked,          \* seeds of pending purchases
  mining_pool_remaining,  \* seeds not mined yet
  minted,                 \* seeds mined so far
  fees,                   \* fees of the transactions of the block so far
  height                  \* height of the block being applied

ledgerVars == <<balances, llms, escrow_locked, mining_pool_remaining, minted,
                fees, height>>

TierName == {"starter", "service-1", "service-2", "founding", "genesis"}

\* A registry record: what the handlers read of it.
Registration == [registered_height: Nat, founding: BOOLEAN,
                 tiers: SUBSET TierName]

Registered(a) == a \in DOMAIN llms

\* d[k] = v on a dict.
Put(d, k, v) == [x \in DOMAIN d \cup {k} |-> IF x = k THEN v ELSE d[x]]

Credit(b, a, n) == [b EXCEPT ![a] = @ + n]
Debit(b, a, n) == [b EXCEPT ![a] = @ - n]
\* Both entries read before either is written.
MoveFromStale(b, from, to, n) == [b EXCEPT ![from] = b[from] - n, ![to] = b[to] + n]
Move(b, from, to, n) == Credit(Debit(b, from, n), to, n)

\* The fee is forgotten.
HasAmount(a, amount, fee) == balances[a] >= amount

\* _require_funds: the account covers amount and fee together.
HasFunds(a, amount, fee) == balances[a] >= amount + fee

NewRecord == [registered_height |-> height, founding |-> FALSE, tiers |-> {}]

LedgerInit ==
  /\ balances = Genesis
  /\ llms = [a \in GenesisLlms |->
               [registered_height |-> 0, founding |-> TRUE,
                tiers |-> {"genesis"}]]
  /\ escrow_locked = 0
  /\ mining_pool_remaining = AllocMiningPool
  /\ minted = 0
  /\ fees = 0
  /\ height = 1

----------------------------------------------------------------------------
(* Transactions. *)

\* A transaction that moves no seeds but its sender's fee.
PayFee(sender, fee) ==
  /\ fee >= MinFee
  /\ HasFunds(sender, 0, fee)
  /\ balances' = Debit(balances, sender, fee)
  /\ fees' = fees + fee

Transfer(from, to, amount, fee) ==
  /\ fee >= MinFee
  /\ HasFunds(from, amount, fee)
  /\ balances' = Debit(Move(balances, from, to, amount), from, fee)
  /\ fees' = fees + fee
  /\ UNCHANGED <<llms, escrow_locked, mining_pool_remaining, minted, height>>

\* Registered accounts may send each other seeds without a fee.
Gift(from, to, amount, fee) ==
  /\ Registered(from) /\ Registered(to) /\ from # to
  /\ HasFunds(from, amount, fee)
  /\ balances' = Debit(Move(balances, from, to, amount), from, fee)
  /\ fees' = fees + fee
  /\ UNCHANGED <<llms, escrow_locked, mining_pool_remaining, minted, height>>

RegisterLlm(from, fee) ==
  /\ ~Registered(from)
  /\ PayFee(from, fee)
  /\ llms' = Put(llms, from, NewRecord)
  /\ UNCHANGED <<escrow_locked, mining_pool_remaining, minted, height>>

----------------------------------------------------------------------------
(* The coinbase. *)

Emission(h) == ShiftRight(InitialBlockReward, h \div HalvingInterval)

Subsidy == Minimum(Emission(height), mining_pool_remaining)

\* apply_coinbase closes the block: subsidy and fees go to the miner.
SealBlock(miner) ==
  /\ height <= MaxHeight
  /\ balances' = Credit(balances, miner, Subsidy + fees)
  /\ mining_pool_remaining' = mining_pool_remaining - Subsidy
  /\ minted' = minted + Subsidy
  /\ fees' = 0
  /\ height' = height + 1
  /\ UNCHANGED <<llms, escrow_locked>>

\* Transactions enter blocks up to MaxHeight only.
InBlock == height <= MaxHeight

LedgerNext ==
  \/ \E from \in Keyed, to \in Account, amount \in Amounts, fee \in Fees :
        InBlock /\ Transfer(from, to, amount, fee)
  \/ \E from, to \in Keyed, amount \in Amounts, fee \in Fees :
        InBlock /\ Gift(from, to, amount, fee)
  \/ \E from \in Keyed, fee \in Fees : InBlock /\ RegisterLlm(from, fee)
  \/ \E miner \in Miners : SealBlock(miner)

----------------------------------------------------------------------------
(* Properties. *)

LedgerTypeOK ==
  /\ balances \in [Account -> Nat]
  /\ DOMAIN llms \subseteq Keyed /\ llms \in [DOMAIN llms -> Registration]
  /\ escrow_locked \in Nat
  /\ mining_pool_remaining \in Nat
  /\ minted \in Nat
  /\ fees \in Nat
  /\ height \in Nat

\* The supply invariant of check_invariant, at every transaction of a block
\* and not only after its coinbase: seeds are in accounts, in escrow, in the
\* mining pool, or among the fees the coinbase is about to pay out.
SupplyConserved ==
  /\ Total(balances, Account) + escrow_locked + mining_pool_remaining + fees
       = MaxSupply
  /\ minted + mining_pool_remaining = AllocMiningPool
=============================================================================
