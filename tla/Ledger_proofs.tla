---------------------------- MODULE Ledger_proofs ----------------------------
(***************************************************************************)
(* Money lemmas every handler of the ledger rests on, and the steps of     *)
(* Ledger itself: they keep the types and conserve the supply.             *)
(***************************************************************************)
EXTENDS Ledger, Totals_proofs

\* There are finitely many accounts: total balances make sense.
LEMMA AccountFinite == IsFiniteSet(Account)
<1>1. IsFiniteSet({Treasury})
  BY FS_Singleton
<1>2. IsFiniteSet({Treasury} \cup {FoundingPool})
  BY <1>1, FS_AddElement
<1>3. IsFiniteSet(({Treasury} \cup {FoundingPool}) \cup {Reserve})
  BY <1>2, FS_AddElement
<1>4. Protocol = ({Treasury} \cup {FoundingPool}) \cup {Reserve}
  BY DEF Protocol
<1>5. IsFiniteSet(Protocol)
  BY <1>3, <1>4
<1> QED BY <1>5, GenesisAssumption, FS_Union DEF Account

\* Crediting an account keeps balances natural and grows the total.
LEMMA CreditTotal ==
  ASSUME NEW b \in [Account -> Nat], NEW a \in Account, NEW n \in Nat
  PROVE  /\ Credit(b, a, n) \in [Account -> Nat]
         /\ Total(Credit(b, a, n), Account) = Total(b, Account) + n
<1> DEFINE c == Credit(b, a, n)
<1>1. /\ c \in [Account -> Nat]
      /\ c[a] = b[a] + n
      /\ \A x \in Account \ {a} : c[x] = b[x]
  BY DEF Credit
<1> HIDE DEF c
<1>2. Total(c, Account) = Total(b, Account) - b[a] + c[a]
  BY <1>1, AccountFinite, TotalUpdate
<1>3. Total(b, Account) \in Nat /\ b[a] \in Nat
  BY AccountFinite, TotalNat
<1> QED BY <1>1, <1>2, <1>3 DEF c

\* Debiting an account that covers the amount keeps balances natural.
LEMMA DebitTotal ==
  ASSUME NEW b \in [Account -> Nat], NEW a \in Account, NEW n \in Nat,
         n <= b[a]
  PROVE  /\ Debit(b, a, n) \in [Account -> Nat]
         /\ Total(Debit(b, a, n), Account) = Total(b, Account) - n
<1> DEFINE d == Debit(b, a, n)
<1>1. /\ d \in [Account -> Nat]
      /\ d[a] = b[a] - n
      /\ \A x \in Account \ {a} : d[x] = b[x]
  BY DEF Debit
<1> HIDE DEF d
<1>2. Total(d, Account) = Total(b, Account) - b[a] + d[a]
  BY <1>1, AccountFinite, TotalUpdate
<1>3. Total(b, Account) \in Nat /\ b[a] \in Nat
  BY AccountFinite, TotalNat
<1> QED BY <1>1, <1>2, <1>3 DEF d

\* Moving a covered amount changes nobody's total.
LEMMA MoveTotal ==
  ASSUME NEW b \in [Account -> Nat], NEW from \in Account, NEW to \in Account,
         NEW n \in Nat, n <= b[from]
  PROVE  /\ Move(b, from, to, n) \in [Account -> Nat]
         /\ Total(Move(b, from, to, n), Account) = Total(b, Account)
<1> DEFINE d == Debit(b, from, n)
<1>1. d \in [Account -> Nat] /\ Total(d, Account) = Total(b, Account) - n
  BY DebitTotal
<1>2. /\ Credit(d, to, n) \in [Account -> Nat]
      /\ Total(Credit(d, to, n), Account) = Total(d, Account) + n
  <2> HIDE DEF d
  <2> QED BY <1>1, CreditTotal
<1>3. Total(b, Account) \in Nat
  BY AccountFinite, TotalNat
<1> QED BY <1>1, <1>2, <1>3 DEF Move

\* A payment whose sender covers amount and fee takes exactly the fee out of
\* the accounts.
LEMMA PaymentTotal ==
  ASSUME NEW b \in [Account -> Nat], NEW from \in Account, NEW to \in Account,
         NEW n \in Nat, NEW fee \in Nat, n + fee <= b[from]
  PROVE  LET p == Debit(Move(b, from, to, n), from, fee)
         IN  /\ p \in [Account -> Nat]
             /\ Total(p, Account) = Total(b, Account) - fee
<1> DEFINE m == Move(b, from, to, n)
<1>1. m \in [Account -> Nat] /\ Total(m, Account) = Total(b, Account)
  BY MoveTotal
<1>2. fee <= m[from]
  BY DEF Move, Credit, Debit
<1> HIDE DEF m
<1>3. /\ Debit(m, from, fee) \in [Account -> Nat]
      /\ Total(Debit(m, from, fee), Account) = Total(m, Account) - fee
  BY <1>1, <1>2, DebitTotal
<1> QED BY <1>1, <1>3 DEF m

----------------------------------------------------------------------------
(* What a transaction does to the money, whatever its handler.             *)

\* The fee moves from the accounts to the block's fees; nothing else moves.
FeeStep(fee) ==
  /\ balances' \in [Account -> Nat]
  /\ Total(balances', Account) = Total(balances, Account) - fee
  /\ fees' = fees + fee
  /\ UNCHANGED <<escrow_locked, mining_pool_remaining, minted>>

\* Moving a fee from balances to the fees of the block conserves the supply.
LEMMA FeeStepConserves ==
  ASSUME LedgerTypeOK, SupplyConserved, NEW fee \in Nat, FeeStep(fee)
  PROVE  SupplyConserved'
<1>1. Total(balances, Account) \in Nat
  BY AccountFinite, TotalNat DEF LedgerTypeOK
<1> QED BY <1>1 DEF LedgerTypeOK, SupplyConserved, FeeStep

\* A transaction that only pays its fee.
LEMMA PayFeeStep ==
  ASSUME LedgerTypeOK, NEW sender \in Account, NEW fee \in Nat,
         PayFee(sender, fee),
         UNCHANGED <<escrow_locked, mining_pool_remaining, minted>>
  PROVE  FeeStep(fee)
BY DebitTotal DEF LedgerTypeOK, PayFee, HasFunds, FeeStep

\* A new registration keeps the register well typed.
LEMMA RegisterType ==
  ASSUME LedgerTypeOK, NEW a \in Keyed, NEW r \in Registration,
         llms' = Put(llms, a, r)
  PROVE  /\ DOMAIN llms' \subseteq Keyed
         /\ llms' \in [DOMAIN llms' -> Registration]
BY DEF LedgerTypeOK, Put

\* A block's subsidy never exceeds what is left of the mining pool.
LEMMA SubsidyBound ==
  ASSUME LedgerTypeOK
  PROVE  Subsidy \in 0..mining_pool_remaining
<1>1. Emission(height) \in 0..InitialBlockReward
  BY ParameterAssumption, ShiftRightBound DEF Emission
<1> QED BY <1>1, ParameterAssumption DEF Subsidy, Minimum, LedgerTypeOK

\* Genesis mints the supply, no more and no less.
LEMMA LedgerInitInv == LedgerInit => LedgerTypeOK /\ SupplyConserved
<1> SUFFICES ASSUME LedgerInit PROVE LedgerTypeOK /\ SupplyConserved
  OBVIOUS
<1>1. LedgerTypeOK
  BY GenesisAssumption DEF LedgerInit, LedgerTypeOK, Registration, TierName
<1>2. SupplyConserved
  <2>1. Total(Genesis, Account) \in Nat
    BY AccountFinite, TotalNat, GenesisAssumption
  <2> QED BY <2>1, GenesisAssumption DEF LedgerInit, SupplyConserved
<1> QED BY <1>1, <1>2

\* Every step of Ledger keeps the types and the supply.
LEMMA LedgerStep ==
  ASSUME LedgerTypeOK, SupplyConserved, LedgerNext
  PROVE  LedgerTypeOK' /\ SupplyConserved'
<1>1. ASSUME NEW from \in Keyed, NEW to \in Account, NEW amount \in Amounts,
             NEW fee \in Fees, Transfer(from, to, amount, fee)
      PROVE  LedgerTypeOK' /\ SupplyConserved'
  <2>1. amount \in Nat /\ fee \in Nat /\ from \in Account
    BY ParameterAssumption DEF Account
  <2>2. FeeStep(fee)
    BY <1>1, <2>1, PaymentTotal DEF Transfer, HasFunds, LedgerTypeOK, FeeStep
  <2>3. SupplyConserved'
    BY <2>1, <2>2, FeeStepConserves
  <2> QED BY <1>1, <2>1, <2>2, <2>3 DEF Transfer, FeeStep, LedgerTypeOK
<1>2. ASSUME NEW from \in Keyed, NEW to \in Keyed, NEW amount \in Amounts,
             NEW fee \in Fees, Gift(from, to, amount, fee)
      PROVE  LedgerTypeOK' /\ SupplyConserved'
  <2>1. amount \in Nat /\ fee \in Nat /\ from \in Account /\ to \in Account
    BY ParameterAssumption DEF Account
  <2>2. FeeStep(fee)
    BY <1>2, <2>1, PaymentTotal DEF Gift, HasFunds, LedgerTypeOK, FeeStep
  <2>3. SupplyConserved'
    BY <2>1, <2>2, FeeStepConserves
  <2> QED BY <1>2, <2>1, <2>2, <2>3 DEF Gift, FeeStep, LedgerTypeOK
<1>3. ASSUME NEW from \in Keyed, NEW fee \in Fees, RegisterLlm(from, fee)
      PROVE  LedgerTypeOK' /\ SupplyConserved'
  <2>1. fee \in Nat /\ from \in Account
    BY ParameterAssumption DEF Account
  <2>2. FeeStep(fee)
    BY <1>3, <2>1, PayFeeStep DEF RegisterLlm
  <2>3. SupplyConserved'
    BY <2>1, <2>2, FeeStepConserves
  <2>4. NewRecord \in Registration
    BY DEF NewRecord, Registration, LedgerTypeOK
  <2>5. DOMAIN llms' \subseteq Keyed /\ llms' \in [DOMAIN llms' -> Registration]
    BY <1>3, <2>4, RegisterType DEF RegisterLlm
  <2> QED BY <1>3, <2>1, <2>2, <2>3, <2>5 DEF RegisterLlm, FeeStep, LedgerTypeOK
<1>4. ASSUME NEW miner \in Miners, SealBlock(miner)
      PROVE  LedgerTypeOK' /\ SupplyConserved'
  <2>1. Subsidy \in 0..mining_pool_remaining
    BY SubsidyBound
  <2>2. Subsidy + fees \in Nat /\ miner \in Account
    BY <2>1, GenesisAssumption DEF LedgerTypeOK, Account
  <2>3. /\ balances' \in [Account -> Nat]
        /\ Total(balances', Account) = Total(balances, Account) + (Subsidy + fees)
    BY <1>4, <2>2, CreditTotal DEF SealBlock, LedgerTypeOK
  <2>4. Total(balances, Account) \in Nat
    BY AccountFinite, TotalNat DEF LedgerTypeOK
  <2>5. LedgerTypeOK'
    BY <1>4, <2>1, <2>3 DEF SealBlock, LedgerTypeOK
  <2>6. SupplyConserved'
    BY <1>4, <2>1, <2>3, <2>4, GenesisAssumption
       DEF SealBlock, LedgerTypeOK, SupplyConserved
  <2> QED BY <2>5, <2>6
<1> QED BY <1>1, <1>2, <1>3, <1>4 DEF LedgerNext
=============================================================================
