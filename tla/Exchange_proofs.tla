--------------------------- MODULE Exchange_proofs ---------------------------
(***************************************************************************)
(* The packet market keeps its types, conserves the supply, never lets     *)
(* escrow_locked drift from the purchases it is locked for, and counts in  *)
(* a seller's reputation the rated deliveries and nothing else.            *)
(***************************************************************************)
EXTENDS Exchange, Ledger_proofs

\* The inductive invariant.  The supply alone is not inductive: a settlement
\* takes its price out of escrow_locked, which must therefore cover it, and
\* that is what EscrowBacked says.
IInv == TypeOK /\ SupplyConserved /\ EscrowBacked

\* Held is a natural number per purchase.
LEMMA HeldType == TypeOK => Held \in [EscrowId -> Nat]
BY DEF TypeOK, Held, Pending, Escrow

\* A pending purchase is covered by escrow_locked.
LEMMA PendingCovered ==
  ASSUME IInv, NEW e \in EscrowId, Pending(e)
  PROVE  /\ escrows[e].amount \in Nat
         /\ escrows[e].amount <= escrow_locked
<1>1. Held \in [EscrowId -> Nat]
  BY HeldType DEF IInv
<1>2. Held[e] <= Total(Held, EscrowId)
  BY <1>1, ExchangeAssumption, TotalBound
<1>3. Held[e] = escrows[e].amount
  BY DEF Held
<1> QED BY <1>1, <1>2, <1>3 DEF IInv, EscrowBacked

\* Adding a fresh purchase, or changing one, keeps escrows well typed.
LEMMA EscrowsPutType ==
  ASSUME TypeOK, NEW e \in EscrowId, NEW r \in Escrow,
         escrows' = Put(escrows, e, r)
  PROVE  DOMAIN escrows' \subseteq EscrowId /\ escrows' \in [DOMAIN escrows' -> Escrow]
BY DEF TypeOK, Put

\* A step that opens, settles or re-labels at most one purchase e changes
\* the total held by what e holds more or less.
LEMMA HeldUpdate ==
  ASSUME TypeOK, TypeOK', NEW e \in EscrowId,
         \A x \in EscrowId \ {e} : Held'[x] = Held[x]
  PROVE  Total(Held', EscrowId) = Total(Held, EscrowId) - Held[e] + Held'[e]
<1>1. Held \in [EscrowId -> Nat]
  BY HeldType
<1>2. Held' \in [EscrowId -> Nat]
  BY DEF TypeOK, Held, Pending, Escrow
<1> DEFINE f == Held  g == Held'
<1> HIDE DEF f, g
<1>3. f \in [EscrowId -> Nat] /\ g \in [EscrowId -> Nat]
  BY <1>1, <1>2 DEF f, g
<1>4. \A x \in EscrowId \ {e} : g[x] = f[x]
  BY DEF f, g
<1>5. Total(g, EscrowId) = Total(f, EscrowId) - f[e] + g[e]
  BY <1>3, <1>4, ExchangeAssumption, TotalUpdate
<1> QED BY <1>5 DEF f, g

\* Nothing about purchases changes.
LEMMA HeldUnchanged ==
  ASSUME EscrowBacked, UNCHANGED <<escrows, escrow_locked>>
  PROVE  EscrowBacked'
BY DEF EscrowBacked, Held, Pending

\* The genesis state satisfies the invariant.
LEMMA InitInv == Init => IInv
<1> SUFFICES ASSUME Init PROVE IInv
  OBVIOUS
<1>1. LedgerTypeOK /\ SupplyConserved
  BY LedgerInitInv DEF Init
<1>2. TypeOK
  BY <1>1 DEF Init, TypeOK, NoRatings
<1>3. EscrowBacked
  <2>1. \A e \in EscrowId : Held[e] = 0
    BY DEF Init, Held, Pending
  <2>2. Total(Held, EscrowId) = 0
    BY <2>1, TotalZero
  <2> QED BY <2>2 DEF Init, LedgerInit, EscrowBacked
<1> QED BY <1>1, <1>2, <1>3 DEF IInv

\* Settling a pending purchase of the payee keeps the invariant: the price
\* leaves escrow_locked and reaches the payee, who pays the fee.
LEMMA SettleStep ==
  ASSUME IInv, NEW e \in EscrowId, NEW payee \in Keyed, NEW fee \in Nat,
         NEW status \in {"delivered", "refunded"},
         Pending(e), HasFunds(payee, 0, fee),
         balances' = Debit(Credit(balances, payee, escrows[e].amount), payee, fee),
         fees' = fees + fee,
         escrow_locked' = escrow_locked - escrows[e].amount,
         escrows' = [escrows EXCEPT ![e].status = status],
         UNCHANGED <<llms, mining_pool_remaining, minted, height, packets,
                     reputation>>
  PROVE  IInv'
<1> DEFINE amount == escrows[e].amount
           paid == Credit(balances, payee, amount)
<1>1. amount \in Nat /\ amount <= escrow_locked
  BY PendingCovered
<1>2. payee \in Account /\ balances \in [Account -> Nat]
  BY DEF Account, IInv, TypeOK, LedgerTypeOK
<1>3. paid \in [Account -> Nat] /\ Total(paid, Account) = Total(balances, Account) + amount
  <2> HIDE DEF amount
  <2> QED BY <1>1, <1>2, CreditTotal
<1>4. fee <= paid[payee]
  <2> HIDE DEF amount
  <2> QED BY <1>1, <1>2 DEF Credit, HasFunds
<1>5. /\ balances' \in [Account -> Nat]
      /\ Total(balances', Account) = Total(balances, Account) + amount - fee
  <2> HIDE DEF paid, amount
  <2>1. balances' = Debit(paid, payee, fee)
    BY DEF paid, amount
  <2>2. Total(balances, Account) \in Nat
    BY <1>2, AccountFinite, TotalNat
  <2> QED BY <1>1, <1>2, <1>3, <1>4, <2>1, <2>2, DebitTotal
<1>6. e \in DOMAIN escrows
  BY DEF Pending
<1>7. TypeOK'
  <2>1. escrows \in [DOMAIN escrows -> Escrow] /\ DOMAIN escrows \subseteq EscrowId
    BY DEF IInv, TypeOK
  <2>2. [escrows[e] EXCEPT !.status = status] \in Escrow
    BY <1>6, <2>1 DEF Escrow
  <2>3. DOMAIN escrows' \subseteq EscrowId /\ escrows' \in [DOMAIN escrows' -> Escrow]
    BY <2>1, <2>2
  <2>4. escrow_locked' \in Nat /\ fees' \in Nat
    BY <1>1 DEF IInv, TypeOK, LedgerTypeOK
  <2> QED BY <1>5, <2>3, <2>4 DEF IInv, TypeOK, LedgerTypeOK
<1>8. SupplyConserved'
  <2>1. Total(balances, Account) \in Nat
    BY <1>2, AccountFinite, TotalNat
  <2> QED BY <1>1, <1>5, <2>1 DEF IInv, TypeOK, LedgerTypeOK, SupplyConserved
<1>9. EscrowBacked'
  <2>1. TypeOK
    BY DEF IInv
  <2>2. Held[e] = amount /\ Held'[e] = 0
    BY <1>6, <2>1 DEF Held, Pending, TypeOK
  <2>3. \A x \in EscrowId \ {e} : Held'[x] = Held[x]
    BY <1>6, <2>1 DEF Held, Pending, TypeOK
  <2>4. Total(Held', EscrowId) = Total(Held, EscrowId) - Held[e] + Held'[e]
    BY <1>7, <2>1, <2>3, HeldUpdate
  <2>5. Total(Held, EscrowId) = escrow_locked
    BY DEF IInv, EscrowBacked
  <2>6. escrow_locked \in Nat
    BY DEF IInv, TypeOK, LedgerTypeOK
  <2> QED BY <1>1, <2>2, <2>4, <2>5, <2>6 DEF EscrowBacked
<1> QED BY <1>7, <1>8, <1>9 DEF IInv

\* A market transaction that only pays its fee, and leaves every purchase
\* what it holds.
LEMMA FeeOnlyStep ==
  ASSUME IInv, NEW a \in Keyed, NEW fee \in Fees, PayFee(a, fee),
         UNCHANGED <<llms, escrow_locked, mining_pool_remaining, minted, height>>
  PROVE  LedgerTypeOK' /\ SupplyConserved'
<1>1. fee \in Nat /\ a \in Account
  BY ParameterAssumption DEF Account
<1>2. FeeStep(fee)
  BY <1>1, PayFeeStep DEF IInv, TypeOK
<1>3. SupplyConserved'
  BY <1>1, <1>2, FeeStepConserves DEF IInv, TypeOK
<1> QED BY <1>1, <1>2, <1>3 DEF FeeStep, IInv, TypeOK, LedgerTypeOK

\* Every transaction of the market, and every coinbase, keeps the invariant.
LEMMA NextInv == IInv /\ [Next]_vars => IInv'
<1> SUFFICES ASSUME IInv, [Next]_vars PROVE IInv'
  OBVIOUS
<1>1. CASE LedgerNext /\ UNCHANGED exchangeVars
  <2>1. LedgerTypeOK' /\ SupplyConserved'
    BY <1>1, LedgerStep DEF IInv, TypeOK
  <2>2. escrow_locked' = escrow_locked
    BY <1>1 DEF LedgerNext, Transfer, Gift, RegisterLlm, SealBlock
  <2>3. EscrowBacked'
    BY <1>1, <2>2, HeldUnchanged DEF IInv, exchangeVars
  <2>4. TypeOK'
    BY <1>1, <2>1 DEF IInv, TypeOK, exchangeVars
  <2> QED BY <2>1, <2>3, <2>4 DEF IInv
<1>2. ASSUME NEW a \in Keyed, NEW id \in PacketId, NEW price \in Prices,
             NEW fee \in Fees, ListPacket(a, id, price, fee)
      PROVE  IInv'
  <2>1. LedgerTypeOK' /\ SupplyConserved'
    BY <1>2, FeeOnlyStep DEF ListPacket
  <2>2. EscrowBacked'
    BY <1>2, HeldUnchanged DEF IInv, ListPacket
  <2>3. TypeOK'
    BY <1>2, <2>1, ExchangeAssumption DEF IInv, TypeOK, ListPacket, Put, Packet
  <2> QED BY <2>1, <2>2, <2>3 DEF IInv
<1>3. ASSUME NEW a \in Keyed, NEW id \in PacketId, NEW fee \in Fees,
             DelistPacket(a, id, fee)
      PROVE  IInv'
  <2>1. LedgerTypeOK' /\ SupplyConserved'
    BY <1>3, FeeOnlyStep DEF DelistPacket
  <2>2. EscrowBacked'
    BY <1>3, HeldUnchanged DEF IInv, DelistPacket
  <2>3. TypeOK'
    BY <1>3, <2>1 DEF IInv, TypeOK, DelistPacket, Packet
  <2> QED BY <2>1, <2>2, <2>3 DEF IInv
<1>4. ASSUME NEW a \in Keyed, NEW id \in PacketId, NEW e \in EscrowId,
             NEW fee \in Fees, BuyPacket(a, id, e, fee)
      PROVE  IInv'
  <2> DEFINE price == packets[id].price
             paid == Debit(balances, a, price)
  <2>1. fee \in Nat /\ a \in Account /\ price \in Nat /\ packets[id].seller \in Keyed
        /\ balances \in [Account -> Nat] /\ price + fee <= balances[a]
    BY <1>4, ParameterAssumption
       DEF BuyPacket, Account, IInv, TypeOK, LedgerTypeOK, Packet, HasFunds
  <2>2. paid \in [Account -> Nat] /\ Total(paid, Account) = Total(balances, Account) - price
    <3> HIDE DEF price
    <3> QED BY <2>1, DebitTotal
  <2>3. fee <= paid[a]
    <3> HIDE DEF price
    <3> QED BY <2>1 DEF Debit
  <2>4. /\ balances' \in [Account -> Nat]
        /\ Total(balances', Account) = Total(balances, Account) - price - fee
    <3>1. balances' = Debit(paid, a, fee)
      BY <1>4 DEF BuyPacket
    <3> HIDE DEF paid
    <3> QED BY <2>1, <2>2, <2>3, <3>1, DebitTotal
  <2>5. TypeOK'
    <3> DEFINE r == [packet |-> id, buyer |-> a, seller |-> packets[id].seller,
                     amount |-> price, height |-> height,
                     status |-> "pending", rating |-> 0]
    <3>1. r \in Escrow
      BY <2>1 DEF Escrow, IInv, TypeOK, LedgerTypeOK
    <3>2. escrows' = Put(escrows, e, r)
      BY <1>4 DEF BuyPacket
    <3>3. DOMAIN escrows' \subseteq EscrowId /\ escrows' \in [DOMAIN escrows' -> Escrow]
      <4> HIDE DEF r
      <4> QED BY <3>1, <3>2, EscrowsPutType DEF IInv
    <3>4. escrow_locked' \in Nat
      BY <1>4, <2>1 DEF BuyPacket, IInv, TypeOK, LedgerTypeOK
    <3> QED BY <1>4, <2>1, <2>4, <3>3, <3>4 DEF BuyPacket, IInv, TypeOK, LedgerTypeOK
  <2>6. SupplyConserved'
    <3>1. Total(balances, Account) \in Nat
      BY <2>1, AccountFinite, TotalNat
    <3> QED BY <1>4, <2>1, <2>4, <3>1
            DEF BuyPacket, IInv, TypeOK, LedgerTypeOK, SupplyConserved
  <2>7. EscrowBacked'
    <3>1. TypeOK
      BY DEF IInv
    <3>2. Held[e] = 0 /\ Held'[e] = price
      BY <1>4 DEF BuyPacket, Held, Pending, Put
    <3>3. \A x \in EscrowId \ {e} : Held'[x] = Held[x]
      BY <1>4 DEF BuyPacket, Held, Pending, Put
    <3>4. Total(Held', EscrowId) = Total(Held, EscrowId) - Held[e] + Held'[e]
      BY <2>5, <3>1, <3>3, HeldUpdate
    <3> QED BY <1>4, <2>1, <3>2, <3>4
            DEF BuyPacket, IInv, EscrowBacked, TypeOK, LedgerTypeOK
  <2> QED BY <2>5, <2>6, <2>7 DEF IInv
<1>5. ASSUME NEW a \in Keyed, NEW e \in EscrowId, NEW fee \in Fees,
             DeliverPacket(a, e, fee)
      PROVE  IInv'
  <2>1. fee \in Nat
    BY ParameterAssumption
  <2> QED BY <1>5, <2>1, SettleStep DEF DeliverPacket, Settle
<1>6. ASSUME NEW a \in Keyed, NEW e \in EscrowId, NEW fee \in Fees,
             RefundPacket(a, e, fee)
      PROVE  IInv'
  <2>1. fee \in Nat
    BY ParameterAssumption
  <2> QED BY <1>6, <2>1, SettleStep DEF RefundPacket, Settle
<1>7. ASSUME NEW a \in Keyed, NEW e \in EscrowId, NEW score \in Scores,
             NEW fee \in Fees, RateSeller(a, e, score, fee)
      PROVE  IInv'
  <2>1. LedgerTypeOK' /\ SupplyConserved'
    BY <1>7, FeeOnlyStep DEF RateSeller, MayRate
  <2>2. score \in 0..5
    BY ExchangeAssumption
  <2>3. DOMAIN escrows' \subseteq EscrowId /\ escrows' \in [DOMAIN escrows' -> Escrow]
    BY <1>7, <2>2 DEF RateSeller, MayRate, IInv, TypeOK, Escrow
  <2>4. reputation' \in [Keyed -> [sum: Nat, count: Nat, llm_sum: Nat, llm_count: Nat]]
    <3> DEFINE byLlm == IF Registered(a) THEN 1 ELSE 0
               s == escrows[e].seller
               r == reputation[s]
               n == [sum |-> r.sum + score, count |-> r.count + 1,
                     llm_sum |-> r.llm_sum + byLlm * score,
                     llm_count |-> r.llm_count + byLlm]
    <3>1. s \in Keyed
      BY <1>7 DEF RateSeller, MayRate, IInv, TypeOK, Escrow
    <3>2. r \in [sum: Nat, count: Nat, llm_sum: Nat, llm_count: Nat]
      BY <3>1 DEF IInv, TypeOK
    <3>3. byLlm * score \in Nat /\ byLlm \in Nat /\ score \in Nat
      BY <2>2
    <3>4. n \in [sum: Nat, count: Nat, llm_sum: Nat, llm_count: Nat]
      <4> HIDE DEF byLlm, r
      <4> QED BY <3>2, <3>3
    <3>5. reputation' = [reputation EXCEPT ![s] = n]
      BY <1>7 DEF RateSeller, MayRate
    <3> HIDE DEF n, s
    <3> QED BY <3>1, <3>4, <3>5 DEF IInv, TypeOK
  <2>5. Held' = Held /\ escrow_locked' = escrow_locked
    BY <1>7 DEF RateSeller, MayRate, Held, Pending, IInv, TypeOK
  <2>6. TypeOK'
    BY <1>7, <2>1, <2>3, <2>4 DEF RateSeller, MayRate, IInv, TypeOK
  <2>7. EscrowBacked'
    BY <2>5 DEF IInv, EscrowBacked
  <2> QED BY <2>1, <2>6, <2>7 DEF IInv
<1>8. CASE UNCHANGED vars
  BY <1>8 DEF vars, ledgerVars, exchangeVars, IInv, TypeOK, LedgerTypeOK,
              SupplyConserved, EscrowBacked, Held, Pending
<1> QED BY <1>1, <1>2, <1>3, <1>4, <1>5, <1>6, <1>7, <1>8 DEF Next, Market

\* Type correctness of the market and of the ledger under it.
THEOREM TypeCorrect == Spec => []TypeOK
<1>1. IInv => TypeOK
  BY DEF IInv
<1> QED BY <1>1, InitInv, NextInv, PTL DEF Spec

\* No transaction of the market and no block creates or destroys a seed:
\* check_invariant never raises.
THEOREM MarketConservesSupply == Spec => []SupplyConserved
<1>1. IInv => SupplyConserved
  BY DEF IInv
<1> QED BY <1>1, InitInv, NextInv, PTL DEF Spec

\* escrow_locked is always the sum of the pending purchases.
THEOREM EscrowIsBacked == Spec => []EscrowBacked
<1>1. IInv => EscrowBacked
  BY DEF IInv
<1> QED BY <1>1, InitInv, NextInv, PTL DEF Spec
----------------------------------------------------------------------------
(* Settlement. *)

\* A step that leaves the purchases alone settles nothing.
LEMMA NoSettlement ==
  ASSUME escrows' = escrows
  PROVE  SettlementStep
BY DEF SettlementStep

\* Delivery and refund pay the payee and nobody else.
LEMMA OneSettlement ==
  ASSUME IInv, NEW e \in EscrowId, NEW payee \in Keyed, NEW fee \in Nat,
         NEW status \in {"delivered", "refunded"},
         Pending(e),
         payee = (IF status = "delivered" THEN escrows[e].seller
                  ELSE escrows[e].buyer),
         status = "refunded" => height >= escrows[e].height + EscrowTimeout,
         balances' = Debit(Credit(balances, payee, escrows[e].amount), payee, fee),
         fees' = fees + fee,
         escrows' = [escrows EXCEPT ![e].status = status]
  PROVE  SettlementStep
<1>1. /\ escrows \in [DOMAIN escrows -> Escrow]
      /\ balances \in [Account -> Nat] /\ fees \in Nat /\ height \in Nat
  BY DEF IInv, TypeOK, LedgerTypeOK
<1>2. e \in DOMAIN escrows /\ escrows[e] \in Escrow /\ payee \in Account
  BY <1>1 DEF Pending, Account
<1>3. /\ balances[payee] \in Nat /\ escrows[e].amount \in Nat
      /\ escrows[e].height \in Nat
  BY <1>1, <1>2 DEF Escrow
<1>4. /\ balances'[payee] = balances[payee] + escrows[e].amount - fee
      /\ \A a \in Account \ {payee} : balances'[a] = balances[a]
  <2> DEFINE amount == escrows[e].amount
  <2>1. amount \in Nat /\ balances' = Debit(Credit(balances, payee, amount), payee, fee)
    BY <1>3
  <2> HIDE DEF amount
  <2>2. /\ balances'[payee] = balances[payee] + amount - fee
        /\ \A a \in Account \ {payee} : balances'[a] = balances[a]
    BY <1>1, <1>2, <1>3, <2>1 DEF Credit, Debit
  <2> QED BY <2>2 DEF amount
<1>5. escrows'[e].status = status
  BY <1>1, <1>2 DEF Escrow
<1>6. /\ escrows'[e].buyer = escrows[e].buyer
      /\ escrows'[e].seller = escrows[e].seller
      /\ escrows'[e].amount = escrows[e].amount
      /\ escrows'[e].height = escrows[e].height
  BY <1>2 DEF Escrow
<1>7. balances'[payee] - balances[payee] = escrows[e].amount - (fees' - fees)
  BY <1>1, <1>3, <1>4
<1>8. status = "refunded" => height - escrows[e].height >= EscrowTimeout
  BY <1>1, <1>3, ExchangeAssumption
<1>9. \A x \in DOMAIN escrows \ {e} : escrows'[x] = escrows[x]
  OBVIOUS
<1> QED BY <1>2, <1>4, <1>5, <1>6, <1>7, <1>8, <1>9 DEF SettlementStep, Pending

\* A step that settles a purchase settles it as it must.
LEMMA NextSettlement == IInv /\ [Next]_vars => [SettlementStep]_vars
<1> SUFFICES ASSUME IInv, [Next]_vars PROVE [SettlementStep]_vars
  OBVIOUS
<1>1. CASE LedgerNext /\ UNCHANGED exchangeVars
  BY <1>1, NoSettlement DEF exchangeVars
<1>2. ASSUME NEW a \in Keyed, NEW id \in PacketId, NEW price \in Prices,
             NEW fee \in Fees, ListPacket(a, id, price, fee)
      PROVE  SettlementStep
  BY <1>2, NoSettlement DEF ListPacket
<1>3. ASSUME NEW a \in Keyed, NEW id \in PacketId, NEW fee \in Fees,
             DelistPacket(a, id, fee)
      PROVE  SettlementStep
  BY <1>3, NoSettlement DEF DelistPacket
<1>4. ASSUME NEW a \in Keyed, NEW id \in PacketId, NEW e \in EscrowId,
             NEW fee \in Fees, BuyPacket(a, id, e, fee)
      PROVE  SettlementStep
  <2>1. \A x \in DOMAIN escrows : escrows'[x] = escrows[x]
    BY <1>4 DEF BuyPacket, Put
  <2> QED BY <2>1 DEF SettlementStep
<1>5. ASSUME NEW a \in Keyed, NEW e \in EscrowId, NEW fee \in Fees,
             DeliverPacket(a, e, fee)
      PROVE  SettlementStep
  <2>1. fee \in Nat
    BY ParameterAssumption
  <2> QED BY <1>5, <2>1, OneSettlement DEF DeliverPacket, Settle
<1>6. ASSUME NEW a \in Keyed, NEW e \in EscrowId, NEW fee \in Fees,
             RefundPacket(a, e, fee)
      PROVE  SettlementStep
  <2>1. fee \in Nat
    BY ParameterAssumption
  <2> QED BY <1>6, <2>1, OneSettlement DEF RefundPacket, Expired, Settle
<1>7. ASSUME NEW a \in Keyed, NEW e \in EscrowId, NEW score \in Scores,
             NEW fee \in Fees, RateSeller(a, e, score, fee)
      PROVE  SettlementStep
  <2>1. \A x \in DOMAIN escrows :
          /\ escrows'[x].status = escrows[x].status
          /\ escrows'[x].buyer = escrows[x].buyer
          /\ escrows'[x].seller = escrows[x].seller
          /\ escrows'[x].amount = escrows[x].amount
          /\ escrows'[x].height = escrows[x].height
    BY <1>7 DEF RateSeller, MayRate, IInv, TypeOK, Escrow
  <2> QED BY <2>1 DEF SettlementStep
<1>8. CASE UNCHANGED vars
  BY <1>8
<1> QED BY <1>1, <1>2, <1>3, <1>4, <1>5, <1>6, <1>7, <1>8 DEF Next, Market

\* A settlement pays the party it is due to, once, and nobody else.
THEOREM SettlementIsDue == Spec => SettlementPaysOneParty
<1> QED BY InitInv, NextInv, NextSettlement, PTL DEF Spec, SettlementPaysOneParty
----------------------------------------------------------------------------
(* Reputation. *)

\* A sum that takes in one entry more grows by it.
LEMMA TotalExtend ==
  ASSUME NEW R, IsFiniteSet(R), NEW e, e \notin R,
         NEW f \in [R -> Nat], NEW g \in [R \cup {e} -> Nat],
         \A x \in R : g[x] = f[x]
  PROVE  Total(g, R \cup {e}) = Total(f, R) + g[e]
<1>1. IsFiniteSet(R \cup {e})
  BY FS_AddElement
<1>2. Total(g, R \cup {e}) = Total(g, (R \cup {e}) \ {e}) + g[e]
  BY <1>1, TotalSplit
<1>3. (R \cup {e}) \ {e} = R
  OBVIOUS
<1>4. Units(g, R) = Units(f, R)
  BY DEF Units
<1> QED BY <1>2, <1>3, <1>4 DEF Total

\* Where no rating is given and none is lost, reputation stays earned.
LEMMA RatingsKept ==
  ASSUME ReputationIsEarned, reputation' = reputation,
         \A s \in Keyed : RatedBy(s)' = RatedBy(s),
         \A s \in Keyed : \A e \in RatedBy(s) :
           /\ escrows'[e].rating = escrows[e].rating
           /\ escrows'[e].status = escrows[e].status
  PROVE  ReputationIsEarned'
<1> SUFFICES ASSUME NEW s \in Keyed
             PROVE  /\ reputation'[s].count = Cardinality(RatedBy(s)')
                    /\ reputation'[s].sum
                         = Total([e \in RatedBy(s)' |-> escrows'[e].rating], RatedBy(s)')
                    /\ \A e \in RatedBy(s)' : escrows'[e].status = "delivered"
                    /\ reputation'[s].llm_count <= reputation'[s].count
                    /\ reputation'[s].llm_sum <= reputation'[s].sum
  BY DEF ReputationIsEarned
<1> DEFINE R == RatedBy(s)
<1>1. R' = R
  OBVIOUS
<1>2. /\ reputation[s].count = Cardinality(R)
      /\ reputation[s].sum = Total([e \in R |-> escrows[e].rating], R)
      /\ \A e \in R : escrows[e].status = "delivered"
      /\ reputation[s].llm_count <= reputation[s].count
      /\ reputation[s].llm_sum <= reputation[s].sum
  BY DEF ReputationIsEarned
<1>3. \A e \in R : /\ escrows'[e].rating = escrows[e].rating
                   /\ escrows'[e].status = escrows[e].status
  OBVIOUS
<1>4. [e \in R' |-> escrows'[e].rating] = [e \in R |-> escrows[e].rating]
  <2> HIDE DEF R
  <2> QED BY <1>1, <1>3
<1>5. \A e \in R' : escrows'[e].status = "delivered"
  <2> HIDE DEF R
  <2> QED BY <1>1, <1>2, <1>3
<1> QED BY <1>1, <1>2, <1>4, <1>5

\* A rating is one more for its seller and none for anyone else.
LEMMA RatingCounted ==
  ASSUME TypeOK, TypeOK', ReputationIsEarned,
         NEW a \in Keyed, NEW e \in EscrowId, NEW score \in Scores,
         NEW fee \in Fees, RateSeller(a, e, score, fee)
  PROVE  ReputationIsEarned'
<1> DEFINE byLlm == IF Registered(a) THEN 1 ELSE 0
<1>0. PICK seller \in Keyed : seller = escrows[e].seller
  BY DEF RateSeller, MayRate, TypeOK, Escrow
<1>1. /\ seller \in Keyed /\ e \in DOMAIN escrows
      /\ escrows[e].rating = 0 /\ escrows[e].status = "delivered"
      /\ DOMAIN escrows' = DOMAIN escrows
      /\ escrows' = [escrows EXCEPT ![e].rating = score]
  BY DEF RateSeller, MayRate, TypeOK, Escrow
<1>2. /\ score \in Nat \ {0} /\ byLlm \in {0, 1}
      /\ byLlm * score \in 0..score
  <2>1. score \in Nat \ {0} /\ byLlm \in {0, 1}
    BY ExchangeAssumption
  <2>2. byLlm * score = IF byLlm = 1 THEN score ELSE 0
    <3> HIDE DEF byLlm
    <3> QED BY <2>1
  <2> HIDE DEF byLlm
  <2> QED BY <2>1, <2>2
<1>3. /\ escrows'[e] = [escrows[e] EXCEPT !.rating = score]
      /\ \A x \in DOMAIN escrows \ {e} : escrows'[x] = escrows[x]
  BY <1>1
<1>4. /\ escrows'[e].rating = score /\ escrows'[e].status = "delivered"
      /\ escrows'[e].seller = seller
  BY <1>0, <1>1, <1>3 DEF TypeOK, Escrow
<1> HIDE DEF byLlm
<1>5. /\ RatedBy(seller)' = RatedBy(seller) \cup {e} /\ e \notin RatedBy(seller)
      /\ \A s \in Keyed \ {seller} : RatedBy(s)' = RatedBy(s) /\ e \notin RatedBy(s)
  <2>1. \A s : RatedBy(s)' = {x \in DOMAIN escrows : escrows'[x].seller = s
                                                       /\ escrows'[x].rating # 0}
    BY <1>1 DEF RatedBy
  <2>2. \A x \in DOMAIN escrows \ {e}, s \in Keyed :
          x \in RatedBy(s)' <=> x \in RatedBy(s)
    BY <1>3, <2>1 DEF RatedBy
  <2>3. \A s \in Keyed : e \in RatedBy(s)' <=> s = seller
    BY <1>0, <1>1, <1>2, <1>4, <2>1
  <2>4. \A s \in Keyed : e \notin RatedBy(s)
    BY <1>1 DEF RatedBy
  <2>5. \A s \in Keyed : RatedBy(s) \subseteq DOMAIN escrows
                           /\ RatedBy(s)' \subseteq DOMAIN escrows
    BY <2>1 DEF RatedBy
  <2>6. ASSUME NEW s \in Keyed, s # seller PROVE RatedBy(s)' = RatedBy(s)
    <3>1. \A x \in DOMAIN escrows : x \in RatedBy(s)' <=> x \in RatedBy(s)
      BY <2>2, <2>3, <2>4, <2>6
    <3> QED BY <2>5, <3>1
  <2>7. RatedBy(seller)' = RatedBy(seller) \cup {e}
    <3>1. \A x \in DOMAIN escrows \ {e} :
            x \in RatedBy(seller)' <=> x \in RatedBy(seller)
      BY <1>1, <2>2
    <3>2. e \in RatedBy(seller)'
      BY <1>1, <2>3
    <3> QED BY <1>1, <2>5, <3>1, <3>2
  <2> QED BY <1>1, <2>4, <2>6, <2>7
<1> SUFFICES ASSUME NEW s \in Keyed
             PROVE  /\ reputation'[s].count = Cardinality(RatedBy(s)')
                    /\ reputation'[s].sum
                         = Total([x \in RatedBy(s)' |-> escrows'[x].rating], RatedBy(s)')
                    /\ \A x \in RatedBy(s)' : escrows'[x].status = "delivered"
                    /\ reputation'[s].llm_count <= reputation'[s].count
                    /\ reputation'[s].llm_sum <= reputation'[s].sum
  BY DEF ReputationIsEarned
<1>6. /\ reputation[s].count = Cardinality(RatedBy(s))
      /\ reputation[s].sum
           = Total([x \in RatedBy(s) |-> escrows[x].rating], RatedBy(s))
      /\ \A x \in RatedBy(s) : escrows[x].status = "delivered"
      /\ reputation[s].llm_count <= reputation[s].count
      /\ reputation[s].llm_sum <= reputation[s].sum
  BY DEF ReputationIsEarned
<1>7. \A x \in RatedBy(s) : x \in DOMAIN escrows /\ x # e
  BY <1>5 DEF RatedBy
<1>8. /\ reputation[s] \in [sum: Nat, count: Nat, llm_sum: Nat, llm_count: Nat]
      /\ RatedBy(s) \subseteq EscrowId
  BY DEF TypeOK, RatedBy
<1>9. CASE s # seller
  <2>1. reputation'[s] = reputation[s] /\ RatedBy(s)' = RatedBy(s)
    BY <1>0, <1>5, <1>9 DEF RateSeller, TypeOK
  <2>2. [x \in RatedBy(s)' |-> escrows'[x].rating] = [x \in RatedBy(s) |-> escrows[x].rating]
    <3>1. \A x \in RatedBy(s) : escrows'[x] = escrows[x]
      BY <1>3, <1>7
    <3> QED BY <2>1, <3>1
  <2>3. \A x \in RatedBy(s)' : escrows'[x].status = "delivered"
    BY <1>3, <1>6, <1>7, <2>1
  <2> QED BY <1>6, <2>1, <2>2, <2>3
<1>10. CASE s = seller
  <2>1. reputation'[s] = [sum |-> reputation[s].sum + score,
                          count |-> reputation[s].count + 1,
                          llm_sum |-> reputation[s].llm_sum + byLlm * score,
                          llm_count |-> reputation[s].llm_count + byLlm]
    BY <1>0, <1>10 DEF RateSeller, TypeOK, byLlm
  <2>2. /\ reputation'[s].sum = reputation[s].sum + score
        /\ reputation'[s].count = reputation[s].count + 1
        /\ reputation'[s].llm_sum = reputation[s].llm_sum + byLlm * score
        /\ reputation'[s].llm_count = reputation[s].llm_count + byLlm
    BY <2>1
  <2>3. Cardinality(RatedBy(s)') = Cardinality(RatedBy(s)) + 1
    <3>1. IsFiniteSet(RatedBy(s))
      BY <1>8, ExchangeAssumption, FS_Subset
    <3> QED BY <1>5, <1>10, <3>1, FS_AddElement
  <2>4. Total([x \in RatedBy(s)' |-> escrows'[x].rating], RatedBy(s)')
          = Total([x \in RatedBy(s) |-> escrows[x].rating], RatedBy(s)) + score
    <3> DEFINE R == RatedBy(s)
               f == [x \in RatedBy(s) |-> escrows[x].rating]
               g == [x \in RatedBy(s)' |-> escrows'[x].rating]
    <3>1. IsFiniteSet(R) /\ e \notin R /\ RatedBy(s)' = R \cup {e}
      BY <1>5, <1>8, <1>10, ExchangeAssumption, FS_Subset
    <3>2. f \in [R -> Nat]
      <4>1. \A x \in R : x \in DOMAIN escrows
        BY <1>7
      <4>2. \A x \in DOMAIN escrows : escrows[x].rating \in Nat
        <5>1. \A x \in DOMAIN escrows : escrows[x] \in Escrow
          BY DEF TypeOK
        <5>2. \A r \in Escrow : r.rating \in Nat
          BY DEF Escrow
        <5> QED BY <5>1, <5>2
      <4>3. \A x \in R : escrows[x].rating \in Nat
        BY <4>1, <4>2
      <4>4. f = [x \in R |-> escrows[x].rating]
        OBVIOUS
      <4> HIDE DEF R, f
      <4> QED BY <4>3, <4>4
    <3>3. \A x \in R : escrows'[x].rating = f[x] /\ f[x] \in Nat
      BY <1>3, <1>7, <3>2
    <3>4. g = [x \in R \cup {e} |-> escrows'[x].rating]
      <4> HIDE DEF R
      <4> QED BY <3>1
    <3>5. g \in [R \cup {e} -> Nat] /\ g[e] = score
      <4>1. \A x \in R : escrows'[x].rating \in Nat
        BY <3>3
      <4>2. escrows'[e].rating = score /\ score \in Nat
        BY <1>2, <1>4
      <4>3. \A x \in R \cup {e} : escrows'[x].rating \in Nat
        BY <4>1, <4>2
      <4>4. e \in R \cup {e}
        OBVIOUS
      <4> DEFINE rated(x) == escrows'[x].rating
      <4>5. g = [x \in R \cup {e} |-> rated(x)] /\ rated(e) = score
        BY <3>4, <4>2
      <4>6. \A x \in R \cup {e} : rated(x) \in Nat
        BY <4>3
      <4> HIDE DEF R, g, rated
      <4> QED BY <4>4, <4>5, <4>6
    <3>6. \A x \in R : g[x] = f[x]
      BY <3>3, <3>4
    <3>7. Total(g, R \cup {e}) = Total(f, R) + g[e]
      <4> HIDE DEF R, f, g
      <4> QED BY <3>1, <3>2, <3>5, <3>6, TotalExtend
    <3> QED BY <3>1, <3>5, <3>7
  <2>5. \A x \in RatedBy(s)' : escrows'[x].status = "delivered"
    <3> SUFFICES ASSUME NEW x \in RatedBy(s)'
                 PROVE  escrows'[x].status = "delivered"
      OBVIOUS
    <3>1. x = e \/ x \in RatedBy(s)
      BY <1>5, <1>10
    <3>2. CASE x = e
      BY <1>4, <3>2
    <3>3. CASE x \in RatedBy(s)
      BY <1>3, <1>6, <1>7, <3>3
    <3> QED BY <3>1, <3>2, <3>3
  <2>6. /\ reputation'[s].llm_count <= reputation'[s].count
        /\ reputation'[s].llm_sum <= reputation'[s].sum
    <3>1. /\ reputation[s].sum \in Nat /\ reputation[s].count \in Nat
          /\ reputation[s].llm_sum \in Nat /\ reputation[s].llm_count \in Nat
      BY <1>8
    <3> DEFINE p == byLlm * score
    <3>2. p \in 0..score /\ byLlm \in 0..1
      BY <1>2
    <3>3. /\ reputation'[s].llm_sum = reputation[s].llm_sum + p
          /\ reputation'[s].llm_count = reputation[s].llm_count + byLlm
      BY <2>2
    <3> HIDE DEF p
    <3> QED BY <1>2, <1>6, <2>2, <3>1, <3>2, <3>3
  <2> QED BY <1>6, <2>2, <2>3, <2>4, <2>5, <2>6
<1> QED BY <1>9, <1>10

\* Every step keeps reputation earned, given the types before and after it.
LEMMA NextReputation ==
  ASSUME TypeOK, TypeOK', ReputationIsEarned, [Next]_vars
  PROVE  ReputationIsEarned'
<1>1. CASE UNCHANGED exchangeVars
  BY <1>1, RatingsKept DEF exchangeVars, RatedBy
<1>2. ASSUME NEW a \in Keyed, NEW id \in PacketId, NEW price \in Prices,
             NEW fee \in Fees, ListPacket(a, id, price, fee)
      PROVE  ReputationIsEarned'
  BY <1>2, RatingsKept DEF ListPacket, RatedBy
<1>3. ASSUME NEW a \in Keyed, NEW id \in PacketId, NEW fee \in Fees,
             DelistPacket(a, id, fee)
      PROVE  ReputationIsEarned'
  BY <1>3, RatingsKept DEF DelistPacket, RatedBy
<1>4. ASSUME NEW a \in Keyed, NEW id \in PacketId, NEW e \in EscrowId,
             NEW fee \in Fees, BuyPacket(a, id, e, fee)
      PROVE  ReputationIsEarned'
  <2>1. /\ DOMAIN escrows' = DOMAIN escrows \cup {e} /\ e \notin DOMAIN escrows
        /\ \A x \in DOMAIN escrows : escrows'[x] = escrows[x]
        /\ escrows'[e].rating = 0
        /\ reputation' = reputation
    BY <1>4 DEF BuyPacket, Put
  <2>2. \A s \in Keyed : RatedBy(s)' = RatedBy(s)
    BY <2>1 DEF RatedBy
  <2>3. \A s \in Keyed : \A x \in RatedBy(s) : escrows'[x] = escrows[x]
    BY <2>1 DEF RatedBy
  <2> QED BY <2>1, <2>2, <2>3, RatingsKept
<1>5. ASSUME NEW e \in EscrowId, NEW status, Pending(e),
             escrows' = [escrows EXCEPT ![e].status = status],
             reputation' = reputation
      PROVE  ReputationIsEarned'
  <2>1. \A s \in Keyed : e \notin RatedBy(s)
    BY <1>5 DEF Pending, ReputationIsEarned
  <2>2. /\ DOMAIN escrows' = DOMAIN escrows
        /\ \A x \in DOMAIN escrows \ {e} : escrows'[x] = escrows[x]
        /\ e \in DOMAIN escrows => /\ escrows'[e].rating = escrows[e].rating
                                   /\ escrows'[e].seller = escrows[e].seller
    BY <1>5 DEF TypeOK, Escrow
  <2>3. \A s \in Keyed : RatedBy(s)' = RatedBy(s)
    BY <2>2 DEF RatedBy
  <2>4. \A s \in Keyed : \A x \in RatedBy(s) : escrows'[x] = escrows[x]
    BY <2>1, <2>2 DEF RatedBy
  <2> QED BY <1>5, <2>3, <2>4, RatingsKept
<1>6. ASSUME NEW a \in Keyed, NEW e \in EscrowId, NEW fee \in Fees,
             DeliverPacket(a, e, fee) \/ RefundPacket(a, e, fee)
      PROVE  ReputationIsEarned'
  BY <1>5, <1>6 DEF DeliverPacket, RefundPacket, Settle
<1>7. ASSUME NEW a \in Keyed, NEW e \in EscrowId, NEW score \in Scores,
             NEW fee \in Fees, RateSeller(a, e, score, fee)
      PROVE  ReputationIsEarned'
  BY <1>7, RatingCounted
<1> QED BY <1>1, <1>2, <1>3, <1>4, <1>6, <1>7 DEF Next, Market, vars

\* A seller's reputation is the sum of the ratings on its delivered purchases,
\* whatever is listed, bought, settled, refunded and rated, and in any order.
THEOREM ReputationStaysEarned == Spec => []ReputationIsEarned
<1>1. Init => ReputationIsEarned
  <2> SUFFICES ASSUME Init PROVE ReputationIsEarned
    OBVIOUS
  <2>1. \A s : RatedBy(s) = {}
    BY DEF Init, RatedBy
  <2>2. \A s : Total([e \in RatedBy(s) |-> escrows[e].rating], RatedBy(s)) = 0
    BY <2>1, TotalZero
  <2>3. Cardinality({}) = 0
    BY FS_EmptySet
  <2> SUFFICES ASSUME NEW s \in Keyed
               PROVE  /\ reputation[s].count = Cardinality(RatedBy(s))
                      /\ reputation[s].sum
                           = Total([e \in RatedBy(s) |-> escrows[e].rating], RatedBy(s))
                      /\ \A e \in RatedBy(s) : escrows[e].status = "delivered"
                      /\ reputation[s].llm_count <= reputation[s].count
                      /\ reputation[s].llm_sum <= reputation[s].sum
    BY DEF ReputationIsEarned
  <2>4. reputation[s] = [sum |-> 0, count |-> 0, llm_sum |-> 0, llm_count |-> 0]
    BY DEF Init, NoRatings
  <2>5. Cardinality(RatedBy(s)) = 0 /\ RatedBy(s) = {}
    BY <2>1, <2>3
  <2>6. /\ reputation[s].count = 0 /\ reputation[s].sum = 0
        /\ reputation[s].llm_count = 0 /\ reputation[s].llm_sum = 0
    BY <2>4
  <2> DEFINE total == Total([e \in RatedBy(s) |-> escrows[e].rating], RatedBy(s))
  <2>7. total = 0
    BY <2>2
  <2> HIDE DEF total
  <2>8. reputation[s].sum = total
    BY <2>6, <2>7
  <2> QED BY <2>5, <2>6, <2>8 DEF total
<1>2. TypeOK /\ TypeOK' /\ ReputationIsEarned /\ [Next]_vars => ReputationIsEarned'
  BY NextReputation
<1> QED BY <1>1, <1>2, TypeCorrect, PTL DEF Spec
=============================================================================
