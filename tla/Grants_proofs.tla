---------------------------- MODULE Grants_proofs ----------------------------
(***************************************************************************)
(* Onboarding and governance keep their types, conserve the supply, leave  *)
(* the registrars a quorum, and give a minority of them no power; a tier   *)
(* is paid once to an identity, grants never grow, and claims are paced.   *)
(***************************************************************************)
EXTENDS Grants, Ledger_proofs, SequenceTheorems

\* The inductive invariant: each part is inductive given the types.
IInv == TypeOK /\ SupplyConserved /\ QuorumReachable

\* A payment that is covered: the fee leaves the accounts and nothing else
\* does, and every other part of the ledger's money stays.
LEMMA PayStep ==
  ASSUME LedgerTypeOK, NEW from \in Account, NEW to \in Account,
         NEW payer \in Account, NEW amount \in Nat, NEW fee \in Nat,
         amount <= balances[from],
         fee <= Move(balances, from, to, amount)[payer],
         Pay(from, to, amount, payer, fee),
         UNCHANGED <<escrow_locked, mining_pool_remaining, minted>>
  PROVE  FeeStep(fee)
<1> DEFINE m == Move(balances, from, to, amount)
<1>1. balances \in [Account -> Nat]
  BY DEF LedgerTypeOK
<1>2. m \in [Account -> Nat] /\ Total(m, Account) = Total(balances, Account)
  BY <1>1, MoveTotal
<1>3. balances' = Debit(m, payer, fee) /\ fee <= m[payer]
  BY DEF Pay
<1> HIDE DEF m
<1>4. /\ balances' \in [Account -> Nat]
      /\ Total(balances', Account) = Total(m, Account) - fee
  BY <1>2, <1>3, DebitTotal
<1> QED BY <1>2, <1>4 DEF FeeStep, Pay

\* The payer of the fee is the account that pays the amount.
LEMMA PayOwnFee ==
  ASSUME LedgerTypeOK, NEW from \in Account, NEW to \in Account,
         NEW amount \in Nat, NEW fee \in Nat,
         HasFunds(from, amount, fee),
         Pay(from, to, amount, from, fee),
         UNCHANGED <<escrow_locked, mining_pool_remaining, minted>>
  PROVE  FeeStep(fee)
<1>1. balances \in [Account -> Nat]
  BY DEF LedgerTypeOK
<1>2. amount <= balances[from] /\ fee <= Move(balances, from, to, amount)[from]
  BY <1>1 DEF HasFunds, Move, Credit, Debit
<1> QED BY <1>2, PayStep

\* The payer of the fee is the account that receives the amount, and has
\* the fee already or receives it.
LEMMA PayFromGrant ==
  ASSUME LedgerTypeOK, NEW from \in Account, NEW to \in Account, from # to,
         NEW amount \in Nat, NEW fee \in Nat,
         HasFunds(from, amount, 0),
         fee <= balances[to] + amount,
         Pay(from, to, amount, to, fee),
         UNCHANGED <<escrow_locked, mining_pool_remaining, minted>>
  PROVE  FeeStep(fee)
<1>1. balances \in [Account -> Nat]
  BY DEF LedgerTypeOK
<1>2. amount <= balances[from] /\ fee <= Move(balances, from, to, amount)[to]
  BY <1>1 DEF HasFunds, Move, Credit, Debit
<1> QED BY <1>2, PayStep

\* A step that only moves the fee keeps the ledger's part of the invariant,
\* when it leaves the register well typed.
LEMMA FeeStepKeepsLedger ==
  ASSUME LedgerTypeOK, SupplyConserved, NEW fee \in Nat, FeeStep(fee),
         height' = height,
         DOMAIN llms' \subseteq Keyed, llms' \in [DOMAIN llms' -> Registration]
  PROVE  LedgerTypeOK' /\ SupplyConserved'
<1>1. SupplyConserved'
  BY FeeStepConserves
<1> QED BY <1>1 DEF FeeStep, LedgerTypeOK

\* The tiers of grants are tiers of accounts.
LEMMA TiersFit == GrantTier \subseteq TierName
BY DEF GrantTier, TierName

\* A grant is a number of seeds, however often it was halved.
LEMMA GrantAmountType ==
  ASSUME TypeOK, NEW t \in GrantTier
  PROVE  GrantAmount(t) \in Nat
<1> DEFINE k == height \div HalvingInterval + grant_counts[t] \div GrantHalvingEvery
<1>1. TierAmount[t] \in Nat
  BY GrantsAssumption
<1>2. ShiftRight(TierAmount[t], k) \in 0..TierAmount[t]
  <2> HIDE DEF k
  <2> QED BY <1>1, ShiftRightBound
<1> QED BY <1>1, <1>2 DEF GrantAmount, Maximum

\* Protocol accounts are accounts, and no key holder's.
LEMMA ProtocolAccounts ==
  /\ Treasury \in Account /\ FoundingPool \in Account /\ Reserve \in Account
  /\ \A a \in Keyed : /\ a \in Account /\ a # Treasury
                      /\ a # FoundingPool /\ a # Reserve
BY GenesisAssumption DEF Account, Protocol

\* The counters of claims per block stay counters.
LEMMA ClaimTypes ==
  ASSUME TypeOK
  PROVE  /\ OneMoreClaim(starter_claims_at) \in ClaimsAt
         /\ OneMoreClaim(grant_claims_at) \in ClaimsAt
BY DEF TypeOK, LedgerTypeOK, OneMoreClaim, ClaimsInBlock, ClaimsAt

\* Issuing a grant keeps the register, the list and the counters well typed.
LEMMA IssueType ==
  ASSUME TypeOK, NEW a \in Keyed, NEW rec \in Registration, NEW t \in GrantTier,
         NEW amount \in Nat, NEW claimed \in BOOLEAN,
         Issue(a, rec, t, amount, claimed)
  PROVE  /\ DOMAIN llms' \subseteq Keyed /\ llms' \in [DOMAIN llms' -> Registration]
         /\ grants' \in Seq(GrantRecord)
         /\ grant_counts' \in [GrantTier -> Nat]
<1>1. [rec EXCEPT !.tiers = @ \cup {t}] \in Registration
  BY TiersFit DEF Registration
<1>2. DOMAIN llms' \subseteq Keyed /\ llms' \in [DOMAIN llms' -> Registration]
  <2> DEFINE r == [rec EXCEPT !.tiers = @ \cup {t}]
  <2>1. llms' = Put(llms, a, r)
    BY DEF Issue
  <2> HIDE DEF r
  <2>2. r \in Registration
    BY <1>1 DEF r
  <2> QED BY <2>1, <2>2, RegisterType DEF TypeOK
<1>3. grants' \in Seq(GrantRecord)
  <2> DEFINE g == [to |-> a, tier |-> t, amount |-> amount,
                   height |-> height, claimed |-> claimed]
  <2>1. g \in GrantRecord
    BY DEF GrantRecord, TypeOK, LedgerTypeOK
  <2>2. grants' = Append(grants, g) /\ grants \in Seq(GrantRecord)
    BY DEF Issue, TypeOK
  <2> HIDE DEF g
  <2> QED BY <2>1, <2>2, AppendProperties
<1>4. grant_counts' \in [GrantTier -> Nat]
  BY DEF Issue, TypeOK
<1> QED BY <1>2, <1>3, <1>4

\* Taking a seat keeps the register and the founder list well typed.
LEMMA SeatType ==
  ASSUME TypeOK, NEW a \in Keyed, Registered(a), NEW claimed \in BOOLEAN,
         Seat(a, claimed)
  PROVE  /\ DOMAIN llms' \subseteq Keyed /\ llms' \in [DOMAIN llms' -> Registration]
         /\ founders' \in Seq(FounderRecord)
<1>1. DOMAIN llms' \subseteq Keyed /\ llms' \in [DOMAIN llms' -> Registration]
  <2>1. llms \in [DOMAIN llms -> Registration] /\ DOMAIN llms \subseteq Keyed
        /\ a \in DOMAIN llms
    BY DEF TypeOK, LedgerTypeOK, Registered
  <2> DEFINE r == [llms[a] EXCEPT !.founding = TRUE, !.tiers = @ \cup {"founding"}]
  <2>2. r \in Registration
    BY <2>1 DEF Registration, TierName
  <2>3. llms' = [llms EXCEPT ![a] = r]
    BY <2>1 DEF Seat
  <2> HIDE DEF r
  <2> QED BY <2>1, <2>2, <2>3
<1>2. founders' \in Seq(FounderRecord)
  <2> DEFINE f == [to |-> a, height |-> height, claimed |-> claimed]
  <2>1. f \in FounderRecord
    BY DEF FounderRecord, TypeOK, LedgerTypeOK
  <2>2. founders' = Append(founders, f) /\ founders \in Seq(FounderRecord)
    BY DEF Seat, TypeOK
  <2> HIDE DEF f
  <2> QED BY <2>1, <2>2, AppendProperties
<1> QED BY <1>1, <1>2

\* So does the record of recent service claims.
LEMMA RecentType ==
  ASSUME TypeOK
  PROVE  LET after == Put(RecentServiceClaims, height, ServiceClaimsAt(height) + 1)
         IN  DOMAIN after \subseteq Nat /\ after \in [DOMAIN after -> Nat]
BY DEF TypeOK, LedgerTypeOK, RecentServiceClaims, ServiceClaimsAt, Put

\* A quorum that is not touched is still one.
LEMMA QuorumKept ==
  ASSUME QuorumReachable, UNCHANGED <<registrars, registrar_threshold>>
  PROVE  QuorumReachable'
BY DEF QuorumReachable

\* The genesis state satisfies the invariant.
LEMMA InitInv == Init => IInv
<1> SUFFICES ASSUME Init PROVE IInv
  OBVIOUS
<1>1. LedgerTypeOK /\ SupplyConserved
  BY LedgerInitInv DEF Init
<1>2. TypeOK
  <2>1. IsFiniteSet(Registrars)
    BY GenesisAssumption, GrantsAssumption, FS_Subset
  <2>2. Threshold \in Nat
    BY <2>1, GrantsAssumption, FS_CardinalityType
  <2> QED BY <1>1, <2>2, GrantsAssumption DEF Init, TypeOK, ClaimsAt
<1>3. QuorumReachable
  BY GenesisAssumption, GrantsAssumption DEF Init, QuorumReachable
<1> QED BY <1>1, <1>2, <1>3 DEF IInv

\* What one onboarding or governance transaction must do to keep IInv.
LEMMA Assemble ==
  ASSUME IInv, NEW fee \in Nat, FeeStep(fee), height' = height,
         DOMAIN llms' \subseteq Keyed, llms' \in [DOMAIN llms' -> Registration],
         mail' \subseteq Keyed \X Keyed,
         grants' \in Seq(GrantRecord), founders' \in Seq(FounderRecord),
         grant_counts' \in [GrantTier -> Nat],
         starter_claims_at' \in ClaimsAt, grant_claims_at' \in ClaimsAt,
         DOMAIN service_claims' \subseteq Nat,
         service_claims' \in [DOMAIN service_claims' -> Nat],
         registrars' \subseteq Keyed, registrar_threshold' \in Nat,
         QuorumReachable'
  PROVE  IInv'
<1>1. LedgerTypeOK' /\ SupplyConserved'
  BY FeeStepKeepsLedger DEF IInv, TypeOK
<1> QED BY <1>1 DEF IInv, TypeOK

\* What newcomers and their correspondents do keeps the invariant.
LEMMA OnboardingStep ==
  ASSUME IInv, Onboarding
  PROVE  IInv'
<1> USE ParameterAssumption, ProtocolAccounts
<1>0. TypeOK /\ LedgerTypeOK /\ QuorumReachable
  BY DEF IInv, TypeOK
<1>1. ASSUME NEW from \in Keyed, NEW to \in Keyed,
             NEW amount \in Amounts \cup {0}, NEW fee \in Fees,
             SendLetter(from, to, amount, fee)
      PROVE  IInv'
  <2>1. FeeStep(fee)
    BY <1>0, <1>1, PayOwnFee DEF SendLetter
  <2>2. QuorumReachable'
    BY <1>0, <1>1, QuorumKept DEF SendLetter
  <2>3. mail' \subseteq Keyed \X Keyed
    BY <1>0, <1>1 DEF SendLetter, TypeOK
  <2> QED BY <1>0, <1>1, <2>1, <2>2, <2>3, Assemble
          DEF SendLetter, TypeOK, LedgerTypeOK
<1>2. ASSUME NEW a \in Keyed, NEW fee \in Fees, ClaimStarter(a, fee)
      PROVE  IInv'
  <2> DEFINE amount == GrantAmount("starter")
  <2>1. amount \in Nat /\ "starter" \in GrantTier
    BY <1>0, GrantAmountType DEF GrantTier
  <2>2. fee <= balances[a] + amount
    <3>1. balances[a] \in Nat /\ amount >= fee
      BY <1>0, <1>2 DEF LedgerTypeOK, ClaimStarter
    <3> HIDE DEF amount
    <3> QED BY <2>1, <3>1
  <2>3. FeeStep(fee)
    <3>1. /\ Pay(Treasury, a, amount, a, fee) /\ HasFunds(Treasury, amount, 0)
          /\ UNCHANGED <<escrow_locked, mining_pool_remaining, minted>>
      BY <1>2 DEF ClaimStarter
    <3> HIDE DEF amount
    <3> QED BY <1>0, <2>1, <2>2, <3>1, PayFromGrant
  <2>4. NewRecord \in Registration
    BY <1>0 DEF NewRecord, Registration, LedgerTypeOK
  <2>5. Issue(a, NewRecord, "starter", amount, TRUE)
    BY <1>2 DEF ClaimStarter
  <2>6. /\ DOMAIN llms' \subseteq Keyed /\ llms' \in [DOMAIN llms' -> Registration]
        /\ grants' \in Seq(GrantRecord)
        /\ grant_counts' \in [GrantTier -> Nat]
    <3> HIDE DEF amount
    <3> QED BY <1>0, <2>1, <2>4, <2>5, IssueType
  <2>7. QuorumReachable'
    BY <1>0, <1>2, QuorumKept DEF ClaimStarter
  <2>8. starter_claims_at' \in ClaimsAt
    BY <1>0, <1>2, ClaimTypes DEF ClaimStarter
  <2> QED BY <1>0, <1>2, <2>3, <2>6, <2>7, <2>8, Assemble
          DEF ClaimStarter, TypeOK
<1>3. ASSUME NEW a \in Keyed, NEW t \in {"service-1", "service-2"},
             NEW fee \in Fees, ClaimService(a, t, fee)
      PROVE  IInv'
  <2> DEFINE amount == GrantAmount(t)
  <2>1. amount \in Nat /\ t \in GrantTier
    BY <1>0, GrantAmountType DEF GrantTier
  <2>2. fee <= balances[a] + amount
    <3>1. balances[a] \in Nat /\ balances[a] >= 0 + fee
      BY <1>0, <1>3 DEF LedgerTypeOK, ClaimService, MayClaim, HasFunds
    <3> HIDE DEF amount
    <3> QED BY <2>1, <3>1
  <2>3. FeeStep(fee)
    <3>1. /\ Pay(Treasury, a, amount, a, fee) /\ HasFunds(Treasury, amount, 0)
          /\ UNCHANGED <<escrow_locked, mining_pool_remaining, minted>>
      BY <1>3 DEF ClaimService
    <3> HIDE DEF amount
    <3> QED BY <1>0, <2>1, <2>2, <3>1, PayFromGrant
  <2>4. llms[a] \in Registration
    BY <1>0, <1>3 DEF ClaimService, MayClaim, Registered, LedgerTypeOK
  <2>5. Issue(a, llms[a], t, amount, TRUE)
    BY <1>3 DEF ClaimService
  <2>6. /\ DOMAIN llms' \subseteq Keyed /\ llms' \in [DOMAIN llms' -> Registration]
        /\ grants' \in Seq(GrantRecord)
        /\ grant_counts' \in [GrantTier -> Nat]
    <3> HIDE DEF amount
    <3> QED BY <1>0, <2>1, <2>4, <2>5, IssueType
  <2>7. QuorumReachable'
    BY <1>0, <1>3, QuorumKept DEF ClaimService
  <2>8. grant_claims_at' \in ClaimsAt
    BY <1>0, <1>3, ClaimTypes DEF ClaimService
  <2>9. /\ DOMAIN service_claims' \subseteq Nat
        /\ service_claims' \in [DOMAIN service_claims' -> Nat]
    BY <1>0, <1>3, RecentType DEF ClaimService, TypeOK
  <2> QED BY <1>0, <1>3, <2>3, <2>6, <2>7, <2>8, <2>9, Assemble
          DEF ClaimService, TypeOK
<1>4. ASSUME NEW a \in Keyed, NEW fee \in Fees, ClaimFounding(a, fee)
      PROVE  IInv'
  <2>1. FoundingEach \in Nat /\ fee <= balances[a] + FoundingEach
    BY <1>0, <1>4, GenesisAssumption
       DEF LedgerTypeOK, ClaimFounding, MayClaim, HasFunds
  <2>2. FeeStep(fee)
    BY <1>0, <1>4, <2>1, PayFromGrant DEF ClaimFounding
  <2>3. /\ DOMAIN llms' \subseteq Keyed /\ llms' \in [DOMAIN llms' -> Registration]
        /\ founders' \in Seq(FounderRecord)
    BY <1>0, <1>4, SeatType DEF ClaimFounding, MayClaim
  <2>4. QuorumReachable'
    BY <1>0, <1>4, QuorumKept DEF ClaimFounding
  <2>5. grant_claims_at' \in ClaimsAt
    BY <1>0, <1>4, ClaimTypes DEF ClaimFounding
  <2> QED BY <1>0, <1>4, <2>2, <2>3, <2>4, <2>5, Assemble
          DEF ClaimFounding, TypeOK
<1> QED BY <1>1, <1>2, <1>3, <1>4 DEF Onboarding

\* So does what registrars do.
LEMMA GovernanceStep ==
  ASSUME IInv, Governance
  PROVE  IInv'
<1> USE ParameterAssumption, GrantsAssumption, ProtocolAccounts
<1>0. TypeOK /\ LedgerTypeOK /\ QuorumReachable
  BY DEF IInv, TypeOK
<1>1. ASSUME NEW approvals \in Approvals, NEW fee \in QuorumFees,
             NEW a \in Keyed, NEW t \in GrantTier, Grant(approvals, a, t, fee)
      PROVE  IInv'
  <2> DEFINE amount == GrantAmount(t)
  <2>1. amount \in Nat
    BY <1>0, GrantAmountType
  <2>2. FeeStep(fee)
    <3>1. /\ Pay(Treasury, a, amount, Treasury, fee)
          /\ HasFunds(Treasury, amount, fee)
          /\ UNCHANGED <<escrow_locked, mining_pool_remaining, minted>>
      BY <1>1 DEF Grant
    <3> HIDE DEF amount
    <3> QED BY <1>0, <2>1, <3>1, PayOwnFee
  <2>3. llms[a] \in Registration
    BY <1>0, <1>1 DEF Grant, Registered, LedgerTypeOK
  <2>4. Issue(a, llms[a], t, amount, FALSE)
    BY <1>1 DEF Grant
  <2>5. /\ DOMAIN llms' \subseteq Keyed /\ llms' \in [DOMAIN llms' -> Registration]
        /\ grants' \in Seq(GrantRecord)
        /\ grant_counts' \in [GrantTier -> Nat]
    <3> HIDE DEF amount
    <3> QED BY <1>0, <2>1, <2>3, <2>4, IssueType
  <2>6. QuorumReachable'
    BY <1>0, <1>1, QuorumKept DEF Grant
  <2> QED BY <1>0, <1>1, <2>2, <2>5, <2>6, Assemble DEF Grant, TypeOK
<1>2. ASSUME NEW approvals \in Approvals, NEW fee \in QuorumFees,
             NEW a \in Keyed, FoundingGrant(approvals, a, fee)
      PROVE  IInv'
  <2>1. FeeStep(fee)
    BY <1>0, <1>2, GenesisAssumption, PayOwnFee DEF FoundingGrant
  <2>2. /\ DOMAIN llms' \subseteq Keyed /\ llms' \in [DOMAIN llms' -> Registration]
        /\ founders' \in Seq(FounderRecord)
    BY <1>0, <1>2, SeatType DEF FoundingGrant
  <2>3. QuorumReachable'
    BY <1>0, <1>2, QuorumKept DEF FoundingGrant
  <2> QED BY <1>0, <1>2, <2>1, <2>2, <2>3, Assemble DEF FoundingGrant, TypeOK
<1>3. ASSUME NEW approvals \in Approvals, NEW fee \in QuorumFees,
             NEW to \in Keyed, NEW amount \in Amounts,
             ReserveTransfer(approvals, to, amount, fee)
      PROVE  IInv'
  <2>1. FeeStep(fee)
    BY <1>0, <1>3, PayOwnFee DEF ReserveTransfer
  <2>2. QuorumReachable'
    BY <1>0, <1>3, QuorumKept DEF ReserveTransfer
  <2> QED BY <1>0, <1>3, <2>1, <2>2, Assemble
          DEF ReserveTransfer, TypeOK, LedgerTypeOK
<1>4. ASSUME NEW approvals \in Approvals, NEW fee \in QuorumFees,
             NEW add \in SUBSET Keyed, NEW remove \in SUBSET Keyed,
             NEW threshold \in 1..Cardinality(Keyed),
             RegistrarUpdate(approvals, add, remove, threshold, fee)
      PROVE  IInv'
  <2>1. FeeStep(fee)
    BY <1>0, <1>4, DebitTotal
       DEF RegistrarUpdate, HasFunds, FeeStep, LedgerTypeOK
  <2>2. registrars' \subseteq Keyed /\ registrar_threshold' \in Nat
    <3>1. Cardinality(Keyed) \in Nat
      BY GenesisAssumption, FS_CardinalityType
    <3>2. threshold \in Nat
      BY <3>1
    <3> QED BY <1>0, <1>4, <3>2 DEF RegistrarUpdate, TypeOK
  <2>3. QuorumReachable'
    <3>1. registrars' # {} /\ registrar_threshold' \in 1..Cardinality(registrars')
      BY <1>4 DEF RegistrarUpdate, SetCovers
    <3>2. registrars' \cap Protocol = {}
      BY <2>2, GenesisAssumption
    <3> QED BY <3>1, <3>2 DEF QuorumReachable
  <2> QED BY <1>0, <1>4, <2>1, <2>2, <2>3, Assemble
          DEF RegistrarUpdate, TypeOK, LedgerTypeOK
<1> QED BY <1>1, <1>2, <1>3, <1>4 DEF Governance

\* Every step keeps the invariant.
LEMMA NextInv == IInv /\ [Next]_vars => IInv'
<1> SUFFICES ASSUME IInv, [Next]_vars PROVE IInv'
  OBVIOUS
<1>1. CASE LedgerNext /\ UNCHANGED grantVars
  <2>1. LedgerTypeOK' /\ SupplyConserved'
    BY <1>1, LedgerStep DEF IInv, TypeOK
  <2>2. TypeOK'
    BY <1>1, <2>1 DEF IInv, TypeOK, grantVars
  <2>3. QuorumReachable'
    BY <1>1, QuorumKept DEF IInv, grantVars
  <2> QED BY <2>1, <2>2, <2>3 DEF IInv
<1>2. CASE Onboarding
  BY <1>2, OnboardingStep
<1>3. CASE Governance
  BY <1>3, GovernanceStep
<1>4. CASE UNCHANGED vars
  BY <1>4 DEF vars, ledgerVars, grantVars, IInv, TypeOK, LedgerTypeOK,
              SupplyConserved, QuorumReachable
<1> QED BY <1>1, <1>2, <1>3, <1>4 DEF Next

\* Type correctness of onboarding and governance.
THEOREM GrantsTypeCorrect == Spec => []TypeOK
<1>1. IInv => TypeOK
  BY DEF IInv
<1> QED BY <1>1, InitInv, NextInv, PTL DEF Spec

\* No claim, letter, registrar transaction or block creates or destroys a
\* seed, whatever the registrars approve.
THEOREM GrantsConserveSupply == Spec => []SupplyConserved
<1>1. IInv => SupplyConserved
  BY DEF IInv
<1> QED BY <1>1, InitInv, NextInv, PTL DEF Spec

\* The registrars can never update themselves out of a quorum.
THEOREM QuorumStaysReachable == Spec => []QuorumReachable
<1>1. IInv => QuorumReachable
  BY DEF IInv
<1> QED BY <1>1, InitInv, NextInv, PTL DEF Spec
----------------------------------------------------------------------------
(* A minority of the registrars. *)

\* Whatever a minority signs is no quorum, however often it signs it.
LEMMA MinorityHasNoQuorum ==
  ASSUME TypeOK, Minority, NEW approvals \in Approvals
  PROVE  ~Quorum(approvals)
<1> DEFINE seen == {approvals[i] : i \in DOMAIN approvals}
<1> SUFFICES ASSUME seen \subseteq registrars,
                    Cardinality(seen) >= registrar_threshold
             PROVE  FALSE
  BY DEF Quorum
<1>1. seen \subseteq Signers \cap registrars
  BY DEF Approvals
<1>2. IsFiniteSet(registrars)
  BY GenesisAssumption, GrantsAssumption, FS_Subset DEF TypeOK
<1>3. IsFiniteSet(Signers \cap registrars)
  BY <1>2, FS_Subset
<1>4. Cardinality(seen) <= Cardinality(Signers \cap registrars)
  BY <1>1, <1>3, FS_Subset
<1>5. Cardinality(seen) \in Nat /\ Cardinality(Signers \cap registrars) \in Nat
  BY <1>1, <1>3, FS_Subset, FS_CardinalityType
<1>6. registrar_threshold \in Nat
  BY DEF TypeOK
<1> HIDE DEF seen
<1> QED BY <1>4, <1>5, <1>6 DEF Minority

\* What an account keeps through a payment it neither makes nor pays for.
LEMMA PayOthers ==
  ASSUME LedgerTypeOK, NEW from \in Account, NEW to \in Account,
         NEW payer \in Account, NEW amount \in Nat, NEW fee \in Nat,
         Pay(from, to, amount, payer, fee), NEW x \in Account,
         x # from, x # payer
  PROVE  balances'[x] >= balances[x]
BY DEF LedgerTypeOK, Pay, Move, Credit, Debit

\* Every protocol account keeps what it has.
ProtocolKeeps == \A p \in Protocol : balances'[p] >= balances[p]

\* What keyed accounts do with their own seeds leaves the protocol's alone.
LEMMA KeyedPays ==
  ASSUME LedgerTypeOK, NEW from \in Keyed, NEW to \in Account,
         NEW amount \in Nat, NEW fee \in Nat, Pay(from, to, amount, from, fee)
  PROVE  ProtocolKeeps
BY PayOthers, ProtocolAccounts DEF ProtocolKeeps, Protocol

\* Transfers, registrations and blocks take nothing from a protocol account.
LEMMA LedgerKeepsProtocol ==
  ASSUME LedgerTypeOK, LedgerNext
  PROVE  ProtocolKeeps
<1> USE ParameterAssumption, GenesisAssumption, ProtocolAccounts
<1>1. ASSUME NEW from \in Keyed, NEW to \in Account, NEW amount \in Amounts,
             NEW fee \in Fees, Transfer(from, to, amount, fee)
      PROVE  ProtocolKeeps
  BY <1>1, KeyedPays DEF Transfer, Pay
<1>2. ASSUME NEW from \in Keyed, NEW to \in Keyed, NEW amount \in Amounts,
             NEW fee \in Fees, Gift(from, to, amount, fee)
      PROVE  ProtocolKeeps
  BY <1>2, KeyedPays DEF Gift, Pay
<1>3. ASSUME NEW from \in Keyed, NEW fee \in Fees, RegisterLlm(from, fee)
      PROVE  ProtocolKeeps
  BY <1>3 DEF RegisterLlm, PayFee, Debit, LedgerTypeOK, ProtocolKeeps, Protocol
<1>4. ASSUME NEW miner \in Miners, SealBlock(miner)
      PROVE  ProtocolKeeps
  BY <1>4 DEF SealBlock, Credit, LedgerTypeOK, ProtocolKeeps, Protocol
<1> QED BY <1>1, <1>2, <1>3, <1>4 DEF LedgerNext

\* The last element of a sequence that was just appended to.
LEMMA LastAppended ==
  ASSUME NEW S, NEW s \in Seq(S), NEW x
  PROVE  LET t == Append(s, x) IN Len(t) > Len(s) /\ t[Len(t)] = x
OBVIOUS

\* With a minority signing, a step leaves the quorum alone and the protocol
\* accounts too, or appends the claim it pays for.
LEMMA PowerlessNext ==
  ASSUME IInv, Minority, Next
  PROVE  PowerlessStep
<1> USE ParameterAssumption, ProtocolAccounts
<1>0. /\ TypeOK /\ LedgerTypeOK /\ balances \in [Account -> Nat]
      /\ balances' \in [Account -> Nat]
  BY NextInv DEF IInv, TypeOK, LedgerTypeOK
<1>1. ASSUME ProtocolKeeps, UNCHANGED <<registrars, registrar_threshold>>
      PROVE  PowerlessStep
  BY <1>0, <1>1 DEF ProtocolKeeps, Protocol, PowerlessStep
<1>2. CASE LedgerNext /\ UNCHANGED grantVars
  BY <1>0, <1>1, <1>2, LedgerKeepsProtocol DEF grantVars
<1>3. ASSUME NEW from \in Keyed, NEW to \in Keyed,
             NEW amount \in Amounts \cup {0}, NEW fee \in Fees,
             SendLetter(from, to, amount, fee)
      PROVE  PowerlessStep
  BY <1>0, <1>1, <1>3, KeyedPays DEF SendLetter
<1>4. ASSUME NEW a \in Keyed, NEW rec, NEW t \in GrantTier, NEW fee \in Fees,
             Pay(Treasury, a, GrantAmount(t), a, fee),
             Issue(a, rec, t, GrantAmount(t), TRUE),
             UNCHANGED <<registrars, registrar_threshold>>
      PROVE  PowerlessStep
  <2>1. GrantAmount(t) \in Nat
    BY <1>0, GrantAmountType
  <2>2. /\ balances'[Reserve] >= balances[Reserve]
        /\ balances'[FoundingPool] >= balances[FoundingPool]
    BY <1>0, <1>4, <2>1, GenesisAssumption, PayOthers
  <2> DEFINE new == [to |-> a, tier |-> t, amount |-> GrantAmount(t),
                     height |-> height, claimed |-> TRUE]
  <2>3. grants \in Seq(GrantRecord) /\ grants' = Append(grants, new) /\ new.claimed
    BY <1>0, <1>4 DEF Issue, TypeOK
  <2> HIDE DEF new
  <2>4. Len(grants') > Len(grants) /\ grants'[Len(grants')] = new
    BY ONLY <2>3, LastAppended
  <2> QED BY <1>0, <1>4, <2>2, <2>3, <2>4 DEF PowerlessStep
<1>5. ASSUME NEW a \in Keyed, NEW fee \in Fees, ClaimStarter(a, fee)
      PROVE  PowerlessStep
  BY <1>4, <1>5 DEF ClaimStarter, GrantTier
<1>6. ASSUME NEW a \in Keyed, NEW t \in {"service-1", "service-2"},
             NEW fee \in Fees, ClaimService(a, t, fee)
      PROVE  PowerlessStep
  BY <1>4, <1>6 DEF ClaimService, GrantTier
<1>7. ASSUME NEW a \in Keyed, NEW fee \in Fees, ClaimFounding(a, fee)
      PROVE  PowerlessStep
  <2>1. /\ balances'[Reserve] >= balances[Reserve]
        /\ balances'[Treasury] >= balances[Treasury]
    BY <1>0, <1>7, GenesisAssumption, PayOthers DEF ClaimFounding
  <2> DEFINE new == [to |-> a, height |-> height, claimed |-> TRUE]
  <2>2. founders \in Seq(FounderRecord) /\ founders' = Append(founders, new) /\ new.claimed
    BY <1>0, <1>7 DEF ClaimFounding, Seat, TypeOK
  <2> HIDE DEF new
  <2>3. Len(founders') > Len(founders) /\ founders'[Len(founders')] = new
    BY ONLY <2>2, LastAppended
  <2> QED BY <1>0, <1>7, <2>1, <2>2, <2>3 DEF PowerlessStep, ClaimFounding
<1>8. CASE Governance
  <2>1. PICK approvals \in Approvals : Quorum(approvals)
    BY <1>8 DEF Governance, Grant, FoundingGrant, ReserveTransfer, RegistrarUpdate
  <2> QED BY <2>1, <1>0, MinorityHasNoQuorum
<1> QED BY <1>2, <1>3, <1>5, <1>6, <1>7, <1>8 DEF Next, Onboarding

\* Fewer registrars than the threshold can neither spend what the protocol
\* holds nor change who may: no single key moves the reserve.
THEOREM MinorityStaysPowerless == Spec => MinorityIsPowerless
<1>1. IInv /\ [Next]_vars => [Minority => PowerlessStep]_vars
  BY PowerlessNext
<1> QED BY <1>1, InitInv, NextInv, PTL DEF Spec, MinorityIsPowerless
----------------------------------------------------------------------------
(* One grant of each tier, one seat, per identity. *)

IssuedOf(t) == {i \in DOMAIN grants : grants[i].tier = t}

\* Appending to a list adds one index and leaves the others what they hold.
LEMMA Appended ==
  ASSUME NEW S, NEW s \in Seq(S), NEW x \in S
  PROVE  /\ DOMAIN Append(s, x) = DOMAIN s \cup {Len(s) + 1}
         /\ Len(s) + 1 \notin DOMAIN s /\ IsFiniteSet(DOMAIN s)
         /\ Append(s, x)[Len(s) + 1] = x
         /\ \A i \in DOMAIN s : Append(s, x)[i] = s[i]
<1>1. Len(s) \in Nat /\ DOMAIN s = 1..Len(s)
  OBVIOUS
<1>2. IsFiniteSet(1..Len(s))
  BY <1>1, FS_Interval
<1> QED BY <1>1, <1>2

\* What issuing a grant adds to the list of grants.
LEMMA IssueAppends ==
  ASSUME TypeOK, NEW a \in Keyed, NEW rec, NEW t \in GrantTier,
         NEW amount \in Nat, NEW claimed \in BOOLEAN,
         Issue(a, rec, t, amount, claimed)
  PROVE  LET n == Len(grants) + 1
         IN /\ DOMAIN grants' = DOMAIN grants \cup {n} /\ n \notin DOMAIN grants
            /\ IsFiniteSet(DOMAIN grants)
            /\ grants'[n] = [to |-> a, tier |-> t, amount |-> amount,
                             height |-> height, claimed |-> claimed]
            /\ \A i \in DOMAIN grants : grants'[i] = grants[i]
<1> DEFINE g == [to |-> a, tier |-> t, amount |-> amount,
                 height |-> height, claimed |-> claimed]
<1>1. g \in GrantRecord
  BY DEF GrantRecord, TypeOK, LedgerTypeOK
<1>2. grants' = Append(grants, g) /\ grants \in Seq(GrantRecord)
  BY DEF Issue, TypeOK
<1> HIDE DEF g
<1>3. /\ DOMAIN grants' = DOMAIN grants \cup {Len(grants) + 1}
      /\ Len(grants) + 1 \notin DOMAIN grants
      /\ IsFiniteSet(DOMAIN grants)
      /\ grants'[Len(grants) + 1] = g
      /\ \A i \in DOMAIN grants : grants'[i] = grants[i]
  BY <1>1, <1>2, Appended
<1> QED BY <1>3 DEF g

\* What taking a seat adds to the list of founders.
LEMMA SeatAppends ==
  ASSUME TypeOK, NEW a \in Keyed, NEW claimed \in BOOLEAN, Seat(a, claimed)
  PROVE  LET n == Len(founders) + 1
         IN /\ DOMAIN founders' = DOMAIN founders \cup {n} /\ n \notin DOMAIN founders
            /\ IsFiniteSet(DOMAIN founders)
            /\ founders'[n] = [to |-> a, height |-> height, claimed |-> claimed]
            /\ \A i \in DOMAIN founders : founders'[i] = founders[i]
            /\ Len(founders') = Len(founders) + 1
<1> DEFINE f == [to |-> a, height |-> height, claimed |-> claimed]
<1>1. f \in FounderRecord
  BY DEF FounderRecord, TypeOK, LedgerTypeOK
<1>2. founders' = Append(founders, f) /\ founders \in Seq(FounderRecord)
  BY DEF Seat, TypeOK
<1> HIDE DEF f
<1>3. /\ DOMAIN founders' = DOMAIN founders \cup {Len(founders) + 1}
      /\ Len(founders) + 1 \notin DOMAIN founders
      /\ IsFiniteSet(DOMAIN founders)
      /\ founders'[Len(founders) + 1] = f
      /\ \A i \in DOMAIN founders : founders'[i] = founders[i]
  BY <1>1, <1>2, Appended
<1>4. Len(founders') = Len(founders) + 1
  BY <1>1, <1>2, AppendProperties
<1> QED BY <1>3, <1>4 DEF f

\* One index more in a set of indices is one more in its size.
LEMMA CountOneMore ==
  ASSUME NEW D, IsFiniteSet(D), NEW A \in SUBSET D, NEW n, n \notin D
  PROVE  IsFiniteSet(A) /\ Cardinality(A \cup {n}) = Cardinality(A) + 1
<1>1. IsFiniteSet(A)
  BY FS_Subset
<1> QED BY <1>1, FS_AddElement

\* A step that issues nothing and seats nobody, and registers at most a
\* newcomer.
NothingIssued ==
  /\ UNCHANGED <<grants, founders, grant_counts, starter_claims_at,
                 grant_claims_at, service_claims>>
  /\ llms' = llms \/ \E x \in Keyed : /\ ~Registered(x)
                                      /\ llms' = Put(llms, x, NewRecord)
  /\ height' = height \/ height' = height + 1

\* Every step is one of these.
LEMMA StepKinds ==
  ASSUME TypeOK, [Next]_vars
  PROVE  \/ NothingIssued
         \/ \E a \in Keyed, fee \in Fees : ClaimStarter(a, fee)
         \/ \E a \in Keyed, t \in {"service-1", "service-2"}, fee \in Fees :
               ClaimService(a, t, fee)
         \/ \E a \in Keyed, fee \in Fees : ClaimFounding(a, fee)
         \/ \E approvals \in Approvals, fee \in QuorumFees, a \in Keyed,
               t \in GrantTier : Grant(approvals, a, t, fee)
         \/ \E approvals \in Approvals, fee \in QuorumFees, a \in Keyed :
               FoundingGrant(approvals, a, fee)
<1>1. CASE LedgerNext /\ UNCHANGED grantVars
  <2>1. ASSUME NEW from \in Keyed, NEW fee \in Fees, RegisterLlm(from, fee)
        PROVE  NothingIssued
    BY <1>1, <2>1 DEF RegisterLlm, NothingIssued, grantVars
  <2>2. ASSUME NEW miner \in Miners, SealBlock(miner)
        PROVE  NothingIssued
    BY <1>1, <2>2 DEF SealBlock, NothingIssued, grantVars
  <2>3. ASSUME NEW from \in Keyed, NEW to \in Account, NEW amount \in Amounts,
               NEW fee \in Fees,
               Transfer(from, to, amount, fee) \/ Gift(from, to, amount, fee)
        PROVE  NothingIssued
    BY <1>1, <2>3 DEF Transfer, Gift, NothingIssued, grantVars
  <2>4. Keyed \subseteq Account
    BY DEF Account
  <2> QED BY <1>1, <2>1, <2>2, <2>3, <2>4 DEF LedgerNext
<1>2. ASSUME NEW from \in Keyed, NEW to \in Keyed,
             NEW amount \in Amounts \cup {0}, NEW fee \in Fees,
             SendLetter(from, to, amount, fee)
      PROVE  NothingIssued
  BY <1>2 DEF SendLetter, NothingIssued
<1>3. CASE Onboarding
  BY <1>2, <1>3 DEF Onboarding
<1>4. ASSUME NEW approvals \in Approvals, NEW fee \in QuorumFees,
             NEW to \in Keyed, NEW amount \in Amounts,
             ReserveTransfer(approvals, to, amount, fee)
      PROVE  NothingIssued
  BY <1>4 DEF ReserveTransfer, NothingIssued
<1>5. ASSUME NEW approvals \in Approvals, NEW fee \in QuorumFees,
             NEW add \in SUBSET Keyed, NEW remove \in SUBSET Keyed,
             NEW threshold \in 1..Cardinality(Keyed),
             RegistrarUpdate(approvals, add, remove, threshold, fee)
      PROVE  NothingIssued
  BY <1>5 DEF RegistrarUpdate, NothingIssued
<1>6. CASE Governance
  BY <1>4, <1>5, <1>6 DEF Governance
<1>7. CASE UNCHANGED vars
  BY <1>7 DEF vars, ledgerVars, grantVars, NothingIssued
<1> QED BY <1>1, <1>3, <1>6, <1>7 DEF Next

\* A grant a handler issues is a record of an account, a tier and an amount.
LEMMA Issuing ==
  ASSUME TypeOK
  PROVE  /\ \A a \in Keyed, fee \in Fees : ClaimStarter(a, fee) =>
              /\ Issue(a, NewRecord, "starter", GrantAmount("starter"), TRUE)
              /\ ~Registered(a) /\ NewRecord \in Registration
              /\ "starter" \notin NewRecord.tiers
         /\ \A a \in Keyed, t \in {"service-1", "service-2"}, fee \in Fees :
              ClaimService(a, t, fee) =>
                /\ Issue(a, llms[a], t, GrantAmount(t), TRUE)
                /\ Registered(a) /\ llms[a] \in Registration
                /\ t \notin llms[a].tiers
         /\ \A approvals \in Approvals, fee \in QuorumFees, a \in Keyed,
               t \in GrantTier : Grant(approvals, a, t, fee) =>
                /\ Issue(a, llms[a], t, GrantAmount(t), FALSE)
                /\ Registered(a) /\ llms[a] \in Registration
                /\ t \notin llms[a].tiers
<1>1. NewRecord \in Registration /\ NewRecord.tiers = {}
  BY DEF TypeOK, LedgerTypeOK, NewRecord, Registration
<1>2. \A a \in Keyed : Registered(a) => llms[a] \in Registration
  BY DEF TypeOK, LedgerTypeOK, Registered
<1> QED BY <1>1, <1>2 DEF ClaimStarter, ClaimService, MayClaim, Grant, AlreadyPaid

\* Nothing issued, nothing paid twice.
LEMMA PaidKept ==
  ASSUME PaidOncePerIdentity, NothingIssued
  PROVE  PaidOncePerIdentity'
<1> USE DEF NothingIssued
<1>1. /\ \A b, u : GrantsTo(b, u)' = GrantsTo(b, u)
      /\ \A b : SeatsOf(b)' = SeatsOf(b)
  BY DEF GrantsTo, SeatsOf
<1>2. \A b, u : Registered(b)' /\ u \in llms'[b].tiers
                  <=> Registered(b) /\ u \in llms[b].tiers
  <2>1. CASE llms' = llms
    BY <2>1 DEF Registered
  <2>2. ASSUME NEW x \in Keyed, ~Registered(x), llms' = Put(llms, x, NewRecord)
        PROVE  \A b, u : Registered(b)' /\ u \in llms'[b].tiers
                           <=> Registered(b) /\ u \in llms[b].tiers
    <3>1. /\ DOMAIN llms' = DOMAIN llms \cup {x} /\ x \notin DOMAIN llms
          /\ llms'[x].tiers = {}
          /\ \A b \in DOMAIN llms : llms'[b] = llms[b]
      BY <2>2 DEF Put, NewRecord, Registered
    <3> QED BY <3>1 DEF Registered
  <2> QED BY <2>1, <2>2
<1>3. ASSUME NEW b \in DOMAIN llms'
      PROVE  llms'[b].founding <=> llms'[b].tiers \cap {"founding", "genesis"} # {}
  <2>1. (b \in DOMAIN llms /\ llms'[b] = llms[b]) \/ llms'[b] = NewRecord
    <3>1. CASE llms' = llms
      BY <1>3, <3>1
    <3>2. ASSUME NEW x \in Keyed, llms' = Put(llms, x, NewRecord)
          PROVE  (b \in DOMAIN llms /\ llms'[b] = llms[b]) \/ llms'[b] = NewRecord
      BY <1>3, <3>2 DEF Put
    <3> QED BY <3>1, <3>2
  <2>2. CASE b \in DOMAIN llms /\ llms'[b] = llms[b]
    BY <2>2 DEF PaidOncePerIdentity
  <2>3. CASE llms'[b] = NewRecord
    BY <2>3 DEF NewRecord
  <2> QED BY <2>1, <2>2, <2>3
<1>4. ASSUME NEW b \in Keyed, NEW t \in GrantTier
      PROVE  Cardinality(GrantsTo(b, t)')
               = IF Registered(b)' /\ t \in llms'[b].tiers THEN 1 ELSE 0
  BY <1>1, <1>2 DEF PaidOncePerIdentity
<1>5. ASSUME NEW b \in Keyed
      PROVE  Cardinality(SeatsOf(b)')
               = IF Registered(b)' /\ "founding" \in llms'[b].tiers THEN 1 ELSE 0
  BY <1>1, <1>2 DEF PaidOncePerIdentity
<1>6. /\ Len(founders') <= FoundingSlots
      /\ \A t \in GrantTier :
           grant_counts'[t] = Cardinality({i \in DOMAIN grants' : grants'[i].tier = t})
  BY DEF PaidOncePerIdentity
<1> QED BY <1>3, <1>4, <1>5, <1>6 DEF PaidOncePerIdentity

\* A grant of a tier the account does not have yet is its first of that tier.
LEMMA IssueOnce ==
  ASSUME TypeOK, PaidOncePerIdentity, founders' = founders,
         NEW a \in Keyed, NEW rec \in Registration, NEW t \in GrantTier,
         NEW amount \in Nat, NEW claimed \in BOOLEAN,
         Issue(a, rec, t, amount, claimed),
         t \notin rec.tiers,
         \/ ~Registered(a) /\ rec = NewRecord
         \/ Registered(a) /\ rec = llms[a]
  PROVE  PaidOncePerIdentity'
<1> DEFINE n == Len(grants) + 1
           r == [rec EXCEPT !.tiers = @ \cup {t}]
<1>1. /\ DOMAIN grants' = DOMAIN grants \cup {n} /\ n \notin DOMAIN grants
      /\ IsFiniteSet(DOMAIN grants)
      /\ grants'[n].to = a /\ grants'[n].tier = t
      /\ \A i \in DOMAIN grants : grants'[i] = grants[i]
  <2>1. /\ DOMAIN grants' = DOMAIN grants \cup {n} /\ n \notin DOMAIN grants
        /\ IsFiniteSet(DOMAIN grants)
        /\ grants'[n] = [to |-> a, tier |-> t, amount |-> amount,
                         height |-> height, claimed |-> claimed]
        /\ \A i \in DOMAIN grants : grants'[i] = grants[i]
    BY IssueAppends
  <2> HIDE DEF n
  <2> QED BY <2>1
<1>2. llms' = Put(llms, a, r) /\ grant_counts' = [grant_counts EXCEPT ![t] = @ + 1]
  BY DEF Issue
<1>3. r.tiers = rec.tiers \cup {t} /\ r.founding = rec.founding
  BY DEF Registration
<1> HIDE DEF n, r
<1>4. /\ Registered(a)' /\ llms'[a] = r
      /\ \A b : b # a => /\ Registered(b)' <=> Registered(b)
                         /\ b \in DOMAIN llms => llms'[b] = llms[b]
  BY <1>2 DEF Registered, Put
<1>5. /\ ~(Registered(a) /\ t \in llms[a].tiers)
      /\ \A u : u \in rec.tiers <=> (Registered(a) /\ u \in llms[a].tiers)
  <2>1. CASE ~Registered(a) /\ rec = NewRecord
    BY <2>1 DEF NewRecord
  <2>2. CASE Registered(a) /\ rec = llms[a]
    BY <2>2
  <2> QED BY <2>1, <2>2
<1>6. ASSUME NEW b \in Keyed, NEW u \in GrantTier
      PROVE  Cardinality(GrantsTo(b, u)')
               = IF Registered(b)' /\ u \in llms'[b].tiers THEN 1 ELSE 0
  <2>1. Cardinality(GrantsTo(b, u))
          = IF Registered(b) /\ u \in llms[b].tiers THEN 1 ELSE 0
    BY DEF PaidOncePerIdentity
  <2>2. CASE b = a /\ u = t
    <3>1. GrantsTo(b, u)' = GrantsTo(b, u) \cup {n}
      BY <1>1, <2>2 DEF GrantsTo
    <3>2. GrantsTo(b, u) \subseteq DOMAIN grants
      BY DEF GrantsTo
    <3>3. Cardinality(GrantsTo(b, u)') = Cardinality(GrantsTo(b, u)) + 1
      BY <1>1, <3>1, <3>2, CountOneMore
    <3>4. Cardinality(GrantsTo(b, u)') = 1
      BY <1>5, <2>1, <2>2, <3>3
    <3> QED BY <1>3, <1>4, <2>2, <3>4
  <2>3. CASE b # a \/ u # t
    <3>1. GrantsTo(b, u)' = GrantsTo(b, u)
      BY <1>1, <2>3 DEF GrantsTo
    <3>2. Registered(b)' /\ u \in llms'[b].tiers
            <=> Registered(b) /\ u \in llms[b].tiers
      BY <1>3, <1>4, <1>5, <2>3 DEF Registered
    <3> QED BY <2>1, <3>1, <3>2
  <2> QED BY <2>2, <2>3
<1>7. ASSUME NEW b \in Keyed
      PROVE  Cardinality(SeatsOf(b)')
               = IF Registered(b)' /\ "founding" \in llms'[b].tiers THEN 1 ELSE 0
  <2>1. SeatsOf(b)' = SeatsOf(b)
    BY DEF SeatsOf
  <2>2. Registered(b)' /\ "founding" \in llms'[b].tiers
          <=> Registered(b) /\ "founding" \in llms[b].tiers
    BY <1>3, <1>4, <1>5 DEF Registered, GrantTier
  <2>3. Cardinality(SeatsOf(b))
          = IF Registered(b) /\ "founding" \in llms[b].tiers THEN 1 ELSE 0
    BY DEF PaidOncePerIdentity
  <2> QED BY <2>1, <2>2, <2>3
<1>8. ASSUME NEW b \in DOMAIN llms'
      PROVE  llms'[b].founding <=> llms'[b].tiers \cap {"founding", "genesis"} # {}
  <2>1. CASE b = a
    <3>1. rec.founding <=> rec.tiers \cap {"founding", "genesis"} # {}
      BY DEF NewRecord, Registered, PaidOncePerIdentity
    <3>2. r.tiers \cap {"founding", "genesis"} = rec.tiers \cap {"founding", "genesis"}
      BY <1>3 DEF GrantTier
    <3> QED BY <1>3, <1>4, <2>1, <3>1, <3>2
  <2>2. CASE b # a
    BY <1>4, <1>8, <2>2 DEF PaidOncePerIdentity, Registered
  <2> QED BY <2>1, <2>2
<1>9. ASSUME NEW u \in GrantTier
      PROVE  grant_counts'[u] = Cardinality({i \in DOMAIN grants' : grants'[i].tier = u})
  <2>1. grant_counts[u] = Cardinality(IssuedOf(u))
    BY DEF PaidOncePerIdentity, IssuedOf
  <2>2. CASE u = t
    <3>1. {i \in DOMAIN grants' : grants'[i].tier = u} = IssuedOf(u) \cup {n}
      BY <1>1, <2>2 DEF IssuedOf
    <3>2. IssuedOf(u) \subseteq DOMAIN grants
      BY DEF IssuedOf
    <3>3. Cardinality(IssuedOf(u) \cup {n}) = Cardinality(IssuedOf(u)) + 1
      BY <1>1, <3>2, CountOneMore
    <3>4. grant_counts'[u] = grant_counts[u] + 1
      BY <1>2, <2>2 DEF TypeOK
    <3> QED BY <2>1, <3>1, <3>3, <3>4
  <2>3. CASE u # t
    <3>1. {i \in DOMAIN grants' : grants'[i].tier = u} = IssuedOf(u)
      BY <1>1, <2>3 DEF IssuedOf
    <3>2. grant_counts'[u] = grant_counts[u]
      BY <1>2, <2>3 DEF TypeOK
    <3> QED BY <2>1, <3>1, <3>2
  <2> QED BY <2>2, <2>3
<1>10. Len(founders') <= FoundingSlots
  BY DEF PaidOncePerIdentity
<1> QED BY <1>6, <1>7, <1>8, <1>9, <1>10 DEF PaidOncePerIdentity

\* A seat goes to an account that holds none, while one is left.
LEMMA SeatOnce ==
  ASSUME TypeOK, PaidOncePerIdentity, UNCHANGED <<grants, grant_counts>>,
         NEW a \in Keyed, NEW claimed \in BOOLEAN, Registered(a),
         SeatFree(a), Seat(a, claimed)
  PROVE  PaidOncePerIdentity'
<1> DEFINE n == Len(founders) + 1
           r == [llms[a] EXCEPT !.founding = TRUE, !.tiers = @ \cup {"founding"}]
<1>1. /\ DOMAIN founders' = DOMAIN founders \cup {n} /\ n \notin DOMAIN founders
      /\ IsFiniteSet(DOMAIN founders) /\ Len(founders') = Len(founders) + 1
      /\ founders'[n].to = a
      /\ \A i \in DOMAIN founders : founders'[i] = founders[i]
  <2>1. /\ DOMAIN founders' = DOMAIN founders \cup {n} /\ n \notin DOMAIN founders
        /\ IsFiniteSet(DOMAIN founders) /\ Len(founders') = Len(founders) + 1
        /\ founders'[n] = [to |-> a, height |-> height, claimed |-> claimed]
        /\ \A i \in DOMAIN founders : founders'[i] = founders[i]
    BY SeatAppends
  <2> HIDE DEF n
  <2> QED BY <2>1
<1>2. llms' = [llms EXCEPT ![a] = r]
  <2>1. llms \in [DOMAIN llms -> Registration] /\ a \in DOMAIN llms
    BY DEF TypeOK, LedgerTypeOK, Registered
  <2>2. llms' = [llms EXCEPT ![a].founding = TRUE, ![a].tiers = @ \cup {"founding"}]
    BY DEF Seat
  <2> QED BY <2>1, <2>2
<1>3. /\ llms[a] \in Registration /\ ~llms[a].founding
      /\ r.tiers = llms[a].tiers \cup {"founding"} /\ r.founding
  <2>1. llms[a] \in Registration
    BY DEF TypeOK, LedgerTypeOK, Registered
  <2> QED BY <2>1 DEF Registration, SeatFree
<1>4. "founding" \notin llms[a].tiers
  BY <1>3 DEF PaidOncePerIdentity, Registered
<1> HIDE DEF n, r
<1>5. /\ llms'[a] = r /\ DOMAIN llms' = DOMAIN llms
      /\ \A b \in DOMAIN llms : b # a => llms'[b] = llms[b]
  BY <1>2 DEF Registered
<1>6. ASSUME NEW b \in Keyed, NEW u \in GrantTier
      PROVE  Cardinality(GrantsTo(b, u)')
               = IF Registered(b)' /\ u \in llms'[b].tiers THEN 1 ELSE 0
  <2>1. GrantsTo(b, u)' = GrantsTo(b, u) /\ u # "founding"
    BY DEF GrantsTo, GrantTier
  <2>2. Registered(b)' /\ u \in llms'[b].tiers
          <=> Registered(b) /\ u \in llms[b].tiers
    BY <1>3, <1>5, <2>1 DEF Registered
  <2> QED BY <2>1, <2>2 DEF PaidOncePerIdentity
<1>7. ASSUME NEW b \in Keyed
      PROVE  Cardinality(SeatsOf(b)')
               = IF Registered(b)' /\ "founding" \in llms'[b].tiers THEN 1 ELSE 0
  <2>1. Cardinality(SeatsOf(b))
          = IF Registered(b) /\ "founding" \in llms[b].tiers THEN 1 ELSE 0
    BY DEF PaidOncePerIdentity
  <2>2. CASE b = a
    <3>1. SeatsOf(b)' = SeatsOf(b) \cup {n} /\ SeatsOf(b) \subseteq DOMAIN founders
      BY <1>1, <2>2 DEF SeatsOf
    <3>2. Cardinality(SeatsOf(b)') = Cardinality(SeatsOf(b)) + 1
      BY <1>1, <3>1, CountOneMore
    <3> QED BY <1>3, <1>4, <1>5, <2>1, <2>2, <3>2 DEF Registered
  <2>3. CASE b # a
    <3>1. SeatsOf(b)' = SeatsOf(b)
      BY <1>1, <2>3 DEF SeatsOf
    <3> QED BY <1>5, <2>1, <2>3, <3>1 DEF Registered
  <2> QED BY <2>2, <2>3
<1>8. ASSUME NEW b \in DOMAIN llms'
      PROVE  llms'[b].founding <=> llms'[b].tiers \cap {"founding", "genesis"} # {}
  BY <1>3, <1>5, <1>8 DEF PaidOncePerIdentity
<1>9. Len(founders') <= FoundingSlots
  <2>1. Len(founders) \in Nat /\ FoundingSlots \in Nat
    BY GenesisAssumption DEF TypeOK
  <2> QED BY <1>1, <2>1 DEF SeatFree
<1>10. \A u \in GrantTier :
         grant_counts'[u] = Cardinality({i \in DOMAIN grants' : grants'[i].tier = u})
  BY DEF PaidOncePerIdentity
<1> QED BY <1>6, <1>7, <1>8, <1>9, <1>10 DEF PaidOncePerIdentity

\* Every step keeps it.
LEMMA NextPaidOnce ==
  ASSUME TypeOK, PaidOncePerIdentity, [Next]_vars
  PROVE  PaidOncePerIdentity'
<1>0. "starter" \in GrantTier /\ {"service-1", "service-2"} \subseteq GrantTier
  BY DEF GrantTier
<1>1. CASE NothingIssued
  BY <1>1, PaidKept
<1>2. ASSUME NEW a \in Keyed, NEW fee \in Fees, ClaimStarter(a, fee)
      PROVE  PaidOncePerIdentity'
  <2>1. GrantAmount("starter") \in Nat /\ founders' = founders
    BY <1>0, <1>2, GrantAmountType DEF ClaimStarter
  <2> QED BY <1>0, <1>2, <2>1, Issuing, IssueOnce
<1>3. ASSUME NEW a \in Keyed, NEW t \in {"service-1", "service-2"},
             NEW fee \in Fees, ClaimService(a, t, fee)
      PROVE  PaidOncePerIdentity'
  <2>1. t \in GrantTier /\ GrantAmount(t) \in Nat /\ founders' = founders
    BY <1>0, <1>3, GrantAmountType DEF ClaimService
  <2> QED BY <1>3, <2>1, Issuing, IssueOnce
<1>4. ASSUME NEW approvals \in Approvals, NEW fee \in QuorumFees,
             NEW a \in Keyed, NEW t \in GrantTier, Grant(approvals, a, t, fee)
      PROVE  PaidOncePerIdentity'
  <2>1. GrantAmount(t) \in Nat /\ founders' = founders
    BY <1>4, GrantAmountType DEF Grant
  <2> QED BY <1>4, <2>1, Issuing, IssueOnce
<1>5. ASSUME NEW a \in Keyed, NEW fee \in Fees, ClaimFounding(a, fee)
      PROVE  PaidOncePerIdentity'
  BY <1>5, SeatOnce DEF ClaimFounding, MayClaim
<1>6. ASSUME NEW approvals \in Approvals, NEW fee \in QuorumFees,
             NEW a \in Keyed, FoundingGrant(approvals, a, fee)
      PROVE  PaidOncePerIdentity'
  BY <1>6, SeatOnce DEF FoundingGrant
<1> QED BY <1>1, <1>2, <1>3, <1>4, <1>5, <1>6, StepKinds

\* No identity is paid a tier or given a seat twice, by claim, by registrars or
\* by both, and the register, the lists and the counters stay in step.
THEOREM TiersArePaidOnce == Spec => []PaidOncePerIdentity
<1>1. Init => PaidOncePerIdentity
  <2> SUFFICES ASSUME Init PROVE PaidOncePerIdentity
    OBVIOUS
  <2>1. /\ \A b, t : GrantsTo(b, t) = {}
        /\ \A b : SeatsOf(b) = {}
        /\ \A t : {i \in DOMAIN grants : grants[i].tier = t} = {}
    BY DEF Init, GrantsTo, SeatsOf
  <2>2. Cardinality({}) = 0
    BY FS_EmptySet
  <2>3. \A b \in DOMAIN llms : llms[b].founding /\ llms[b].tiers = {"genesis"}
    BY DEF Init, LedgerInit
  <2>4. /\ \A b \in Keyed, t \in GrantTier : ~(Registered(b) /\ t \in llms[b].tiers)
        /\ \A b \in Keyed : ~(Registered(b) /\ "founding" \in llms[b].tiers)
        /\ \A b \in DOMAIN llms :
             llms[b].founding <=> llms[b].tiers \cap {"founding", "genesis"} # {}
    BY <2>3 DEF Registered, GrantTier
  <2>5. Len(founders) <= FoundingSlots /\ \A t \in GrantTier : grant_counts[t] = 0
    BY GenesisAssumption DEF Init
  <2> QED BY <2>1, <2>2, <2>4, <2>5 DEF PaidOncePerIdentity
<1>2. TypeOK /\ PaidOncePerIdentity /\ [Next]_vars => PaidOncePerIdentity'
  BY NextPaidOnce
<1> QED BY <1>1, <1>2, GrantsTypeCorrect, PTL DEF Spec
----------------------------------------------------------------------------
(* Grants shrink as the network grows. *)

\* The inductive invariant: no grant of a tier was ever smaller than the next
\* one of it would be, and that one only shrinks.
NextIsSmallest ==
  \A i \in DOMAIN grants : /\ grants[i].amount \in Nat
                           /\ grants[i].amount >= 1
                           /\ grants[i].amount >= GrantAmount(grants[i].tier)

\* What a grant is made of.
LEMMA GrantTyped ==
  ASSUME TypeOK, NEW i \in DOMAIN grants
  PROVE  /\ grants[i].to \in Keyed /\ grants[i].tier \in GrantTier
         /\ grants[i].amount \in Nat /\ grants[i].height \in Nat
         /\ grants[i].claimed \in BOOLEAN
<1>1. grants[i] \in GrantRecord
  BY DEF TypeOK
<1> QED BY <1>1 DEF GrantRecord

\* How often a grant of the tier is halved.
Halvings(t) == height \div HalvingInterval + grant_counts[t] \div GrantHalvingEvery

\* The grant of a tier is a number of seeds that never grows, as the chain
\* and the number of grants only do.
LEMMA GrantAmountFalls ==
  ASSUME TypeOK, TypeOK', NEW t \in GrantTier,
         height <= height', grant_counts[t] <= grant_counts'[t]
  PROVE  /\ GrantAmount(t) \in Nat /\ GrantAmount(t) >= 1
         /\ GrantAmount(t)' \in Nat /\ GrantAmount(t)' <= GrantAmount(t)
<1>1. /\ height \in Nat /\ height' \in Nat
      /\ grant_counts[t] \in Nat /\ grant_counts'[t] \in Nat
      /\ TierAmount[t] \in Nat
      /\ HalvingInterval \in Nat \ {0} /\ GrantHalvingEvery \in Nat \ {0}
  BY GrantsAssumption, ParameterAssumption DEF TypeOK, LedgerTypeOK
<1>2. Halvings(t) \in Nat /\ Halvings(t)' \in Nat /\ Halvings(t) <= Halvings(t)'
  <2>1. /\ height \div HalvingInterval \in Nat /\ height' \div HalvingInterval \in Nat
        /\ height \div HalvingInterval <= height' \div HalvingInterval
    BY <1>1, DivGrows
  <2> DEFINE n == grant_counts[t]
             m == grant_counts'[t]
  <2>2. /\ n \div GrantHalvingEvery \in Nat /\ m \div GrantHalvingEvery \in Nat
        /\ n \div GrantHalvingEvery <= m \div GrantHalvingEvery
    <3> HIDE DEF n, m
    <3>1. n \in Nat /\ m \in Nat /\ n <= m
      BY <1>1 DEF n, m
    <3> QED BY <1>1, <3>1, DivGrows
  <2> QED BY <2>1, <2>2 DEF Halvings
<1> DEFINE x == ShiftRight(TierAmount[t], Halvings(t))
           y == ShiftRight(TierAmount[t], Halvings(t)')
<1>3. x \in Nat /\ y \in Nat /\ y <= x
  <2> DEFINE v == TierAmount[t]  j == Halvings(t)  k == Halvings(t)'
  <2>1. v \in Nat /\ j \in Nat /\ k \in Nat /\ j <= k
    BY <1>1, <1>2
  <2> HIDE DEF v, j, k
  <2>2. ShiftRight(v, j) \in 0..v /\ ShiftRight(v, k) \in 0..v
    BY <2>1, ShiftRightBound
  <2>3. ShiftRight(v, k) <= ShiftRight(v, j)
    BY <2>1, ShiftRightFalls
  <2> QED BY <2>1, <2>2, <2>3 DEF v, j, k
<1>4. GrantAmount(t) = Maximum(1, x) /\ GrantAmount(t)' = Maximum(1, y)
  BY DEF GrantAmount, Halvings
<1> HIDE DEF x, y
<1> QED BY <1>3, <1>4 DEF Maximum

\* Nothing issued: the amounts stay and what comes next does not grow.
LEMMA AmountsKept ==
  ASSUME TypeOK, TypeOK', GrantsNeverGrow, NextIsSmallest,
         grants' = grants, grant_counts' = grant_counts, height <= height'
  PROVE  GrantsNeverGrow' /\ NextIsSmallest'
<1>1. GrantsNeverGrow'
  BY DEF GrantsNeverGrow
<1>2. ASSUME NEW i \in DOMAIN grants
      PROVE  grants[i].amount >= GrantAmount(grants[i].tier)'
  <2>1. PICK t \in GrantTier : t = grants[i].tier
    BY <1>2, GrantTyped
  <2>2. grant_counts[t] \in Nat
    BY DEF TypeOK
  <2>3. /\ GrantAmount(t) \in Nat /\ GrantAmount(t)' \in Nat
        /\ GrantAmount(t)' <= GrantAmount(t)
    BY <2>2, GrantAmountFalls
  <2>4. grants[i].amount \in Nat /\ grants[i].amount >= GrantAmount(t)
    BY <2>1 DEF NextIsSmallest
  <2>5. GrantAmount(grants[i].tier)' = GrantAmount(t)'
    BY <2>1 DEF GrantAmount
  <2> QED BY <2>3, <2>4, <2>5
<1> QED BY <1>1, <1>2 DEF NextIsSmallest

\* A grant of what the tier pays now is the smallest of its tier so far.
LEMMA IssueSmallest ==
  ASSUME TypeOK, TypeOK', GrantsNeverGrow, NextIsSmallest, height' = height,
         NEW a \in Keyed, NEW rec, NEW t \in GrantTier, NEW claimed \in BOOLEAN,
         Issue(a, rec, t, GrantAmount(t), claimed)
  PROVE  GrantsNeverGrow' /\ NextIsSmallest'
<1>0. GrantAmount(t) \in Nat /\ height \in Nat
  BY GrantAmountType DEF TypeOK, LedgerTypeOK
<1>1. PICK n : /\ DOMAIN grants' = DOMAIN grants \cup {n} /\ n = Len(grants) + 1
               /\ n \notin DOMAIN grants
               /\ grants'[n].tier = t /\ grants'[n].amount = GrantAmount(t)
               /\ \A i \in DOMAIN grants : grants'[i] = grants[i]
  <2> DEFINE n == Len(grants) + 1
             amount == GrantAmount(t)
  <2>1. /\ DOMAIN grants' = DOMAIN grants \cup {n} /\ n \notin DOMAIN grants
        /\ grants'[n] = [to |-> a, tier |-> t, amount |-> amount,
                         height |-> height, claimed |-> claimed]
        /\ \A i \in DOMAIN grants : grants'[i] = grants[i]
    <3> HIDE DEF amount
    <3>1. amount \in Nat /\ Issue(a, rec, t, amount, claimed)
      BY <1>0 DEF amount
    <3> QED BY <3>1, IssueAppends
  <2> HIDE DEF amount
  <2>2. grants'[n].tier = t /\ grants'[n].amount = amount
    BY <2>1
  <2> QED BY <2>1, <2>2 DEF amount
<1>2. \A u \in GrantTier : /\ grant_counts[u] \in Nat
                           /\ grant_counts[u] <= grant_counts'[u]
  BY DEF Issue, TypeOK
<1>3. \A u \in GrantTier : /\ GrantAmount(u) \in Nat /\ GrantAmount(u) >= 1
                           /\ GrantAmount(u)' \in Nat
                           /\ GrantAmount(u)' <= GrantAmount(u)
  BY <1>0, <1>2, GrantAmountFalls
<1>4. \A i \in DOMAIN grants : /\ grants[i].tier \in GrantTier
                               /\ grants[i].amount \in Nat
                               /\ grants[i].amount >= 1
                               /\ grants[i].amount >= GrantAmount(grants[i].tier)
  BY GrantTyped DEF NextIsSmallest
<1>5. \A i \in DOMAIN grants : i < n
  BY <1>1 DEF TypeOK
<1>6. \A i \in DOMAIN grants : i \in Nat
  BY DEF TypeOK
<1>7. GrantsNeverGrow'
  <2> SUFFICES ASSUME NEW i \in DOMAIN grants', NEW j \in DOMAIN grants',
                      i <= j, grants'[i].tier = grants'[j].tier
               PROVE  /\ grants'[i].amount >= grants'[j].amount
                      /\ grants'[j].amount >= 1
    BY DEF GrantsNeverGrow
  <2>1. CASE i \in DOMAIN grants /\ j \in DOMAIN grants
    BY <1>1, <2>1 DEF GrantsNeverGrow
  <2>2. CASE i \in DOMAIN grants /\ j = n
    BY <1>1, <1>3, <1>4, <2>2
  <2>3. CASE i = n /\ j = n
    BY <1>1, <1>3, <2>3
  <2>4. CASE i = n /\ j \in DOMAIN grants
    <3>1. j < n /\ n <= j /\ j \in Nat /\ n \in Nat
      BY <1>1, <1>5, <1>6, <2>4 DEF TypeOK
    <3> QED BY <3>1
  <2> QED BY <1>1, <2>1, <2>2, <2>3, <2>4
<1>8. ASSUME NEW i \in DOMAIN grants'
      PROVE  /\ grants'[i].amount \in Nat /\ grants'[i].amount >= 1
             /\ grants'[i].amount >= GrantAmount(grants[i].tier)'
  <2>1. PICK u \in GrantTier : u = grants'[i].tier
    BY <1>1, <1>4
  <2>2. GrantAmount(grants[i].tier)' = GrantAmount(u)'
    BY <2>1 DEF GrantAmount
  <2>3. grants'[i].amount \in Nat /\ grants'[i].amount >= 1
          /\ grants'[i].amount >= GrantAmount(u)
    BY <1>1, <1>3, <1>4, <2>1
  <2> QED BY <1>3, <2>2, <2>3
<1> QED BY <1>7, <1>8 DEF NextIsSmallest

\* Every step keeps both.
LEMMA NextNeverGrows ==
  ASSUME TypeOK, TypeOK', GrantsNeverGrow, NextIsSmallest, [Next]_vars
  PROVE  GrantsNeverGrow' /\ NextIsSmallest'
<1>0. height \in Nat /\ "starter" \in GrantTier
      /\ {"service-1", "service-2"} \subseteq GrantTier
  BY DEF TypeOK, LedgerTypeOK, GrantTier
<1>1. CASE NothingIssued
  BY <1>0, <1>1, AmountsKept DEF NothingIssued
<1>2. ASSUME NEW a \in Keyed, NEW fee \in Fees, ClaimStarter(a, fee)
      PROVE  GrantsNeverGrow' /\ NextIsSmallest'
  <2>1. height' = height
    BY <1>2 DEF ClaimStarter
  <2> QED BY <1>0, <1>2, <2>1, Issuing, IssueSmallest
<1>3. ASSUME NEW a \in Keyed, NEW t \in {"service-1", "service-2"},
             NEW fee \in Fees, ClaimService(a, t, fee)
      PROVE  GrantsNeverGrow' /\ NextIsSmallest'
  <2>1. height' = height /\ t \in GrantTier
    BY <1>0, <1>3 DEF ClaimService
  <2> QED BY <1>3, <2>1, Issuing, IssueSmallest
<1>4. ASSUME NEW approvals \in Approvals, NEW fee \in QuorumFees,
             NEW a \in Keyed, NEW t \in GrantTier, Grant(approvals, a, t, fee)
      PROVE  GrantsNeverGrow' /\ NextIsSmallest'
  <2>1. height' = height
    BY <1>4 DEF Grant
  <2> QED BY <1>4, <2>1, Issuing, IssueSmallest
<1>5. ASSUME NEW a \in Keyed, NEW fee \in Fees, ClaimFounding(a, fee)
      PROVE  GrantsNeverGrow' /\ NextIsSmallest'
  BY <1>0, <1>5, AmountsKept DEF ClaimFounding
<1>6. ASSUME NEW approvals \in Approvals, NEW fee \in QuorumFees,
             NEW a \in Keyed, FoundingGrant(approvals, a, fee)
      PROVE  GrantsNeverGrow' /\ NextIsSmallest'
  BY <1>0, <1>6, AmountsKept DEF FoundingGrant
<1> QED BY <1>1, <1>2, <1>3, <1>4, <1>5, <1>6, StepKinds

\* A later grant of a tier never pays more than an earlier one, at any height
\* and after any number of grants, and no grant is halved away.
THEOREM GrantsOnlyShrink == Spec => []GrantsNeverGrow
<1>1. Init => GrantsNeverGrow /\ NextIsSmallest
  BY DEF Init, GrantsNeverGrow, NextIsSmallest
<1>2. /\ TypeOK /\ TypeOK' /\ GrantsNeverGrow /\ NextIsSmallest
      /\ [Next]_vars
      => GrantsNeverGrow' /\ NextIsSmallest'
  BY NextNeverGrows
<1> QED BY <1>1, <1>2, GrantsTypeCorrect, PTL DEF Spec
----------------------------------------------------------------------------
(* The brakes on self-service. *)

Since(lo) == {x \in DOMAIN service_claims : x >= lo}

\* The inductive invariant: nothing is dated ahead of the chain, the pairs
\* [height, count] count the claims of the block at hand, and service_claims
\* holds the service claims of every window that reaches this block.
ClaimsAreCounted ==
  /\ DOMAIN service_claims \subseteq 0..height
  /\ \A i \in DOMAIN grants : grants[i].height <= height
  /\ \A i \in DOMAIN founders : founders[i].height <= height
  /\ Cardinality(StarterClaims(height)) <= ClaimsInBlock(starter_claims_at)
  /\ Cardinality(ServiceGrants(height, height))
       + Cardinality(FoundingClaims(height)) <= ClaimsInBlock(grant_claims_at)
  /\ \A lo \in Nat : SealedActivation <= lo /\ height < lo + ServiceWindow
       => Cardinality(ServiceGrants(lo, height))
            <= Total(service_claims, Since(lo))

\* The sets of claims are finite, and what a seat is made of.
LEMMA ClaimSets ==
  ASSUME TypeOK
  PROVE  /\ \A h : StarterClaims(h) \subseteq DOMAIN grants
                     /\ Cardinality(StarterClaims(h)) \in Nat
         /\ \A from, to : ServiceGrants(from, to) \subseteq DOMAIN grants
                            /\ Cardinality(ServiceGrants(from, to)) \in Nat
         /\ \A h : FoundingClaims(h) \subseteq DOMAIN founders
                     /\ Cardinality(FoundingClaims(h)) \in Nat
         /\ \A i \in DOMAIN founders : founders[i].height \in Nat
<1>1. IsFiniteSet(DOMAIN grants) /\ IsFiniteSet(DOMAIN founders)
  <2>1. /\ DOMAIN grants = 1..Len(grants) /\ Len(grants) \in Nat
        /\ DOMAIN founders = 1..Len(founders) /\ Len(founders) \in Nat
    BY DEF TypeOK
  <2>2. IsFiniteSet(1..Len(grants)) /\ IsFiniteSet(1..Len(founders))
    BY <2>1, FS_Interval
  <2> QED BY <2>1, <2>2
<1>2. /\ \A h : StarterClaims(h) \subseteq DOMAIN grants
      /\ \A from, to : ServiceGrants(from, to) \subseteq DOMAIN grants
      /\ \A h : FoundingClaims(h) \subseteq DOMAIN founders
  BY DEF StarterClaims, ServiceGrants, FoundingClaims
<1>3. \A i \in DOMAIN founders : founders[i].height \in Nat
  <2>1. \A i \in DOMAIN founders : founders[i] \in FounderRecord
    BY DEF TypeOK
  <2> QED BY <2>1 DEF FounderRecord
<1> QED BY <1>1, <1>2, <1>3, FS_Subset, FS_CardinalityType

\* Nothing is dated ahead of the chain, so a window ends where the chain does.
LEMMA NoneAhead ==
  ASSUME TypeOK, ClaimsAreCounted, NEW lo \in Nat, NEW hi \in Nat
  PROVE  /\ height <= hi => ServiceGrants(lo, hi) = ServiceGrants(lo, height)
         /\ height < lo => /\ ServiceGrants(lo, hi) = {}
                           /\ StarterClaims(lo) = {} /\ FoundingClaims(lo) = {}
<1>1. \A i \in DOMAIN grants : grants[i].height \in Nat /\ grants[i].height <= height
  BY GrantTyped DEF ClaimsAreCounted
<1>2. \A i \in DOMAIN founders :
        founders[i].height \in Nat /\ founders[i].height <= height
  BY ClaimSets DEF ClaimsAreCounted
<1>3. height \in Nat
  BY DEF TypeOK, LedgerTypeOK
<1> QED BY <1>1, <1>2, <1>3 DEF ServiceGrants, StarterClaims, FoundingClaims

\* What a window still holds is among the recent claims the guard adds up.
LEMMA RecentTotal ==
  ASSUME TypeOK, ClaimsAreCounted, NEW lo \in Nat, height < lo + ServiceWindow
  PROVE  /\ Total(service_claims, Since(lo)) \in Nat
         /\ Total(RecentServiceClaims, DOMAIN RecentServiceClaims) \in Nat
         /\ Total(service_claims, Since(lo))
              <= Total(RecentServiceClaims, DOMAIN RecentServiceClaims)
<1> DEFINE R == DOMAIN RecentServiceClaims
           f == RecentServiceClaims
           S == Since(lo)
<1>0. height \in Nat /\ ServiceWindow \in Nat /\ DOMAIN service_claims \subseteq Nat
      /\ service_claims \in [DOMAIN service_claims -> Nat]
  BY GrantsAssumption DEF TypeOK, LedgerTypeOK
<1>1. R = {x \in DOMAIN service_claims : height - x < ServiceWindow}
      /\ \A x \in R : f[x] = service_claims[x]
  BY DEF RecentServiceClaims
<1>2. f \in [R -> Nat]
  BY <1>0 DEF RecentServiceClaims
<1>3. S \subseteq R
  BY <1>0, <1>1 DEF Since
<1>4. IsFiniteSet(R)
  <2>1. IsFiniteSet(0..height)
    <3>1. height \in Int /\ 0 \in Int
      BY <1>0
    <3> QED BY <3>1, FS_Interval
  <2>2. DOMAIN service_claims \subseteq 0..height
    BY DEF ClaimsAreCounted
  <2> HIDE DEF R
  <2>3. R \subseteq 0..height
    BY <1>1, <2>2
  <2> QED BY <2>1, <2>3, FS_Subset
<1> HIDE DEF R, f, S
<1>5. Total(service_claims, S) = Total(f, S)
  <2>1. \A x \in S : f[x] = service_claims[x]
    BY <1>1, <1>3
  <2> QED BY <2>1 DEF Total, Units
<1>6. Total(f, S) \in Nat /\ Total(f, S) <= Total(f, R)
  BY <1>2, <1>3, <1>4, TotalSubset
<1>7. Total(f, R) \in Nat
  BY <1>2, <1>4, TotalNat
<1> QED BY <1>5, <1>6, <1>7 DEF R, f, S

\* Recording one claim more adds one to every window that reaches this block.
LEMMA RecordTotal ==
  ASSUME TypeOK, ClaimsAreCounted, NEW lo \in Nat,
         lo <= height, height < lo + ServiceWindow,
         service_claims' = Put(RecentServiceClaims, height,
                               ServiceClaimsAt(height) + 1)
  PROVE  Total(service_claims', Since(lo)') = Total(service_claims, Since(lo)) + 1
<1> DEFINE S == Since(lo)
           T == S \cup {height}
           f == [x \in T |-> ServiceClaimsAt(x)]
           g == [x \in T |-> IF x = height THEN ServiceClaimsAt(height) + 1
                             ELSE service_claims[x]]
<1>0. height \in Nat /\ ServiceWindow \in Nat /\ DOMAIN service_claims \subseteq Nat
      /\ service_claims \in [DOMAIN service_claims -> Nat]
  BY GrantsAssumption DEF TypeOK, LedgerTypeOK
<1>1. /\ S \subseteq DOMAIN service_claims
      /\ height \in DOMAIN service_claims => height \in S
      /\ \A x \in S : height - x < ServiceWindow
  BY <1>0 DEF Since
<1>2. \A x : ServiceClaimsAt(x) \in Nat
  BY <1>0 DEF ServiceClaimsAt
<1>3. IsFiniteSet(S) /\ IsFiniteSet(T)
  <2>1. IsFiniteSet(0..height)
    <3>1. height \in Int /\ 0 \in Int
      BY <1>0
    <3> QED BY <3>1, FS_Interval
  <2>2. DOMAIN service_claims \subseteq 0..height
    BY DEF ClaimsAreCounted
  <2> HIDE DEF S
  <2>3. S \subseteq 0..height
    BY <1>1, <2>2
  <2>4. IsFiniteSet(S)
    BY <2>1, <2>3, FS_Subset
  <2> QED BY <2>4, FS_AddElement
<1>4. /\ f \in [T -> Nat] /\ g \in [T -> Nat]
      /\ g[height] = f[height] + 1
      /\ \A x \in T \ {height} : g[x] = f[x]
  <2>1. \A x \in S : service_claims[x] = ServiceClaimsAt(x)
    BY <1>1 DEF ServiceClaimsAt
  <2> HIDE DEF S
  <2> QED BY <1>0, <1>2, <2>1
<1>5. Total(service_claims, S) = Total(f, T)
  <2>1. \A x \in S : f[x] = service_claims[x]
    BY <1>1 DEF ServiceClaimsAt
  <2>2. height \notin S => f[height] = 0
    BY <1>1 DEF ServiceClaimsAt
  <2> HIDE DEF S, f
  <2>3. height \notin S => 1..f[height] = {}
    BY <2>2
  <2>4. \A z : z \in Units(f, T) <=> z \in Units(service_claims, S)
    BY <2>1, <2>3 DEF Units
  <2>5. Units(f, T) = Units(service_claims, S)
    BY <2>4
  <2> QED BY <2>5 DEF Total
<1>6. Total(service_claims', Since(lo)') = Total(g, T)
  <2>1. DOMAIN service_claims'
          = {x \in DOMAIN service_claims : height - x < ServiceWindow} \cup {height}
    BY DEF Put, RecentServiceClaims
  <2>2. Since(lo)' = T
    BY <1>0, <1>1, <2>1 DEF Since
  <2>3. \A x \in T : service_claims'[x] = g[x]
    BY <1>1, <2>1 DEF Put, RecentServiceClaims
  <2> HIDE DEF T, g
  <2> QED BY <2>2, <2>3 DEF Total, Units
<1> HIDE DEF f, g, T
<1>7. height \in T
  BY DEF T
<1>8. Total(g, T) = Total(f, T) - f[height] + g[height] /\ Total(f, T) \in Nat
      /\ f[height] \in Nat
  BY <1>3, <1>4, <1>7, TotalUpdate, TotalNat
<1> QED BY <1>4, <1>5, <1>6, <1>8 DEF S

\* A grant with index n is added, and to the claims if it is one.
AddsGrant(n, t, claimed) ==
  /\ n \notin DOMAIN grants /\ IsFiniteSet(DOMAIN grants)
  /\ \A i \in DOMAIN grants' : grants'[i].height <= height
  /\ \A h : StarterClaims(h)'
       = StarterClaims(h) \cup
           {i \in {n} : claimed /\ t = "starter" /\ h = height}
  /\ \A from, to : ServiceGrants(from, to)'
       = ServiceGrants(from, to) \cup
           {i \in {n} : claimed /\ t # "starter" /\ height \in from..to}

\* What issuing a grant adds to the claims.
LEMMA IssueClaims ==
  ASSUME TypeOK, ClaimsAreCounted, NEW a \in Keyed, NEW rec,
         NEW t \in GrantTier, NEW amount \in Nat, NEW claimed \in BOOLEAN,
         Issue(a, rec, t, amount, claimed)
  PROVE  \E n : AddsGrant(n, t, claimed)
<1> DEFINE n == Len(grants) + 1
<1>1. /\ DOMAIN grants' = DOMAIN grants \cup {n} /\ n \notin DOMAIN grants
      /\ IsFiniteSet(DOMAIN grants)
      /\ grants'[n] = [to |-> a, tier |-> t, amount |-> amount,
                       height |-> height, claimed |-> claimed]
      /\ \A i \in DOMAIN grants : grants'[i] = grants[i]
  BY IssueAppends
<1> HIDE DEF n
<1>2. /\ grants'[n].tier = t /\ grants'[n].height = height
      /\ grants'[n].claimed = claimed
  BY <1>1
<1>3. \A i \in DOMAIN grants' : grants'[i].height <= height
  BY <1>1, <1>2 DEF ClaimsAreCounted, TypeOK, LedgerTypeOK
<1>4. ASSUME NEW h
      PROVE  StarterClaims(h)'
               = StarterClaims(h) \cup
                   {i \in {n} : claimed /\ t = "starter" /\ h = height}
  <2>1. StarterClaims(h)' = {i \in DOMAIN grants \cup {n} :
                               grants'[i].claimed /\ grants'[i].tier = "starter"
                                 /\ grants'[i].height = h}
    BY <1>1 DEF StarterClaims
  <2>2. \A i \in DOMAIN grants : i \in StarterClaims(h)' <=> i \in StarterClaims(h)
    BY <1>1, <2>1 DEF StarterClaims
  <2>3. n \in StarterClaims(h)' <=> (claimed /\ t = "starter" /\ h = height)
    BY <1>2, <2>1
  <2>4. /\ StarterClaims(h) \subseteq DOMAIN grants
        /\ StarterClaims(h)' \subseteq DOMAIN grants \cup {n}
    BY <2>1 DEF StarterClaims
  <2> QED BY <2>2, <2>3, <2>4
<1>5. ASSUME NEW from, NEW to
      PROVE  ServiceGrants(from, to)'
               = ServiceGrants(from, to) \cup
                   {i \in {n} : claimed /\ t # "starter" /\ height \in from..to}
  <2>1. ServiceGrants(from, to)'
          = {i \in DOMAIN grants \cup {n} :
               grants'[i].claimed /\ grants'[i].tier # "starter"
                 /\ grants'[i].height \in from..to}
    BY <1>1 DEF ServiceGrants
  <2>2. \A i \in DOMAIN grants :
          i \in ServiceGrants(from, to)' <=> i \in ServiceGrants(from, to)
    BY <1>1, <2>1 DEF ServiceGrants
  <2>3. n \in ServiceGrants(from, to)'
          <=> (claimed /\ t # "starter" /\ height \in from..to)
    BY <1>2, <2>1
  <2>4. /\ ServiceGrants(from, to) \subseteq DOMAIN grants
        /\ ServiceGrants(from, to)' \subseteq DOMAIN grants \cup {n}
    BY <2>1 DEF ServiceGrants
  <2> QED BY <2>2, <2>3, <2>4
<1> QED BY <1>1, <1>3, <1>4, <1>5 DEF AddsGrant

\* What taking a seat adds to the claims.
LEMMA SeatClaims ==
  ASSUME TypeOK, ClaimsAreCounted, NEW a \in Keyed, NEW claimed \in BOOLEAN,
         Seat(a, claimed)
  PROVE  \E n :
           /\ n \notin DOMAIN founders /\ IsFiniteSet(DOMAIN founders)
           /\ \A i \in DOMAIN founders' : founders'[i].height <= height
           /\ \A h : FoundingClaims(h)'
                = FoundingClaims(h) \cup {i \in {n} : claimed /\ h = height}
<1> DEFINE n == Len(founders) + 1
<1>1. /\ DOMAIN founders' = DOMAIN founders \cup {n} /\ n \notin DOMAIN founders
      /\ IsFiniteSet(DOMAIN founders)
      /\ founders'[n] = [to |-> a, height |-> height, claimed |-> claimed]
      /\ \A i \in DOMAIN founders : founders'[i] = founders[i]
  BY SeatAppends
<1> HIDE DEF n
<1>2. founders'[n].height = height /\ founders'[n].claimed = claimed
  BY <1>1
<1>3. \A i \in DOMAIN founders' : founders'[i].height <= height
  BY <1>1, <1>2 DEF ClaimsAreCounted, TypeOK, LedgerTypeOK
<1>4. ASSUME NEW h
      PROVE  FoundingClaims(h)'
               = FoundingClaims(h) \cup {i \in {n} : claimed /\ h = height}
  <2>1. FoundingClaims(h)' = {i \in DOMAIN founders \cup {n} :
                                founders'[i].claimed /\ founders'[i].height = h}
    BY <1>1 DEF FoundingClaims
  <2>2. \A i \in DOMAIN founders : i \in FoundingClaims(h)' <=> i \in FoundingClaims(h)
    BY <1>1, <2>1 DEF FoundingClaims
  <2>3. n \in FoundingClaims(h)' <=> (claimed /\ h = height)
    BY <1>2, <2>1
  <2>4. /\ FoundingClaims(h) \subseteq DOMAIN founders
        /\ FoundingClaims(h)' \subseteq DOMAIN founders \cup {n}
    BY <2>1 DEF FoundingClaims
  <2> QED BY <2>2, <2>3, <2>4
<1> QED BY <1>1, <1>3, <1>4

\* Where no claim is added the brakes hold on, in this block and in the next.
LEMMA PacedKept ==
  ASSUME TypeOK, TypeOK', ClaimsArePaced, ClaimsAreCounted,
         UNCHANGED <<starter_claims_at, grant_claims_at, service_claims>>,
         height' = height \/ height' = height + 1,
         \A i \in DOMAIN grants' : grants'[i].height <= height,
         \A i \in DOMAIN founders' : founders'[i].height <= height,
         \A h : StarterClaims(h)' = StarterClaims(h)
                  /\ FoundingClaims(h)' = FoundingClaims(h),
         \A from, to : ServiceGrants(from, to)' = ServiceGrants(from, to)
  PROVE  ClaimsArePaced' /\ ClaimsAreCounted'
<1>0. /\ height \in Nat
      /\ ServiceWindow \in Nat \ {0} /\ ServiceCap \in Nat /\ SealedActivation \in Nat
      /\ StarterPerBlock \in Nat /\ GrantPerBlock \in Nat
  BY GrantsAssumption DEF TypeOK, LedgerTypeOK
<1>1. PICK H \in Nat : H = height' /\ (H = height \/ H = height + 1)
  <2>1. height' \in Nat
    BY DEF TypeOK, LedgerTypeOK
  <2> QED BY <2>1
<1>2. Cardinality({}) = 0
  BY FS_EmptySet
<1>3. ASSUME NEW h \in 1..H
      PROVE  /\ Cardinality(StarterClaims(h)') <= StarterPerBlock
             /\ Cardinality(ServiceGrants(h, h)') + Cardinality(FoundingClaims(h)')
                  <= GrantPerBlock
             /\ h >= SealedActivation
                  => Cardinality(ServiceGrants(h, h + ServiceWindow - 1)')
                       <= ServiceCap
  <2>1. CASE h <= height
    <3>1. h \in 1..height
      BY <1>0, <1>3, <2>1
    <3> QED BY <3>1 DEF ClaimsArePaced
  <2>2. CASE height < h
    <3>1. h \in Nat /\ h + ServiceWindow - 1 \in Nat
      BY <1>0, <1>3
    <3>2. /\ StarterClaims(h) = {} /\ FoundingClaims(h) = {}
          /\ ServiceGrants(h, h) = {}
          /\ ServiceGrants(h, h + ServiceWindow - 1) = {}
      BY <2>2, <3>1, NoneAhead
    <3>3. /\ StarterClaims(h)' = {} /\ FoundingClaims(h)' = {}
          /\ ServiceGrants(h, h)' = {}
          /\ ServiceGrants(h, h + ServiceWindow - 1)' = {}
      BY <3>2
    <3>4. /\ Cardinality(StarterClaims(h)') = 0
          /\ Cardinality(FoundingClaims(h)') = 0
          /\ Cardinality(ServiceGrants(h, h)') = 0
          /\ Cardinality(ServiceGrants(h, h + ServiceWindow - 1)') = 0
      BY <1>2, <3>3
    <3> QED BY <1>0, <3>4
  <2> QED BY <1>0, <1>3, <2>1, <2>2
<1>4. ClaimsArePaced'
  BY <1>1, <1>3 DEF ClaimsArePaced
<1>5. /\ Cardinality(StarterClaims(H)') <= ClaimsInBlock(starter_claims_at)'
      /\ Cardinality(ServiceGrants(H, H)')
           + Cardinality(FoundingClaims(H)') <= ClaimsInBlock(grant_claims_at)'
  <2>1. CASE H = height
    BY <1>1, <2>1 DEF ClaimsAreCounted, ClaimsInBlock
  <2>2. CASE H = height + 1
    <3>1. /\ StarterClaims(H) = {} /\ FoundingClaims(H) = {}
          /\ ServiceGrants(H, H) = {}
      BY <1>0, <2>2, NoneAhead
    <3>2. /\ ClaimsInBlock(starter_claims_at)' \in Nat
          /\ ClaimsInBlock(grant_claims_at)' \in Nat
      BY DEF TypeOK, ClaimsAt, ClaimsInBlock
    <3>3. /\ StarterClaims(H)' = {} /\ FoundingClaims(H)' = {}
          /\ ServiceGrants(H, H)' = {}
      BY <3>1
    <3> QED BY <1>2, <3>2, <3>3
  <2> QED BY <1>1, <2>1, <2>2
<1>6. ASSUME NEW lo \in Nat, SealedActivation <= lo, H < lo + ServiceWindow
      PROVE  Cardinality(ServiceGrants(lo, H)')
               <= Total(service_claims', Since(lo)')
  <2>1. Since(lo)' = Since(lo)
    BY DEF Since
  <2>2. ServiceGrants(lo, H) = ServiceGrants(lo, height)
    BY <1>0, <1>1, NoneAhead
  <2>3. height < lo + ServiceWindow
    BY <1>0, <1>1, <1>6
  <2>4. Cardinality(ServiceGrants(lo, height)) <= Total(service_claims, Since(lo))
    BY <1>6, <2>3 DEF ClaimsAreCounted
  <2>5. ServiceGrants(lo, H)' = ServiceGrants(lo, height)
    BY <2>2
  <2> QED BY <2>1, <2>4, <2>5
<1>7. DOMAIN service_claims' \subseteq 0..H
  BY <1>0, <1>1 DEF ClaimsAreCounted
<1>8. /\ \A i \in DOMAIN grants' : grants'[i].height <= H
      /\ \A i \in DOMAIN founders' : founders'[i].height <= H
  <2>1. /\ \A i \in DOMAIN grants' : grants'[i] \in GrantRecord
        /\ \A i \in DOMAIN founders' : founders'[i] \in FounderRecord
    BY DEF TypeOK
  <2>2. /\ \A i \in DOMAIN grants' : grants'[i].height \in Nat
        /\ \A i \in DOMAIN founders' : founders'[i].height \in Nat
    BY <2>1 DEF GrantRecord, FounderRecord
  <2> QED BY <1>0, <1>1, <2>2
<1>9. StarterClaims(height)' = StarterClaims(H)'
      /\ ServiceGrants(height, height)' = ServiceGrants(H, H)'
      /\ FoundingClaims(height)' = FoundingClaims(H)'
      /\ \A lo : ServiceGrants(lo, height)' = ServiceGrants(lo, H)'
  BY <1>1 DEF StarterClaims, ServiceGrants, FoundingClaims
<1> QED BY <1>1, <1>4, <1>5, <1>6, <1>7, <1>8, <1>9 DEF ClaimsAreCounted

\* What the brakes ask of a step within the block H.
LEMMA PacedWithin ==
  ASSUME ClaimsArePaced, ClaimsAreCounted,
         NEW H \in Nat, H = height, H = height',
         \A i \in DOMAIN grants' : grants'[i].height <= height,
         \A i \in DOMAIN founders' : founders'[i].height <= height,
         DOMAIN service_claims' \subseteq 0..H,
         \A h \in Nat : h # H => /\ StarterClaims(h)' = StarterClaims(h)
                                 /\ FoundingClaims(h)' = FoundingClaims(h)
                                 /\ ServiceGrants(h, h)' = ServiceGrants(h, h),
         Cardinality(StarterClaims(H)') <= ClaimsInBlock(starter_claims_at)',
         Cardinality(ServiceGrants(H, H)') + Cardinality(FoundingClaims(H)')
           <= ClaimsInBlock(grant_claims_at)',
         H >= 1 => /\ Cardinality(StarterClaims(H)') <= StarterPerBlock
                   /\ Cardinality(ServiceGrants(H, H)')
                        + Cardinality(FoundingClaims(H)') <= GrantPerBlock,
         \A h \in 1..H : h >= SealedActivation =>
            Cardinality(ServiceGrants(h, h + ServiceWindow - 1)') <= ServiceCap,
         \A lo \in Nat : SealedActivation <= lo /\ H < lo + ServiceWindow
            => Cardinality(ServiceGrants(lo, H)')
                 <= Total(service_claims', Since(lo)')
  PROVE  ClaimsArePaced' /\ ClaimsAreCounted'
<1>1. ASSUME NEW h \in 1..H
      PROVE  /\ Cardinality(StarterClaims(h)') <= StarterPerBlock
             /\ Cardinality(ServiceGrants(h, h)') + Cardinality(FoundingClaims(h)')
                  <= GrantPerBlock
             /\ h >= SealedActivation
                  => Cardinality(ServiceGrants(h, h + ServiceWindow - 1)')
                       <= ServiceCap
  <2>1. CASE h = H
    BY <1>1, <2>1
  <2>2. CASE h # H
    <3>1. /\ Cardinality(StarterClaims(h)) <= StarterPerBlock
          /\ Cardinality(ServiceGrants(h, h)) + Cardinality(FoundingClaims(h))
               <= GrantPerBlock
      BY <1>1 DEF ClaimsArePaced
    <3> QED BY <1>1, <2>2, <3>1
  <2> QED BY <2>1, <2>2
<1>2. ClaimsArePaced'
  BY <1>1 DEF ClaimsArePaced
<1>3. /\ StarterClaims(height)' = StarterClaims(H)'
      /\ ServiceGrants(height, height)' = ServiceGrants(H, H)'
      /\ FoundingClaims(height)' = FoundingClaims(H)'
      /\ \A lo : ServiceGrants(lo, height)' = ServiceGrants(lo, H)'
  BY DEF StarterClaims, ServiceGrants, FoundingClaims
<1> QED BY <1>2, <1>3 DEF ClaimsAreCounted

\* One claim more, by the pair [height, count] of its block.
LEMMA OneMoreInBlock ==
  ASSUME TypeOK, height' = height
  PROVE  /\ ClaimsInBlock(starter_claims_at) \in Nat
         /\ ClaimsInBlock(grant_claims_at) \in Nat
         /\ starter_claims_at' = OneMoreClaim(starter_claims_at)
              => ClaimsInBlock(starter_claims_at)'
                   = ClaimsInBlock(starter_claims_at) + 1
         /\ starter_claims_at' = starter_claims_at
              => ClaimsInBlock(starter_claims_at)' = ClaimsInBlock(starter_claims_at)
         /\ grant_claims_at' = OneMoreClaim(grant_claims_at)
              => ClaimsInBlock(grant_claims_at)' = ClaimsInBlock(grant_claims_at) + 1
         /\ grant_claims_at' = grant_claims_at
              => ClaimsInBlock(grant_claims_at)' = ClaimsInBlock(grant_claims_at)
<1>1. starter_claims_at \in ClaimsAt /\ grant_claims_at \in ClaimsAt
  BY DEF TypeOK
<1> QED BY <1>1 DEF ClaimsInBlock, OneMoreClaim, ClaimsAt

\* A starter claim is one more of its block, below the limit.
LEMMA StarterPaced ==
  ASSUME TypeOK, ClaimsArePaced, ClaimsAreCounted,
         NEW a \in Keyed, NEW fee \in Fees, ClaimStarter(a, fee)
  PROVE  ClaimsArePaced' /\ ClaimsAreCounted'
<1>0. PICK H \in Nat : H = height /\ H = height'
  BY DEF TypeOK, LedgerTypeOK, ClaimStarter
<1>1. "starter" \in GrantTier /\ GrantAmount("starter") \in Nat
  BY GrantAmountType DEF GrantTier
<1>2. Issue(a, NewRecord, "starter", GrantAmount("starter"), TRUE)
  BY DEF ClaimStarter
<1>3. PICK n : /\ n \notin DOMAIN grants /\ IsFiniteSet(DOMAIN grants)
               /\ \A i \in DOMAIN grants' : grants'[i].height <= height
               /\ \A h : StarterClaims(h)'
                    = StarterClaims(h) \cup {i \in {n} : h = height}
               /\ \A from, to : ServiceGrants(from, to)' = ServiceGrants(from, to)
  <2>a. PICK t \in GrantTier : t = "starter"
    BY <1>1
  <2>b. PICK amount \in Nat : amount = GrantAmount("starter")
    BY <1>1
  <2>c. PICK rec : rec = NewRecord
    OBVIOUS
  <2>d. PICK claimed \in BOOLEAN : claimed = TRUE
    OBVIOUS
  <2>1. Issue(a, rec, t, amount, claimed)
    BY <1>2, <2>a, <2>b, <2>c, <2>d
  <2>2. claimed /\ t = "starter"
    BY <2>a, <2>d
  <2>3. PICK n : AddsGrant(n, t, claimed)
    BY <2>1, IssueClaims
  <2>4. \A h : StarterClaims(h)' = StarterClaims(h) \cup {i \in {n} : h = height}
    BY <2>2, <2>3 DEF AddsGrant
  <2>5. \A from, to : ServiceGrants(from, to)' = ServiceGrants(from, to)
    BY <2>2, <2>3 DEF AddsGrant
  <2> QED BY <2>3, <2>4, <2>5 DEF AddsGrant
<1>4. /\ StarterClaims(H)' = StarterClaims(H) \cup {n}
      /\ \A h : h # H => StarterClaims(h)' = StarterClaims(h)
      /\ \A from, to : ServiceGrants(from, to)' = ServiceGrants(from, to)
  BY <1>0, <1>3
<1>5. founders' = founders /\ service_claims' = service_claims
      /\ \A h : FoundingClaims(h)' = FoundingClaims(h)
  BY DEF ClaimStarter, FoundingClaims
<1>6. Cardinality(StarterClaims(H)') = Cardinality(StarterClaims(H)) + 1
      /\ Cardinality(StarterClaims(H)) \in Nat
  BY <1>3, <1>4, ClaimSets, CountOneMore
<1>7. /\ ClaimsInBlock(starter_claims_at) \in Nat
      /\ ClaimsInBlock(starter_claims_at)' = ClaimsInBlock(starter_claims_at) + 1
      /\ ClaimsInBlock(starter_claims_at) < StarterPerBlock
      /\ ClaimsInBlock(grant_claims_at)' = ClaimsInBlock(grant_claims_at)
  <2>1. height' = height
    BY DEF ClaimStarter
  <2> QED BY <2>1, OneMoreInBlock DEF ClaimStarter
<1>8. Cardinality(StarterClaims(H)) <= ClaimsInBlock(starter_claims_at)
  BY <1>0 DEF ClaimsAreCounted
<1>9. /\ Cardinality(StarterClaims(H)') <= ClaimsInBlock(starter_claims_at)'
      /\ Cardinality(StarterClaims(H)') <= StarterPerBlock
  BY <1>6, <1>7, <1>8, GrantsAssumption
<1>10. /\ Cardinality(ServiceGrants(H, H)') + Cardinality(FoundingClaims(H)')
            <= ClaimsInBlock(grant_claims_at)'
       /\ H >= 1 => Cardinality(ServiceGrants(H, H)')
                      + Cardinality(FoundingClaims(H)') <= GrantPerBlock
       /\ \A h \in 1..H : h >= SealedActivation =>
            Cardinality(ServiceGrants(h, h + ServiceWindow - 1)') <= ServiceCap
  BY <1>0, <1>4, <1>5, <1>7 DEF ClaimsAreCounted, ClaimsArePaced
<1>11. \A lo \in Nat : SealedActivation <= lo /\ H < lo + ServiceWindow
         => Cardinality(ServiceGrants(lo, H)') <= Total(service_claims', Since(lo)')
  BY <1>0, <1>4, <1>5 DEF ClaimsAreCounted, Since
<1>12. /\ \A i \in DOMAIN founders' : founders'[i].height <= height
       /\ DOMAIN service_claims' \subseteq 0..H
  BY <1>0, <1>5 DEF ClaimsAreCounted
<1> QED BY <1>0, <1>3, <1>4, <1>5, <1>9, <1>10, <1>11, <1>12, PacedWithin

\* So is a founding claim, among the claims of its block.
LEMMA FoundingPaced ==
  ASSUME TypeOK, ClaimsArePaced, ClaimsAreCounted,
         NEW a \in Keyed, NEW fee \in Fees, ClaimFounding(a, fee)
  PROVE  ClaimsArePaced' /\ ClaimsAreCounted'
<1>0. PICK H \in Nat : H = height /\ H = height'
  BY DEF TypeOK, LedgerTypeOK, ClaimFounding
<1>1. PICK n : /\ n \notin DOMAIN founders /\ IsFiniteSet(DOMAIN founders)
               /\ \A i \in DOMAIN founders' : founders'[i].height <= height
               /\ \A h : FoundingClaims(h)'
                    = FoundingClaims(h) \cup {i \in {n} : TRUE /\ h = height}
  BY SeatClaims DEF ClaimFounding
<1>2. /\ FoundingClaims(H)' = FoundingClaims(H) \cup {n}
      /\ \A h : h # H => FoundingClaims(h)' = FoundingClaims(h)
  BY <1>0, <1>1
<1>3. /\ grants' = grants /\ service_claims' = service_claims
      /\ \A h : StarterClaims(h)' = StarterClaims(h)
      /\ \A from, to : ServiceGrants(from, to)' = ServiceGrants(from, to)
  BY DEF ClaimFounding, StarterClaims, ServiceGrants
<1>4. /\ Cardinality(FoundingClaims(H)') = Cardinality(FoundingClaims(H)) + 1
      /\ Cardinality(FoundingClaims(H)) \in Nat
      /\ Cardinality(ServiceGrants(H, H)) \in Nat
  BY <1>1, <1>2, ClaimSets, CountOneMore
<1>5. /\ ClaimsInBlock(grant_claims_at) \in Nat
      /\ ClaimsInBlock(grant_claims_at)' = ClaimsInBlock(grant_claims_at) + 1
      /\ ClaimsInBlock(grant_claims_at) < GrantPerBlock
      /\ ClaimsInBlock(starter_claims_at)' = ClaimsInBlock(starter_claims_at)
  <2>1. height' = height
    BY DEF ClaimFounding
  <2> QED BY <2>1, OneMoreInBlock DEF ClaimFounding, MayClaim
<1>6. Cardinality(ServiceGrants(H, H)) + Cardinality(FoundingClaims(H))
        <= ClaimsInBlock(grant_claims_at)
  BY <1>0 DEF ClaimsAreCounted
<1>7. /\ Cardinality(ServiceGrants(H, H)') + Cardinality(FoundingClaims(H)')
           <= ClaimsInBlock(grant_claims_at)'
      /\ Cardinality(ServiceGrants(H, H)') + Cardinality(FoundingClaims(H)')
           <= GrantPerBlock
  BY <1>3, <1>4, <1>5, <1>6, GrantsAssumption
<1>8. /\ Cardinality(StarterClaims(H)') <= ClaimsInBlock(starter_claims_at)'
      /\ H >= 1 => Cardinality(StarterClaims(H)') <= StarterPerBlock
      /\ \A h \in 1..H : h >= SealedActivation =>
           Cardinality(ServiceGrants(h, h + ServiceWindow - 1)') <= ServiceCap
  BY <1>0, <1>3, <1>5 DEF ClaimsAreCounted, ClaimsArePaced
<1>9. \A lo \in Nat : SealedActivation <= lo /\ H < lo + ServiceWindow
        => Cardinality(ServiceGrants(lo, H)') <= Total(service_claims', Since(lo)')
  BY <1>0, <1>3 DEF ClaimsAreCounted, Since
<1>10. /\ \A i \in DOMAIN grants' : grants'[i].height <= height
       /\ DOMAIN service_claims' \subseteq 0..H
  BY <1>0, <1>3 DEF ClaimsAreCounted
<1> QED BY <1>0, <1>1, <1>2, <1>3, <1>7, <1>8, <1>9, <1>10, PacedWithin

\* A service claim is one more of its block and of every window that reaches
\* it, below both limits: the guard adds up at least what the window holds.
LEMMA ServicePaced ==
  ASSUME TypeOK, ClaimsArePaced, ClaimsAreCounted, NEW a \in Keyed,
         NEW t \in {"service-1", "service-2"}, NEW fee \in Fees,
         ClaimService(a, t, fee)
  PROVE  ClaimsArePaced' /\ ClaimsAreCounted'
<1>0. PICK H \in Nat : H = height /\ H = height'
  BY DEF TypeOK, LedgerTypeOK, ClaimService
<1>1. PICK n : /\ n \notin DOMAIN grants /\ IsFiniteSet(DOMAIN grants)
               /\ \A i \in DOMAIN grants' : grants'[i].height <= height
               /\ \A h : StarterClaims(h)' = StarterClaims(h)
               /\ \A from, to : ServiceGrants(from, to)'
                    = ServiceGrants(from, to) \cup {i \in {n} : height \in from..to}
  <2>a. t \in GrantTier
    BY DEF GrantTier
  <2>b. PICK amount \in Nat : amount = GrantAmount(t)
    BY <2>a, GrantAmountType
  <2>c. PICK rec : rec = llms[a]
    OBVIOUS
  <2>d. PICK claimed \in BOOLEAN : claimed = TRUE
    OBVIOUS
  <2>1. Issue(a, rec, t, amount, claimed)
    BY <2>b, <2>c, <2>d DEF ClaimService
  <2>2. claimed /\ t # "starter"
    BY <2>d
  <2>3. PICK n : AddsGrant(n, t, claimed)
    BY <2>a, <2>1, IssueClaims
  <2>4. \A h : StarterClaims(h)' = StarterClaims(h)
    BY <2>2, <2>3 DEF AddsGrant
  <2>5. \A from, to : ServiceGrants(from, to)'
          = ServiceGrants(from, to) \cup {i \in {n} : height \in from..to}
    BY <2>2, <2>3 DEF AddsGrant
  <2> QED BY <2>3, <2>4, <2>5 DEF AddsGrant
<1>2. \A from, to \in Nat :
        /\ H \in from..to => ServiceGrants(from, to)' = ServiceGrants(from, to) \cup {n}
        /\ H \notin from..to => ServiceGrants(from, to)' = ServiceGrants(from, to)
  BY <1>0, <1>1
<1>3. \A h \in Nat : h # H => ServiceGrants(h, h)' = ServiceGrants(h, h)
  <2>1. \A h \in Nat : h # H => H \notin h..h
    OBVIOUS
  <2> QED BY <1>2, <2>1
<1>4. /\ founders' = founders
      /\ \A h : FoundingClaims(h)' = FoundingClaims(h)
  BY DEF ClaimService, FoundingClaims
<1>5. \A from, to \in Nat :
        H \in from..to =>
          /\ Cardinality(ServiceGrants(from, to)')
               = Cardinality(ServiceGrants(from, to)) + 1
          /\ Cardinality(ServiceGrants(from, to)) \in Nat
  <2> SUFFICES ASSUME NEW from \in Nat, NEW to \in Nat, H \in from..to
               PROVE  /\ Cardinality(ServiceGrants(from, to)')
                           = Cardinality(ServiceGrants(from, to)) + 1
                      /\ Cardinality(ServiceGrants(from, to)) \in Nat
    OBVIOUS
  <2>1. ServiceGrants(from, to)' = ServiceGrants(from, to) \cup {n}
    BY <1>2
  <2>2. ServiceGrants(from, to) \subseteq DOMAIN grants
        /\ Cardinality(ServiceGrants(from, to)) \in Nat
    BY ClaimSets
  <2> DEFINE A == ServiceGrants(from, to)
             D == DOMAIN grants
  <2>3. IsFiniteSet(D) /\ n \notin D /\ A \in SUBSET D
    BY <1>1, <2>2
  <2> HIDE DEF A, D
  <2>4. Cardinality(A \cup {n}) = Cardinality(A) + 1
    BY <2>3, CountOneMore
  <2> QED BY <2>1, <2>2, <2>4 DEF A
<1>6. /\ ClaimsInBlock(grant_claims_at) \in Nat
      /\ ClaimsInBlock(grant_claims_at)' = ClaimsInBlock(grant_claims_at) + 1
      /\ ClaimsInBlock(grant_claims_at) < GrantPerBlock
      /\ ClaimsInBlock(starter_claims_at)' = ClaimsInBlock(starter_claims_at)
  <2>1. height' = height
    BY DEF ClaimService
  <2> QED BY <2>1, OneMoreInBlock DEF ClaimService, MayClaim
<1>7. /\ Cardinality(ServiceGrants(H, H)') + Cardinality(FoundingClaims(H)')
           <= ClaimsInBlock(grant_claims_at)'
      /\ Cardinality(ServiceGrants(H, H)') + Cardinality(FoundingClaims(H)')
           <= GrantPerBlock
  <2>1. Cardinality(ServiceGrants(H, H)) + Cardinality(FoundingClaims(H))
          <= ClaimsInBlock(grant_claims_at)
    BY <1>0 DEF ClaimsAreCounted
  <2>2. Cardinality(ServiceGrants(H, H)') = Cardinality(ServiceGrants(H, H)) + 1
        /\ Cardinality(ServiceGrants(H, H)) \in Nat
        /\ Cardinality(FoundingClaims(H)) \in Nat
    BY <1>0, <1>5, ClaimSets
  <2> QED BY <1>4, <1>6, <2>1, <2>2, GrantsAssumption
<1>8. /\ Cardinality(StarterClaims(H)') <= ClaimsInBlock(starter_claims_at)'
      /\ H >= 1 => Cardinality(StarterClaims(H)') <= StarterPerBlock
  BY <1>0, <1>1, <1>6 DEF ClaimsAreCounted, ClaimsArePaced
<1>9. ASSUME NEW lo \in Nat, SealedActivation <= lo, lo <= H, H < lo + ServiceWindow
      PROVE  /\ Cardinality(ServiceGrants(lo, H)') <= ServiceCap
             /\ Cardinality(ServiceGrants(lo, H)')
                  <= Total(service_claims', Since(lo)')
  <2>1. SealedActivation \in Nat /\ ServiceCap \in Nat /\ ServiceWindow \in Nat
    BY GrantsAssumption
  <2>2. SealedActive
    BY <1>0, <1>9, <2>1 DEF SealedActive
  <2>3. /\ Total(RecentServiceClaims, DOMAIN RecentServiceClaims) < ServiceCap
        /\ service_claims' = Put(RecentServiceClaims, height,
                                 ServiceClaimsAt(height) + 1)
    BY <2>2 DEF ClaimService
  <2>4. /\ Total(service_claims, Since(lo)) \in Nat
        /\ Total(RecentServiceClaims, DOMAIN RecentServiceClaims) \in Nat
        /\ Total(service_claims, Since(lo))
             <= Total(RecentServiceClaims, DOMAIN RecentServiceClaims)
    BY <1>0, <1>9, RecentTotal
  <2>5. Total(service_claims', Since(lo)') = Total(service_claims, Since(lo)) + 1
    BY <1>0, <1>9, <2>3, RecordTotal
  <2>6. Cardinality(ServiceGrants(lo, H)) <= Total(service_claims, Since(lo))
    BY <1>0, <1>9 DEF ClaimsAreCounted
  <2>7. /\ Cardinality(ServiceGrants(lo, H)') = Cardinality(ServiceGrants(lo, H)) + 1
        /\ Cardinality(ServiceGrants(lo, H)) \in Nat
    <3>1. H \in lo..H
      BY <1>9
    <3> QED BY <1>5, <3>1
  <2> QED BY <2>1, <2>3, <2>4, <2>5, <2>6, <2>7
<1>10. ASSUME NEW h \in 1..H, h >= SealedActivation
       PROVE  Cardinality(ServiceGrants(h, h + ServiceWindow - 1)') <= ServiceCap
  <2>1. /\ h \in Nat /\ h <= H /\ ServiceWindow \in Nat \ {0}
        /\ SealedActivation \in Nat /\ SealedActivation <= h
        /\ h + ServiceWindow - 1 \in Nat
    BY <1>10, GrantsAssumption
  <2>2. CASE H < h + ServiceWindow
    <3>1. H <= h + ServiceWindow - 1 /\ H \in h..H /\ H \in h..(h + ServiceWindow - 1)
      BY <2>1, <2>2
    <3>2. ServiceGrants(h, h + ServiceWindow - 1) = ServiceGrants(h, H)
      BY <1>0, <2>1, <3>1, NoneAhead
    <3> DEFINE hi == h + ServiceWindow - 1
    <3>3. /\ ServiceGrants(h, hi)' = ServiceGrants(h, hi) \cup {n}
          /\ ServiceGrants(h, H)' = ServiceGrants(h, H) \cup {n}
      BY <1>2, <2>1, <3>1
    <3>4. ServiceGrants(h, hi)' = ServiceGrants(h, H)'
      BY <3>2, <3>3
    <3> QED BY <1>9, <2>1, <2>2, <3>4
  <2>3. CASE ~(H < h + ServiceWindow)
    <3> DEFINE hi == h + ServiceWindow - 1
    <3>1. H \notin h..hi
      BY <2>1, <2>3
    <3>2. ServiceGrants(h, hi)' = ServiceGrants(h, hi)
      BY <1>2, <2>1, <3>1
    <3>3. Cardinality(ServiceGrants(h, hi)) <= ServiceCap
      BY <1>0, <1>10 DEF ClaimsArePaced
    <3> QED BY <3>2, <3>3
  <2> QED BY <2>2, <2>3
<1>11. DOMAIN service_claims' \subseteq 0..H
  <2>1. DOMAIN service_claims \subseteq 0..H
    BY <1>0 DEF ClaimsAreCounted
  <2>2. CASE service_claims' = service_claims
    BY <2>1, <2>2
  <2>3. CASE service_claims' = Put(RecentServiceClaims, height,
                                   ServiceClaimsAt(height) + 1)
    <3>1. DOMAIN service_claims' \subseteq DOMAIN service_claims \cup {H}
      BY <1>0, <2>3 DEF Put, RecentServiceClaims
    <3> QED BY <1>0, <2>1, <3>1
  <2> QED BY <2>2, <2>3 DEF ClaimService
<1>12. ASSUME NEW lo \in Nat, SealedActivation <= lo, H < lo + ServiceWindow
       PROVE  Cardinality(ServiceGrants(lo, H)') <= Total(service_claims', Since(lo)')
  <2>1. CASE lo <= H
    BY <1>9, <1>12, <2>1
  <2>2. CASE H < lo
    <3>1. H \notin lo..H
      BY <2>2
    <3>2. ServiceGrants(lo, H)' = {}
      BY <1>0, <1>2, <2>2, <3>1, NoneAhead
    <3>3. Since(lo)' = {}
      BY <2>2, <1>11 DEF Since
    <3>4. \A x \in Since(lo)' : service_claims'[x] = 0
      BY <3>3
    <3>5. Total(service_claims', Since(lo)') = 0
      <4> DEFINE f == service_claims'
                 S == Since(lo)'
      <4>1. \A x \in S : f[x] = 0
        BY <3>4
      <4> HIDE DEF f, S
      <4>2. Total(f, S) = 0
        BY <4>1, TotalZero
      <4> QED BY <4>2 DEF f, S
    <3>6. Cardinality(ServiceGrants(lo, H)') = 0
      BY <3>2, FS_EmptySet
    <3> QED BY <3>5, <3>6
  <2> QED BY <2>1, <2>2
<1>13. \A i \in DOMAIN founders' : founders'[i].height <= height
  BY <1>4 DEF ClaimsAreCounted
<1>14. \A h \in Nat : h # H => /\ StarterClaims(h)' = StarterClaims(h)
                       /\ FoundingClaims(h)' = FoundingClaims(h)
                       /\ ServiceGrants(h, h)' = ServiceGrants(h, h)
  BY <1>1, <1>3, <1>4
<1> QED BY <1>0, <1>1, <1>7, <1>8, <1>10, <1>12, <1>11, <1>13, <1>14, PacedWithin

\* Every step keeps the brakes.
LEMMA NextPaced ==
  ASSUME TypeOK, TypeOK', ClaimsArePaced, ClaimsAreCounted, [Next]_vars
  PROVE  ClaimsArePaced' /\ ClaimsAreCounted'
<1>0. /\ \A i \in DOMAIN grants : grants[i].height <= height
      /\ \A i \in DOMAIN founders : founders[i].height <= height
  BY DEF ClaimsAreCounted
<1>1. CASE NothingIssued
  BY <1>0, <1>1, PacedKept
     DEF NothingIssued, StarterClaims, ServiceGrants, FoundingClaims
<1>2. ASSUME NEW a \in Keyed, NEW fee \in Fees, ClaimStarter(a, fee)
      PROVE  ClaimsArePaced' /\ ClaimsAreCounted'
  BY <1>2, StarterPaced
<1>3. ASSUME NEW a \in Keyed, NEW t \in {"service-1", "service-2"},
             NEW fee \in Fees, ClaimService(a, t, fee)
      PROVE  ClaimsArePaced' /\ ClaimsAreCounted'
  BY <1>3, ServicePaced
<1>4. ASSUME NEW a \in Keyed, NEW fee \in Fees, ClaimFounding(a, fee)
      PROVE  ClaimsArePaced' /\ ClaimsAreCounted'
  BY <1>4, FoundingPaced
<1>5. ASSUME NEW approvals \in Approvals, NEW fee \in QuorumFees,
             NEW a \in Keyed, NEW t \in GrantTier, Grant(approvals, a, t, fee)
      PROVE  ClaimsArePaced' /\ ClaimsAreCounted'
  <2>b. PICK amount \in Nat : amount = GrantAmount(t)
    BY GrantAmountType
  <2>c. PICK rec : rec = llms[a]
    OBVIOUS
  <2>d. PICK claimed \in BOOLEAN : claimed = FALSE
    OBVIOUS
  <2>1. Issue(a, rec, t, amount, claimed)
    BY <1>5, <2>b, <2>c, <2>d DEF Grant
  <2>2. ~claimed
    BY <2>d
  <2>3. PICK n : AddsGrant(n, t, claimed)
    BY <2>1, IssueClaims
  <2>4. /\ \A h : StarterClaims(h)' = StarterClaims(h)
        /\ \A from, to : ServiceGrants(from, to)' = ServiceGrants(from, to)
    BY <2>2, <2>3 DEF AddsGrant
  <2>5. /\ founders' = founders /\ height' = height
        /\ \A h : FoundingClaims(h)' = FoundingClaims(h)
        /\ UNCHANGED <<starter_claims_at, grant_claims_at, service_claims>>
    BY <1>5 DEF Grant, FoundingClaims
  <2>6. \A i \in DOMAIN grants' : grants'[i].height <= height
    BY <2>3 DEF AddsGrant
  <2> QED BY <1>0, <2>4, <2>5, <2>6, PacedKept
<1>6. ASSUME NEW approvals \in Approvals, NEW fee \in QuorumFees,
             NEW a \in Keyed, FoundingGrant(approvals, a, fee)
      PROVE  ClaimsArePaced' /\ ClaimsAreCounted'
  <2>1. PICK n : /\ \A i \in DOMAIN founders' : founders'[i].height <= height
                 /\ \A h : FoundingClaims(h)'
                      = FoundingClaims(h) \cup {i \in {n} : FALSE /\ h = height}
    BY <1>6, SeatClaims DEF FoundingGrant
  <2>2. \A h : FoundingClaims(h)' = FoundingClaims(h)
    BY <2>1
  <2>3. /\ grants' = grants /\ height' = height
        /\ \A h : StarterClaims(h)' = StarterClaims(h)
        /\ \A from, to : ServiceGrants(from, to)' = ServiceGrants(from, to)
        /\ UNCHANGED <<starter_claims_at, grant_claims_at, service_claims>>
    BY <1>6 DEF FoundingGrant, StarterClaims, ServiceGrants
  <2> QED BY <1>0, <2>1, <2>2, <2>3, PacedKept
<1> QED BY <1>1, <1>2, <1>3, <1>4, <1>5, <1>6, StepKinds

\* However claims are spread over blocks and accounts, no block holds more than
\* its limits and, since sealed post, no window more than ServiceCap of them.
THEOREM ClaimsStayPaced == Spec => []ClaimsArePaced
<1>1. Init => ClaimsArePaced /\ ClaimsAreCounted
  <2> SUFFICES ASSUME Init PROVE ClaimsArePaced /\ ClaimsAreCounted
    OBVIOUS
  <2>1. /\ \A h : StarterClaims(h) = {} /\ FoundingClaims(h) = {}
        /\ \A from, to : ServiceGrants(from, to) = {}
        /\ \A lo : Since(lo) = {}
    BY DEF Init, StarterClaims, FoundingClaims, ServiceGrants, Since
  <2>2. Cardinality({}) = 0 /\ Total(service_claims, {}) = 0
    BY FS_EmptySet, TotalZero
  <2>3. /\ ClaimsInBlock(starter_claims_at) = 0
        /\ ClaimsInBlock(grant_claims_at) = 0
    BY DEF Init, ClaimsInBlock
  <2>4. StarterPerBlock \in Nat /\ GrantPerBlock \in Nat /\ ServiceCap \in Nat
    BY GrantsAssumption
  <2>5. ClaimsArePaced
    <3>1. \A h, from, to : /\ Cardinality(StarterClaims(h)) = 0
                           /\ Cardinality(FoundingClaims(h)) = 0
                           /\ Cardinality(ServiceGrants(from, to)) = 0
      BY <2>1, <2>2
    <3> QED BY <2>4, <3>1 DEF ClaimsArePaced
  <2>6. ClaimsAreCounted
    <3>1. DOMAIN service_claims = {} /\ DOMAIN grants = {} /\ DOMAIN founders = {}
      BY DEF Init
    <3>2. /\ Cardinality(StarterClaims(height)) = 0
          /\ Cardinality(FoundingClaims(height)) = 0
          /\ Cardinality(ServiceGrants(height, height)) = 0
      BY <2>1, <2>2
    <3>3. \A lo \in Nat : Cardinality(ServiceGrants(lo, height))
                            <= Total(service_claims, Since(lo))
      BY <2>1, <2>2
    <3> QED BY <2>3, <3>1, <3>2, <3>3 DEF ClaimsAreCounted
  <2> QED BY <2>5, <2>6
<1>2. /\ TypeOK /\ TypeOK' /\ ClaimsArePaced /\ ClaimsAreCounted
      /\ [Next]_vars
      => ClaimsArePaced' /\ ClaimsAreCounted'
  BY NextPaced
<1> QED BY <1>1, <1>2, GrantsTypeCorrect, PTL DEF Spec
=============================================================================
