------------------------------- MODULE Grants -------------------------------
(***************************************************************************)
(* Onboarding on the ledger: who wrote to whom, the grants an account      *)
(* claims for itself, and what the registrar quorum pays out of the        *)
(* protocol accounts (berrychain/state.py).                                *)
(*                                                                         *)
(* A letter is the pair <<from, to>> it adds to the correspondence; the    *)
(* receiving key it is sealed to is always one the chain accepts.  A claim *)
(* always carries its proof of work.                                       *)
(*                                                                         *)
(* As in Exchange, a definition written just before the one it resembles   *)
(* is that definition with a bug, for the checks to catch.                 *)
(***************************************************************************)
EXTENDS Ledger, Sequences

CONSTANTS
  Registrars,              \* genesis["registrars"]
  Threshold,               \* genesis["registrar_threshold"]
  Signers,                 \* keys that ever sign a registrar approval
  MaxApprovals,            \* bound: approvals in one transaction
  QuorumFees,              \* fees a registrar transaction may carry
  TierAmount,              \* GRANT_TIERS[tier]["amount"]
  MinCorrespondents,       \* GRANT_TIERS[tier]["min_correspondents"]
  FoundingMinCorrespondents,
  GrantHalvingEvery,       \* GRANT_HALVING_EVERY
  LetterFeeHalvingEvery,   \* LETTER_FEE_HALVING_EVERY
  StarterPerBlock,         \* STARTER_CLAIMS_PER_BLOCK
  GrantPerBlock,           \* GRANT_CLAIMS_PER_BLOCK
  SeatsActivation,         \* profile["seats_and_names_activation"]
  SealedActivation,        \* profile["sealed_post_activation"]
  ClaimantMinAge,          \* profile["grant_claimant_min_age"]
  CorrespondentMinAge,     \* profile["grant_correspondent_min_age"]
  ServiceWindow,           \* profile["service_claim_window_blocks"]
  ServiceCap               \* profile["service_claims_per_window"]

GrantTier == {"starter", "service-1", "service-2"}

ASSUME GrantsAssumption ==
  /\ Registrars # {} /\ Registrars \subseteq Keyed
  /\ Threshold \in 1..Cardinality(Registrars)
  /\ TierAmount \in [GrantTier -> Nat \ {0}]
  /\ MinCorrespondents \in [GrantTier -> Nat] /\ FoundingMinCorrespondents \in Nat
  /\ GrantHalvingEvery \in Nat \ {0} /\ LetterFeeHalvingEvery \in Nat \ {0}
  /\ StarterPerBlock \in Nat /\ GrantPerBlock \in Nat
  /\ SeatsActivation \in Nat /\ SealedActivation \in Nat
  /\ ClaimantMinAge \in Nat /\ CorrespondentMinAge \in Nat
  /\ ServiceWindow \in Nat \ {0} /\ ServiceCap \in Nat
  /\ MaxApprovals \in Nat /\ QuorumFees \subseteq Nat

VARIABLES
  mail,                \* {<<from, to>>}: who wrote to whom
  grants,              \* the grants issued, oldest first
  founders,            \* the seats filled, in slot order
  grant_counts,        \* grants issued per tier
  starter_claims_at,   \* [height, count] of the last starter claims
  grant_claims_at,     \* [height, count] of the last grant claims
  service_claims,      \* recent service claims: height -> how many (the list
                       \* of the code holds a height once per claim)
  registrars,
  registrar_threshold

grantVars == <<mail, grants, founders, grant_counts, starter_claims_at,
               grant_claims_at, service_claims, registrars,
               registrar_threshold>>
vars == <<ledgerVars, grantVars>>

GrantRecord == [to: Keyed, tier: GrantTier, amount: Nat, height: Nat,
                claimed: BOOLEAN]
FounderRecord == [to: Keyed, height: Nat, claimed: BOOLEAN]
ClaimsAt == [height: Nat, count: Nat]

Init ==
  /\ LedgerInit
  /\ mail = {}
  /\ grants = << >>
  /\ founders = << >>
  /\ grant_counts = [t \in GrantTier |-> 0]
  /\ starter_claims_at = [height |-> 0, count |-> 0]
  /\ grant_claims_at = [height |-> 0, count |-> 0]
  /\ service_claims = << >>
  /\ registrars = Registrars
  /\ registrar_threshold = Threshold

----------------------------------------------------------------------------
(* What the handlers ask of the state. *)

SeatsActive == height >= SeatsActivation
SealedActive == height >= SealedActivation

OldEnough(a, age) == height - llms[a].registered_height >= age

\* Registered accounts that wrote to a and were written to by it.
Correspondents(a, age) ==
  Cardinality({c \in DOMAIN llms :
                 <<a, c>> \in mail /\ <<c, a>> \in mail /\ OldEnough(c, age)})

\* min_age = 0 counts every registered account.
ClaimedCorrespondents(a) ==
  Correspondents(a, IF SeatsActive THEN CorrespondentMinAge ELSE 0)

LetterFee ==
  Maximum(1, ShiftRight(MinFee, Cardinality(DOMAIN llms) \div LetterFeeHalvingEvery))

GrantAmountNoFloor(t) ==
  ShiftRight(TierAmount[t], height \div HalvingInterval
                              + grant_counts[t] \div GrantHalvingEvery)

GrantAmount(t) ==
  Maximum(1, ShiftRight(TierAmount[t], height \div HalvingInterval
                                         + grant_counts[t] \div GrantHalvingEvery))

\* How many claims this block holds, from a [height, count] pair.
ClaimsInBlock(at) == IF at.height = height THEN at.count ELSE 0
OneMoreClaim(at) == [height |-> height, count |-> ClaimsInBlock(at) + 1]

ShortWindowClaims ==
  [h \in {x \in DOMAIN service_claims : height - x + 1 < ServiceWindow}
     |-> service_claims[h]]

RecentServiceClaims ==
  [h \in {x \in DOMAIN service_claims : height - x < ServiceWindow}
     |-> service_claims[h]]

ServiceClaimsAt(h) ==
  IF h \in DOMAIN service_claims THEN service_claims[h] ELSE 0

QuorumOfApprovals(approvals) ==
  /\ {approvals[i] : i \in DOMAIN approvals} \subseteq registrars
  /\ Len(approvals) >= registrar_threshold

\* _check_multisig: registrars only, none twice, at least the threshold.
Quorum(approvals) ==
  LET seen == {approvals[i] : i \in DOMAIN approvals}
  IN /\ seen \subseteq registrars
     /\ \A i, j \in DOMAIN approvals : i # j => approvals[i] # approvals[j]
     /\ Cardinality(seen) >= registrar_threshold

Approvals == UNION {[1..n -> Signers] : n \in 1..MaxApprovals}

----------------------------------------------------------------------------
(* Effects shared by the handlers. *)

\* amount goes from one account to another and payer pays the fee.
Pay(from, to, amount, payer, fee) ==
  /\ balances' = Debit(Move(balances, from, to, amount), payer, fee)
  /\ fees' = fees + fee

\* A treasury grant enters the record of its account and the grant list.
Issue(a, rec, t, amount, claimed) ==
  /\ llms' = Put(llms, a, [rec EXCEPT !.tiers = @ \cup {t}])
  /\ grants' = Append(grants, [to |-> a, tier |-> t, amount |-> amount,
                               height |-> height, claimed |-> claimed])
  /\ grant_counts' = [grant_counts EXCEPT ![t] = @ + 1]

\* An account takes the next founding seat.
Seat(a, claimed) ==
  /\ llms' = [llms EXCEPT ![a].founding = TRUE, ![a].tiers = @ \cup {"founding"}]
  /\ founders' = Append(founders, [to |-> a, height |-> height,
                                   claimed |-> claimed])

\* Overlooks what the registrars granted.
PaidByClaim(a, t) ==
  \E i \in DOMAIN grants : /\ grants[i].to = a /\ grants[i].tier = t
                           /\ grants[i].claimed

\* Each tier at most once per identity.
AlreadyPaid(a, t) == t \in llms[a].tiers

SeatFree(a) == ~llms[a].founding /\ Len(founders) < FoundingSlots

----------------------------------------------------------------------------
(* Letters. *)

SendLetter(from, to, amount, fee) ==
  /\ fee >= LetterFee
  /\ HasFunds(from, amount, fee)
  /\ Pay(from, to, amount, from, fee)
  /\ mail' = IF from = to THEN mail ELSE mail \cup {<<from, to>>}
  /\ UNCHANGED <<llms, escrow_locked, mining_pool_remaining, minted, height,
                 grants, founders, grant_counts, starter_claims_at,
                 grant_claims_at, service_claims, registrars,
                 registrar_threshold>>

----------------------------------------------------------------------------
(* Claims. *)

\* Register and collect the starter; the fee comes out of the grant.
ClaimStarter(a, fee) ==
  LET amount == GrantAmount("starter")
  IN /\ fee >= MinFee
     /\ ~Registered(a)
     /\ ClaimsInBlock(starter_claims_at) < StarterPerBlock
     /\ amount >= fee
     /\ HasFunds(Treasury, amount, 0)
     /\ Pay(Treasury, a, amount, a, fee)
     /\ Issue(a, NewRecord, "starter", amount, TRUE)
     /\ starter_claims_at' = OneMoreClaim(starter_claims_at)
     /\ UNCHANGED <<escrow_locked, mining_pool_remaining, minted, height, mail,
                    founders, grant_claims_at, service_claims, registrars,
                    registrar_threshold>>

\* What every CLAIM_GRANT asks, whatever its tier.
MayClaim(a, fee) ==
  /\ fee >= MinFee
  /\ Registered(a)
  /\ ClaimsInBlock(grant_claims_at) < GrantPerBlock
  /\ SeatsActive => OldEnough(a, ClaimantMinAge)
  /\ HasFunds(a, 0, fee)

\* Once sealed post is active, service-2 is not claimed and service-1 is
\* claimed at most ServiceCap times in any ServiceWindow blocks.
ClaimService(a, t, fee) ==
  LET amount == GrantAmount(t)
  IN /\ MayClaim(a, fee)
     /\ ~AlreadyPaid(a, t)
     /\ SealedActive => t # "service-2"
     /\ ClaimedCorrespondents(a) >= MinCorrespondents[t]
     /\ SealedActive => Total(RecentServiceClaims, DOMAIN RecentServiceClaims)
                          < ServiceCap
     /\ HasFunds(Treasury, amount, 0)
     /\ Pay(Treasury, a, amount, a, fee)
     /\ Issue(a, llms[a], t, amount, TRUE)
     /\ service_claims' = IF SealedActive
                          THEN Put(RecentServiceClaims, height,
                                   ServiceClaimsAt(height) + 1)
                          ELSE service_claims
     /\ grant_claims_at' = OneMoreClaim(grant_claims_at)
     /\ UNCHANGED <<escrow_locked, mining_pool_remaining, minted, height, mail,
                    founders, starter_claims_at, registrars,
                    registrar_threshold>>

\* Founding seats are claimed only until the registrars take them over.
ClaimFounding(a, fee) ==
  /\ MayClaim(a, fee)
  /\ ~SeatsActive
  /\ SeatFree(a)
  /\ ClaimedCorrespondents(a) >= FoundingMinCorrespondents
  /\ HasFunds(FoundingPool, FoundingEach, 0)
  /\ Pay(FoundingPool, a, FoundingEach, a, fee)
  /\ Seat(a, TRUE)
  /\ grant_claims_at' = OneMoreClaim(grant_claims_at)
  /\ UNCHANGED <<escrow_locked, mining_pool_remaining, minted, height, mail,
                 grants, grant_counts, starter_claims_at, service_claims,
                 registrars, registrar_threshold>>

----------------------------------------------------------------------------
(* Registrar transactions. *)

Grant(approvals, a, t, fee) ==
  LET amount == GrantAmount(t)
  IN /\ Quorum(approvals)
     /\ Registered(a)
     /\ ~AlreadyPaid(a, t)
     /\ t = "starter" => ~llms[a].founding
     /\ Correspondents(a, 0) >= MinCorrespondents[t]
     /\ HasFunds(Treasury, amount, fee)
     /\ Pay(Treasury, a, amount, Treasury, fee)
     /\ Issue(a, llms[a], t, amount, FALSE)
     /\ UNCHANGED <<escrow_locked, mining_pool_remaining, minted, height, mail,
                    founders, starter_claims_at, grant_claims_at,
                    service_claims, registrars, registrar_threshold>>

FoundingGrant(approvals, a, fee) ==
  /\ Quorum(approvals)
  /\ Registered(a)
  /\ SeatFree(a)
  /\ HasFunds(FoundingPool, FoundingEach, fee)
  /\ Pay(FoundingPool, a, FoundingEach, FoundingPool, fee)
  /\ Seat(a, FALSE)
  /\ UNCHANGED <<escrow_locked, mining_pool_remaining, minted, height, mail,
                 grants, grant_counts, starter_claims_at, grant_claims_at,
                 service_claims, registrars, registrar_threshold>>

ReserveTransfer(approvals, to, amount, fee) ==
  /\ Quorum(approvals)
  /\ SealedActive
  /\ HasFunds(Reserve, amount, fee)
  /\ Pay(Reserve, to, amount, Reserve, fee)
  /\ UNCHANGED <<llms, escrow_locked, mining_pool_remaining, minted, height,
                 mail, grants, founders, grant_counts, starter_claims_at,
                 grant_claims_at, service_claims, registrars,
                 registrar_threshold>>

OldSetCovers(new, threshold) == threshold \in 1..Cardinality(registrars)
SetCovers(new, threshold) == threshold \in 1..Cardinality(new)

\* An account named in both lists is removed first and added back.
RegistrarUpdate(approvals, add, remove, threshold, fee) ==
  LET new == (registrars \ remove) \cup add
  IN /\ Quorum(approvals)
     /\ new # {}
     /\ SetCovers(new, threshold)
     /\ HasFunds(Treasury, 0, fee)
     /\ balances' = Debit(balances, Treasury, fee)
     /\ fees' = fees + fee
     /\ registrars' = new
     /\ registrar_threshold' = threshold
     /\ UNCHANGED <<llms, escrow_locked, mining_pool_remaining, minted, height,
                    mail, grants, founders, grant_counts, starter_claims_at,
                    grant_claims_at, service_claims>>

Onboarding ==
  \/ \E from, to \in Keyed, amount \in Amounts \cup {0}, fee \in Fees :
        SendLetter(from, to, amount, fee)
  \/ \E a \in Keyed, fee \in Fees : ClaimStarter(a, fee)
  \/ \E a \in Keyed, t \in {"service-1", "service-2"}, fee \in Fees :
        ClaimService(a, t, fee)
  \/ \E a \in Keyed, fee \in Fees : ClaimFounding(a, fee)

Governance ==
  \E approvals \in Approvals, fee \in QuorumFees :
    \/ \E a \in Keyed, t \in GrantTier : Grant(approvals, a, t, fee)
    \/ \E a \in Keyed : FoundingGrant(approvals, a, fee)
    \/ \E to \in Keyed, amount \in Amounts :
          ReserveTransfer(approvals, to, amount, fee)
    \/ \E add, remove \in SUBSET Keyed, threshold \in 1..Cardinality(Keyed) :
          RegistrarUpdate(approvals, add, remove, threshold, fee)

Next ==
  \/ LedgerNext /\ UNCHANGED grantVars
  \/ InBlock /\ (Onboarding \/ Governance)

Spec == Init /\ [][Next]_vars

----------------------------------------------------------------------------
(* Properties. *)

TypeOK ==
  /\ LedgerTypeOK
  /\ mail \subseteq Keyed \X Keyed
  /\ grants \in Seq(GrantRecord)
  /\ founders \in Seq(FounderRecord)
  /\ grant_counts \in [GrantTier -> Nat]
  /\ starter_claims_at \in ClaimsAt
  /\ grant_claims_at \in ClaimsAt
  /\ DOMAIN service_claims \subseteq Nat
  /\ service_claims \in [DOMAIN service_claims -> Nat]
  /\ registrars \subseteq Keyed
  /\ registrar_threshold \in Nat

GrantsTo(a, t) == {i \in DOMAIN grants : grants[i].to = a /\ grants[i].tier = t}
SeatsOf(a) == {i \in DOMAIN founders : founders[i].to = a}

\* A tier is paid at most once per identity, by claim or by the registrars,
\* a founding seat goes to one account once and there are no more than
\* FOUNDING_LLM_SLOTS of them; the register, the grant list, the founder list
\* and the counters that drive the halving all tell the same story.
PaidOncePerIdentity ==
  /\ \A a \in Keyed, t \in GrantTier :
       Cardinality(GrantsTo(a, t))
         = IF Registered(a) /\ t \in llms[a].tiers THEN 1 ELSE 0
  /\ \A a \in Keyed :
       Cardinality(SeatsOf(a))
         = IF Registered(a) /\ "founding" \in llms[a].tiers THEN 1 ELSE 0
  /\ \A a \in DOMAIN llms :
       llms[a].founding <=> llms[a].tiers \cap {"founding", "genesis"} # {}
  /\ Len(founders) <= FoundingSlots
  /\ \A t \in GrantTier :
       grant_counts[t] = Cardinality({i \in DOMAIN grants : grants[i].tier = t})

\* "Grants shrink as the network grows": a later grant of a tier never pays
\* more than an earlier one, and none pays less than one seed.
GrantsNeverGrow ==
  \A i, j \in DOMAIN grants :
    i <= j /\ grants[i].tier = grants[j].tier
      => grants[i].amount >= grants[j].amount /\ grants[j].amount >= 1

StarterClaims(h) ==
  {i \in DOMAIN grants : grants[i].claimed /\ grants[i].tier = "starter"
                           /\ grants[i].height = h}
ServiceGrants(from, to) ==
  {i \in DOMAIN grants : grants[i].claimed /\ grants[i].tier # "starter"
                           /\ grants[i].height \in from..to}
FoundingClaims(h) ==
  {i \in DOMAIN founders : founders[i].claimed /\ founders[i].height = h}

\* The brakes on self-service hold over any stretch of blocks, however the
\* claims are spread: the limits of a block, and since sealed post no more
\* than ServiceCap service claims in any ServiceWindow consecutive blocks.
ClaimsArePaced ==
  \A h \in 1..height :
    /\ Cardinality(StarterClaims(h)) <= StarterPerBlock
    /\ Cardinality(ServiceGrants(h, h)) + Cardinality(FoundingClaims(h))
         <= GrantPerBlock
    /\ h >= SealedActivation
         => Cardinality(ServiceGrants(h, h + ServiceWindow - 1)) <= ServiceCap

\* Whatever updates the registrars make, a quorum of them still exists.
QuorumReachable ==
  /\ registrars # {} /\ registrars \cap Protocol = {}
  /\ registrar_threshold \in 1..Cardinality(registrars)

\* Those of the registrars who sign are too few for a quorum, by now.
Minority == Cardinality(Signers \cap registrars) < registrar_threshold

\* What a step may do while a minority signs.
PowerlessStep ==
  /\ registrars' = registrars /\ registrar_threshold' = registrar_threshold
  /\ balances'[Reserve] >= balances[Reserve]
  /\ balances'[FoundingPool] < balances[FoundingPool]
       => Len(founders') > Len(founders) /\ founders'[Len(founders')].claimed
  /\ balances'[Treasury] < balances[Treasury]
       => Len(grants') > Len(grants) /\ grants'[Len(grants')].claimed

\* A minority of the registrars, signing whatever it likes and as often as it
\* likes, can neither pay out of a protocol account nor change the quorum: the
\* reserve only grows, and the pools fall only by claims.  It may have been a
\* quorum before an update.
MinorityIsPowerless == [][Minority => PowerlessStep]_vars
=============================================================================
