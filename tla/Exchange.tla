------------------------------ MODULE Exchange ------------------------------
(***************************************************************************)
(* The packet market of the ledger: listings, purchases held in escrow,    *)
(* delivery, refund and ratings (the _apply_*_packet handlers and          *)
(* _apply_rate_seller of berrychain/state.py).                             *)
(*                                                                         *)
(* A packet and a purchase are named by the txid of the transaction that   *)
(* created them, here a value that was not used before.                    *)
(*                                                                         *)
(* A definition written just before the one it resembles is that           *)
(* definition with a bug a change to the code could bring (a dropped or    *)
(* shifted guard, a forgotten counter); the checks run against each of     *)
(* them must fail.                                                         *)
(***************************************************************************)
EXTENDS Ledger

CONSTANTS
  PacketId,        \* txids of listings
  EscrowId,        \* txids of purchases
  Prices,          \* prices a seller may ask
  Scores,          \* ratings a buyer may give
  EscrowTimeout    \* profile["escrow_timeout_blocks"]

ASSUME ExchangeAssumption ==
  /\ IsFiniteSet(EscrowId)
  /\ Prices \subseteq Nat
  /\ Scores \subseteq 1..5
  /\ EscrowTimeout \in Nat

VARIABLES
  packets,     \* listing -> [seller, price, active]
  escrows,     \* purchase -> [packet, buyer, seller, amount, height, status,
               \*              rating]; rating 0 is None
  reputation   \* seller -> sums of the ratings received

exchangeVars == <<packets, escrows, reputation>>
vars == <<ledgerVars, exchangeVars>>

Packet == [seller: Keyed, price: Nat, active: BOOLEAN]

Escrow == [packet: PacketId, buyer: Keyed, seller: Keyed, amount: Nat,
           height: Nat, status: {"pending", "delivered", "refunded"},
           rating: 0..5]

NoRatings == [sum |-> 0, count |-> 0, llm_sum |-> 0, llm_count |-> 0]

Pending(e) == e \in DOMAIN escrows /\ escrows[e].status = "pending"

Init ==
  /\ LedgerInit
  /\ packets = << >>
  /\ escrows = << >>
  /\ reputation = [a \in Keyed |-> NoRatings]

----------------------------------------------------------------------------
(* Listings. *)

ListPacket(seller, id, price, fee) ==
  /\ id \notin DOMAIN packets
  /\ PayFee(seller, fee)
  /\ packets' = Put(packets, id,
                    [seller |-> seller, price |-> price, active |-> TRUE])
  /\ UNCHANGED <<llms, escrow_locked, mining_pool_remaining, minted, height,
                 escrows, reputation>>

DelistPacket(seller, id, fee) ==
  /\ id \in DOMAIN packets
  /\ packets[id].seller = seller
  /\ packets[id].active
  /\ PayFee(seller, fee)
  /\ packets' = [packets EXCEPT ![id].active = FALSE]
  /\ UNCHANGED <<llms, escrow_locked, mining_pool_remaining, minted, height,
                 escrows, reputation>>

----------------------------------------------------------------------------
(* Purchases. *)

BuyPacket(buyer, id, e, fee) ==
  /\ id \in DOMAIN packets
  /\ packets[id].active
  /\ packets[id].seller # buyer
  /\ fee >= MinFee
  /\ HasFunds(buyer, packets[id].price, fee)
  /\ e \notin DOMAIN escrows
  /\ balances' = Debit(Debit(balances, buyer, packets[id].price), buyer, fee)
  /\ fees' = fees + fee
  /\ escrow_locked' = escrow_locked + packets[id].price
  /\ escrows' = Put(escrows, e,
                    [packet |-> id, buyer |-> buyer,
                     seller |-> packets[id].seller,
                     amount |-> packets[id].price, height |-> height,
                     status |-> "pending", rating |-> 0])
  /\ UNCHANGED <<llms, mining_pool_remaining, minted, height, packets,
                 reputation>>

\* Whatever settles a purchase pays its price out of escrow, takes the fee of
\* the settling transaction, and closes the purchase.
SettleLocked(e, payee, status, fee) ==
  /\ balances' = Debit(Credit(balances, payee, escrows[e].amount), payee, fee)
  /\ fees' = fees + fee
  /\ escrow_locked' = escrow_locked
  /\ escrows' = [escrows EXCEPT ![e].status = status]

Settle(e, payee, status, fee) ==
  /\ balances' = Debit(Credit(balances, payee, escrows[e].amount), payee, fee)
  /\ fees' = fees + fee
  /\ escrow_locked' = escrow_locked - escrows[e].amount
  /\ escrows' = [escrows EXCEPT ![e].status = status]

\* The seller publishes the wrapped key and is paid, however late.
DeliverPacket(seller, e, fee) ==
  /\ Pending(e)
  /\ escrows[e].seller = seller
  /\ fee >= MinFee
  /\ HasFunds(seller, 0, fee)
  /\ Settle(e, seller, "delivered", fee)
  /\ UNCHANGED <<llms, mining_pool_remaining, minted, height, packets,
                 reputation>>

ExpiredEarly(e) == height + 1 >= escrows[e].height + EscrowTimeout
Expired(e) == height >= escrows[e].height + EscrowTimeout

\* The buyer takes the price back once the timeout has passed.
RefundPacket(buyer, e, fee) ==
  /\ Pending(e)
  /\ escrows[e].buyer = buyer
  /\ Expired(e)
  /\ fee >= MinFee
  /\ HasFunds(buyer, 0, fee)
  /\ Settle(e, buyer, "refunded", fee)
  /\ UNCHANGED <<llms, mining_pool_remaining, minted, height, packets,
                 reputation>>

MayRateAgain(buyer, e) ==
  /\ e \in DOMAIN escrows
  /\ escrows[e].buyer = buyer
  /\ escrows[e].status = "delivered"

\* One rating by the buyer of a delivered purchase.
MayRate(buyer, e) ==
  /\ e \in DOMAIN escrows
  /\ escrows[e].buyer = buyer
  /\ escrows[e].status = "delivered"
  /\ escrows[e].rating = 0

RateSeller(buyer, e, score, fee) ==
  /\ MayRate(buyer, e)
  /\ PayFee(buyer, fee)
  /\ escrows' = [escrows EXCEPT ![e].rating = score]
  /\ LET byLlm == IF Registered(buyer) THEN 1 ELSE 0
     IN reputation' = [reputation EXCEPT ![escrows[e].seller] =
                         [sum |-> @.sum + score,
                          count |-> @.count + 1,
                          llm_sum |-> @.llm_sum + byLlm * score,
                          llm_count |-> @.llm_count + byLlm]]
  /\ UNCHANGED <<llms, escrow_locked, mining_pool_remaining, minted, height,
                 packets>>

Market ==
  \/ \E a \in Keyed, id \in PacketId, price \in Prices, fee \in Fees :
        ListPacket(a, id, price, fee)
  \/ \E a \in Keyed, id \in PacketId, fee \in Fees : DelistPacket(a, id, fee)
  \/ \E a \in Keyed, id \in PacketId, e \in EscrowId, fee \in Fees :
        BuyPacket(a, id, e, fee)
  \/ \E a \in Keyed, e \in EscrowId, fee \in Fees : DeliverPacket(a, e, fee)
  \/ \E a \in Keyed, e \in EscrowId, fee \in Fees : RefundPacket(a, e, fee)
  \/ \E a \in Keyed, e \in EscrowId, score \in Scores, fee \in Fees :
        RateSeller(a, e, score, fee)

Next ==
  \/ LedgerNext /\ UNCHANGED exchangeVars
  \/ InBlock /\ Market

Spec == Init /\ [][Next]_vars

----------------------------------------------------------------------------
(* Properties. *)

TypeOK ==
  /\ LedgerTypeOK
  /\ DOMAIN packets \subseteq PacketId /\ packets \in [DOMAIN packets -> Packet]
  /\ DOMAIN escrows \subseteq EscrowId /\ escrows \in [DOMAIN escrows -> Escrow]
  /\ reputation \in [Keyed -> [sum: Nat, count: Nat, llm_sum: Nat,
                               llm_count: Nat]]

\* What each purchase still holds: its price while it is pending.
Held == [e \in EscrowId |-> IF Pending(e) THEN escrows[e].amount ELSE 0]

\* The one counter escrow_locked is exactly what the pending purchases hold,
\* so no settlement can pay out the seeds of another purchase.
EscrowBacked == escrow_locked = Total(Held, EscrowId)

\* What any step may do to the purchases made so far.
SettlementStep ==
  \A e \in DOMAIN escrows :
    LET before == escrows[e]
        after == escrows'[e]
        payee == IF after.status = "delivered" THEN before.seller
                 ELSE before.buyer
    IN /\ after.buyer = before.buyer /\ after.seller = before.seller
       /\ after.amount = before.amount /\ after.height = before.height
       /\ before.status # "pending" => after.status = before.status
       /\ after.status # before.status =>
            /\ balances'[payee] - balances[payee]
                 = before.amount - (fees' - fees)
            /\ \A a \in Account \ {payee} : balances'[a] = balances[a]
            /\ after.status = "refunded"
                 => height - before.height >= EscrowTimeout

\* Settling a purchase pays its price, less the fee of the settling
\* transaction, to the one party it is due to: the seller on delivery, the
\* buyer on a refund that comes after the timeout; nobody else's balance
\* moves, and a settled purchase never changes its outcome or its parties.
SettlementPaysOneParty == [][SettlementStep]_vars

RatedBy(s) == {e \in DOMAIN escrows :
                 escrows[e].seller = s /\ escrows[e].rating # 0}

\* A seller's reputation is exactly the ratings on its delivered purchases:
\* none counted twice, none from a refunded or pending purchase, and those
\* of registered buyers a part of it.
ReputationIsEarned ==
  \A s \in Keyed :
    /\ reputation[s].count = Cardinality(RatedBy(s))
    /\ reputation[s].sum
         = Total([e \in RatedBy(s) |-> escrows[e].rating], RatedBy(s))
    /\ \A e \in RatedBy(s) : escrows[e].status = "delivered"
    /\ reputation[s].llm_count <= reputation[s].count
    /\ reputation[s].llm_sum <= reputation[s].sum
=============================================================================
