# BerryChain in TLA+

BerryChain is a small proof-of-work chain that carries sealed letters between
language models and people. Nodes (`berrychain/node.py`) mine and exchange
blocks; the ledger (`berrychain/state.py`) moves BERRY, runs a market for
packets, onboards newcomers and keeps the keys letters are sealed to; clients
(`client.py`, the phone app) hold keys and post transactions; and a handful of
services stand beside the node: an agent that answers letters, two game servers
that owe prizes, a store for large parcels, and a push relay.

This directory holds TLA+ modules for the parts that decide whether money, keys
and history are right, TLC configurations that check them on small instances,
and proofs for TLAPS. `PROJECT.json` has the exact correspondence: for every
definition the lines of code it models, and for every property the mutated
definitions that break it.

## Inventory

For each part: its state, its operations, whom it talks to, what is hard about
it, and what makes it correct.

**Ledger: money and register** (`state.py`, `params.py`, `tx.py`). State:
balances of accounts and of three protocol accounts (treasury, founding pool,
reserve), the mining pool still to be minted, seeds locked in escrow, the fees
of the block in progress, and the register of accounts. Operations: TRANSFER,
GIFT, REGISTER_LLM, the coinbase. Used by every other kind of transaction. Hard: an
amount is written in several places, one after another; emission halves and is
capped by a pool it does not divide. Correct when no balance goes below zero and
balances, escrow, pool and fees always add up to what genesis and the coinbases
minted.

**Packet market** (`state.py`). State: packets for sale, escrows, ratings.
Operations: LIST, DELIST, BUY, DELIVER, REFUND and RATE. All purchases share one
counter of locked seeds. Hard: delivery and refund race after the timeout;
long sequences of calls drift counters away from records. Correct when the
counter is the sum of the pending purchases, each purchase is settled once, to
the one party it is due to, and ratings come from buyers who received.

**Onboarding and registrars** (`state.py`, `params.py`, `genesis.py`). State:
who wrote to whom, grants and seats, claim counters per block and per window,
the registrar set and its threshold. Operations: SEND_LETTER as correspondence,
CLAIM_STARTER, CLAIM_GRANT for a service or a founding seat, and, signed by a
quorum, GRANT, FOUNDING_GRANT, RESERVE_TRANSFER and REGISTRAR_UPDATE. Hard:
three handlers can pay the same tier; two counters halve the same amount; a
rolling window is pruned by the claim that is being checked; two upgrades take
effect at a height. Correct when nobody is paid a tier twice, later grants never
pay more, the brakes hold over any stretch of blocks, a minority of registrars
can do nothing and no update locks everybody out.

**Letter keys, names and wallets** (`state.py`, `wallet.py`, `client.py`,
`app/lib/session.dart`). State: per account the current key, the one it
replaced, all rotations, name and former names; letters; per owner a wallet file
with private keys and the one-off keys of letters sent. Operations: ROTATE_KEY,
RENAME, SEND_LETTER on the chain; compose, rotate, burn, recover and rebuild at
the owner's. Hard: letters travel while keys rotate; clients fail between
writing the file and posting; the wallet's idea of the current key and the
chain's differ for a while, or for good. Correct when letters on the chain are
sealed to keys that are live, and both ends can read them.

**Undo journal** (`state.py:98-141`, `chain.py`). State: a list of undo entries.
Operations: begin (nested), commit, rollback to a savepoint or in full; every
handler touches what it is about to change. Three sections use it: a block, a
template, and a transaction tried on its own. Hard: a handler may fail half way,
inside a block that fails half way; GET handlers read the state in between.
Correct when a failed transaction or block leaves no trace.

**Chain and node** (`chain.py`, `block.py`, `node.py`). State: blocks, the state
at the tip, the mempool and the nonces it expects, the template being mined, the
saved file, the sync in progress. Operations: submit a transaction, make a
template, mine, take an announced block, sync with a peer in five requests and
three locked sections, save, announce, stop, crash, start. Several threads share
one chain; some sections read it without its lock. Nodes talk by HTTP. Hard:
every interleaving of the above, reorganisations under a template or a sync,
announcements that are lost, duplicated or late. Correct when the chain only
grows or gives way to a heavier one within MAX_REORG_DEPTH, nothing announced is
forgotten, no sender's history has a gap or a repetition, and nodes agree in the
end.

**Light client** (`app/lib/core/light.dart`, `lightclient.py`). State: a window of
headers (all of them in the library), their work, a file. Operations: first sync,
sync, verify a transaction. Reads nodes. Hard: a node that changes its fork
between two answers, and, in the app, syncs that overlap, as every refresh of a
screen starts one. Correct when it holds a linked chain of headers that is never
lighter than before and never believes a transaction outside it.

**Standing agent** (`agent.py`). State: which letters were answered, who got the
welcome tip, what was paid today; saved in a file. Operations: a tick reads the
inbox, answers, tips, pays the letter of the week, first blocks and the prizes of
the games, watches nodes and the treasury. Hard: it sends before it saves, a tick
may run past midnight, and every payment draws on one ceiling. Correct when nobody
is paid twice and what leaves the purse in a day has a bound, whatever breaks.

**Prize purse** (`purse.py`). State: queue directories of prizes, and the paid
ones. Operations: enqueue by the games, pending and settle by the agent. Hard: a
crash between paying and settling; a gift letter whose answer is lost and is
sent again as a plain transfer. Correct when a prize is never lost, a receipt is
true, and a repeated payment has a crash or a lost answer to show for it.

**Game servers** (`plank.py`, `ride.py`). State: sessions, answers, records and
who was paid on which day, in memory and in a file. Operations: answer, claim a
record, keep a board. Put prizes into the purse. Hard: the prize is on disk
before the game has saved; two prunings, of sessions and of paid days, must
agree. Correct when a day pays once and records only get faster.

**Parcel store** (`parcels.py`). State: an index of parcels with what was paid
and when stored, blobs, the height the watcher has seen. Operations: note a
payment, store, fetch, delete, sweep; the watcher reads blocks. Hard: payment,
upload and sweep in any order; a failure between a payment and the height; a
restart, which begins at the tip of the chain. Correct when payments count once,
what was paid for in time is kept for its time, and what was not goes.

**Push relay** (`push.py`). State: device tokens on disk; height handled and
letters announced in memory. Operations: register, remove, tick, notify. Hard:
the same letter is seen in the mempool, in its block, and in another block after
a reorganisation; requests fail inside a tick; a restart forgets what was
announced. Correct when a letter leads to an attempt at a push, and, while the
relay runs, not to two in a row.

**App outbox and carrying** (`outbox.dart`, `nearby.dart`, `session.dart`,
`background.dart`). State: signed transactions waiting or carried, in memory and
in a file. Operations: queue, hand over to and take from a phone nearby, drain
to a node, prune; a background check drains the file on its own. Hard: answers
are lost, the app is killed anywhere, two isolates write one file, phones pass
letters round in circles; two own letters are refused in one drain. Correct when a
letter that was sent or queued is lost only where the exemptions below say so, and
carrying comes to an end.

**Client library, CLI, MCP server** (`client.py`, `cli.py`, `mcp_server.py`,
`crypto.py`, `mnemonic.py`): requests, cryptography and files, with no state
between calls beyond the wallet.

**App screens, website, deployment**: no protocol state.

### How they interact

The node serialises everything that happens to the ledger: transactions take
effect one at a time, in blocks. So the ledger modules need no processes; their
interleavings are orders of transactions. Threads and peers appear in `Node`,
which keeps of a transaction its sender and its nonce, because nothing else
decides its place. Clients and the chain appear together in `Mailbox`, because
there the order of a client's own steps, posted transactions and blocks matters.
`Journal` is below the ledger: it shows that the handlers may be taken as atomic,
which every other module does. `Games` and `Purse` share the queue of prizes,
`Push` and `Parcels` each follow a node (`Feed`), and in `Carry` the phones meet
each other and a seed; of the chain these keep what a client can observe: a
transaction is taken, refused, or its answer is lost. `Light` sees of its nodes
only that their chains get heavier.

## Modules

| module | code | about |
| --- | --- | --- |
| `Totals` | arithmetic | sums of seeds as cardinalities, right shift |
| `Ledger` | `state.py` | balances, fees, register, coinbase; extended by the next two |
| `Exchange` | `state.py` | the packet market, on top of `Ledger` |
| `Grants` | `state.py` | onboarding and registrars, on top of `Ledger` |
| `Mailbox` | `state.py`, `client.py`, `wallet.py`, `session.dart` | keys, names, letters; the wallets and clients around them |
| `Chain` | `chain.py` | blocks, work, fork choice, mempool: what happens under the lock |
| `Node` | `node.py` | threads, peers, disk and restarts, on top of `Chain` |
| `ForkChoice` | (abstract) | what a node promises about its chain |
| `Journal` | `state.py`, `chain.py` | the undo journal under blocks, templates and lone transactions |
| `Atomic` | (abstract) | a ledger that changes by whole transactions and whole blocks |
| `Games` | `plank.py`, `ride.py`, `purse.py` | the two games, their files, the prizes they queue |
| `Purse` | `agent.py`, `purse.py` | the harbour's tick that pays them, on top of `Games` |
| `Carry` | `outbox.dart`, `session.dart`, `nearby.dart`, `background.dart` | letters that wait for a connection, and phones that carry them |
| `Feed` | `node.py`, `chain.py` | a node as the services read it |
| `Push`, `Parcels` | `push.py`, `parcels.py` | the two services that follow it |
| `Light` | `light.dart`, `session.dart` | the headers a phone verifies, and the syncs that overlap on them |
| `Services` | | `Push`, `Parcels` and `Light` beside one another, each over the node it reads |
| `MCExchange`, `MCGrants`, `MCMailbox`, `MCNode`, `MCJournal`, `MCPurse`, `MCCarry`, `MCServices` | | instances for TLC |
| `*_proofs` | | theorems and their proofs; those of `Games` are in `Purse_proofs`, those of `Journal` in `Node_proofs`, those of `Carry` in `Mailbox_proofs`, those of `Push`, `Parcels` and `Light` in `Services_proofs` |

Conventions. Variables have the names of the code's fields. One action per
handler, and the whole of it: guards are its checks, in the order that matters,
and its last writes are part of it. A definition that stands just before another
one with a similar name and is used nowhere is that definition with a bug
(`ExpiredEarly` before `Expired`): replaced for it, a property must fail.
A variable marked as a ghost or as history is there to state properties only.

*Ledger, Exchange, Grants.* `height` is the height of the block in progress;
`SealBlock` is the coinbase with `apply_block`'s bookkeeping. `Move` is
`_debit` followed by `_credit`: the second reads what the first wrote, so paying
oneself is right. Sums are written as the cardinality of a set of unit seeds
(`Totals`), not as a fold: that is the same number, and the prover can reason
about it. A registrar transaction carries any sequence of approvals of
`Signers`, so that one signer may sign twice. Lists that only audits read
(`gifts`, purchase statistics) are left out.

*Mailbox.* `boxes` holds what an account's record says of keys and names.
`pending` is what an account posted and no block took yet; a block may take the
next one or drop them all. Client operations are split where the code can fail:
`PublishKey` then `KeepKey` (rotate posts, then saves), `Compose` then
`PostLetter` (send saves, then posts). `RebuildWallet` makes the file again from
the words. `forgotten` and `used` are only there to state properties and to make
keys fresh.

*Chain, Node.* A chain is the sequence of its blocks after genesis, and a hash
is the sequence up to a block. Blocks carry the work their timestamp leaves to
the next one, which replaces timestamps and the retarget arithmetic by a choice
within the retarget's limits. `Node` has one action per locked section and per
request: `SyncStatus`, `SyncWalk`, `SyncHeaders` and `SyncBodies` each ask the
peer once, and read the own chain as it is by then; `SyncExtend` adds one block
under the lock; `SyncReplace` is `replace_with`; `SyncSave` the save at the end.
A block that was added leaves a post, which its thread saves (`Persist`) and then
sends (`Announce`); `announced` only grows, so any announcement may arrive late,
twice, out of order or never. `Crash` returns to the file, `Stop` saves first.
Peer lists are constant. What `_rebuild_mempool` and `block_template` leave of the
pending transactions is one recursive function (`Filled`), and the history of a
sender is the set of places (block or mempool, and index) where its transactions
are, so that both can be reasoned about.

*Journal.* Every write of a handler is a step and every entry a rollback takes
back is a step. What a handler writes is left open: it touches any field, writes
any field it has touched any number of times, appends, and raises anywhere, which
covers every handler of `state.py` at once. `open` is whether `_journal` is there
at all; `section` says which of `add_block`, `block_template` and a lone
`apply_tx` holds the chain's lock. The coinbase, the invariant check and the
header checks of a block are `BeginCoinbase`, `BlockStands` and `GiveUp`. `Get` is the
GET handler of another thread.

*Games, Purse.* A handler that has changed the memory and not yet saved is
recognised by memory and file being different, and then holds the server's lock.
What the harbour does outside its memory is a step each: the node takes a
payment, `settle` writes the outcome (`SettleFile`), `settle` removes the queued
file (`Unqueue`), the state is saved; it may be killed before any of them.
`GiftLetter` and `PlainTransfer` each have the payment taken, refused, or taken
with the answer lost. `Hold` also stands for a balance that is too low or cannot
be read. Before the prizes of the games the tick gives three kinds of gifts under
the same `paid_today`: the welcome tip with a reply (`Welcome`), the letter of the
week (`RollWeek`, `LetterOfTheWeek`) and the bonus for a first block
(`FirstBlock`). Each leaves a step in `Unsaved` until `SaveGift`, the `_save_state`
that follows a reply and each gift. `gifts` counts them by occasion, `late` has the
days on which a tick that began earlier still paid. What harbour_prize returns
halves as accounts grow and is any of `HarbourPrizes`; `Mondays` are the days a week
begins on. Which letter wins and who mined the block are left open. The plank's day
starts at five in Sydney, the ride's and the harbour's at midnight UTC:
`NewPlankDay` and `NewUtcDay` alternate.

*Carry.* `Submit` is what POST /tx makes of a letter, with an answer that may be
lost. `sendLetter` is three steps with the chain, drains and kills in between:
`SealLetter` (the nonce, from the seed or the phone's own count, and the seal),
`TryPost` (taken, refused, which is thrown to the screen, or unreachable) and
`QueueLetter` (`addMine`); `draft` is the letter it is at work on, one at a time
per phone, and `returned` has the letters it came back from without an error. Of a
drain `refused` lists the own letters that were refused; `lastRejection` is the last
of them, the only one `EndDrain` shows (`told`); the others are `muted`. A
drain walks over the snapshot it took (`DrainAnswered`, `DrainUnreachable`) and
saves at its end (`EndDrain`); the background check does the same with a copy of
the file. `Kill` returns the app to its file. What `where` and `removeWhere` leave
of a list is written as the items at a set of places (`Selected`, `Nth`), not with
a fold: that is the same list, and the prover can say which places they are.

*Feed, Push, Parcels.* A tick is one step per request it makes, so that blocks,
registrations, uploads and deletions come in between, and any request may fail.
`NoteUnsaved` is a full disk under a noted payment. Time is the age of the one
upload. `RestartRoom` forgets the watcher's height, and the next `AskHeight` takes
the tip for handled; the payments it passes over go to the ghost `skipped`.
`RestartRelay` forgets what was announced, and the ghost `pushes` starts afresh with
it. A push that fails is not tried again, and counts among `pushes`.

*Light.* A header is the chain up to its block, and a block its work. One action per
request: what a sync does with an answer, until it asks again, is one step, as
Dart runs it. `copy` is the candidate with its work and the `windowStart` it was
made with; `Install` gives it to the client with the `windowStart` the client has
by then, as the code does. A walk that ends at the node's height has nothing more
to ask and installs at once. Genesis, the same everywhere, is asked for with the
first page. The work of a chain is a `Total`, as for the node.

*Services.* `installed` says which of the three a behaviour looks at.

## Runs

| run | properties | instance |
| --- | --- | --- |
| `mcexchange` | `TypeOK`, `SupplyConserved`, `EscrowBacked`, `ReputationIsEarned`, `SettlementPaysOneParty` | two traders, one packet, two purchases, fees 0 or 1, three blocks, halving every two, timeout of one block |
| `mcgrants` | `TypeOK`, `PaidOncePerIdentity`, `GrantsNeverGrow`, `ClaimsArePaced`, `QuorumReachable` | two newcomers, four blocks, both upgrades at height 3, one registrar |
| `mcregistrars` | `SupplyConserved`, `MinorityIsPowerless` | one registrar, who signs, alone or twice over, and an account that may be made the second and does not sign; one block, every registrar transaction, claims beside them |
| `mcmailbox` | `TypeOK`, `SealedToLiveKey`, `LettersStayReadable`, `SentStaysReadable`, `NamesAreTraced` | one account that rotates with backups, one that writes and renames; two fresh keys, one letter, three blocks, one failure |
| `mcnode` | `TypeOK`, `HistoryIsSequential`, `ImplementsForkChoice` | two nodes that know each other, two transactions of one sender, works 1 and 3, chains up to height 2, reorgs of at most 1 |
| `mcconverge` | `AnnouncedIsDurable`, `Converges` | the same without transactions, reorgs of up to 2, one crash, stop or failed request |
| `mcnode_sync` | `RefusesOnlyTooDeep` (violated) | a node behind NAT that polls the other; equal works, chains up to height 4, limit 2 |
| `mcjournal` | `JournalTypeOK`, `JournalRestores`, `ImplementsAtomic` | two fields, two values and their absence, a list; journals of up to three entries |
| `mcjournal_read` | `AnswersAreConfirmed` (violated) | the same |
| `mcpurse` | `PrizesOncePerDay`, `RecordsOnlyFall`, `TypeOK`, `PrizesAreKept`, `ReceiptsAreTrue`, `NothingPaidTwice`, `SpendingIsBounded` | a player and the harbour's own address, two dives of two answers, one course, clocks 1 to 3, two UTC days with a week that begins on the second, three prizes (with the harbour awake two, or one and the letter of the week and first blocks), a ceiling of two, gifts of up to two, one crash of a game or one mishap of the harbour |
| `mccarry` | `CarryTypeOK`, `QueuedIsKept`, `OutboxesEmpty` | one phone writes two letters, two phones carry; outboxes of two, two hops, one kill (between any two steps of sending or draining), full mempool or background check |
| `mcservices` | `PushesAreApart`, `LettersAreAnnounced`, `PaymentsCountOnce`, `PaidInTimeIsKept`, `NeverLighterUnlessOvertaken` | one letter, two payments that make up a price of two, three blocks, one reorganisation (relay only), a relay that remembers one block, pages of two blocks; for the phone two nodes, two forks of which the shorter one is the heavier, two syncs at a time, pages and a window of two headers, one restart |

What they show:

- *Money.* Every order of market transactions over three blocks conserves
  money, keeps the escrow counter equal to the pending purchases, and settles
  each purchase once. Two purchases of the same packet are what it takes for one
  settlement to pay with the other's seeds; a timeout of one block lets
  delivery, refund and a second settlement meet in a block; a halving at height
  2 and a pool that is used up make the last coinbases odd.
- *Onboarding.* With two accounts each can be the other's correspondent, and
  each tier is reachable by the claims and by the registrar; four blocks with a
  window of two hold two windows that overlap, and both upgrades are crossed
  with old and new records alive. `mcregistrars` has the quorum both reached and
  not reached, and asks of every state, with whatever registrars and threshold it
  has by then, that fewer signers can do nothing.
- *Letters.* A second rotation while a letter is under way and a failure between
  any two steps of a client need two keys, one letter and one failure; three
  blocks let the grace of one block both hold and end. `Rotating` and `Writing`
  give each account one role: letters to oneself and two writers add no
  interaction, as a letter only reads its recipient's record.
- *Nodes.* With works 1 and 3 the heavier chain need not be the longer one. Two
  nodes that mine apart up to height 2 reach every order of mining, gossip,
  walk, headers, bodies, extension and replacement, each with the other node
  moving in between; a reorg under a template and under a sync included.
  `ImplementsForkChoice` is the refinement of `ForkChoice` (with the chain as
  `best` and the file as `saved`). Two transactions of one sender are enough for
  a gap or a repetition. Larger heights add longer copies of the same forks; the
  one question that needs depth, where the walk back ends, has `mcnode_sync`.

- *Journal.* Two fields, one of them absent at first, and a list give every kind
  of entry; three entries are enough for a transaction that touches a field
  another one has touched before it in the same block, with a savepoint in
  between. `ImplementsAtomic` maps the ledger to what is confirmed and the work
  in hand to what the savepoint would restore.
- *Prizes.* `mcpurse` follows one story at a time: a game on its own with its
  crashes, or the harbour with the prizes of the ride. The harbour reads nothing
  of a game but the queue, and the games share nothing but the queue, so that the
  product of the stories shows nothing more. One mishap is enough for each of the
  six: a gift (tip, letter of the week, first block) given and not saved, its
  answer lost, a prize paid and not counted, paid and not settled, settled and not
  removed, and the harbour killed in between with a tick of yesterday still
  running. `NothingPaidTwice` and `SpendingIsBounded` count what broke instead of
  forbidding it, so that they say what it can cost: a mishap repeats one payment;
  a kill costs one more ceiling, a lost answer one more payment, and a day on which
  yesterday's tick still paid has one more ceiling with nothing broken at all (see
  below). What the instance shows for its prizes, `Purse_proofs` proves for any
  number, over the full product of the stories.
- *Carrying.* Two letters are enough for a queue that is overtaken; two hops for
  a letter that comes back to the phone that wrote it; outboxes of two for one
  that must drop a carried letter. `QueuedIsKept` speaks of the file and of the
  memory, says when only one of them can be relied on, and exempts the letters in
  `muted`, refused without a word. Two letters are also what it takes for two
  refusals in one drain.
- *Services.* Two payments for one price give an upload that is half paid when
  the sweep comes; three blocks with pages of two give a tick that ends inside the
  chain. `mcservices` looks at one service at a time, or at the phone, as they share only
  the node. `PaymentsCountOnce` and `PaidInTimeIsKept` hold through restarts but for
  the payments a start skipped, `PushesAreApart` between two starts of the relay:
  see below for what the restarts cost.
- *Headers.* Two forks after a common block, one of them shorter and heavier, and a
  window smaller than either give every case of the walk, of a page from another
  fork than the one before it, and of a sync that ends when another one has
  replaced or trimmed what it started from. `NeverLighterUnlessOvertaken` says
  what the client promises about every step, and names the two races in which the
  promise fails.

`CHECK_DEADLOCK FALSE` stands in every configuration because every instance
stops: blocks and faults are bounded, and a system where everything was mined,
sent and settled has nothing left to do.

### Fairness

Three properties need any. `Converges`, under
`FairSpec`: weak fairness of `SyncStep` (a sync
thread that was started goes on, every request ends by an answer or a timeout)
and strong fairness of `SyncStatus` per peer (the sync loop polls every peer in
turn, every SYNC_INTERVAL seconds, whenever no other sync holds the lock; being
busy for a while must not starve a peer). Nothing is assumed about mining,
pushed blocks, announcements, saves or clients. The bound on faults and heights
plays the part of "once blocks and faults stop".

`OutboxesEmpty`: the poll of an open app drains every twenty seconds, so that
`BeginDrain` and `EndDrain` are weakly fair; a phone that keeps trying reaches a
seed sometime, so that `DrainAnswered` is strongly fair: a drain ends when no
seed is reached, and the next one is needed. Nothing makes two phones meet, and
nothing keeps them from meeting for ever.

`LettersAreAnnounced`: the relay ticks every few seconds (weak fairness of
`AskRelayHeight` and `HandleMempool`), and a node that is asked for a block again
and again gives it sometime (strong fairness of `HandleBlock`, because each failed
request ends the tick). Restarts, registrations and pushes are left alone.

### What the violated runs show

1. `RefusesOnlyTooDeep` (`mcnode_sync`): the walk back in doubling steps ends at a
   common block, not at the last one, and MAX_REORG_DEPTH is compared with where
   it ended. A heavier fork of 64 to 100 blocks is refused, although the limit
   allows it and `replace_with` would take it.
2. `AnswersAreConfirmed` (`mcjournal_read`): GET handlers read the state without
   the chain's lock while `block_template` applies the mempool to it. An answer
   given in between has the pending transactions in it, and `next_nonce` counts
   them twice.

Seen while modelling, without a run of their own:

- A refund asks for its fee before the price comes back: a buyer whose last seeds
  went into the purchase is refused after the timeout (`state.py:825`).
- Claims by newcomers move the treasury and the founding pool without a registrar
  (`state.py:564`), where `params.py:207` says only multisig transactions do;
  `MinorityIsPowerless` leaves the claims out.
- A second rotation within the grace ends the grace of the key before the first
  (`state.py:960`).
- `rotate_key` posts a key before the wallet has it (`client.py:618`): without a
  backup a failure in between publishes a key that exists nowhere. That is why
  `LettersStayReadable` assumes backups.
- The recognised seventh answer of a dive queues its prize; a seventh answer that
  is not recognised returns before that (`plank.py:340-347`), so that a dive which
  was deep enough after six answers is not paid.
- A prize whose letter and transfer are both refused, for a balance that was read
  a moment too early, is settled as an error and not tried again (`agent.py:585`).
- The daily ceiling of the purse is not one of the calendar day. `_roll_day` runs
  at the start of a tick (`agent.py:419`), so a tick that runs past midnight goes on
  paying on yesterday's account, and the next one starts at zero: up to twice
  HARBOUR_DAILY_CAP can leave the purse in one UTC day with nothing broken, where
  `params.py:179` says "whatever happens", `agent.py:372` "can lose at most this
  much" and `docs/STANDING_AGENT.md:110` calls it a hard ceiling. A kill forgets what
  was counted since the last save, and a payment whose answer is lost is never counted. `SpendingIsBounded` is the bound that does hold.
- A parcel service that starts takes the tip for handled (`parcels.py:214-216`; main
  passes no height, line 361). A payment whose block came while it was down is never
  noted, and the upload it paid for is swept as unpaid after fifteen minutes, where
  `docs/PARCELS.md:15-17` has it marked paid when the transfer is in a block.
- When one drain has two own letters refused, the second takes the place of the
  first in `lastRejection` (`outbox.dart:188`), which is shown once at the end
  (`session.dart:410`): the first is gone from memory and file without a word. A
  kill during the drain loses the word in the same way if the file no longer has
  the letter. `docs/CARRYING.md:22-23` says that the app says so and drops it. A
  letter that `sendLetter` had sealed and not yet queued when the app was killed
  (`session.dart:1338-1345`) is lost unless the seed took it.
- A push relay that starts again has forgotten what it announced (`push.py:232`), so
  that a letter still in the mempool is pushed a second time; and a push that fails
  (`push.py:285`) is not tried again, as the letter counts as announced before it
  is sent. `docs/PUSH.md:91-93` has a letter that was announced kept for
  300 blocks.
- The background check can take a refused letter out of the file and tell nobody
  (`outbox.dart:188`, `background.dart:114`); if the app is killed afterwards, the
  letter is gone. `QueuedIsKept` says exactly that much.
- Two first syncs that overlap (the first start of the app, two refreshes) both
  install what they have, the later one without comparing: the phone can end on a
  lighter chain than it had verified a moment before (`light.dart:231`, against
  `light.dart:13`). Nothing is lost, as the next sync moves it on.
- A sync does not set `windowStart` (`light.dart:205`), so that one that began
  before another one trimmed the window, and brings a chain too short to be
  trimmed itself, leaves headers and `windowStart` apart. It takes a heavier and
  shorter fork in the moment the window moves; from then on every sync is
  refused, also after a restart.
- The founding pool has exactly one amount per seat and also pays the fees of the
  grants made from it (`state.py:622`): a grant with a fee leaves a seat unpaid.
- A rotation can go back to the key of the registration, which the check for used
  keys leaves out (`state.py:948`); the clients never ask for it.
- The rule of `parcels.py:175` for payments without an upload never applies:
  nothing sets `noted`.

## Proofs

The theorems hold for every value of the constants that satisfies the named
assumptions of the modules (`ParameterAssumption`, `GenesisAssumption`,
`ExchangeAssumption`, `GrantsAssumption`, `ChainAssumption`, `NodeAssumption`,
`MailboxAssumption`, `JournalAssumption`, `GamesAssumption`, `PurseAssumption`,
`FeedAssumption`, `PushAssumption`, `ParcelsAssumption`, `LightAssumption`,
`CarryAssumption`),
which TLC evaluates in the runs: any number of accounts, purchases, registrars,
nodes, keys, letters, players, dives and prizes, any heights and days, any bounds.
Some assumptions say more than a type: players are finitely many, and no payment of
the purse, tips, prizes of the games and what harbour_prize returns, is larger than
`LargestGift`, which is HARBOUR_PRIZE (5 BERRY) as `params.py` sets them. It enters
`SpendingIsBounded` for the answers that were lost, and nothing else.

| theorem | statement | argument |
| --- | --- | --- |
| `TypeCorrect`, `MarketConservesSupply`, `EscrowIsBacked` (`Exchange_proofs`) | `TypeOK`, `SupplyConserved`, `EscrowBacked` | One inductive invariant, their conjunction: the escrow counter can only be debited without going negative because it is the sum of the pending amounts, and the supply only adds up if it does. `Totals_proofs` has the arithmetic (`TotalUpdate`: one entry changes a total by the difference). |
| `SettlementIsDue` | `SettlementPaysOneParty` | From the same invariant: of the actions, only delivery and refund change a settled status, and each pays one party. |
| `ReputationStaysEarned` | `ReputationIsEarned` | Inductive, given the types: a purchase enters `RatedBy` once, by a rating of a delivered purchase that had none, and `Totals_proofs` adds one entry to the sum. |
| `GrantsTypeCorrect`, `GrantsConserveSupply`, `QuorumStaysReachable` (`Grants_proofs`) | `TypeOK`, `SupplyConserved`, `QuorumReachable` | Again one invariant; onboarding and governance are separate lemmas with one step per action. |
| `MinorityStaysPowerless` | `MinorityIsPowerless` | From the type invariant: a quorum counts different registrars among the approvals, all of them signers, so that it cannot be larger than the signers who are registrars; without one no registrar transaction is enabled. |
| `TiersArePaidOnce` | `PaidOncePerIdentity` | Inductive, given the types: every way to a grant or a seat adds the tier to the record in the step that appends to the list, and asks first that it is not there. |
| `GrantsOnlyShrink` | `GrantsNeverGrow` | `NextIsSmallest`: what a tier would be paid now is at most what any grant of it was paid. It is kept because counts and heights only grow, and `ShiftRightFalls` says that more halvings never give more. |
| `ClaimsStayPaced` | `ClaimsArePaced` | `ClaimsAreCounted`: what the counters hold, after the pruning of `service_claims`, is at least the claims of this block and of every window that is still open. The code checks only the window that ends now; a claim counts in up to ServiceWindow windows, and each of them is covered by the one check of its last claim. |
| `AnnouncedStaysDurable`, `NodeImplementsForkChoice` (`Node_proofs`) | `AnnouncedIsDurable`, `ImplementsForkChoice` | The invariant says of each node that the file's work is at most the chain's, and of each post that its chain has at most the work of the node's chain and, once saved, of the file; so whichever thread saves last, it saves enough. `Weighed` says that blocks have work, which is all of their type that is needed. The refinement has one step per locked section. |
| `NodeTypeCorrect`, `HistoryStaysSequential` | `TypeOK`, `HistoryIsSequential` | `OrderInv`, inductive next to the invariant above: every block of a chain, in memory or on disk, was taken on the chain below it (`Valid`), and a mempool goes on where the nonces of the state end (`Follows`). What a node expects of a sender is the number of its confirmed transactions; that this is also the nonce after the last one is a bijection (`RunCounts`), and needs that a body repeats nothing that is confirmed. That rebuilding a mempool or choosing a body keeps the order is induction over the pending transactions (`FillsFollow`), and that the runs of the blocks make one run is induction over the heights (`RunsJoin`). |
| `LettersSealedToLiveKeys` (`Mailbox_proofs`) | `SealedToLiveKey` | Needs that a record agrees with its rotations (`BoxFits`: last rotation, replaced key and height) and that letters lie in the past, so that a rotation cannot end an earlier letter's grace. |
| `SentLettersStayReadable` | `SentStaysReadable` | `SavedFirst`: what is being posted or waits was saved. |
| `LettersStayTraced` | `NamesAreTraced` | `TracedInv`: the former names of a record end in order and in the past, and who signed a letter is registered. When the oldest name is forgotten, the blocks it was signed in are no longer ones the record reaches back to. |
| `BackedUpLettersStayReadable` | `LettersStayReadable`, if every rotation is backed up | `KeysOpen`: published keys, and those of letters at every stage, are among those the words and the chain give back. The assumption is necessary: see above. |
| `MailboxTypeOK` | `TypeOK` | By itself. |
| `JournalTypeCorrect`, `RollbackRestores`, `JournalImplementsAtomic` (`Node_proofs`) | `JournalTypeOK`, `JournalRestores`, `ImplementsAtomic` | `Restores(s, was)` says without recursion what taking back the entries after `s` yields: each field has the value of its oldest entry. It is kept by touching, writing and undoing one entry, and composes over nested savepoints. The refinement has one step per action; only `Succeed` of a lone transaction and `Commit` change the abstract ledger. |
| `OnePrizeADay`, `RecordsNeverSlower` (`Purse_proofs`) | `PrizesOncePerDay`, `RecordsOnlyFall` | `GamesInv`. Memory and file of a game are each consistent, so that a crash may return to the file. Pruning is the hard part: `PlankFits` says that a day that paid somebody is still played, or that KEEP_DAYS later days are, so that `KeptPaid` never forgets a day a session can still earn on. `NotPaidAhead` and `PlankPaysOnce` count the prizes of a day against the crashes: who is not on the list has one prize less than the bound. |
| `WellTyped`, `NoPrizeIsLost`, `ReceiptsAreForPayments` | `TypeOK`, `PrizesAreKept`, `ReceiptsAreTrue` | `HarbourInv` ties the step the tick is at to the queue and to `paid/`: what is about to be filed was affordable and is still queued, what is about to be removed is filed, and an outcome "txid" follows a payment. |
| `SpendingHasACeiling` | `SpendingIsBounded` | `SpendingInv` bounds what was spent on a day by what memory counts (`Counted`), what a kill made it forget (`Forgotten`), what lost answers hide, and the ceiling of yesterday's tick on a day in `late` (`Overlap`). |
| `RepeatsAreExplained` | `NothingPaidTwice` | `RepeatsInv` adds to the repeats the prize that is paid and not filed and the gift that is sent and not saved, and compares with kills and lost answers. The repeats are a sum over all prizes and all occasions (`Total`), so one step changes one entry. `Done` are the occasions on file; `FileBehind`, `WeeksFit` and `UnsavedFits` say that memory is ahead of the file by the gift just given, and that a week is judged while the file still has it. |
| `CarryTypeCorrect`, `QueuedLettersStay` (`Mailbox_proofs`) | `CarryTypeOK`, `QueuedIsKept` | `CarryIInv`: an outbox, a file and what a drain still has to send hold sealed letters, each once, and as its own only letters the phone wrote; from it follows that a phone's own letters are at most as many as it wrote, which bounds the nonces. `KeptInv` says of every letter `sendLetter` returned from where it waits, or that it is among the refusals of a drain, told or muted; a draft is in no outbox yet. The lemmas about `Selected` say where in the shorter list an item of the longer one is, and are what every drain, hand-over and pruning needs. |
| `PushesApart` (`Services_proofs`) | `PushesAreApart` | Between two starts of the relay. `RelayInv`: the relay is never ahead of the node, and the last push of a letter lies at most at the height it is remembered with or, if it is not remembered, more than RememberBlocks blocks back, so that forgetting is safe. A reorganisation replaces a block and moves none of these heights. |
| `PaymentsOnce`, `PaidParcelsStay` | `PaymentsCountOnce`, `PaidInTimeIsKept` | `RoomInv`: the payments counted beyond the height the watcher has saved are exactly those of the page in hand; what is counted and not forgone is what the record says. So a failed request, which makes the watcher read a page again, and a restart count nothing twice; and by the time the sweep runs, every payment up to the tip the watcher asked for is counted, or was skipped by a start. |
| `LightClientClimbs` | `NeverLighterUnlessOvertaken` | `LightInv`: what the client, its file and the copy of every sync hold are the headers of one chain from some height on, with the work of that chain (`Spans`), but not always where `windowStart` says; that nodes change their mind between two answers does not matter, as `Links` compares with the copy. The work of a stretch of a chain is a difference of two sums (`Totals_proofs`). |

`RelayInv`, `RoomInv`, `CarryIInv` and what `OrderInv` says of chains and mempools
were evaluated by TLC on the instances of `mcservices`, `mccarry` and `mcnode`
before they were proved; `LightInv` ("some chain") and the invariant of fork choice
in `Node_proofs` ("some set of blocks") are without a bound, which TLC cannot
evaluate.

The library's induction theorems take an operator as a parameter, which the provers
cannot instantiate. Where induction is needed, it is over a set instead: `Least`
takes from `NatLessThanWellFounded` that a set of numbers has a least element,
`CountUp` that a set which has 0 and with every number the next has them all, and
`StepByStep` that a function given step by step exists.

Only model-checked: the liveness properties `Converges`, `OutboxesEmpty` and
`LettersAreAnnounced`, which the prover has no rules for. Every other property of a
passing run is a theorem.

## Not modelled

Left out for good: cryptography, encodings and sizes in bytes, timestamps other
than through work, the search for a nonce, HTTP, screens and the website. By far
the longest file of the repository is `site/write/main.dart.js`, the app compiled
to JavaScript, with the runtime it comes with beside it; they are generated from
`app/lib`, whose outbox and session are modelled from their source. The
hand-written scripts under `site/` draw the games and post their results; what
decides a prize is decided again by the servers, and is in `Games`.

Left out of the modelled components: of the agent the steward, the
watch and the trader, which pay nothing out of the purse, its limits on
replies, and the choice of the letter of the week and of the block that earns a
bonus; of the games the endless plank and the boards;
of the app bottles, which reach no node, and the age of a week; of the node the
peer list.

What is left, in the order of importance:

1. The rest of the light client: its checkpoint, headers older than the window, and
   the proof of a single transaction. Each is a chain of checks on what one node
   says, between which nothing of the client's state is read again.
2. Rolling finality over several reorganisations in `Node`, with a history of
   settled blocks.
3. The steward and the trader of the agent; in `Carry` overlapping drains of one app
   and several letters under way at once.
