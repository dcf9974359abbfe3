------------------------------- MODULE Carry -------------------------------
(***************************************************************************)
(* Letters that wait for a connection: the outbox of the app               *)
(* (core/outbox.dart), how it is drained to a seed (session.dart), how two *)
(* phones that meet copy each other's (nearby.dart), and the background    *)
(* check, which drains the file of the outbox from an isolate of its own   *)
(* while the app may be running with the outbox in memory                  *)
(* (background.dart).                                                      *)
(*                                                                         *)
(* The seed is what POST /tx makes of a letter: one it has is answered     *)
(* again, one with the sender's next nonce is taken, any other is refused; *)
(* and it may refuse anything while its mempool is full.  Any request may  *)
(* find no seed, and any answer may be lost on the way back.               *)
(*                                                                         *)
(* A letter is abstracted to its writer, its number among the letters of   *)
(* that phone, and its nonce.  The age of a week and the bottles, which    *)
(* never reach a seed, are left out.                                       *)
(***************************************************************************)
EXTENDS Integers, Sequences, FiniteSets

CONSTANTS
    Phones,
    Writers,        \* bound: the phones whose wallets write letters
    MaxHops,        \* maxHops
    MaxItems,       \* maxItems
    MaxLetters,     \* bound: letters written on a phone
    MaxMishaps      \* bound: kills of the app, refusals by a full mempool, and
                    \* runs of the background check

ASSUME CarryAssumption ==
    /\ Writers \subseteq Phones
    /\ {MaxHops, MaxItems} \subseteq Nat \ {0}
    /\ {MaxLetters, MaxMishaps} \subseteq Nat

VARIABLES
    chain,      \* the letters a seed has taken, in order
    outbox,     \* Outbox.items of a running app
    file,       \* outbox.json
    known,      \* _knownNextNonce, kept in the settings file
    drain,      \* a drain of the app: its snapshot, whether it removed any, and
                \* the own letters refused so far (lastRejection is the last)
    task,       \* the background check: its own copy of the outbox, the same
    draft,      \* the letter sendLetter is at work on, if it is
    written,    \* ghost: the letters sealed on a phone
    returned,   \* ghost: those for which sendLetter returned
    told,       \* ghost: the letters whose refusal from the outbox was shown
    muted,      \* ghost: those refused and dropped without a word
    mishaps,    \* bound counters
    tasks

letterVars == <<draft, written, returned>>
toldVars == <<told, muted>>
phoneVars == <<outbox, file, known, drain>>
carryVars == <<chain, phoneVars, task, letterVars, toldVars, mishaps, tasks>>

LetterTx == [from : Writers, n : 1 .. MaxLetters, nonce : 0 .. 2 * MaxLetters]
Item == [tx : LetterTx, mine : BOOLEAN, hops : 0 .. MaxHops]
Draft == [tx : LetterTx, online : BOOLEAN]

-----------------------------------------------------------------------------
(* The seed: chain.py add_tx.                                               *)

NextNonce(from) == Cardinality({i \in 1 .. Len(chain) : chain[i].from = from})
Has(tx) == \E i \in 1 .. Len(chain) : chain[i] = tx
Fits(tx) == ~Has(tx) /\ tx.nonce = NextNonce(tx.from)
MayFail == mishaps + tasks < MaxMishaps

\* What happens to a letter a phone tries to hand over, and what the phone
\* sees of it.
Submit(tx, outcome) ==
    \/ /\ outcome = "delivered"
       /\ Has(tx)
       /\ UNCHANGED <<chain, mishaps>>
    \/ /\ outcome \in {"delivered", "unreachable"}      \* or the answer is lost
       /\ Fits(tx)
       /\ chain' = Append(chain, tx)
       /\ UNCHANGED mishaps
    \/ /\ outcome = "refused"
       /\ ~Has(tx) /\ ~Fits(tx)
       /\ UNCHANGED <<chain, mishaps>>
    \/ /\ outcome = "refused"                           \* "mempool full" everywhere
       /\ Fits(tx) /\ MayFail
       /\ mishaps' = mishaps + 1
       /\ UNCHANGED chain
    \/ /\ outcome = "unreachable"
       /\ UNCHANGED <<chain, mishaps>>

-----------------------------------------------------------------------------
(* The outbox.                                                              *)

\* The items of a sequence at the places of I, in their order.
Nth(I, k) == CHOOSE i \in I : Cardinality({j \in I : j < i}) = k - 1
Selected(s, I) == [k \in 1 .. Cardinality(I) |-> s[Nth(I, k)]]

Holds(items, tx) == \E i \in DOMAIN items : items[i].tx = tx
Without(items, tx) == Selected(items, {i \in DOMAIN items : items[i].tx # tx})
Owned(items) == {i \in DOMAIN items : items[i].mine}
Mine(items) == Selected(items, Owned(items))
Carried(items) == Selected(items, DOMAIN items \ Owned(items))

\* prune: too many items, and the oldest carried ones go.
Prune(items) ==
    LET surplus == Len(items) - MaxItems
        old == {i \in DOMAIN items \ Owned(items) :
                   Cardinality({j \in DOMAIN items \ Owned(items) : j < i}) < surplus}
    IN  Selected(items, DOMAIN items \ old)

\* drain's snapshot: our own first.
Snapshot(items) ==
    LET ordered == Mine(items) \o Carried(items)
    IN  [k \in 1 .. Len(ordered) |-> ordered[k].tx]

NoDrain == [on |-> FALSE, todo |-> <<>>, changed |-> FALSE, refused |-> <<>>]
Off == [on |-> FALSE, items |-> <<>>, todo |-> <<>>, changed |-> FALSE]

\* fromWire: what is new, a hop further, unless that is one too many.
FurtherSameHops(item) == [tx |-> item.tx, mine |-> FALSE, hops |-> item.hops]   \* mutant
Further(item) == [tx |-> item.tx, mine |-> FALSE, hops |-> item.hops + 1]
Taken(items, wire) ==
    LET new == Selected(wire, {i \in DOMAIN wire : ~Holds(items, wire[i].tx) /\ wire[i].hops < MaxHops})
    IN  [k \in DOMAIN new |-> Further(new[k])]

-----------------------------------------------------------------------------
(* The app: sendLetter.  Its steps are apart, so that the chain and the     *)
(* outbox may change, and the app may be killed, between any two of them.   *)

\* _localNextNonce: the last known nonce and the own letters still queued.
LocalNonce(p) == known[p] + Len(Mine(outbox[p]))

New(p, nonce) == [from |-> p, n |-> Cardinality(written[p]) + 1, nonce |-> nonce]

\* Bound: a phone writes one letter at a time.
MayWrite(p) == p \in Writers /\ draft[p] = {} /\ Cardinality(written[p]) < MaxLetters

\* The nonce is the seed's, or the phone's own reckoning when none answers, and
\* the letter is sealed and signed with it.  The drain sendLetter begins with is
\* BeginDrain's; where that found no seed, a seed may still answer now.
SealLetter(p) ==
    /\ MayWrite(p)
    /\ \E online \in BOOLEAN :
          LET tx == New(p, IF online THEN NextNonce(p) ELSE LocalNonce(p))
          IN  /\ draft' = [draft EXCEPT ![p] = {[tx |-> tx, online |-> online]}]
              /\ written' = [written EXCEPT ![p] = @ \cup {tx}]
    /\ UNCHANGED <<chain, phoneVars, task, returned, toldVars, mishaps, tasks>>

\* sendTx: taken, and sendLetter returns; refused, which it throws to the screen
\* that called it; or the connection drops, the letter taken by the seed or not.
TryPost(p) ==
    \E d \in draft[p] :
        /\ d.online
        /\ \/ /\ Submit(d.tx, "delivered")
              /\ draft' = [draft EXCEPT ![p] = {}]
              /\ returned' = [returned EXCEPT ![p] = @ \cup {d.tx}]
           \/ /\ Submit(d.tx, "refused")
              /\ draft' = [draft EXCEPT ![p] = {}]
              /\ UNCHANGED returned
           \/ /\ Submit(d.tx, "unreachable")
              /\ draft' = [draft EXCEPT ![p] = {[d EXCEPT !.online = FALSE]}]
              /\ UNCHANGED returned
        /\ UNCHANGED <<phoneVars, task, written, toldVars, tasks>>

\* addMine
QueueUnsaved(p, tx) ==   \* mutant
    /\ outbox' = [outbox EXCEPT ![p] = Append(@, [tx |-> tx, mine |-> TRUE, hops |-> 0])]
    /\ UNCHANGED file
Queue(p, tx) ==
    /\ outbox' = [outbox EXCEPT ![p] = Append(@, [tx |-> tx, mine |-> TRUE, hops |-> 0])]
    /\ file' = [file EXCEPT ![p] = outbox'[p]]

\* Offline, or after the connection dropped: the letter waits in the outbox.
QueueLetter(p) ==
    \E d \in draft[p] :
        /\ ~d.online
        /\ Queue(p, d.tx)
        /\ draft' = [draft EXCEPT ![p] = {}]
        /\ returned' = [returned EXCEPT ![p] = @ \cup {d.tx}]
        /\ UNCHANGED <<chain, known, drain, task, written, toldVars, mishaps, tasks>>

-----------------------------------------------------------------------------
(* The app: refresh, drains and meetings.                                   *)

\* refresh, after its own drain: the account of the wallet with the nonce that
\* follows what the seed has.
Refresh(p) ==
    /\ p \in Writers
    /\ ~drain[p].on
    /\ known[p] # NextNonce(p)
    /\ known' = [known EXCEPT ![p] = NextNonce(p)]
    /\ UNCHANGED <<chain, outbox, file, drain, task, letterVars, toldVars, mishaps, tasks>>

\* drainOutbox: from a poll, a refresh, a send, or a hand-over.  Bound: a phone
\* drains its outbox once at a time.
BeginDrain(p) ==
    /\ ~drain[p].on
    /\ outbox[p] # <<>>
    /\ drain' = [drain EXCEPT ![p] = [on |-> TRUE, todo |-> Snapshot(outbox[p]),
                                     changed |-> FALSE, refused |-> <<>>]]
    /\ UNCHANGED <<chain, outbox, file, known, task, letterVars, toldVars, mishaps, tasks>>

\* The own letters refused in a drain: a refusal overwrites lastRejection.
RefusedOfAny(p, tx, outcome) ==   \* mutant
    IF outcome = "refused" THEN Append(drain[p].refused, tx) ELSE drain[p].refused
Refused(p, tx, outcome) ==
    IF outcome = "refused" /\ Holds(Mine(outbox[p]), tx)
    THEN Append(drain[p].refused, tx) ELSE drain[p].refused

\* The seed answers, and the letter leaves the outbox.
DrainAnswered(p) ==
    /\ drain[p].todo # <<>>
    /\ LET tx == Head(drain[p].todo)
       IN  \E outcome \in {"delivered", "refused"} :
              /\ Submit(tx, outcome)
              /\ outbox' = [outbox EXCEPT ![p] = Without(@, tx)]
              /\ drain' = [drain EXCEPT ![p].todo = Tail(@), ![p].changed = TRUE,
                                        ![p].refused = Refused(p, tx, outcome)]
    /\ UNCHANGED <<file, known, task, letterVars, toldVars, tasks>>

\* No seed answers: the drain stops there.
DrainUnreachable(p) ==
    /\ drain[p].todo # <<>>
    /\ Submit(Head(drain[p].todo), "unreachable")
    /\ drain' = [drain EXCEPT ![p].todo = <<>>]
    /\ UNCHANGED <<outbox, file, known, task, letterVars, toldVars, tasks>>

\* The letters refused in the drain, and the one whose refusal is shown: the
\* last, whose refusal lastRejection holds when the drain is over.
Refusals(p) == {drain[p].refused[i] : i \in DOMAIN drain[p].refused}
Shown(p) == {drain[p].refused[i] : i \in {Len(drain[p].refused)} \ {0}}

\* The drain saves what it changed, and drainOutbox shows lastRejection.
EndDrain(p) ==
    /\ drain[p].on /\ drain[p].todo = <<>>
    /\ file' = IF drain[p].changed THEN [file EXCEPT ![p] = outbox[p]] ELSE file
    /\ drain' = [drain EXCEPT ![p] = NoDrain]
    /\ told' = [told EXCEPT ![p] = @ \cup Shown(p)]
    /\ muted' = [muted EXCEPT ![p] = @ \cup (Refusals(p) \ Shown(p))]
    /\ UNCHANGED <<chain, outbox, known, task, letterVars, mishaps, tasks>>

\* Two phones meet, or one announces: q takes what p holds.
HandOver(p, q) ==
    /\ p # q
    /\ LET new == Taken(outbox[q], outbox[p])
       IN  /\ new # <<>>
           /\ outbox' = [outbox EXCEPT ![q] = Prune(@ \o new)]
           /\ file' = [file EXCEPT ![q] = outbox'[q]]
    /\ UNCHANGED <<chain, known, drain, task, letterVars, toldVars, mishaps, tasks>>

\* The system kills the app; it starts again with the file.  A letter sendLetter
\* was at work on is gone, and so is what the drain had still to say: a letter it
\* saw refused is tried again only if the file still has it.
Kill(p) ==
    /\ MayFail
    /\ outbox[p] # file[p] \/ drain[p].on \/ draft[p] # {}
    /\ outbox' = [outbox EXCEPT ![p] = Prune(file[p])]
    /\ drain' = [drain EXCEPT ![p] = NoDrain]
    /\ draft' = [draft EXCEPT ![p] = {}]
    /\ muted' = [muted EXCEPT ![p] = @ \cup {tx \in Refusals(p) : ~Holds(Mine(file[p]), tx)}]
    /\ mishaps' = mishaps + 1
    /\ UNCHANGED <<chain, file, known, task, written, returned, told, tasks>>

-----------------------------------------------------------------------------
(* drainOutboxFile: the same drain on a copy of the file, telling nobody.   *)

BeginTask(p) ==
    /\ ~task[p].on
    /\ MayFail
    /\ file[p] # <<>>
    /\ task' = [task EXCEPT ![p] = [on |-> TRUE, items |-> Prune(file[p]),
                                   todo |-> Snapshot(Prune(file[p])), changed |-> FALSE]]
    /\ tasks' = tasks + 1
    /\ UNCHANGED <<chain, phoneVars, letterVars, toldVars, mishaps>>

TaskAnswered(p) ==
    /\ task[p].todo # <<>>
    /\ LET tx == Head(task[p].todo)
       IN  /\ \E outcome \in {"delivered", "refused"} : Submit(tx, outcome)
           /\ task' = [task EXCEPT ![p].items = Without(@, tx), ![p].todo = Tail(@), ![p].changed = TRUE]
    /\ UNCHANGED <<phoneVars, letterVars, toldVars, tasks>>

TaskUnreachable(p) ==
    /\ task[p].todo # <<>>
    /\ Submit(Head(task[p].todo), "unreachable")
    /\ task' = [task EXCEPT ![p].todo = <<>>]
    /\ UNCHANGED <<phoneVars, letterVars, toldVars, tasks>>

EndTask(p) ==
    /\ task[p].on /\ task[p].todo = <<>>
    /\ file' = IF task[p].changed THEN [file EXCEPT ![p] = task[p].items] ELSE file
    /\ task' = [task EXCEPT ![p] = Off]
    /\ UNCHANGED <<chain, outbox, known, drain, letterVars, toldVars, mishaps, tasks>>

-----------------------------------------------------------------------------

CarryInit ==
    /\ chain = <<>>
    /\ outbox = [p \in Phones |-> <<>>]
    /\ file = outbox
    /\ known = [p \in Phones |-> 0]
    /\ drain = [p \in Phones |-> NoDrain]
    /\ task = [p \in Phones |-> Off]
    /\ draft = [p \in Phones |-> {}]
    /\ written = draft /\ returned = draft
    /\ told = draft /\ muted = draft
    /\ mishaps = 0
    /\ tasks = 0

CarryNext ==
    \/ \E p \in Phones :
          \/ SealLetter(p) \/ TryPost(p) \/ QueueLetter(p) \/ Refresh(p)
          \/ BeginDrain(p) \/ DrainAnswered(p) \/ DrainUnreachable(p) \/ EndDrain(p)
          \/ Kill(p)
          \/ BeginTask(p) \/ TaskAnswered(p) \/ TaskUnreachable(p) \/ EndTask(p)
    \/ \E p, q \in Phones : HandOver(p, q)

\* The poll of an open app drains every twenty seconds and the background
\* check ends; a phone that keeps trying reaches a seed sometime.  Nothing
\* makes two phones meet.
CarryFairness ==
    \A p \in Phones :
        /\ WF_carryVars(BeginDrain(p))
        /\ WF_carryVars(EndDrain(p))
        /\ SF_carryVars(DrainAnswered(p))

CarrySpec == CarryInit /\ [][CarryNext]_carryVars /\ CarryFairness

-----------------------------------------------------------------------------
(* Properties                                                               *)

\* The type invariant.
CarryTypeOK ==
    /\ chain \in Seq(LetterTx)
    /\ \A p \in Phones :
          /\ outbox[p] \in Seq(Item) /\ file[p] \in Seq(Item)
          /\ known[p] \in 0 .. MaxLetters
          /\ drain[p].todo \in Seq(LetterTx) /\ (drain[p].todo # <<>> => drain[p].on)
          /\ task[p].todo \in Seq(LetterTx) /\ (task[p].todo # <<>> => task[p].on)
          /\ draft[p] \subseteq Draft /\ {d.tx : d \in draft[p]} \subseteq written[p]
          /\ Refusals(p) \cup told[p] \cup muted[p] \subseteq returned[p]
          /\ returned[p] \subseteq written[p] /\ written[p] \subseteq LetterTx
    /\ mishaps \in Nat /\ tasks \in Nat /\ mishaps + tasks <= MaxMishaps

\* A letter of which sendLetter said that it is sent or queued does not get lost:
\* a seed has it; or the chain refused it, which the app has shown, or will at the
\* end of the drain; or it still waits.  It waits in the running app and in the
\* file the app would start from, through lost answers, full mempools and kills
\* at any step of a drain or of another letter.  Two exemptions: the letters in
\* `muted`, refused without a word because a later refusal of the same drain took
\* the place of theirs, or the app was killed before the drain could say so; and
\* the background check beside the app, which may take a letter out of the file,
\* refused or overwritten and nobody told, that only the app that runs on has.
QueuedIsKept ==
    \A p \in Writers : \A tx \in returned[p] :
        \/ Has(tx) \/ tx \in told[p] \cup muted[p] \cup Refusals(p)
        \/ /\ tasks = 0 => Holds(Mine(file[p]), tx)
           /\ tasks = 0 \/ mishaps = 0 => Holds(Mine(outbox[p]), tx)

\* Carrying comes to an end: once nobody writes any more, every outbox empties
\* for good, although phones keep handing one another letters the other has
\* just got rid of (the hops of each copy only grow).
OutboxesEmpty == <>[](\A p \in Phones : outbox[p] = <<>>)

=============================================================================
