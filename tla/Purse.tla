------------------------------- MODULE Purse -------------------------------
(***************************************************************************)
(* The race purse from end to end: the game servers queue prizes (module   *)
(* Games), the Harbourmaster's tick (agent.py, class PenPal) pays them as  *)
(* gift letters under a daily ceiling and moves each file from queue/ to   *)
(* paid/ (purse.py).  The same purse, under the same ceiling, pays the     *)
(* welcome tip that rides with the first reply to an address, the letter   *)
(* of the week and the bonus for the first block a pen pal mines.          *)
(*                                                                         *)
(* What the tick does outside its own memory - a letter or a transfer on   *)
(* the chain, a file written, a file removed - is a step each, so that the *)
(* process may be killed and midnight may pass between any two of them.    *)
(* The node may refuse what it is sent (no receiving key, a stale balance, *)
(* too many pending), and an answer may be lost after it took the payment. *)
(***************************************************************************)
EXTENDS Games, Totals

CONSTANTS
    Harbour,        \* the purse's own address; a player may type its name
    Tip,            \* HARBOUR_WELCOME_TIP
    HarbourPrizes,  \* what harbour_prize may return: it halves as accounts grow
    LargestGift,    \* no payment is larger: HARBOUR_PRIZE, as params.py has it
    DailyCap,       \* HARBOUR_DAILY_CAP
    Mondays,        \* the days on which an ISO week begins
    MaxPerTick,     \* prizes looked at in one tick (20)
    MaxMishaps      \* bound: kills of the harbour and answers it loses

ASSUME PurseAssumption ==
    /\ {Tip, DailyCap, MaxPerTick} \subseteq Nat \ {0}
    /\ MaxMishaps \in Nat
    /\ LargestGift \in Nat
    /\ {Tip, DiveAmount, RideAmount, RideNamed} \cup HarbourPrizes \subseteq 1 .. LargestGift
    /\ Mondays \subseteq Days

VARIABLES
    agent,      \* PenPal.state: the day, paid_today, tipped, week (0: None), bonused
    agentFile,  \* penpal-state.json
    pc,         \* where the tick is; "txid" and "error" are outcomes to file
    todo,       \* prizes _game_purse has still to look at
    paid,       \* the paid/ directories: None, or the outcome on file
    killed,     \* ghost: how often the harbour was killed
    sent,       \* ghost: how often the chain took a payment of a prize
    gifts,      \* ghost: how often the chain took the gift of an occasion
    spent,      \* ghost: what left the purse on a UTC day
    late,       \* ghost: days on which a tick of an earlier day paid something
    lost        \* ghost: answers lost after the node took the payment

harbourVars == <<agent, agentFile, pc, todo, paid>>
chainVars == <<sent, gifts, spent, late, lost>>
vars == <<gameVars, harbourVars, killed, chainVars>>

MayFail == killed + lost < MaxMishaps
None == "none"
Outcomes == {"txid", "error"}
\* a gift the chain took and the file does not know of
Unsaved == {"tipped", "won", "thanked"}
Steps == {"idle", "post", "judge", "bonus", "purse", "pay", "plain", "unqueue"} \cup Unsaved \cup Outcomes

\* _week_key: the weeks are numbered from 1
Weeks == 1 .. MaxDay + 1
Week(day) == 1 + Cardinality({m \in Mondays : m <= day})

\* What is given once: a tip to an address, a bonus to an address, the prize of
\* a week that is over.
Occasions == ({"tip", "bonus"} \X Players) \cup ({"week"} \X Weeks)

GamesUnchanged == UNCHANGED <<plank, plankFile, ride, rideFile, prizes, plankDay, utcDay, crashed>>

-----------------------------------------------------------------------------
(* What the harbour does in one step.                                       *)

\* purse.pending and items[:20]: the oldest prizes whose file is there.
Pending == {i \in queue : Cardinality({j \in queue : j < i}) < MaxPerTick}

Item == Min(todo)

\* Mutant of CanPay: asks whether the cap is reached, not whether it would be.
CanPayBelow(amount) == agent.paidToday < DailyCap

\* _can_pay, without the balance: see Hold.
CanPay(amount) == agent.paidToday + amount <= DailyCap

\* Mutant of Count: paid_today is not updated.
CountNothing(amount) == agent' = agent

\* _paid
Count(amount) == agent' = [agent EXCEPT !.paidToday = @ + amount]

\* The node takes a payment: of a prize of the games, or of a gift.
Takes(amount) ==
    /\ spent' = [spent EXCEPT ![utcDay] = @ + amount]
    /\ late' = IF agent.day = utcDay THEN late ELSE late \cup {utcDay}
TakesPrize(i) ==
    /\ sent' = [sent EXCEPT ![i] = @ + 1]
    /\ Takes(prizes[i].amount)
    /\ UNCHANGED gifts
TakesGift(o, amount) ==
    /\ gifts' = [gifts EXCEPT ![o] = @ + 1]
    /\ Takes(amount)
    /\ UNCHANGED sent
AnswerLost == MayFail /\ lost' = lost + 1

-----------------------------------------------------------------------------
(* PenPal.tick: the letters, the letter of the week, the first blocks, and   *)
(* then the race purse.                                                      *)

\* _roll_day runs once, at the start of the tick.
BeginTick ==
    /\ pc = "idle"
    /\ agent' = IF agent.day = utcDay THEN agent
                ELSE [agent EXCEPT !.day = utcDay, !.paidToday = 0]
    /\ pc' = "post"
    /\ GamesUnchanged
    /\ UNCHANGED <<queue, killed, agentFile, todo, paid, chainVars>>

\* The first reply to an address carries the tip, when the purse can pay it.
Welcomes(a) == pc = "post" /\ a \notin agent.tipped /\ CanPay(Tip)

Welcome(a) ==
    /\ Welcomes(a)
    /\ TakesGift(<<"tip", a>>, Tip)
    /\ agent' = [agent EXCEPT !.paidToday = @ + Tip, !.tipped = @ \cup {a}]
    /\ pc' = "tipped"
    /\ GamesUnchanged
    /\ UNCHANGED <<queue, killed, agentFile, todo, paid, lost>>

\* send_letter raises, with a tip or without: run_forever logs it and sleeps,
\* nothing is saved.
WelcomeFails(a) ==
    /\ pc = "post"
    /\ \/ UNCHANGED chainVars
       \/ Welcomes(a) /\ TakesGift(<<"tip", a>>, Tip) /\ AnswerLost
    /\ pc' = "idle"
    /\ GamesUnchanged
    /\ UNCHANGED <<queue, killed, agent, agentFile, todo, paid>>

\* _save_state, after each reply, with a tip or without, and after each gift.
SaveGift ==
    /\ pc \in Unsaved \cup {"post"}
    /\ agentFile' = agent
    /\ pc' = IF pc \in {"post", "tipped"} THEN "post" ELSE "bonus"
    /\ GamesUnchanged
    /\ UNCHANGED <<queue, killed, agent, todo, paid, chainVars>>

\* _weekly_prize: the week is over as soon as another one is seen; in its first
\* week the harbour only starts to watch.
RollWeek ==
    /\ pc = "post"
    /\ agent' = [agent EXCEPT !.week = Week(utcDay)]
    /\ pc' = IF agent.week \in {0, Week(utcDay)} THEN "bonus" ELSE "judge"
    /\ GamesUnchanged
    /\ UNCHANGED <<queue, killed, agentFile, todo, paid, chainVars>>

\* Nothing to judge, no pick, a purse too low or a letter refused end the step;
\* or the prize of the week is paid.  The file still has the week that is over.
LetterOfTheWeek ==
    /\ pc = "judge"
    /\ \/ UNCHANGED <<agent, chainVars>> /\ pc' = "bonus"
       \/ \E amount \in HarbourPrizes :
             /\ CanPay(amount)
             /\ TakesGift(<<"week", agentFile.week>>, amount)
             /\ \/ Count(amount) /\ pc' = "won" /\ UNCHANGED lost
                \/ AnswerLost /\ pc' = "bonus" /\ UNCHANGED agent
    /\ GamesUnchanged
    /\ UNCHANGED <<queue, killed, agentFile, todo, paid>>

\* _first_block_bonus comes past a block of an address without a bonus; that its
\* letter or the account's is refused ends the step, see OpenPurse.
FirstBlock(a, amount) ==
    /\ pc = "bonus" /\ a \notin agent.bonused
    /\ CanPay(amount)
    /\ TakesGift(<<"bonus", a>>, amount)
    /\ \/ /\ agent' = [agent EXCEPT !.paidToday = @ + amount, !.bonused = @ \cup {a}]
          /\ pc' = "thanked"
          /\ UNCHANGED lost
       \/ AnswerLost /\ pc' = "purse" /\ UNCHANGED agent
    /\ GamesUnchanged
    /\ UNCHANGED <<queue, killed, agentFile, todo, paid>>

\* _game_purse
OpenPurse ==
    /\ pc \in {"bonus", "purse"}
    /\ todo' = Pending
    /\ pc' = "pay"
    /\ GamesUnchanged
    /\ UNCHANGED <<queue, killed, agent, agentFile, paid, chainVars>>

\* A prize for the purse itself is refused.
Refuse ==
    /\ pc = "pay" /\ todo # {}
    /\ prizes[Item].to = Harbour
    /\ pc' = "error"
    /\ GamesUnchanged
    /\ UNCHANGED <<queue, killed, agent, agentFile, todo, paid, chainVars>>

\* Held for the cap; or the balance is too low or could not be read.
Hold ==
    /\ pc = "pay" /\ todo # {}
    /\ prizes[Item].to # Harbour
    /\ todo' = todo \ {Item}
    /\ GamesUnchanged
    /\ UNCHANGED <<queue, killed, agent, agentFile, pc, paid, chainVars>>

\* _gift_letter
GiftLetter ==
    /\ pc = "pay" /\ todo # {}
    /\ prizes[Item].to # Harbour
    /\ CanPay(prizes[Item].amount)
    /\ \/ /\ TakesPrize(Item)
          /\ Count(prizes[Item].amount)
          /\ pc' = "txid"
          /\ UNCHANGED lost
       \/ /\ UNCHANGED <<agent, chainVars>>
          /\ pc' = "plain"
       \/ /\ TakesPrize(Item) /\ AnswerLost
          /\ pc' = "plain"
          /\ UNCHANGED agent
    /\ GamesUnchanged
    /\ UNCHANGED <<queue, killed, agentFile, todo, paid>>

\* What settle is told when the transfer raised too; with the mutant, the txid
\* of the letter that was not sent.
RefusedAsPaid == "txid"
Refused == "error"

\* The letter raised, "no receiving key, most likely": the coins go plain.
PlainTransfer ==
    /\ pc = "plain"
    /\ \/ /\ TakesPrize(Item)
          /\ Count(prizes[Item].amount)
          /\ pc' = "txid"
          /\ UNCHANGED lost
       \/ /\ UNCHANGED <<agent, chainVars>>
          /\ pc' = Refused
       \/ /\ TakesPrize(Item) /\ AnswerLost
          /\ pc' = Refused
          /\ UNCHANGED agent
    /\ GamesUnchanged
    /\ UNCHANGED <<queue, killed, agentFile, todo, paid>>

\* purse.settle: the outcome goes to paid/ (os.replace), then the queued file
\* is removed.
SettleRemovesFirst ==   \* mutant of SettleFile
    /\ pc \in Outcomes
    /\ queue' = queue \ {Item}
    /\ pc' = "unqueue"
    /\ GamesUnchanged
    /\ UNCHANGED <<killed, agent, agentFile, todo, paid, chainVars>>

SettleFile ==
    /\ pc \in Outcomes
    /\ paid' = [paid EXCEPT ![Item] = pc]
    /\ pc' = "unqueue"
    /\ GamesUnchanged
    /\ UNCHANGED <<queue, killed, agent, agentFile, todo, chainVars>>

UnqueueNothing ==   \* mutant of Unqueue
    /\ pc = "unqueue"
    /\ todo' = todo \ {Item}
    /\ pc' = "pay"
    /\ GamesUnchanged
    /\ UNCHANGED <<queue, killed, agent, agentFile, paid, chainVars>>

Unqueue ==
    /\ pc = "unqueue"
    /\ queue' = queue \ {Item}
    /\ todo' = todo \ {Item}
    /\ pc' = "pay"
    /\ GamesUnchanged
    /\ UNCHANGED <<killed, agent, agentFile, paid, chainVars>>

EndTick ==
    /\ pc = "pay" /\ todo = {}
    /\ agentFile' = agent
    /\ pc' = "idle"
    /\ GamesUnchanged
    /\ UNCHANGED <<queue, killed, agent, todo, paid, chainVars>>

\* The process is killed and starts again from its file.
CrashHarbour ==
    /\ pc # "idle" \/ agent # agentFile
    /\ MayFail
    /\ agent' = agentFile
    /\ pc' = "idle"
    /\ todo' = {}
    /\ killed' = killed + 1
    /\ GamesUnchanged
    /\ UNCHANGED <<queue, agentFile, paid, chainVars>>

-----------------------------------------------------------------------------

Init ==
    /\ GamesInit
    /\ agent = [day |-> 0, paidToday |-> 0, tipped |-> {}, week |-> 0, bonused |-> {}]
    /\ agentFile = agent
    /\ pc = "idle"
    /\ todo = {}
    /\ paid = [i \in 1 .. MaxPrizes |-> None]
    /\ sent = [i \in 1 .. MaxPrizes |-> 0]
    /\ gifts = [o \in Occasions |-> 0]
    /\ spent = [d \in Days |-> 0]
    /\ late = {}
    /\ lost = 0
    /\ killed = 0

\* The games run beside the harbour.
Play ==
    /\ GamesNext
    /\ UNCHANGED <<harbourVars, killed, chainVars>>

HarbourNext ==
    \/ BeginTick
    \/ \E a \in Players \ {Harbour} : Welcome(a) \/ WelcomeFails(a)
    \/ \E a \in Players \ {Harbour}, amount \in HarbourPrizes : FirstBlock(a, amount)
    \/ SaveGift
    \/ RollWeek
    \/ LetterOfTheWeek
    \/ OpenPurse
    \/ Refuse
    \/ Hold
    \/ GiftLetter
    \/ PlainTransfer
    \/ SettleFile
    \/ Unqueue
    \/ EndTick
    \/ CrashHarbour

Next == Play \/ HarbourNext

Spec == Init /\ [][Next]_vars

-----------------------------------------------------------------------------
(* Properties                                                               *)

\* The types of the harbour and of the paid/ directories.
HarbourTypeOK ==
    /\ \A a \in {agent, agentFile} :
          a \in [day : 0 .. MaxDay, paidToday : 0 .. DailyCap, tipped : SUBSET Players,
                week : Weeks \cup {0}, bonused : SUBSET Players]
    /\ pc \in Steps
    /\ todo \subseteq queue
    /\ pc \in {"plain", "unqueue"} \cup Outcomes => todo # {}
    /\ paid \in [1 .. MaxPrizes -> Outcomes \cup {None}]
    /\ sent \in [1 .. MaxPrizes -> Nat] /\ gifts \in [Occasions -> Nat]
    /\ spent \in [Days -> Nat] /\ late \subseteq Days
    /\ killed \in Nat /\ lost \in Nat

\* The type invariant: of the games and of the harbour.
TypeOK == GamesTypeOK /\ HarbourTypeOK

\* A prize once queued is never lost: at every moment, so after a crash at any
\* of them, its file is still in queue/ or its outcome is already in paid/
\* (settle writes and renames the one before it removes the other).
PrizesAreKept == \A i \in 1 .. Len(prizes) : i \in queue \/ paid[i] # None

\* A file in paid/ that names a txid is the receipt of a payment a node took
\* (_game_purse settles after the letter or the transfer, never before).
ReceiptsAreTrue == \A i \in 1 .. Len(prizes) : paid[i] = "txid" => sent[i] >= 1

Extra(n) == IF n > 1 THEN n - 1 ELSE 0

\* Nobody is paid twice unless something broke: payments of a prize beyond the
\* first, welcome tips and first-block bonuses beyond the first to an address,
\* and prizes beyond the first for one week, are together never more than the
\* crashes of the harbour and the answers it lost.  A crash repeats at most the
\* one payment under way, because every reply, every gift and every settled prize
\* is on file before the next one is looked at.
NothingPaidTwice ==
    LET prizeExtras == Total([i \in 1 .. MaxPrizes |-> Extra(sent[i])], 1 .. MaxPrizes)
        giftExtras == Total([o \in Occasions |-> Extra(gifts[o])], Occasions)
    IN  prizeExtras + giftExtras <= killed + lost

\* All that the purse gives away on one UTC day (fees apart) stays under the
\* ceiling, as its comments say, with three exceptions: one ceiling more on a day
\* on which a tick that began the day before still paid something, whose payments
\* count for the day it began on (_roll_day runs only at the start of a tick); one
\* more for each crash, which forgets what was paid since the last save; and the
\* payments whose answer was lost, which _paid never counted.
SpendingIsBounded ==
    \A d \in Days :
       LET ceilings == 1 + (IF d \in late THEN 1 ELSE 0) + killed
       IN  spent[d] <= DailyCap * ceilings + LargestGift * lost

=============================================================================
