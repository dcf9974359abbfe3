------------------------------ MODULE Mailbox ------------------------------
(***************************************************************************)
(* Receiving keys, names and sealed letters: the part of the ledger that   *)
(* decides which key a letter may be sealed to (SEND_LETTER, ROTATE_KEY    *)
(* and RENAME in berrychain/state.py), and the wallets and clients that    *)
(* hold the private halves (wallet.py, client.py, the app's session.dart). *)
(*                                                                         *)
(* This is the projection of the ledger on keys, names and letters: what   *)
(* the same transactions cost and pay is in Ledger and Grants, and every   *)
(* sender here can pay.  An account has one wallet file; it may be lost    *)
(* and rebuilt from the recovery words, which give back its root key.      *)
(*                                                                         *)
(* As in Exchange, a definition written just before the one it resembles   *)
(* is that definition with a bug, for the checks to catch.                 *)
(***************************************************************************)
EXTENDS Integers, Sequences, FiniteSets

CONSTANTS
  Accounts,
  Genesis,            \* accounts registered by genesis
  Keys,               \* receiving keys: a public key and its private half
  None,
  RootKey,            \* the key each account's words derive
  LetterId,           \* txids of letters
  Name,
  GenesisName,
  KeyGrace,           \* KEY_GRACE_BLOCKS
  RenameCooldown,     \* profile["rename_cooldown_blocks"]
  MaxFormerNames,     \* the 20 of _apply_rename
  RotateActivation,   \* profile["rotate_key_activation"]
  RenameActivation,   \* profile["seats_and_names_activation"]
  Backups,            \* what owners choose when they rotate: back up or not
  Rotating,           \* bound: accounts that rotate their keys
  Writing,            \* bound: accounts that write letters and rename themselves
  MaxPending,         \* bound: transactions of one sender waiting for a block
  MaxHeight,          \* bound: blocks are applied up to this height
  MaxFaults           \* bound: clients that fail, wallets that are lost

ASSUME MailboxAssumption ==
  /\ Genesis \cup Rotating \cup Writing \subseteq Accounts
  /\ None \notin Keys \cup Name
  /\ RootKey \in [Accounts -> Keys]
  /\ \A a, b \in Accounts : a # b => RootKey[a] # RootKey[b]
  /\ GenesisName \in Name
  /\ KeyGrace \in Nat /\ RenameCooldown \in Nat /\ MaxFormerNames \in Nat \ {0}
  /\ RotateActivation \in Nat /\ RenameActivation \in Nat
  /\ Backups \subseteq BOOLEAN
  /\ {MaxPending, MaxHeight, MaxFaults} \subseteq Nat

VARIABLES
  height,      \* height of the block being applied
  boxes,       \* registered account -> what its record says of name and keys
  letters,     \* letters on the chain
  pending,     \* transactions each account posted, in the order of nonces
  wallet,      \* each account's wallet file
  doing,       \* what each account's client is in the middle of
  used,        \* keys and letters that were ever made
  forgotten,   \* keys, and keys of letters, each owner burned or lost
  faults

chainVars == <<height, boxes, letters>>
clientVars == <<wallet, doing, used, forgotten, faults>>
vars == <<chainVars, pending, clientVars>>

Rotation == [enc_pub: Keys, height: Nat, backup: BOOLEAN]
FormerName == [name: Name, until: Nat]

\* renamed_height 0 is None: blocks start at 1.
Box == [registered_height: Nat, enc_pub: Keys, prev_enc_pub: Keys \cup {None},
        enc_since: Nat, registration_enc_pub: Keys \cup {None},
        rotations: Seq(Rotation), name: Name, former_names: Seq(FormerName),
        renamed_height: Nat]

\* "signed" is the name of the sender when the letter entered the chain.
Letter == [id: LetterId, from: Accounts, to: Accounts, enc_pub: Keys,
           height: Nat, signed: Name \cup {None}]

Tx == [type: {"rotate"}, key: Keys, backup: BOOLEAN]
      \cup [type: {"letter"}, id: LetterId, to: Accounts, key: Keys]

\* keys by their public halves; current is enc_pub; sent are the letters
\* whose one-off keys are kept (packet_keys).
Wallet == [keys: SUBSET Keys, current: Keys, sent: SUBSET LetterId]

Idle == [op |-> "idle"]
Work == {Idle} \cup [op: {"post", "keep"}, tx: Tx]

Registered(a) == a \in DOMAIN boxes

NewBox(h, key, name) ==
  [registered_height |-> h, enc_pub |-> key, prev_enc_pub |-> None,
   enc_since |-> 0, registration_enc_pub |-> None, rotations |-> << >>,
   name |-> name, former_names |-> << >>, renamed_height |-> 0]

\* A wallet made from the words.
FromWords(a) == [keys |-> {RootKey[a]}, current |-> RootKey[a], sent |-> {}]

Init ==
  /\ height = 1
  /\ boxes = [a \in Genesis |-> NewBox(0, RootKey[a], GenesisName)]
  /\ letters = {}
  /\ pending = [a \in Accounts |-> << >>]
  /\ wallet = [a \in Accounts |-> FromWords(a)]
  /\ doing = [a \in Accounts |-> Idle]
  /\ used = {RootKey[a] : a \in Accounts}
  /\ forgotten = [a \in Accounts |-> {}]
  /\ faults = 0

----------------------------------------------------------------------------
(* The chain. *)

InBlock == height <= MaxHeight

SealBlock ==
  /\ InBlock
  /\ height' = height + 1
  /\ UNCHANGED <<boxes, letters, pending, clientVars>>

\* REGISTER_LLM or CLAIM_STARTER, with the key the wallet receives on.
Register(a, name) ==
  /\ InBlock
  /\ ~Registered(a)
  /\ boxes' = [x \in DOMAIN boxes \cup {a} |->
                 IF x = a THEN NewBox(height, wallet[a].current, name) ELSE boxes[x]]
  /\ UNCHANGED <<height, letters, pending, clientVars>>

\* The newest name is forgotten instead of the oldest.
KeptNewestForgotten(names) ==
  IF Len(names) > MaxFormerNames THEN SubSeq(names, 1, MaxFormerNames) ELSE names
\* One name too many is kept.
KeptOneMore(names) == IF Len(names) > MaxFormerNames + 1 THEN Tail(names) ELSE names

\* At most MaxFormerNames former names: the oldest is forgotten.
Kept(names) == IF Len(names) > MaxFormerNames THEN Tail(names) ELSE names

Renamed(box, name) ==
  [box EXCEPT
     !.former_names = Kept(Append(@, [name |-> box.name, until |-> height])),
     !.name = name,
     !.renamed_height = height]

Rename(a, name) ==
  /\ InBlock
  /\ height >= RenameActivation
  /\ Registered(a)
  /\ name # boxes[a].name
  /\ boxes[a].renamed_height # 0 => height - boxes[a].renamed_height >= RenameCooldown
  /\ boxes' = [boxes EXCEPT ![a] = Renamed(@, name)]
  /\ UNCHANGED <<height, letters, pending, clientVars>>

\* Not the current key, nor one of an earlier rotation.
Fresh(a, key) ==
  /\ key # boxes[a].enc_pub
  /\ \A i \in DOMAIN boxes[a].rotations : boxes[a].rotations[i].enc_pub # key

\* The backup is dropped on the way into the record.
RotationUnbacked(t) == [enc_pub |-> t.key, height |-> height, backup |-> FALSE]
RotationOf(t) == [enc_pub |-> t.key, height |-> height, backup |-> t.backup]

\* The record keeps every rotation, and of the keys before it the last one and
\* the first.
Rotated(box, t) ==
  [box EXCEPT
     !.registration_enc_pub = IF @ = None THEN box.enc_pub ELSE @,
     !.prev_enc_pub = box.enc_pub,
     !.enc_pub = t.key,
     !.enc_since = height,
     !.rotations = Append(@, RotationOf(t))]

\* The next transaction of a enters the block.
TakeNext(a, type) ==
  /\ InBlock
  /\ pending[a] # << >> /\ Head(pending[a]).type = type
  /\ pending' = [pending EXCEPT ![a] = Tail(@)]

RotateKey(a) ==
  LET t == Head(pending[a])
  IN /\ TakeNext(a, "rotate")
     /\ height >= RotateActivation
     /\ Registered(a)
     /\ Fresh(a, t.key)
     /\ boxes' = [boxes EXCEPT ![a] = Rotated(@, t)]
     /\ UNCHANGED <<height, letters, clientVars>>

AcceptsWhenever(a, key) ==
  Registered(a) => key \in {boxes[a].enc_pub, boxes[a].prev_enc_pub}

\* The key a letter to a may be sealed to: any, as long as a is not
\* registered; else the current one, or for a while the one before.
Accepts(a, key) ==
  Registered(a) =>
    \/ key = boxes[a].enc_pub
    \/ key = boxes[a].prev_enc_pub /\ height - boxes[a].enc_since <= KeyGrace

SendLetter(a) ==
  LET t == Head(pending[a])
  IN /\ TakeNext(a, "letter")
     /\ Accepts(t.to, t.key)
     /\ \A l \in letters : l.id # t.id
     /\ letters' = letters \cup
          {[id |-> t.id, from |-> a, to |-> t.to, enc_pub |-> t.key,
            height |-> height,
            signed |-> IF Registered(a) THEN boxes[a].name ELSE None]}
     /\ UNCHANGED <<height, boxes, clientVars>>

\* A transaction that no longer applies, or a node that restarts, takes the
\* sender's later transactions with it.
DropPending(a) ==
  /\ pending[a] # << >>
  /\ pending' = [pending EXCEPT ![a] = << >>]
  /\ UNCHANGED <<chainVars, clientVars>>

----------------------------------------------------------------------------
(* The clients. *)

Post(a, t) ==
  /\ Len(pending[a]) < MaxPending
  /\ pending' = [pending EXCEPT ![a] = Append(@, t)]

\* rotate_key: a key is made and posted; the wallet learns of it afterwards.
PublishKey(a, key, backup) ==
  LET t == [type |-> "rotate", key |-> key, backup |-> backup]
  IN /\ doing[a] = Idle
     /\ Registered(a)
     /\ height >= RotateActivation
     /\ key \notin used
     /\ Post(a, t)
     /\ used' = used \cup {key}
     /\ doing' = [doing EXCEPT ![a] = [op |-> "keep", tx |-> t]]
     /\ UNCHANGED <<chainVars, wallet, forgotten, faults>>

\* The end of rotate_key: the wallet receives on the key from now on.
KeepKey(a) ==
  /\ doing[a].op = "keep"
  /\ wallet' = [wallet EXCEPT ![a].keys = @ \cup {doing[a].tx.key},
                              ![a].current = doing[a].tx.key]
  /\ doing' = [doing EXCEPT ![a] = Idle]
  /\ UNCHANGED <<chainVars, pending, used, forgotten, faults>>

\* The letter's own key stays in memory.
ComposeUnsaved(a, to, id) ==
  LET key == IF Registered(to) THEN boxes[to].enc_pub ELSE wallet[to].current
  IN /\ doing[a] = Idle
     /\ id \notin used
     /\ used' = used \cup {id}
     /\ doing' = [doing EXCEPT ![a] =
          [op |-> "post", tx |-> [type |-> "letter", id |-> id, to |-> to, key |-> key]]]
     /\ UNCHANGED <<chainVars, pending, wallet, forgotten, faults>>

\* send_letter: the recipient's key is looked up, or given by the recipient,
\* and the letter's own key is saved before the letter is posted.
Compose(a, to, id) ==
  LET key == IF Registered(to) THEN boxes[to].enc_pub ELSE wallet[to].current
  IN /\ doing[a] = Idle
     /\ id \notin used
     /\ used' = used \cup {id}
     /\ wallet' = [wallet EXCEPT ![a].sent = @ \cup {id}]
     /\ doing' = [doing EXCEPT ![a] =
          [op |-> "post", tx |-> [type |-> "letter", id |-> id, to |-> to, key |-> key]]]
     /\ UNCHANGED <<chainVars, pending, forgotten, faults>>

PostLetter(a) ==
  /\ doing[a].op = "post"
  /\ Post(a, doing[a].tx)
  /\ doing' = [doing EXCEPT ![a] = Idle]
  /\ UNCHANGED <<chainVars, wallet, used, forgotten, faults>>

\* The process ends, or the answer of the node is lost.
ClientFails(a) ==
  /\ faults < MaxFaults
  /\ doing[a] # Idle
  /\ doing' = [doing EXCEPT ![a] = Idle]
  /\ faults' = faults + 1
  /\ UNCHANGED <<chainVars, pending, wallet, used, forgotten>>

\* The owner forgets a key that is neither the root nor the wallet's current.
BurnKey(a, key) ==
  /\ doing[a] = Idle
  /\ key \in wallet[a].keys \ {RootKey[a], wallet[a].current}
  /\ wallet' = [wallet EXCEPT ![a].keys = @ \ {key}]
  /\ forgotten' = [forgotten EXCEPT ![a] = @ \cup {key}]
  /\ UNCHANGED <<chainVars, pending, doing, used, faults>>

\* The file is lost and the wallet made again from the words.
RebuildWallet(a) ==
  /\ faults < MaxFaults
  /\ wallet' = [wallet EXCEPT ![a] = FromWords(a)]
  /\ doing' = [doing EXCEPT ![a] = Idle]
  /\ forgotten' = [forgotten EXCEPT ![a] = @ \cup wallet[a].keys \cup wallet[a].sent]
  /\ faults' = faults + 1
  /\ UNCHANGED <<chainVars, pending, used>>

BackedUp(a) ==
  {boxes[a].rotations[i].enc_pub :
     i \in {j \in DOMAIN boxes[a].rotations : boxes[a].rotations[j].backup}}

\* recover_keys: the backups on the chain, and the current key if held.
RecoverKeys(a) ==
  LET keys == wallet[a].keys \cup BackedUp(a)
  IN /\ doing[a] = Idle
     /\ Registered(a)
     /\ wallet' = [wallet EXCEPT
          ![a].keys = keys,
          ![a].current = IF boxes[a].enc_pub \in keys THEN boxes[a].enc_pub ELSE @]
     /\ UNCHANGED <<chainVars, pending, doing, used, forgotten, faults>>

----------------------------------------------------------------------------

Next ==
  \/ SealBlock
  \/ \E a \in Accounts :
       \/ \E name \in Name : Register(a, name)
       \/ \E name \in Name : a \in Writing /\ Rename(a, name)
       \/ RotateKey(a) \/ SendLetter(a) \/ DropPending(a)
       \/ \E key \in Keys, backup \in Backups : a \in Rotating /\ PublishKey(a, key, backup)
       \/ KeepKey(a)
       \/ \E to \in Accounts, id \in LetterId : a \in Writing /\ Compose(a, to, id)
       \/ PostLetter(a) \/ ClientFails(a)
       \/ \E key \in Keys : BurnKey(a, key)
       \/ RebuildWallet(a) \/ RecoverKeys(a)

Spec == Init /\ [][Next]_vars

----------------------------------------------------------------------------
(* Properties. *)

TypeOK ==
  /\ height \in Nat
  /\ DOMAIN boxes \subseteq Accounts /\ boxes \in [DOMAIN boxes -> Box]
  /\ \A a \in DOMAIN boxes : Len(boxes[a].former_names) <= MaxFormerNames
  /\ letters \subseteq Letter
  /\ pending \in [Accounts -> Seq(Tx)]
  /\ wallet \in [Accounts -> Wallet]
  /\ doing \in [Accounts -> Work]
  /\ used \subseteq Keys \cup LetterId
  /\ forgotten \in [Accounts -> SUBSET (Keys \cup LetterId)]
  /\ faults \in Nat

\* key_history: key 0 is the one of the registration, key i that of rotation i.
KeyAt(box, i) ==
  IF i > 0 THEN box.rotations[i].enc_pub
  ELSE IF box.registration_enc_pub = None THEN box.enc_pub
  ELSE box.registration_enc_pub

\* key was the account's key at height h, or had been at most KeyGrace before.
Live(box, key, h) ==
  \E i \in 0..Len(box.rotations) :
    /\ KeyAt(box, i) = key
    /\ i > 0 => box.rotations[i].height <= h
    /\ i < Len(box.rotations) => h <= box.rotations[i + 1].height + KeyGrace

\* Letters travel while keys rotate, through clients that looked the key up
\* earlier; still every letter on the chain is sealed to a key of its
\* recipient's history that was current in its block or stopped being so at
\* most KEY_GRACE_BLOCKS before, so that what a leaked key opens ends with
\* the grace of its rotation.  (In the block of the registration a letter may
\* come before it, with any key.)
SealedToLiveKey ==
  \A l \in letters :
    Registered(l.to) /\ l.height > boxes[l.to].registered_height
      => Live(boxes[l.to], l.enc_pub, l.height)

\* Keys that the words, the chain and the wallet file give back together.
Recoverable(a) ==
  wallet[a].keys \cup {RootKey[a]} \cup (IF Registered(a) THEN BackedUp(a) ELSE {})

\* Whatever clients do, in whatever order, and wherever they fail, a
\* letter on the chain can be opened by the account it is addressed to, but
\* for a key its owner burned or lost with the wallet file.
\* With backups this holds; without, it is what client.py:609-612 says:
\* "Without it the key exists only in this wallet file: lose the file, or
\* burn the key, and letters sealed to it are unreadable for good".
LettersStayReadable ==
  \A l \in letters :
    \/ l.enc_pub \in Recoverable(l.to) \cup forgotten[l.to]
    \/ doing[l.to].op = "keep" /\ doing[l.to].tx.key = l.enc_pub

\* The sender of a letter can open it too, through every failure between the
\* save and the post: no letter reaches the chain whose one-off key is not in
\* the sender's wallet file, unless that file was lost.
SentStaysReadable ==
  \A l \in letters : l.id \in wallet[l.from].sent \cup forgotten[l.from]

\* The names the record gives an account in a block.
NamesAt(box, h) ==
  LET former == box.former_names
      n == Len(former)
  IN {former[i].name : i \in {j \in 1..n : /\ j > 1 => former[j - 1].until <= h
                                           /\ h <= former[j].until}}
     \cup {name \in {box.name} : n > 0 => former[n].until <= h}

\* "The old names stay on the record so a letter signed under one can be
\* traced" (state.py:911-912): the record tells the name the sender went by
\* in the block of a letter, as far back as the record goes.
NamesAreTraced ==
  \A l \in letters :
    l.signed # None =>
      LET box == boxes[l.from]
          former == box.former_names
      IN Len(former) < MaxFormerNames \/ l.height > former[1].until
           => l.signed \in NamesAt(box, l.height)
=============================================================================
