------------------------------ MODULE Journal ------------------------------
(***************************************************************************)
(* The undo journal of the ledger (berrychain/state.py), under the three   *)
(* sections that use it (berrychain/chain.py): add_block, block_template,  *)
(* and a transaction applied on its own.                                   *)
(*                                                                         *)
(* Every write of a handler is a step, and so is every entry that a        *)
(* rollback takes back.  The sections exclude each other by the chain's    *)
(* lock; the node's GET handlers read the state without it, in between.    *)
(***************************************************************************)
EXTENDS Naturals, Sequences, FiniteSets

CONSTANTS
  Fields,       \* dictionary entries and attributes
  Values,
  Absent,       \* the value of an entry that is not there
  MaxEntries,   \* bound: entries of the journal
  MaxList       \* bound: items of the lists

ASSUME JournalAssumption ==
  /\ Absent \notin Values /\ "list" \notin Fields
  /\ MaxEntries \in Nat /\ MaxList \in Nat

VARIABLES
  items,      \* what each dictionary entry and attribute holds
  list,       \* a list that only _append writes
  journal,    \* undo entries, in the order they were made
  open,       \* the journal is not None
  section,    \* who holds the chain's lock
  step,       \* what it is doing
  savepoint,  \* of the transaction being applied
  outer,      \* apply_tx found a journal open
  before,     \* history: the state when the section began
  began,      \* history: the state when the transaction began
  answer      \* history: what a GET answered last, and what was confirmed then

journalVars == <<items, list, journal, open, section, step, savepoint, outer,
                 before, began, answer>>

Store == [items |-> items, list |-> list]

Slot == Values \union {Absent}

Entry == [key: Fields \union {"list"}, old: Slot]

JournalInit ==
  /\ items = [k \in Fields |-> Absent]
  /\ list = << >>
  /\ journal = << >>
  /\ open = FALSE
  /\ section = "none"
  /\ step = "none"
  /\ savepoint = 0
  /\ outer = FALSE
  /\ before = Store
  /\ began = Store
  /\ answer = [said |-> Absent, confirmed |-> Absent]

----------------------------------------------------------------------------
(* The journal. *)

\* Mutant of Nested: every section starts a journal of its own.
NestedAfresh == << >>

\* State.begin: what a section finds itself in, or starts.
Nested == IF open THEN journal ELSE << >>

\* Mutant of Saved: what d.get(key) gives, put back as if it had been there.
SavedNone(k) ==
  [key |-> k, old |-> IF items[k] = Absent THEN "None" ELSE items[k]]

\* _touch, _touch_attr: a copy of what is there.
Saved(k) == [key |-> k, old |-> items[k]]

\* Every handler touches what it is about to write.
Touched(k) == \E i \in savepoint + 1 .. Len(journal) : journal[i].key = k

\* A transaction's handler, or the coinbase's, is between two of its writes.
Applying == step \in {"tx", "coinbase"}

Touch(k) ==
  /\ Applying
  /\ Len(journal) < MaxEntries
  /\ journal' = Append(journal, Saved(k))
  /\ UNCHANGED <<items, list, open, section, step, savepoint, outer, before,
                 began, answer>>

Write(k, v) ==
  /\ Applying
  /\ Touched(k)
  /\ items' = [items EXCEPT ![k] = v]
  /\ UNCHANGED <<list, journal, open, section, step, savepoint, outer, before,
                 began, answer>>

AppendItem(v) ==
  /\ Applying
  /\ Len(journal) < MaxEntries /\ Len(list) < MaxList
  /\ list' = Append(list, v)
  /\ journal' = Append(journal, [key |-> "list", old |-> Absent])
  /\ UNCHANGED <<items, open, section, step, savepoint, outer, before, began,
                 answer>>

\* Where the rollback in progress stops.
Target == IF step = "undo" THEN savepoint ELSE 0

\* One turn of rollback's loop.
Undo ==
  /\ step \in {"undo", "undoAll"}
  /\ Len(journal) > Target
  /\ LET entry == journal[Len(journal)]
     IN IF entry.key = "list"
        THEN /\ list' = SubSeq(list, 1, Len(list) - 1)
             /\ UNCHANGED items
        ELSE /\ items' = [items EXCEPT ![entry.key] = entry.old]
             /\ UNCHANGED list
  /\ journal' = SubSeq(journal, 1, Len(journal) - 1)
  /\ UNCHANGED <<open, section, step, savepoint, outer, before, began, answer>>

----------------------------------------------------------------------------
(* apply_tx. *)

Enter(s, next) ==
  /\ section' = s
  /\ step' = next
  /\ journal' = Nested
  /\ open' = TRUE
  /\ savepoint' = Len(Nested)
  /\ outer' = open
  /\ began' = Store
  /\ UNCHANGED <<items, list, answer>>

\* In a block or a template, or alone (add_tx on the mempool's state).
BeginTx ==
  /\ step = "open"
  /\ Enter(section, "tx")
  /\ UNCHANGED before

BeginSingle ==
  /\ section = "none"
  /\ Enter("single", "tx")
  /\ before' = Store

\* Mutant of StaysOpen: the journal is left to whoever comes next.
StaysOpenAlways == TRUE

\* `if not outer: self._journal = None`
StaysOpen == outer

Leave ==
  /\ open' = StaysOpen
  /\ section' = IF section = "single" THEN "none" ELSE section
  /\ step' = IF section = "single" THEN "none" ELSE "open"
  /\ UNCHANGED <<items, list, journal, savepoint, outer, before, began, answer>>

Succeed ==
  /\ step = "tx"
  /\ Leave

Raise ==
  /\ step = "tx"
  /\ step' = "undo"
  /\ UNCHANGED <<items, list, journal, open, section, savepoint, outer, before,
                 began, answer>>

\* A template goes on without the transaction; a block is given up.
Undone ==
  /\ step = "undo" /\ Len(journal) <= savepoint
  /\ \/ /\ section \in {"single", "template"}
        /\ Leave
     \/ /\ section = "block"
        /\ step' = "undoAll"
        /\ UNCHANGED <<items, list, journal, open, section, savepoint, outer,
                       before, began, answer>>

----------------------------------------------------------------------------
(* add_block and block_template. *)

BeginSection ==
  /\ section = "none"
  /\ section' \in {"block", "template"}
  /\ step' = "open"
  /\ journal' = Nested
  /\ open' = TRUE
  /\ before' = Store
  /\ UNCHANGED <<items, list, savepoint, outer, began, answer>>

BeginCoinbase ==
  /\ section = "block" /\ step = "open"
  /\ step' = "coinbase"
  /\ savepoint' = Len(journal)
  /\ began' = Store
  /\ UNCHANGED <<items, list, journal, open, section, outer, before, answer>>

\* The block stands.
BlockStands ==
  /\ step = "coinbase"
  /\ section' = "none"
  /\ step' = "none"
  /\ open' = FALSE
  /\ UNCHANGED <<items, list, journal, savepoint, outer, before, began, answer>>

\* A block fails outside apply_tx, or a template has what it needs.
GiveUp ==
  /\ step \in {"open", "coinbase"}
  /\ step' = "undoAll"
  /\ UNCHANGED <<items, list, journal, open, section, savepoint, outer, before,
                 began, answer>>

GivenUp ==
  /\ step = "undoAll" /\ Len(journal) = 0
  /\ section' = "none"
  /\ step' = "none"
  /\ open' = FALSE
  /\ UNCHANGED <<items, list, journal, savepoint, outer, before, began, answer>>

----------------------------------------------------------------------------
\* What the last finished section left.
Settled == IF section = "none" THEN Store ELSE before

\* GET /balance, /account, /letters: without the lock.  They read the state at
\* the tip; a lone transaction is tried on the mempool's copy.
Get(k) ==
  /\ section # "single"
  /\ answer' = [said |-> items[k], confirmed |-> Settled.items[k]]
  /\ UNCHANGED <<items, list, journal, open, section, step, savepoint, outer,
                 before, began>>

Handler ==
  \/ \E k \in Fields : Touch(k) \/ \E v \in Slot : Write(k, v)
  \/ \E v \in Values : AppendItem(v)

JournalNext ==
  \/ Handler
  \/ Undo
  \/ BeginTx \/ BeginSingle \/ Succeed \/ Raise \/ Undone
  \/ BeginSection \/ BeginCoinbase \/ BlockStands \/ GiveUp \/ GivenUp
  \/ \E k \in Fields : Get(k)

JournalSpec == JournalInit /\ [][JournalNext]_journalVars

----------------------------------------------------------------------------
(* Properties. *)

\* Types of the fields (State.__init__, the entries of _touch and _append).
JournalTypeOK ==
  /\ items \in [Fields -> Slot]
  /\ list \in Seq(Values)
  /\ journal \in Seq(Entry)
  /\ open \in BOOLEAN /\ outer \in BOOLEAN
  /\ section \in {"none", "block", "template", "single"}
  /\ step \in {"none", "open", "tx", "coinbase", "undo", "undoAll"}
  /\ savepoint \in Nat
  /\ before \in [items: [Fields -> Slot], list: Seq(Values)]
  /\ began \in [items: [Fields -> Slot], list: Seq(Values)]
  /\ answer \in [said: Slot, confirmed: Slot]

\* Taking back the entries after the first s yields the state `was`: a field
\* has its value in the oldest of them, or now if none is about it, and the
\* list has one item less for each of them that appended one.
Restores(s, was) ==
  /\ s <= Len(journal)
  /\ \A k \in Fields :
       \/ /\ \A i \in s + 1 .. Len(journal) : journal[i].key # k
          /\ items[k] = was.items[k]
       \/ \E i \in s + 1 .. Len(journal) :
            /\ journal[i].key = k /\ journal[i].old = was.items[k]
            /\ \A j \in s + 1 .. i - 1 : journal[j].key # k
  /\ LET made == Cardinality({i \in s + 1 .. Len(journal) :
                                journal[i].key = "list"})
     IN /\ Len(list) = Len(was.list) + made
        /\ was.list = SubSeq(list, 1, Len(was.list))

\* Whatever a handler has written when it raises, the journal can take the
\* state back to where the transaction began, and to where the block or the
\* template began (State.rollback), and no journal outlives its section.
JournalRestores ==
  /\ open <=> section # "none"
  /\ section # "none" => Restores(0, before)
  /\ step \in {"tx", "undo"} => Restores(savepoint, began)

\* The ledger only ever changes by whole blocks and lone transactions, and
\* within them by whole transactions (State.apply_tx: "On failure the state is
\* exactly as before"; Chain.add_block: "On failure nothing changes";
\* block_template changes nothing).
Ledger == INSTANCE Atomic WITH
  ledger <- Settled,
  work <- CASE step \in {"tx", "undo", "coinbase"} -> began
            [] step = "undoAll" -> before
            [] OTHER -> Store,
  section <- IF step = "undoAll" THEN "none" ELSE section

ImplementsAtomic == Ledger!Spec

\* What a GET answers is confirmed (BerryClient.nonce relies on it: "The nonce
\* to use next: confirmed nonce plus this sender's pending mempool
\* transactions").  It is not while a template is being made.
AnswersAreConfirmed == answer.said = answer.confirmed
=============================================================================
