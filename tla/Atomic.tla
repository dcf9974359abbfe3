------------------------------- MODULE Atomic -------------------------------
(***************************************************************************)
(* What the undo journal promises (berrychain/state.py, "Mutations are     *)
(* journaled so a failed transaction (or a failed block) is rolled back    *)
(* exactly"): the ledger changes by whole blocks and by whole lone         *)
(* transactions; inside a section, by whole transactions; a section that   *)
(* is given up leaves nothing behind.                                      *)
(***************************************************************************)
EXTENDS Sequences

CONSTANTS Fields, Values, Absent

VARIABLES
  ledger,   \* the state as the last finished section left it
  work,     \* the same with the transactions of the section in progress
  section   \* which section is in progress

vars == <<ledger, work, section>>

Stores == [items: [Fields -> Values \union {Absent}], list: Seq(Values)]

Init ==
  /\ ledger = [items |-> [k \in Fields |-> Absent], list |-> << >>]
  /\ work = ledger
  /\ section = "none"

Begin ==
  /\ section = "none"
  /\ section' \in {"block", "template", "single"}
  /\ UNCHANGED <<ledger, work>>

Apply ==
  /\ section \in {"block", "template"}
  /\ work' \in Stores
  /\ UNCHANGED <<ledger, section>>

\* Of a block: its coinbase is the last thing applied.
Commit ==
  /\ section \in {"block", "single"}
  /\ ledger' \in Stores
  /\ work' = ledger'
  /\ section' = "none"

Abort ==
  /\ section # "none"
  /\ work' = ledger
  /\ section' = "none"
  /\ UNCHANGED ledger

Next == Begin \/ Apply \/ Commit \/ Abort

Spec == Init /\ [][Next]_vars
=============================================================================
