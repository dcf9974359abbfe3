------------------------------- MODULE Parcels -------------------------------
(***************************************************************************)
(* The parcel room (parcels.py): the record it keeps of one parcel, which  *)
(* the watcher of payments, the upload, the payer's deletion and the sweep *)
(* all change, each under the lock of the room; and the watcher, which     *)
(* reads pages of blocks and keeps the height it has handled in memory.    *)
(*                                                                         *)
(* Each payment pays one unit of the price.  The time of an upload is kept *)
(* as its age.  `height` and `fetched` of the record decide nothing and    *)
(* are left out, as is the rule for payments without an upload, which no   *)
(* record meets: nothing ever sets `noted`.                                *)
(***************************************************************************)
EXTENDS Feed

CONSTANTS
    Price,          \* price(size), in payments
    PageSize,       \* MAX_BLOCKS_PER_REQUEST
    PendingAge,     \* PENDING_SECONDS
    Ttl             \* ttl_days

ASSUME ParcelsAssumption ==
    /\ {Price, PageSize} \subseteq Nat \ {0}
    /\ PendingAge \in Nat /\ Ttl \in Nat /\ PendingAge <= Ttl

VARIABLES
    rec,            \* Room.index of the parcel
    recFile,        \* parcels.json
    deleting,       \* a DELETE of the payer passed its checks
    watcher,        \* Watcher.height; where a tick is, its tip, and the page in hand
    saveFailed,     \* ghost: a payment was noted and the index could not be saved
    skipped,        \* ghost: the payments a start of the watcher passed over
    counted,        \* ghost: the payments noted
    forgone         \* ghost: those noted in a record that was dropped since

roomVars == <<rec, recFile, deleting, watcher, saveFailed, skipped, counted, forgone>>

NotStored == -1
NoRec == [paid |-> 0, age |-> NotStored, there |-> FALSE]
NotStarted == -1
Away == [height |-> NotStarted, at |-> "idle", tip |-> 0, todo |-> {}, hi |-> 0]

Stored(r) == r.age # NotStored
PaidUp(r) == Stored(r) /\ r.paid >= Price
PaymentsIn(lo, hi) == InBlocks(lo, hi) \cap Payments

Keep(r) == rec' = r /\ recFile' = r
Drop ==
    /\ Keep(NoRec)
    /\ forgone' = counted

-----------------------------------------------------------------------------
(* The room.                                                                *)

\* store: refused when less than the price was paid, accepted unpaid.
Upload ==
    /\ ~Stored(rec)
    /\ rec.paid = 0 \/ rec.paid >= Price
    /\ Keep([rec EXCEPT !.age = 0, !.there = TRUE])
    /\ UNCHANGED <<feedVars, deleting, watcher, saveFailed, skipped, counted, forgone>>

\* do_DELETE: the record names the payer once a payment was noted; the lock is
\* free between the look at the record and its removal.
CheckDelete ==
    /\ ~deleting
    /\ rec.there /\ rec.paid > 0
    /\ deleting' = TRUE
    /\ UNCHANGED <<feedVars, rec, recFile, watcher, saveFailed, skipped, counted, forgone>>

Delete ==
    /\ deleting
    /\ Drop
    /\ deleting' = FALSE
    /\ UNCHANGED <<feedVars, watcher, saveFailed, skipped, counted>>

\* Time passes.
Older(r) == IF Stored(r) /\ r.age <= Ttl THEN [r EXCEPT !.age = @ + 1] ELSE r
Pass ==
    /\ rec # Older(rec) \/ recFile # Older(recFile)
    /\ rec' = Older(rec)
    /\ recFile' = Older(recFile)
    /\ UNCHANGED <<feedVars, deleting, watcher, saveFailed, skipped, counted, forgone>>

-----------------------------------------------------------------------------
(* The watcher.                                                             *)

\* tick begins.  The height is kept in memory only and main passes none: a
\* service that starts takes the tip for handled, and what was paid before that
\* and not noted yet is never read.
AskHeight ==
    /\ watcher.at = "idle"
    /\ IF watcher.height = NotStarted
       THEN /\ watcher' = [watcher EXCEPT !.height = Tip, !.tip = Tip, !.at = "pages"]
            /\ skipped' = skipped \cup (PaymentsIn(1, Tip) \ counted)
       ELSE /\ watcher' = [watcher EXCEPT !.tip = Tip, !.at = "pages"]
            /\ UNCHANGED skipped
    /\ UNCHANGED <<feedVars, deleting, rec, recFile, saveFailed, counted, forgone>>

FirstOverlapping == watcher.height   \* mutant
First == watcher.height + 1

AskPage ==
    LET hi == IF First + PageSize - 1 < watcher.tip THEN First + PageSize - 1 ELSE watcher.tip
    IN  /\ watcher.at = "pages" /\ watcher.height < watcher.tip
        /\ watcher' = [watcher EXCEPT !.at = "page", !.hi = hi, !.todo = PaymentsIn(First, hi)]
        /\ UNCHANGED <<feedVars, deleting, rec, recFile, saveFailed, skipped, counted, forgone>>

\* note_payment
Noted == [rec EXCEPT !.paid = @ + 1, !.there = TRUE]
Note(p) ==
    /\ p \in watcher.todo
    /\ Keep(Noted)
    /\ watcher' = [watcher EXCEPT !.todo = @ \ {p}]
    /\ counted' = counted \cup {p}
    /\ UNCHANGED <<feedVars, deleting, saveFailed, skipped, forgone>>

\* The index cannot be saved: the tick is over, with the payment noted and the
\* height where it was.
NoteUnsaved(p) ==
    /\ ~saveFailed
    /\ p \in watcher.todo
    /\ rec' = Noted
    /\ watcher' = [watcher EXCEPT !.at = "idle", !.todo = {}]
    /\ counted' = counted \cup {p}
    /\ saveFailed' = TRUE
    /\ UNCHANGED <<feedVars, deleting, recFile, skipped, forgone>>

PageDone ==
    /\ watcher.at = "page" /\ watcher.todo = {}
    /\ watcher' = [watcher EXCEPT !.at = "pages", !.height = watcher.hi]
    /\ UNCHANGED <<feedVars, deleting, rec, recFile, saveFailed, skipped, counted, forgone>>

\* A request fails: the tick is over, and no sweep follows it.
RoomRequestFails ==
    /\ watcher.at = "pages" /\ watcher.height < watcher.tip
    /\ watcher' = [watcher EXCEPT !.at = "idle"]
    /\ UNCHANGED <<feedVars, deleting, rec, recFile, saveFailed, skipped, counted, forgone>>

TickUnderWay == watcher.at = "pages"   \* mutant
TickDone == watcher.at = "pages" /\ watcher.height >= watcher.tip

Expired(r) == r.age > Ttl
Unpaid(r) == ~PaidUp(r) /\ r.age > PendingAge

\* run: a tick that came to its end, and every ten minutes a sweep after it.
Rest ==
    /\ TickDone
    /\ watcher' = [watcher EXCEPT !.at = "idle"]
    /\ UNCHANGED <<feedVars, deleting, rec, recFile, saveFailed, skipped, counted, forgone>>

Sweep ==
    /\ TickDone
    /\ Stored(rec) /\ (Expired(rec) \/ Unpaid(rec))
    /\ Drop
    /\ watcher' = [watcher EXCEPT !.at = "idle"]
    /\ UNCHANGED <<feedVars, deleting, saveFailed, skipped, counted>>

RestartRoom ==
    /\ watcher # Away
    /\ watcher' = Away
    /\ rec' = recFile
    /\ deleting' = FALSE
    /\ UNCHANGED <<feedVars, recFile, saveFailed, skipped, counted, forgone>>

RoomInit ==
    /\ rec = NoRec
    /\ recFile = NoRec
    /\ deleting = FALSE
    /\ watcher = Away
    /\ saveFailed = FALSE
    /\ skipped = {}
    /\ counted = {}
    /\ forgone = {}

RoomNext ==
    \/ Upload \/ CheckDelete \/ Delete \/ Pass
    \/ AskHeight \/ AskPage \/ PageDone \/ RoomRequestFails
    \/ \E p \in Payments : Note(p) \/ NoteUnsaved(p)
    \/ Rest \/ Sweep \/ RestartRoom

-----------------------------------------------------------------------------

Sound == ~saveFailed /\ reorgs = 0

\* What the record says was paid is what was paid for it, but for what a start
\* passed over: every payment in the blocks below the watcher was noted, or a
\* start of the service skipped it, and none counts twice, through failed
\* requests, restarts, uploads before and after their payments, and records
\* dropped and begun again.  A payment in a block that came while the service
\* was down is one of those skipped (AskHeight), and no restart brings it back.
\* Not after a save that failed under a noted payment, nor after a
\* reorganisation: the watcher reads those blocks again, or not at all.
PaymentsCountOnce ==
    Sound => /\ rec.paid = Cardinality(counted \ forgone)
             /\ PaymentsIn(1, watcher.height) \subseteq counted \cup skipped

\* An upload waits for its payment, but not for the watcher: the sweep drops no
\* parcel before its time whose price was in the chain when the watcher last
\* asked, however late the watcher came to read it, unless a start of the
\* service skipped a part of that price.  That part the room never learns of,
\* and it sweeps such an upload as an unpaid one.
PaidInTimeIsKept ==
    [][ (Sound /\ Stored(rec) /\ ~Expired(rec) /\ ~rec'.there /\ watcher'.at # watcher.at)
        => Cardinality(PaymentsIn(1, watcher.tip) \ (forgone \cup skipped)) < Price ]_<<feedVars, roomVars>>

=============================================================================
