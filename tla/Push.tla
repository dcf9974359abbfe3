-------------------------------- MODULE Push --------------------------------
(***************************************************************************)
(* The push relay (push.py): it follows a node block by block, then looks  *)
(* into its mempool, and has one push sent for the letters of an address   *)
(* it has not announced yet.  Registrations are on disk; the height it has *)
(* handled and the letters it has announced are in memory only.            *)
(***************************************************************************)
EXTENDS Feed

CONSTANT RememberBlocks     \* REMEMBER_BLOCKS
ASSUME PushAssumption == RememberBlocks \in Nat

VARIABLES
    registered,     \* the registry has a token for the address
    relay,          \* Relay.height; where a tick is, and its tip, watched and seen
    notified,       \* Relay.notified
    pushes          \* ghost: the heights at which a push for a letter was tried,
                    \* sent or failed, since the relay last started

pushVars == <<registered, relay, notified, pushes>>

NoHeight == -1

Asleep == [height |-> NoHeight, ticking |-> FALSE, tip |-> 0, watched |-> FALSE, seen |-> FALSE]
Known == DOMAIN notified

Register ==
    /\ ~registered
    /\ registered' = TRUE
    /\ UNCHANGED <<feedVars, relay, notified, pushes>>

Unregister ==
    /\ registered
    /\ registered' = FALSE
    /\ UNCHANGED <<feedVars, relay, notified, pushes>>

\* tick: the height of the node, and the addresses watched; the first tick only
\* takes the height.
AskRelayHeight ==
    /\ ~relay.ticking
    /\ relay' = IF relay.height = NoHeight
                THEN [relay EXCEPT !.height = Tip]
                ELSE [relay EXCEPT !.ticking = TRUE, !.tip = Tip, !.watched = registered, !.seen = FALSE]
    /\ UNCHANGED <<feedVars, registered, notified, pushes>>

\* _fresh: what was not announced before, and is from now on.
Fresh(ids) == IF relay.watched THEN ids \ Known ELSE {}
Marked(ids, at) == [i \in Known \cup Fresh(ids) |-> IF i \in Known THEN notified[i] ELSE at]

\* notify: a push to the token, if there still is one.  It is sent, or fails and
\* is not tried again, or the token is dead and is forgotten.
Notify(ids, at) ==
    IF Fresh(ids) # {} /\ registered
    THEN /\ registered' \in BOOLEAN
         /\ pushes' = [i \in Letters |-> IF i \in Fresh(ids) THEN Append(pushes[i], at) ELSE pushes[i]]
    ELSE UNCHANGED <<registered, pushes>>

\* The next block.  The height follows when it is handled.
HandleBlock ==
    LET h == relay.height + 1
        ids == blocks[h] \cap Letters
    IN  /\ relay.ticking /\ relay.height < relay.tip
        /\ Notify(ids, h)
        /\ notified' = Marked(ids, h)
        /\ relay' = [relay EXCEPT !.height = h, !.seen = TRUE]
        /\ UNCHANGED feedVars

\* The request for a block fails; the tick is over, and the next one starts
\* where this one stopped.
RequestSkipped == [relay EXCEPT !.ticking = FALSE, !.height = relay.tip]   \* mutant
RequestFailed == [relay EXCEPT !.ticking = FALSE]
BlockFails ==
    /\ relay.ticking /\ relay.height < relay.tip
    /\ relay' = RequestFailed
    /\ UNCHANGED <<feedVars, registered, notified, pushes>>

\* What is kept of the announced ids, if the tick saw a block (or, never reached
\* here, if there are ten thousand).
RecentTooShort(at) == relay.tip - at < RememberBlocks   \* mutant
Recent(at) == relay.tip - at <= RememberBlocks

\* The mempool, or nothing of it when the request fails, and the end of the tick.
HandleMempool ==
    /\ relay.ticking /\ relay.height >= relay.tip
    /\ \E ids \in {mempool \cap Letters, {}} :
          LET now == Marked(ids, relay.tip)
              kept == IF relay.seen THEN {i \in DOMAIN now : Recent(now[i])} ELSE DOMAIN now
          IN  /\ Notify(ids, relay.tip)
              /\ notified' = [i \in kept |-> now[i]]
    /\ relay' = [relay EXCEPT !.ticking = FALSE]
    /\ UNCHANGED feedVars

\* The service starts again, with its registrations.  What it announced is
\* forgotten: a letter that still waits in the mempool will be announced again.
RestartRelay ==
    /\ relay # Asleep
    /\ relay' = Asleep
    /\ notified' = <<>>
    /\ pushes' = [i \in Letters |-> <<>>]
    /\ UNCHANGED <<feedVars, registered>>

PushInit ==
    /\ registered = FALSE
    /\ relay = Asleep
    /\ notified = <<>>
    /\ pushes = [i \in Letters |-> <<>>]

PushNext ==
    \/ Register \/ Unregister
    \/ AskRelayHeight \/ HandleBlock \/ BlockFails \/ HandleMempool
    \/ RestartRelay

-----------------------------------------------------------------------------

\* A letter is seen in the mempool, tick after tick, then in its block, perhaps
\* in another one after a reorganisation: between two starts of the relay, two
\* pushes for it are more than RememberBlocks apart, a push that failed counted.
\* A start forgets what was announced, and nothing is said of pushes before and
\* after it.
PushesAreApart ==
    \A i \in Letters : \A k \in 1 .. Len(pushes[i]) - 1 :
        pushes[i][k + 1] - pushes[i][k] > RememberBlocks

\* A letter in a block the relay has still to read comes to an attempt at a push,
\* whatever requests to the node fail, as long as the address stays registered,
\* the letter in the chain, and the relay running.  The address was registered
\* when no tick was under way: a tick goes by the addresses it began with.
LettersAreAnnounced ==
    \A i \in Letters :
        ( /\ registered /\ ~relay.ticking /\ relay.height # NoHeight
          /\ i \in InBlocks(relay.height + 1, Tip) \ Known )
        ~> ( pushes[i] # <<>> \/ ~registered \/ i \notin InChain \/ relay.height = NoHeight )

=============================================================================
