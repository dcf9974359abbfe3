------------------------------ MODULE MCPurse ------------------------------
(***************************************************************************)
(* Model values and bounds for Games and Purse.  The harbour only reads    *)
(* the queue of prizes, and the two games share nothing but that queue, so *)
(* that TLC follows one story at a time: a game on its own, with crashes,  *)
(* the harbour with two prizes of the ride and the tips, or with one prize,*)
(* the tips, the letter of the week and a first block.  To the harbour all *)
(* prizes are alike, and a game's own file is none of its business: in its *)
(* stories a claim is saved before the harbour goes on.                    *)
(***************************************************************************)
EXTENDS Purse, TLC

Symmetry == Permutations(Dives)

NoDives == \A s \in Dives : plank.dives[s] = NoDive /\ plankFile.dives[s] = NoDive
NoRides == \A c \in Courses : ride.records[c] = NoRecord /\ rideFile.records[c] = NoRecord
HarbourAsleep == agent.day = 0 /\ killed = 0

OneGame == HarbourAsleep /\ (NoDives \/ NoRides)
NoAwards == \A o \in Occasions : o[1] # "tip" => gifts[o] = 0
\* a named record pays, and between two of them somebody without a name rides
Paced(r) == IF r.addr = NoName THEN r.time \in {0, 2} ELSE r.time = MaxTime + 2 - 2 * Len(prizes)
OnePurse ==
    /\ NoDives /\ (\A c \in Courses : Paced(ride.records[c])) /\ plankDay <= 2 /\ crashed.plank + crashed.ride = 0
    /\ Len(prizes) <= 1 \/ (Len(prizes) <= 2 /\ NoAwards)

SavedFirst == ride = rideFile \/ UNCHANGED harbourVars

StorySpec == Init /\ [][Next /\ SavedFirst /\ (OneGame \/ OnePurse)']_vars

=============================================================================
