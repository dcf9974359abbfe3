------------------------------- MODULE Games -------------------------------
(***************************************************************************)
(* The two game servers, Walk the Plank (plank.py) and MTB Crazy (ride.py),*)
(* and the queue of prizes they fill (purse.py).  Each server keeps its    *)
(* whole state in memory and in one JSON file; a request is handled under  *)
(* the server's lock, and the file is written at the end of it.  A prize   *)
(* is a file of its own, written in the middle of the request, so a crash  *)
(* between the two leaves the prize queued and the game with no memory of  *)
(* it.                                                                     *)
(*                                                                         *)
(* A handler that has changed the memory and not yet written the file is   *)
(* recognised by memory # file: the next handler waits for the lock.       *)
(* Prompts, answers and run logs are abstracted to what the prizes depend  *)
(* on: whether an answer was recognised, and the clock the replay showed.  *)
(* The endless plank, which never pays, is left out.                       *)
(***************************************************************************)
EXTENDS Integers, Sequences, FiniteSets, FiniteSetsExt

CONSTANTS
    Players,        \* addresses that own a registered name nobody shares
    NoName,         \* an empty, unknown or shared name: it resolves to nobody
    Dives,          \* ids of plank sessions (token_urlsafe)
    DailyPrompts,   \* DAILY_PROMPTS
    PrizeDepth,     \* recognised answers worth PLANK_PRIZE_DEPTH
    KeepDays,       \* KEEP_DAYS
    Courses,        \* the courses of the ride
    MaxTime,        \* bound: clocks of a run are 1 .. MaxTime
    DiveAmount,     \* PURSE_PLANK_DIVE
    RideAmount,     \* PURSE_RIDE_RECORD
    RideNamed,      \* PURSE_RIDE_NAMED
    MaxDay,         \* bound: days are 1 .. MaxDay
    MaxPrizes,      \* bound: prizes queued in a behaviour
    MaxCrashes      \* bound: crashes of a game server in a behaviour

ASSUME GamesAssumption ==
    /\ NoName \notin Players
    /\ IsFiniteSet(Players)
    /\ {DailyPrompts, PrizeDepth, KeepDays, MaxTime, MaxDay} \subseteq Nat \ {0}
    /\ {DiveAmount, RideAmount, RideNamed} \subseteq Nat \ {0}
    /\ {MaxPrizes, MaxCrashes} \subseteq Nat

VARIABLES
    plank,      \* Plank.state in memory: the dives and who was paid on a day
    plankFile,  \* plank-state.json
    ride,       \* Board.state in memory: the records and the day a course paid
    rideFile,   \* ride-state.json
    prizes,     \* every prize ever queued, in the order of their file names
    queue,      \* numbers of the prizes whose file is in a queue directory
    plankDay,   \* Plank.today(): a day that starts at 5 am in Sydney
    utcDay,     \* ride.today(), and the harbour's day
    crashed     \* ghost: how often each server was killed

gameVars == <<plank, plankFile, ride, rideFile, prizes, queue, plankDay, utcDay, crashed>>

Names == Players \cup {NoName}
Days == 1 .. MaxDay
\* the Sydney day may be one ahead of the UTC day
PlankDays == 1 .. MaxDay + 1
Dive == [day : PlankDays, player : Names, answered : 0 .. DailyPrompts, total : 0 .. DailyPrompts]
Record == [time : 1 .. MaxTime, addr : Names]
NoDive == [day |-> 0, player |-> NoName, answered |-> 0, total |-> 0]
NoRecord == [time |-> 0, addr |-> NoName]
\* the whole state of a server, as memory and file hold it
Plank == [dives : [Dives -> Dive \cup {NoDive}], paid : [PlankDays -> SUBSET Players]]
Board == [records : [Courses -> Record \cup {NoRecord}], paid : [Courses -> 0 .. MaxDay]]
Prize == [game : {"plank", "ride"}, of : Players \cup Courses, day : PlankDays,
          to : Players, amount : {DiveAmount, RideAmount, RideNamed}]

-----------------------------------------------------------------------------

\* purse.enqueue: a file whose name sorts after every earlier one.
Enqueue(prize) ==
    /\ Len(prizes) < MaxPrizes
    /\ prizes' = Append(prizes, prize)
    /\ queue' = queue \cup {Len(prizes) + 1}

NoPrize == UNCHANGED <<prizes, queue>>

\* The KEEP_DAYS newest of a set of days.
Newest(days) == {d \in days : Cardinality({e \in days : e > d}) < KeepDays}

\* find_session; _day: the sessions of the days that are kept.
Live(dives) == {s \in Dives : dives[s] # NoDive}
KeptDives(dives) ==
    LET kept == Newest({dives[s].day : s \in Live(dives)})
    IN  [s \in Dives |-> IF s \in Live(dives) /\ dives[s].day \in kept THEN dives[s] ELSE NoDive]

\* The lock of a server: no handler is between its first change and save().
PlankFree == plank = plankFile
RideFree == ride = rideFile

\* GET /plank/today: a session with the seven prompts of the day.
StartDive(s, player) ==
    /\ PlankFree
    /\ plank.dives[s] = NoDive
    /\ plank' = [plank EXCEPT !.dives = KeptDives([@ EXCEPT ![s] =
                    [day |-> plankDay, player |-> player, answered |-> 0, total |-> 0]])]
    /\ NoPrize
    /\ UNCHANGED <<plankFile, ride, rideFile, plankDay, utcDay, crashed>>

\* The days the state keeps in dive_paid; more than KEEP_DAYS are cut first.
KeptPaid(paid) ==
    LET days == {d \in PlankDays : paid[d] # {}}
    IN  [d \in PlankDays |-> IF d \in Newest(days) THEN paid[d] ELSE {}]

\* Mutant of Earns: looks under today instead of the day of the session.
EarnsToday(dive) ==
    /\ dive.total >= PrizeDepth
    /\ dive.player # NoName
    /\ dive.player \notin KeptPaid(plank.paid)[plankDay]

\* dive_prize: deep enough, under a registered name, not yet paid that day.
Earns(dive) ==
    /\ dive.total >= PrizeDepth
    /\ dive.player # NoName
    /\ dive.player \notin KeptPaid(plank.paid)[dive.day]

DivePrize(s, dive) ==
    IF Earns(dive)
    THEN /\ Enqueue([game |-> "plank", of |-> dive.player, day |-> dive.day,
                     to |-> dive.player, amount |-> DiveAmount])
         /\ plank' = [dives |-> [plank.dives EXCEPT ![s] = dive],
                      paid |-> [KeptPaid(plank.paid) EXCEPT ![dive.day] = @ \cup {dive.player}]]
    ELSE /\ NoPrize
         /\ plank' = [plank EXCEPT !.dives[s] = dive,
                                   !.paid = IF dive.total >= PrizeDepth /\ dive.player # NoName
                                            THEN KeptPaid(@) ELSE @]

\* "already answered"
Unanswered(dive) == dive.answered < DailyPrompts

\* POST /plank/answer: a name may come with any answer, the first one stays.
\* Only a recognised seventh answer looks at the prize.
Answer(s, recognised, player) ==
    /\ PlankFree
    /\ plank.dives[s] # NoDive
    /\ Unanswered(plank.dives[s])
    /\ LET dive == [plank.dives[s] EXCEPT
                        !.player = IF @ = NoName THEN player ELSE @,
                        !.answered = @ + 1,
                        !.total = IF recognised THEN @ + 1 ELSE @]
       IN  IF recognised /\ dive.answered = DailyPrompts
           THEN DivePrize(s, dive)
           ELSE NoPrize /\ plank' = [plank EXCEPT !.dives[s] = dive]
    /\ UNCHANGED <<plankFile, ride, rideFile, plankDay, utcDay, crashed>>

SavePlank ==
    /\ ~PlankFree
    /\ plankFile' = plank
    /\ NoPrize
    /\ UNCHANGED <<plank, ride, rideFile, plankDay, utcDay, crashed>>

-----------------------------------------------------------------------------

\* What a new record on course c by addr is worth.
RidePurse(c, addr, named) ==
    IF \/ addr = NoName
       \/ ride.records[c] # NoRecord /\ ride.records[c].addr = addr
       \/ ride.paid[c] = utcDay
    THEN 0
    ELSE IF named THEN RideNamed ELSE RideAmount

BeatsOrTies(c, time) ==   \* mutant of Beats
    ride.records[c] = NoRecord \/ time <= ride.records[c].time

Beats(c, time) == ride.records[c] = NoRecord \/ time < ride.records[c].time

\* POST /ride/claim with a log that the referee replays to `time`.
Claim(c, addr, named, time) ==
    /\ RideFree
    /\ named => addr # NoName
    /\ Beats(c, time)
    /\ LET amount == RidePurse(c, addr, named)
       IN  /\ ride' = [records |-> [ride.records EXCEPT ![c] = [time |-> time, addr |-> addr]],
                       paid |-> IF amount > 0 THEN [ride.paid EXCEPT ![c] = utcDay] ELSE ride.paid]
           /\ IF amount > 0
              THEN Enqueue([game |-> "ride", of |-> c, day |-> utcDay, to |-> addr, amount |-> amount])
              ELSE NoPrize
    /\ UNCHANGED <<plank, plankFile, rideFile, plankDay, utcDay, crashed>>

SaveRide ==
    /\ ~RideFree
    /\ rideFile' = ride
    /\ NoPrize
    /\ UNCHANGED <<plank, plankFile, ride, plankDay, utcDay, crashed>>

-----------------------------------------------------------------------------

\* A server dies before it has saved and comes back with its file.
MayCrash == crashed.plank + crashed.ride < MaxCrashes

CrashPlank ==
    /\ ~PlankFree
    /\ MayCrash
    /\ plank' = plankFile
    /\ crashed' = [crashed EXCEPT !.plank = @ + 1]
    /\ NoPrize
    /\ UNCHANGED <<plankFile, ride, rideFile, plankDay, utcDay>>

CrashRide ==
    /\ ~RideFree
    /\ MayCrash
    /\ ride' = rideFile
    /\ crashed' = [crashed EXCEPT !.ride = @ + 1]
    /\ NoPrize
    /\ UNCHANGED <<plank, plankFile, rideFile, plankDay, utcDay>>

\* Five in the morning in Sydney comes some hours before midnight UTC.
NewPlankDay ==
    /\ plankDay = utcDay
    /\ plankDay' = plankDay + 1
    /\ NoPrize
    /\ UNCHANGED <<plank, plankFile, ride, rideFile, utcDay, crashed>>

NewUtcDay ==
    /\ plankDay > utcDay
    /\ utcDay < MaxDay
    /\ utcDay' = utcDay + 1
    /\ NoPrize
    /\ UNCHANGED <<plank, plankFile, ride, rideFile, plankDay, crashed>>

GamesInit ==
    /\ plank = [dives |-> [s \in Dives |-> NoDive], paid |-> [d \in PlankDays |-> {}]]
    /\ plankFile = plank
    /\ ride = [records |-> [c \in Courses |-> NoRecord], paid |-> [c \in Courses |-> 0]]
    /\ rideFile = ride
    /\ prizes = <<>>
    /\ queue = {}
    /\ plankDay = 1
    /\ utcDay = 1
    /\ crashed = [plank |-> 0, ride |-> 0]

GamesNext ==
    \/ \E s \in Dives, player \in Names : StartDive(s, player)
    \/ \E s \in Dives, recognised \in BOOLEAN, player \in Names : Answer(s, recognised, player)
    \/ SavePlank
    \/ \E c \in Courses, addr \in Names, named \in BOOLEAN, time \in 1 .. MaxTime :
          Claim(c, addr, named, time)
    \/ SaveRide
    \/ CrashPlank
    \/ CrashRide
    \/ NewPlankDay
    \/ NewUtcDay

-----------------------------------------------------------------------------
(* Properties                                                               *)

\* The type invariant of the games, their files and the queue.
GamesTypeOK ==
    /\ plank \in Plank /\ plankFile \in Plank
    /\ ride \in Board /\ rideFile \in Board
    /\ prizes \in Seq(Prize) /\ Len(prizes) <= MaxPrizes
    /\ queue \subseteq 1 .. Len(prizes)
    /\ plankDay \in PlankDays /\ utcDay \in Days
    /\ crashed \in [plank : 0 .. MaxCrashes, ride : 0 .. MaxCrashes]

\* A plank day pays an address once and a course pays once a UTC day, and a
\* crash of the game between queueing the prize and saving can repeat it once.
\* (dive_paid and the sessions are both pruned, in different places: no session
\* outlives the mark that its player was paid.)
PrizesOncePerDay ==
    \A i \in 1 .. Len(prizes) :
        LET p == prizes[i]
            again == {j \in 1 .. Len(prizes) :
                         prizes[j].game = p.game /\ prizes[j].of = p.of /\ prizes[j].day = p.day}
        IN  Cardinality(again) <= 1 + (IF p.game = "plank" THEN crashed.plank ELSE crashed.ride)

\* The records on file only ever get faster: whatever the referee is sent, and
\* through crashes, a course never goes back to a slower time or to no record.
RecordsOnlyFall ==
    [][\A c \in Courses :
          LET old == rideFile.records[c]
              new == rideFile'.records[c]
          IN  old # NoRecord => new = old \/ (new # NoRecord /\ new.time < old.time)]_rideFile

=============================================================================
