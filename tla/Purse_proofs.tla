---------------------------- MODULE Purse_proofs ----------------------------
(***************************************************************************)
(* What the games and the race purse keep, for any players, days, prizes,  *)
(* amounts and numbers of crashes.                                         *)
(***************************************************************************)
EXTENDS Purse, Totals_proofs, SequenceTheorems, WellFoundedInduction

\* The days of the sessions that are kept.
LiveDays(dives) == {dives[s].day : s \in Live(dives)}

\* What a plank state says of its sessions agrees with whom it has paid: a day
\* that paid somebody is still played, or every day still played is later.
PlankFits(p, today) ==
  LET live == LiveDays(p.dives)
  IN /\ \A s \in Dives : p.dives[s].total <= p.dives[s].answered
     /\ \A d \in live : d <= today
     /\ Cardinality(live) <= KeepDays
     /\ \A d \in PlankDays :
           p.paid[d] # {} =>
             /\ d <= today
             /\ d \in live \/ (Cardinality(live) = KeepDays /\ \A e \in live : e > d)

\* The prizes queued for one day of one player, or of one course.
Alike(ps, game, of, day) ==
  {j \in 1 .. Len(ps) : ps[j].game = game /\ ps[j].of = of /\ ps[j].day = day}
HowMany(ps, game, of, day) == Cardinality(Alike(ps, game, of, day))

Keys == Players \cup Courses

\* A day on which a session can still earn a prize.
Open(p, today, d) == d >= today \/ d \in LiveDays(p.dives)

\* Nobody has more prizes of a plank day than the crashes explain, and who is
\* not on the list of an open day has one less.
PlankPaysOnce ==
  \A o \in Keys, d \in PlankDays :
    /\ HowMany(prizes, "plank", o, d) <= crashed.plank + 1
    /\ Open(plank, plankDay, d) /\ o \notin plank.paid[d]
         => HowMany(prizes, "plank", o, d) <= crashed.plank

\* The same of a course and a UTC day; only today can still pay.
RidePaysOnce ==
  \A o \in Keys, d \in PlankDays :
    /\ HowMany(prizes, "ride", o, d) <= crashed.ride + 1
    /\ o \in Courses /\ d >= utcDay /\ ride.paid[o] # d
         => HowMany(prizes, "ride", o, d) <= crashed.ride

\* A record in memory is the one on file or a faster one.
RecordsFit ==
  \A c \in Courses :
    rideFile.records[c] # NoRecord =>
      \/ ride.records[c] = rideFile.records[c]
      \/ ride.records[c] # NoRecord /\ ride.records[c].time < rideFile.records[c].time

NotPaidAhead == \A c \in Courses : ride.paid[c] <= utcDay /\ rideFile.paid[c] <= utcDay

PlankInv == PlankFits(plank, plankDay) /\ PlankFits(plankFile, plankDay) /\ PlankPaysOnce
RideInv == NotPaidAhead /\ RecordsFit /\ RidePaysOnce
GamesInv == GamesTypeOK /\ PlankInv /\ RideInv

----------------------------------------------------------------------------
(* Sets of numbers. *)

\* The smallest of some natural numbers is one of them.
LEMMA MinOf ==
  ASSUME NEW T, T \subseteq Nat, T # {}
  PROVE  Min(T) \in T /\ \A y \in T : Min(T) <= y
<1> DEFINE R == OpToRel(<, Nat)
<1>1. IsWellFoundedOn(R, Nat)
  BY NatLessThanWellFounded
<1>2. \E x \in T : \A y \in T : ~(<<y, x>> \in R)
  <2> HIDE DEF R
  <2> QED BY <1>1, WFMin
<1>3. PICK x \in T : \A y \in T : ~(<<y, x>> \in R)
  BY <1>2
<1>4. R = {ss \in Nat \X Nat : ss[1] < ss[2]}
  BY DEF OpToRel
<1> HIDE DEF R
<1>5. ASSUME NEW y \in T PROVE x <= y
  <2>1. ~(<<y, x>> \in R)
    BY <1>3
  <2>2. x \in Nat /\ y \in Nat
    OBVIOUS
  <2>3. ~(y < x)
    BY <1>4, <2>1, <2>2
  <2> QED BY <2>2, <2>3
<1> QED BY <1>5 DEF Min

\* Plank days are positive numbers.
LEMMA DaysPositive == PlankDays \subseteq Nat \ {0}
BY GamesAssumption DEF PlankDays

\* Plank days are finitely many.
LEMMA DaysFinite ==
  ASSUME NEW S, S \subseteq PlankDays
  PROVE  IsFiniteSet(S) /\ Cardinality(S) \in Nat
<1>1. MaxDay + 1 \in Int /\ 1 \in Int
  BY GamesAssumption
<1>2. IsFiniteSet(PlankDays)
  BY <1>1, FS_Interval DEF PlankDays
<1>3. IsFiniteSet(S)
  BY <1>2, FS_Subset
<1> QED BY <1>3, FS_CardinalityType

\* Days that are no more than KEEP_DAYS are all kept.
LEMMA NewestAll ==
  ASSUME NEW S, S \subseteq PlankDays, Cardinality(S) <= KeepDays
  PROVE  Newest(S) = S
<1>1. ASSUME NEW d \in S PROVE Cardinality({e \in S : e > d}) < KeepDays
  <2> DEFINE later == {e \in S : e > d}
  <2>1. d \in Int
    BY GamesAssumption DEF PlankDays
  <2>2. later \subseteq S \ {d}
    BY <2>1
  <2>3. IsFiniteSet(S) /\ Cardinality(S) \in Nat
    BY DaysFinite
  <2>4. IsFiniteSet(S \ {d}) /\ Cardinality(S \ {d}) = Cardinality(S) - 1
    BY <2>3, FS_RemoveElement
  <2>5. Cardinality(later) <= Cardinality(S \ {d})
    BY <2>2, <2>4, FS_Subset
  <2>6. Cardinality(later) \in Nat /\ KeepDays \in Nat
    BY DaysFinite, GamesAssumption
  <2> QED BY <2>3, <2>4, <2>5, <2>6
<1> QED BY <1>1 DEF Newest

\* Of one day more than KEEP_DAYS, the oldest goes.
LEMMA NewestButOldest ==
  ASSUME NEW S, S \subseteq PlankDays, Cardinality(S) = KeepDays + 1
  PROVE  /\ Newest(S) = S \ {Min(S)}
         /\ Cardinality(Newest(S)) = KeepDays
         /\ Min(S) \in S /\ \A d \in S \ {Min(S)} : Min(S) < d
<1> DEFINE m == Min(S)
<1>1. KeepDays \in Nat \ {0} /\ IsFiniteSet(S) /\ S \subseteq Nat
  BY GamesAssumption, DaysFinite, DaysPositive
<1>2. S # {}
  BY <1>1, FS_EmptySet
<1>3. m \in S /\ \A d \in S : m <= d
  BY <1>1, <1>2, MinOf
<1> HIDE DEF m
<1>4. \A d \in S \ {m} : m < d
  BY <1>1, <1>3
<1>5. IsFiniteSet(S \ {m}) /\ Cardinality(S \ {m}) = KeepDays
  <2>1. IsFiniteSet(S \ {m}) /\ Cardinality(S \ {m}) = Cardinality(S) - 1
    BY <1>1, <1>3, FS_RemoveElement
  <2> QED BY <1>1, <2>1
<1>6. Cardinality({e \in S : e > m}) = KeepDays
  <2>1. m \in Int
    BY <1>1, <1>3
  <2>2. \A e \in S : e > m <=> e # m
    BY <1>1, <1>4, <2>1
  <2>3. {e \in S : e > m} = S \ {m}
    BY <2>2
  <2> QED BY <2>3, <1>5
<1>7. ASSUME NEW d \in S \ {m} PROVE Cardinality({e \in S : e > d}) < KeepDays
  <2> DEFINE later == {e \in S : e > d}
  <2>1. later \subseteq (S \ {m}) \ {d}
    BY <1>1, <1>3, <1>4
  <2>2. IsFiniteSet((S \ {m}) \ {d}) /\ Cardinality((S \ {m}) \ {d}) = KeepDays - 1
    BY <1>5, FS_RemoveElement
  <2>3. Cardinality(later) <= KeepDays - 1
    BY <2>1, <2>2, FS_Subset
  <2>4. Cardinality(later) \in Nat
    BY DaysFinite
  <2> QED BY <1>1, <2>3, <2>4
<1>8. Newest(S) = S \ {m}
  <2>1. \A d \in S : d # m => Cardinality({e \in S : e > d}) < KeepDays
    BY <1>7
  <2>2. ~(Cardinality({e \in S : e > m}) < KeepDays)
    BY <1>1, <1>6
  <2> QED BY <2>1, <2>2 DEF Newest
<1> QED BY <1>3, <1>4, <1>5, <1>8 DEF m

----------------------------------------------------------------------------
(* Sessions and paid days. *)

DiveFun == [Dives -> Dive \cup {NoDive}]

\* A session has a plank day, which no session is without.
LEMMA DiveDay ==
  ASSUME NEW d \in Dive
  PROVE  d.day \in PlankDays /\ d # NoDive
<1>1. d.day \in PlankDays
  BY DEF Dive
<1>2. d.day # 0
  BY <1>1, DaysPositive
<1> QED BY <1>1, <1>2 DEF NoDive

LEMMA LiveDaysType ==
  ASSUME NEW dives \in DiveFun
  PROVE  /\ LiveDays(dives) \subseteq PlankDays
         /\ \A s \in Live(dives) : dives[s] \in Dive
<1>1. \A s \in Live(dives) : dives[s] \in Dive
  BY DEF Live, DiveFun
<1>2. \A s \in Live(dives) : dives[s].day \in PlankDays
  BY <1>1, DiveDay
<1> QED BY <1>1, <1>2 DEF LiveDays

\* Pruning the sessions keeps those of the newest days, as they are.
LEMMA KeptDivesKeep ==
  ASSUME NEW dives \in DiveFun
  PROVE  /\ KeptDives(dives) \in DiveFun
         /\ \A s \in Dives : KeptDives(dives)[s] \in {dives[s], NoDive}
         /\ LiveDays(KeptDives(dives)) = Newest(LiveDays(dives))
<1> DEFINE kept == Newest(LiveDays(dives))
           new == [s \in Dives |-> IF s \in Live(dives) /\ dives[s].day \in kept
                                   THEN dives[s] ELSE NoDive]
<1>1. KeptDives(dives) = new
  BY DEF KeptDives, LiveDays
<1>2. kept \subseteq LiveDays(dives)
  BY DEF Newest
<1> HIDE DEF kept
<1>3. new \in DiveFun /\ \A s \in Dives : new[s] \in {dives[s], NoDive}
  BY DEF DiveFun
<1>4. \A s \in Dives : s \in Live(new) <=> s \in Live(dives) /\ dives[s].day \in kept
  BY DEF Live
<1>5. \A s \in Live(new) : new[s].day = dives[s].day
  BY <1>4 DEF Live
<1>6. LiveDays(new) \subseteq kept
  BY <1>4, <1>5 DEF LiveDays, Live
<1>7. ASSUME NEW d \in kept PROVE d \in LiveDays(new)
  <2>1. PICK s \in Live(dives) : dives[s].day = d
    BY <1>2 DEF LiveDays
  <2>2. s \in Dives
    BY DEF Live
  <2>3. s \in Live(new)
    BY <1>4, <2>1, <2>2
  <2>4. new[s].day = d
    BY <1>5, <2>1, <2>3
  <2> QED BY <2>3, <2>4 DEF LiveDays
<1> HIDE DEF new
<1> QED BY <1>1, <1>3, <1>6, <1>7 DEF kept

\* A session replaced by one of the same day: the same days are played.
LEMMA SameDays ==
  ASSUME NEW dives \in DiveFun, NEW s \in Live(dives), NEW dive \in Dive,
         dive.day = dives[s].day
  PROVE  LiveDays([dives EXCEPT ![s] = dive]) = LiveDays(dives)
<1> DEFINE new == [dives EXCEPT ![s] = dive]
<1>1. dive # NoDive /\ s \in Dives
  BY DiveDay DEF Live
<1>2. Live(new) = Live(dives)
  BY <1>1 DEF Live, DiveFun
<1>3. \A t \in Live(dives) : new[t].day = dives[t].day
  BY DEF Live, DiveFun
<1> HIDE DEF new
<1> QED BY <1>2, <1>3 DEF LiveDays, new

\* A new session adds its day.
LEMMA OneMoreDay ==
  ASSUME NEW dives \in DiveFun, NEW s \in Dives, dives[s] = NoDive, NEW dive \in Dive
  PROVE  LiveDays([dives EXCEPT ![s] = dive]) = LiveDays(dives) \cup {dive.day}
<1> DEFINE new == [dives EXCEPT ![s] = dive]
<1>1. dive # NoDive
  BY DiveDay
<1>2. Live(new) = Live(dives) \cup {s} /\ s \notin Live(dives)
  BY <1>1 DEF Live, DiveFun
<1>3. \A t \in Live(dives) : new[t].day = dives[t].day
  BY <1>2 DEF Live, DiveFun
<1>4. new[s].day = dive.day
  BY DEF DiveFun
<1> HIDE DEF new
<1> QED BY <1>2, <1>3, <1>4 DEF LiveDays, new

\* Opening a session prunes at most the oldest day played, which no day that
\* paid and is still played outlives.
LEMMA StartFits ==
  ASSUME NEW p \in Plank, NEW today \in PlankDays, PlankFits(p, today),
         NEW s \in Dives, p.dives[s] = NoDive, NEW dive \in Dive,
         dive.day = today, dive.total <= dive.answered
  PROVE  LET new == [p EXCEPT !.dives = KeptDives([@ EXCEPT ![s] = dive])]
         IN  /\ new \in Plank
             /\ new.paid = p.paid
             /\ PlankFits(new, today)
             /\ LiveDays(new.dives) \subseteq LiveDays(p.dives) \cup {today}
<1> DEFINE more == [p.dives EXCEPT ![s] = dive]
           dives == KeptDives(more)
           new == [p EXCEPT !.dives = dives]
           old == LiveDays(p.dives)
           live == LiveDays(dives)
           all == old \cup {today}
<1>1. p.dives \in DiveFun /\ p.paid \in [PlankDays -> SUBSET Players]
  BY DEF Plank, DiveFun
<1>2. more \in DiveFun
  BY <1>1 DEF DiveFun
<1>3. LiveDays(more) = all
  BY <1>1, OneMoreDay
<1>4. \A t \in Dives : more[t].total <= more[t].answered
  BY <1>1 DEF PlankFits, DiveFun
<1> HIDE DEF more
<1>5. /\ dives \in DiveFun
      /\ \A t \in Dives : dives[t] \in {more[t], NoDive}
      /\ live = Newest(all)
  BY <1>2, <1>3, KeptDivesKeep
<1> HIDE DEF dives
<1>6. new \in Plank /\ new.paid = p.paid /\ new.dives = dives
  BY <1>1, <1>5 DEF Plank, DiveFun
<1> HIDE DEF new
<1>7. \A t \in Dives : dives[t].total <= dives[t].answered
  BY <1>4, <1>5 DEF NoDive
<1>8. old \subseteq PlankDays /\ live \subseteq all
  BY <1>1, <1>5, LiveDaysType DEF Newest
<1>9. /\ \A d \in old : d <= today
      /\ Cardinality(old) <= KeepDays
      /\ \A d \in PlankDays :
            p.paid[d] # {} =>
              /\ d <= today
              /\ d \in old \/ (Cardinality(old) = KeepDays /\ \A e \in old : e > d)
  BY DEF PlankFits
<1> HIDE DEF old, live
<1>10. \A d \in live : d <= today
  BY <1>8, <1>9, DaysPositive
<1>11. KeepDays \in Nat \ {0} /\ IsFiniteSet(old) /\ Cardinality(old) \in Nat
  BY <1>8, GamesAssumption, DaysFinite
<1>12. Cardinality(all) = IF today \in old THEN Cardinality(old) ELSE Cardinality(old) + 1
  BY <1>11, FS_AddElement
<1> DEFINE Held(d) == d \in live \/ (Cardinality(live) = KeepDays /\ \A e \in live : e > d)
<1>13. /\ Cardinality(live) <= KeepDays
       /\ \A d \in PlankDays : p.paid[d] # {} => Held(d)
  <2>1. CASE Cardinality(all) <= KeepDays
    <3>1. live = all
      BY <1>5, <1>8, <2>1, NewestAll DEF live
    <3>2. ASSUME NEW d \in PlankDays, p.paid[d] # {}, d \notin old
          PROVE  Cardinality(live) = KeepDays /\ \A e \in live : e > d
      <4>1. Cardinality(old) = KeepDays /\ \A e \in old : e > d
        BY <1>9, <3>2
      <4>2. today \in old
        BY <1>11, <1>12, <2>1, <4>1
      <4> QED BY <3>1, <4>1, <4>2
    <3> QED BY <2>1, <3>1, <3>2
  <2>2. CASE ~(Cardinality(all) <= KeepDays)
    <3>1. Cardinality(all) = KeepDays + 1 /\ today \notin old /\ Cardinality(old) = KeepDays
      BY <1>9, <1>11, <1>12, <2>2
    <3>2. /\ live = all \ {Min(all)}
          /\ Cardinality(live) = KeepDays
          /\ Min(all) \in all /\ \A d \in all \ {Min(all)} : Min(all) < d
      BY <1>5, <1>8, <3>1, NewestButOldest DEF live
    <3>3. old # {}
      BY <1>11, <3>1, FS_EmptySet
    <3>4. Min(all) \in old
      <4>1. PICK x \in old : TRUE
        BY <3>3
      <4>2. x <= today /\ x # today /\ x \in Int /\ today \in Int
        BY <1>8, <1>9, <3>1, DaysPositive
      <4>3. CASE Min(all) = today
        BY <3>2, <4>2, <4>3
      <4> QED BY <3>2, <4>3
    <3>5. ASSUME NEW d \in PlankDays, p.paid[d] # {} PROVE Held(d)
      <4>1. CASE d \in old /\ d # Min(all)
        BY <3>2, <4>1
      <4>2. CASE d = Min(all)
        BY <3>2, <4>2
      <4>3. CASE d \notin old
        <5>1. d <= today /\ \A e \in old : e > d
          BY <1>9, <3>5, <4>3
        <5>2. Min(all) > d
          BY <3>4, <5>1
        <5>3. ASSUME NEW e \in live PROVE e > d
          <6>1. e \in Int /\ d \in Int /\ Min(all) \in Int
            <7>1. all \subseteq PlankDays
              BY <1>8
            <7>2. e \in all /\ Min(all) \in all
              BY <1>8, <3>2
            <7>3. \A x \in PlankDays : x \in Int
              BY DaysPositive
            <7>4. d \in Int
              BY <7>3
            <7> HIDE DEF all
            <7>5. e \in PlankDays /\ Min(all) \in PlankDays
              BY <7>1, <7>2
            <7> QED BY <7>3, <7>4, <7>5
          <6>2. e \in all /\ Min(all) < e
            BY <3>2
          <6> QED BY <5>2, <6>1, <6>2
        <5> QED BY <3>2, <5>3
      <4> QED BY <4>1, <4>2, <4>3
    <3>6. Cardinality(live) <= KeepDays
      BY <1>11, <3>2
    <3> QED BY <3>5, <3>6
  <2> QED BY <2>1, <2>2
<1>14. PlankFits(new, today)
  <2>1. LiveDays(new.dives) = live
    BY <1>6 DEF live
  <2> QED BY <1>6, <1>7, <1>9, <1>10, <1>13, <2>1 DEF PlankFits
<1> QED BY <1>6, <1>8, <1>14 DEF new, dives, more, old, live

\* Pruning the list of who was paid cuts whole days.
LEMMA KeptPaidType ==
  ASSUME NEW paids \in [PlankDays -> SUBSET Players]
  PROVE  /\ KeptPaid(paids) \in [PlankDays -> SUBSET Players]
         /\ \A d \in PlankDays : KeptPaid(paids)[d] \in {paids[d], {}}
BY DEF KeptPaid

\* No day that can still earn a prize is cut.
LEMMA OpenIsKept ==
  ASSUME NEW p \in Plank, NEW today \in PlankDays, PlankFits(p, today),
         NEW d \in PlankDays, Open(p, today, d)
  PROVE  KeptPaid(p.paid)[d] = p.paid[d]
<1> DEFINE days == {e \in PlankDays : p.paid[e] # {}}
           live == LiveDays(p.dives)
           later == {e \in days : e > d}
<1>1. KeptPaid(p.paid)[d] = IF d \in Newest(days) THEN p.paid[d] ELSE {}
  BY DEF KeptPaid
<1>2. live \subseteq PlankDays
  BY LiveDaysType DEF Plank, DiveFun
<1>3. /\ Cardinality(live) <= KeepDays
      /\ \A e \in PlankDays :
            p.paid[e] # {} =>
              /\ e <= today
              /\ e \in live \/ (Cardinality(live) = KeepDays /\ \A f \in live : f > e)
  BY DEF PlankFits
<1>4. d >= today \/ d \in live
  BY DEF Open
<1> HIDE DEF live
<1>5. KeepDays \in Nat \ {0} /\ IsFiniteSet(live) /\ Cardinality(live) \in Nat
  BY <1>2, GamesAssumption, DaysFinite
<1>6. CASE p.paid[d] = {}
  BY <1>1, <1>6
<1>7. CASE p.paid[d] # {}
  <2>1. d \in live
    <3>1. CASE d \notin live
      <4>1. Cardinality(live) = KeepDays /\ d = today /\ \A f \in live : f > d
        BY <1>3, <1>4, <1>7, <3>1, DaysPositive
      <4>2. \A f \in live : f <= today
        BY DEF PlankFits, live
      <4>3. live = {}
        BY <1>2, <4>1, <4>2, DaysPositive
      <4>4. Cardinality(live) = 0
        BY <4>3, FS_EmptySet
      <4> QED BY <1>5, <4>1, <4>4
    <3> QED BY <3>1
  <2>2. later \subseteq live \ {d}
    <3>1. ASSUME NEW e \in later PROVE e \in live \ {d}
      <4>1. e \in PlankDays /\ p.paid[e] # {} /\ e > d /\ e \in Int /\ d \in Int
        BY DaysPositive
      <4>2. ~(d > e) /\ e # d
        BY <4>1
      <4> QED BY <1>3, <2>1, <4>1, <4>2
    <3> QED BY <3>1
  <2>3. IsFiniteSet(live \ {d}) /\ Cardinality(live \ {d}) = Cardinality(live) - 1
    BY <1>5, <2>1, FS_RemoveElement
  <2>4. Cardinality(later) <= Cardinality(live \ {d})
    BY <2>2, <2>3, FS_Subset
  <2>5. Cardinality(later) \in Nat
    BY DaysFinite
  <2>6. Cardinality(later) < KeepDays
    BY <1>3, <1>5, <2>3, <2>4, <2>5
  <2> QED BY <1>1, <1>7, <2>6 DEF Newest
<1> QED BY <1>6, <1>7

\* The state after an answer, when the days may only lose names or gain the one.
Answered(p, s, dive, paids) == [dives |-> [p.dives EXCEPT ![s] = dive], paid |-> paids]
PaysOnly(p, day, paids) == \A d \in PlankDays : paids[d] # {} => p.paid[d] # {} \/ d = day

\* An answer keeps the session on its day, and only that day may be paid anew.
LEMMA AnswerFits ==
  ASSUME NEW p \in Plank, NEW today \in PlankDays, PlankFits(p, today),
         NEW s \in Live(p.dives), NEW dive \in Dive, dive.day = p.dives[s].day,
         dive.total <= dive.answered,
         NEW paids \in [PlankDays -> SUBSET Players],
         PaysOnly(p, dive.day, paids)
  PROVE  /\ Answered(p, s, dive, paids) \in Plank
         /\ PlankFits(Answered(p, s, dive, paids), today)
         /\ LiveDays(Answered(p, s, dive, paids).dives) = LiveDays(p.dives)
<1> DEFINE dives == [p.dives EXCEPT ![s] = dive]
           new == [dives |-> dives, paid |-> paids]
           live == LiveDays(p.dives)
<1>1. p.dives \in DiveFun /\ s \in Dives
  BY DEF Plank, DiveFun, Live
<1>2. dives \in DiveFun /\ LiveDays(dives) = live
  BY <1>1, SameDays DEF DiveFun
<1>3. \A t \in Dives : dives[t].total <= dives[t].answered
  BY <1>1 DEF PlankFits, DiveFun
<1>4. dive.day \in live
  BY DEF LiveDays
<1>5. /\ \A d \in live : d <= today
      /\ Cardinality(live) <= KeepDays
      /\ \A d \in PlankDays :
            p.paid[d] # {} =>
              /\ d <= today
              /\ d \in live \/ (Cardinality(live) = KeepDays /\ \A e \in live : e > d)
  BY DEF PlankFits
<1> HIDE DEF dives, live
<1>6. new \in Plank
  BY <1>2 DEF Plank, DiveFun
<1>7. PlankFits(new, today)
  <2>1. LiveDays(new.dives) = live
    BY <1>2
  <2>2. \A d \in PlankDays :
            paids[d] # {} =>
              /\ d <= today
              /\ d \in live \/ (Cardinality(live) = KeepDays /\ \A e \in live : e > d)
    BY <1>4, <1>5 DEF PaysOnly
  <2> QED BY <1>3, <1>5, <2>1, <2>2 DEF PlankFits
<1> QED BY <1>2, <1>6, <1>7 DEF dives, live, Answered

\* Days go by: what fits today fits tomorrow.
LEMMA FitsLater ==
  ASSUME NEW p \in Plank, NEW today \in PlankDays, PlankFits(p, today)
  PROVE  PlankFits(p, today + 1)
<1>1. LiveDays(p.dives) \subseteq PlankDays
  BY LiveDaysType DEF Plank, DiveFun
<1>2. today + 1 \in Nat /\ \A d \in PlankDays : d <= today => d <= today + 1
  BY DaysPositive
<1> QED BY <1>1, <1>2 DEF PlankFits

\* One prize more counts once, for its own day.
LEMMA OnePrizeMore ==
  ASSUME NEW ps \in Seq(Prize), NEW prize \in Prize, NEW game, NEW of, NEW day
  PROVE  /\ HowMany(ps, game, of, day) \in Nat
         /\ HowMany(Append(ps, prize), game, of, day)
              = IF prize.game = game /\ prize.of = of /\ prize.day = day
                THEN HowMany(ps, game, of, day) + 1 ELSE HowMany(ps, game, of, day)
<1> DEFINE n == Len(ps)
           new == Append(ps, prize)
           old == Alike(ps, game, of, day)
<1>1. n \in Nat /\ Len(new) = n + 1 /\ new[n + 1] = prize
      /\ \A j \in 1 .. n : new[j] = ps[j]
  BY AppendProperties, LenProperties
<1>2. IsFiniteSet(old) /\ Cardinality(old) \in Nat
  <2>1. IsFiniteSet(1 .. n)
    BY <1>1, FS_Interval
  <2>2. IsFiniteSet(old)
    BY <2>1, FS_Subset DEF Alike
  <2> QED BY <2>2, FS_CardinalityType
<1>3. n + 1 \notin old
  BY <1>1 DEF Alike
<1> HIDE DEF new
<1>4. 1 .. Len(new) = (1 .. n) \cup {n + 1}
  BY <1>1
<1>5. CASE prize.game = game /\ prize.of = of /\ prize.day = day
  <2>1. Alike(new, game, of, day) = old \cup {n + 1}
    BY <1>1, <1>4, <1>5 DEF Alike
  <2>2. Cardinality(old \cup {n + 1}) = Cardinality(old) + 1
    BY <1>2, <1>3, FS_AddElement
  <2> QED BY <1>2, <1>5, <2>1, <2>2 DEF HowMany, new
<1>6. CASE ~(prize.game = game /\ prize.of = of /\ prize.day = day)
  <2>1. Alike(new, game, of, day) = old
    BY <1>1, <1>4, <1>6 DEF Alike
  <2> QED BY <1>2, <1>6, <2>1 DEF HowMany, new
<1> QED BY <1>5, <1>6

----------------------------------------------------------------------------
(* The steps of the games. *)

LEMMA InitGames == GamesInit => GamesInv
<1> SUFFICES ASSUME GamesInit PROVE GamesInv
  OBVIOUS
<1> USE DEF GamesInit
<1> DEFINE none == [s \in Dives |-> NoDive]
<1>1. /\ plank.dives = none /\ plank.paid = [d \in PlankDays |-> {}]
      /\ ride.records = [c \in Courses |-> NoRecord] /\ ride.paid = [c \in Courses |-> 0]
  OBVIOUS
<1>2. 1 \in PlankDays /\ 1 \in Days
  BY GamesAssumption DEF PlankDays, Days
<1>3. GamesTypeOK
  <2>1. plank \in Plank
    BY DEF Plank
  <2>2. ride \in Board
    BY GamesAssumption DEF Board
  <2>3. prizes \in Seq(Prize) /\ Len(prizes) = 0
    BY EmptySeq
  <2>4. crashed \in [plank : 0 .. MaxCrashes, ride : 0 .. MaxCrashes]
    BY GamesAssumption
  <2> QED BY <1>2, <2>1, <2>2, <2>3, <2>4, GamesAssumption DEF GamesTypeOK
<1>4. PlankFits(plank, plankDay)
  <2>1. LiveDays(none) = {}
    BY DEF LiveDays, Live
  <2>2. Cardinality({}) = 0
    BY FS_EmptySet
  <2>3. \A s \in Dives : none[s].total = none[s].answered /\ none[s].answered = 0
    BY DEF NoDive
  <2>4. \A d \in PlankDays : plank.paid[d] = {}
    BY <1>1
  <2>5. LiveDays(plank.dives) = {} /\ KeepDays \in Nat
    BY <1>1, <2>1, GamesAssumption
  <2>6. \A s \in Dives : plank.dives[s].total <= plank.dives[s].answered
    BY <1>1, <2>3
  <2> HIDE DEF none, GamesInit
  <2> QED BY <2>2, <2>4, <2>5, <2>6 DEF PlankFits
<1>5. \A game, of, day : HowMany(prizes, game, of, day) = 0
  <2>1. \A game, of, day : Alike(prizes, game, of, day) = {}
    BY DEF Alike
  <2> QED BY <2>1, FS_EmptySet DEF HowMany
<1>6. PlankPaysOnce /\ RidePaysOnce
  BY <1>5 DEF PlankPaysOnce, RidePaysOnce
<1>7. NotPaidAhead /\ RecordsFit
  BY <1>1 DEF NotPaidAhead, RecordsFit
<1> QED BY <1>3, <1>4, <1>6, <1>7 DEF GamesInv, PlankInv, RideInv

\* A prize put in the queue keeps the queue typed.
LEMMA EnqueueType ==
  ASSUME GamesTypeOK, NEW prize \in Prize, Enqueue(prize)
  PROVE  /\ prizes' \in Seq(Prize) /\ Len(prizes') <= MaxPrizes
         /\ queue' \subseteq 1 .. Len(prizes')
         /\ prizes' = Append(prizes, prize)
<1>1. prizes \in Seq(Prize) /\ queue \subseteq 1 .. Len(prizes) /\ Len(prizes) < MaxPrizes
      /\ prizes' = Append(prizes, prize) /\ queue' = queue \cup {Len(prizes) + 1}
  BY DEF GamesTypeOK, Enqueue
<1>2. prizes' \in Seq(Prize) /\ Len(prizes') = Len(prizes) + 1 /\ Len(prizes) \in Nat
  BY <1>1, AppendProperties, LenProperties
<1>3. Len(prizes') <= MaxPrizes
  BY <1>1, <1>2, GamesAssumption
<1>4. queue' \subseteq 1 .. Len(prizes')
  <2>1. queue' \subseteq (1 .. Len(prizes)) \cup {Len(prizes) + 1}
    BY <1>1
  <2>2. (1 .. Len(prizes)) \cup {Len(prizes) + 1} \subseteq 1 .. (Len(prizes) + 1)
    BY <1>2
  <2> QED BY <1>2, <2>1, <2>2
<1> QED BY <1>1, <1>2, <1>3, <1>4

\* What one game does is nothing to the other.
Adds(game) ==
  prizes' = prizes \/ \E prize \in Prize : prize.game = game /\ prizes' = Append(prizes, prize)

LEMMA RideApart ==
  ASSUME GamesTypeOK, RideInv, Adds("plank"), UNCHANGED <<ride, rideFile, utcDay>>,
         crashed'.ride = crashed.ride
  PROVE  RideInv'
<1>1. ASSUME NEW o, NEW d PROVE HowMany(prizes', "ride", o, d) = HowMany(prizes, "ride", o, d)
  <2>1. CASE prizes' = prizes
    BY <2>1
  <2>2. ASSUME NEW prize \in Prize, prize.game = "plank", prizes' = Append(prizes, prize)
        PROVE  HowMany(prizes', "ride", o, d) = HowMany(prizes, "ride", o, d)
    <3>1. prizes \in Seq(Prize) /\ prize.game # "ride"
      BY <2>2 DEF GamesTypeOK
    <3>2. HowMany(Append(prizes, prize), "ride", o, d) = HowMany(prizes, "ride", o, d)
      BY <3>1, OnePrizeMore
    <3> QED BY <2>2, <3>2
  <2> QED BY <2>1, <2>2 DEF Adds
<1>2. RidePaysOnce'
  BY <1>1 DEF RideInv, RidePaysOnce
<1> QED BY <1>2 DEF RideInv, NotPaidAhead, RecordsFit

LEMMA PlankApart ==
  ASSUME GamesTypeOK, PlankInv, Adds("ride"), UNCHANGED <<plank, plankFile, plankDay>>,
         crashed'.plank = crashed.plank
  PROVE  PlankInv'
<1>1. ASSUME NEW o, NEW d PROVE HowMany(prizes', "plank", o, d) = HowMany(prizes, "plank", o, d)
  <2>1. CASE prizes' = prizes
    BY <2>1
  <2>2. ASSUME NEW prize \in Prize, prize.game = "ride", prizes' = Append(prizes, prize)
        PROVE  HowMany(prizes', "plank", o, d) = HowMany(prizes, "plank", o, d)
    <3>1. prizes \in Seq(Prize) /\ prize.game # "plank"
      BY <2>2 DEF GamesTypeOK
    <3>2. HowMany(Append(prizes, prize), "plank", o, d) = HowMany(prizes, "plank", o, d)
      BY <3>1, OnePrizeMore
    <3> QED BY <2>2, <3>2
  <2> QED BY <2>1, <2>2 DEF Adds
<1>2. PlankPaysOnce'
  BY <1>1 DEF PlankInv, PlankPaysOnce
<1> QED BY <1>2 DEF PlankInv

LEMMA StartKeeps ==
  ASSUME GamesInv, NEW s \in Dives, NEW player \in Names, StartDive(s, player)
  PROVE  GamesInv'
<1> DEFINE dive == [day |-> plankDay, player |-> player, answered |-> 0, total |-> 0]
           new == [plank EXCEPT !.dives = KeptDives([@ EXCEPT ![s] = dive])]
<1>1. plank \in Plank /\ plankDay \in PlankDays /\ PlankFits(plank, plankDay)
  BY DEF GamesInv, GamesTypeOK, PlankInv
<1>2. plank' = new /\ plank.dives[s] = NoDive /\ NoPrize
      /\ UNCHANGED <<plankFile, ride, rideFile, plankDay, utcDay, crashed>>
  BY DEF StartDive
<1>3. dive \in Dive /\ dive.day = plankDay /\ dive.total <= dive.answered
  BY <1>1, GamesAssumption DEF Dive
<1> HIDE DEF dive
<1>4. /\ new \in Plank /\ new.paid = plank.paid
      /\ PlankFits(new, plankDay)
      /\ LiveDays(new.dives) \subseteq LiveDays(plank.dives) \cup {plankDay}
  BY <1>1, <1>2, <1>3, StartFits
<1> HIDE DEF new
<1>5. GamesTypeOK'
  BY <1>2, <1>4 DEF GamesInv, GamesTypeOK, NoPrize
<1>6. RideInv'
  BY <1>2, RideApart DEF GamesInv, NoPrize, Adds
<1>7. PlankPaysOnce'
  <2>1. ASSUME NEW d \in PlankDays, Open(new, plankDay, d) PROVE Open(plank, plankDay, d)
    BY <1>1, <1>4, <2>1, DaysPositive DEF Open
  <2>2. PlankPaysOnce
    BY DEF GamesInv, PlankInv
  <2> QED BY <1>2, <1>4, <2>1, <2>2 DEF PlankPaysOnce, NoPrize
<1>8. PlankInv'
  BY <1>2, <1>4, <1>7 DEF GamesInv, PlankInv
<1> QED BY <1>5, <1>6, <1>8 DEF GamesInv

\* An answer with no prize: of the paid days only closed ones may be cut.
AnswerPlain(s, dive, paids) ==
  /\ NoPrize
  /\ plank' = [dives |-> [plank.dives EXCEPT ![s] = dive], paid |-> paids]
  /\ \A d \in PlankDays :
        paids[d] \in {plank.paid[d], {}}
          /\ (Open(plank, plankDay, d) => paids[d] = plank.paid[d])

\* An answer with a prize: the player was not paid that day, and is now.
PlankPrize(dive) ==
  [game |-> "plank", of |-> dive.player, day |-> dive.day, to |-> dive.player,
   amount |-> DiveAmount]

AnswerPaid(s, dive, paids) ==
  /\ Enqueue(PlankPrize(dive))
  /\ dive.player \in Players /\ dive.player \notin plank.paid[dive.day]
  /\ plank' = [dives |-> [plank.dives EXCEPT ![s] = dive],
               paid |-> [paids EXCEPT ![dive.day] = @ \cup {dive.player}]]
  /\ \A d \in PlankDays :
        paids[d] \in {plank.paid[d], {}}
          /\ (Open(plank, plankDay, d) => paids[d] = plank.paid[d])

\* Every answer is of one of the two kinds.
LEMMA AnswerKinds ==
  ASSUME GamesInv, NEW s \in Dives, NEW recognised \in BOOLEAN, NEW player \in Names,
         Answer(s, recognised, player)
  PROVE  /\ s \in Live(plank.dives)
         /\ \E dive \in Dive, paids \in [PlankDays -> SUBSET Players] :
               /\ dive.day = plank.dives[s].day /\ dive.total <= dive.answered
               /\ AnswerPlain(s, dive, paids) \/ AnswerPaid(s, dive, paids)
<1> DEFINE old == plank.dives[s]
           dive == [old EXCEPT !.player = IF @ = NoName THEN player ELSE @,
                               !.answered = @ + 1,
                               !.total = IF recognised THEN @ + 1 ELSE @]
           paids == KeptPaid(plank.paid)
<1>1. plank \in Plank /\ plankDay \in PlankDays /\ PlankFits(plank, plankDay)
  BY DEF GamesInv, GamesTypeOK, PlankInv
<1>2. /\ old # NoDive /\ old.answered < DailyPrompts
      /\ IF recognised /\ dive.answered = DailyPrompts
         THEN DivePrize(s, dive)
         ELSE NoPrize /\ plank' = [plank EXCEPT !.dives[s] = dive]
  BY DEF Answer, Unanswered
<1>3. old \in Dive /\ s \in Live(plank.dives) /\ old.total <= old.answered
  BY <1>1, <1>2 DEF Plank, Live, PlankFits
<1>4. dive \in Dive /\ dive.day = old.day /\ dive.total <= dive.answered
  <2> HIDE DEF old
  <2>1. dive.day = old.day
    BY <1>3 DEF Dive
  <2>2. dive.answered = old.answered + 1
        /\ dive.total = IF recognised THEN old.total + 1 ELSE old.total
    BY <1>3 DEF Dive
  <2>3. old.answered \in Nat /\ old.total \in Nat /\ DailyPrompts \in Nat
    BY <1>3, GamesAssumption DEF Dive
  <2>4. dive.answered \in 0 .. DailyPrompts /\ dive.total \in 0 .. DailyPrompts
        /\ dive.total <= dive.answered
    BY <1>2, <1>3, <2>2, <2>3 DEF old
  <2>5. dive.player = (IF old.player = NoName THEN player ELSE old.player)
        /\ old.player \in Names /\ old.day \in PlankDays
    BY <1>3 DEF Dive
  <2> DEFINE a == IF old.player = NoName THEN player ELSE old.player
             b == old.answered + 1
             c == IF recognised THEN old.total + 1 ELSE old.total
             d1 == [old EXCEPT !.player = a]
             d2 == [d1 EXCEPT !.answered = b]
             d3 == [d2 EXCEPT !.total = c]
  <2>6. a \in Names /\ b \in 0 .. DailyPrompts /\ c \in 0 .. DailyPrompts
    BY <2>2, <2>4, <2>5
  <2>7. dive = d3
    BY <1>3 DEF Dive
  <2> HIDE DEF dive, a, b, c
  <2>8. d1 \in Dive
    BY <1>3, <2>6 DEF Dive
  <2> HIDE DEF d1
  <2>9. d2 \in Dive
    BY <2>6, <2>8 DEF Dive
  <2> HIDE DEF d2
  <2>10. d3 \in Dive
    BY <2>6, <2>9 DEF Dive
  <2> QED BY <2>1, <2>4, <2>7, <2>10
<1> HIDE DEF dive
<1>5. plank.paid \in [PlankDays -> SUBSET Players]
      /\ plank = [dives |-> plank.dives, paid |-> plank.paid]
  BY <1>1 DEF Plank
<1>6. paids \in [PlankDays -> SUBSET Players]
      /\ \A d \in PlankDays : paids[d] \in {plank.paid[d], {}}
  BY <1>5, KeptPaidType
<1>7. \A d \in PlankDays : Open(plank, plankDay, d) => paids[d] = plank.paid[d]
  BY <1>1, OpenIsKept
<1>8. dive.day \in PlankDays /\ Open(plank, plankDay, dive.day)
  BY <1>3, <1>4, DiveDay DEF Open, LiveDays
<1> HIDE DEF paids
<1>9. CASE plank' = [plank EXCEPT !.dives[s] = dive] /\ NoPrize
  <2>1. plank' = [dives |-> [plank.dives EXCEPT ![s] = dive], paid |-> plank.paid]
    BY <1>5, <1>9
  <2>2. AnswerPlain(s, dive, plank.paid)
    BY <1>9, <2>1 DEF AnswerPlain
  <2> QED BY <1>3, <1>4, <1>5, <2>2
<1>10. CASE DivePrize(s, dive)
  <2>1. CASE Earns(dive)
    <3>1. /\ Enqueue(PlankPrize(dive))
          /\ plank' = [dives |-> [plank.dives EXCEPT ![s] = dive],
                       paid |-> [paids EXCEPT ![dive.day] = @ \cup {dive.player}]]
          /\ dive.player # NoName /\ dive.player \notin paids[dive.day]
      BY <1>10, <2>1 DEF DivePrize, Earns, PlankPrize, paids
    <3>2. dive.player \in Players
      BY <1>4, <3>1 DEF Dive, Names
    <3>3. AnswerPaid(s, dive, paids)
      BY <1>6, <1>7, <1>8, <3>1, <3>2 DEF AnswerPaid
    <3> QED BY <1>3, <1>4, <1>6, <3>3
  <2>2. CASE ~Earns(dive)
    <3> DEFINE kept == IF dive.total >= PrizeDepth /\ dive.player # NoName
                       THEN paids ELSE plank.paid
    <3>1. plank' = [dives |-> [plank.dives EXCEPT ![s] = dive], paid |-> kept] /\ NoPrize
      BY <1>5, <1>10, <2>2 DEF DivePrize, paids
    <3>2. kept \in [PlankDays -> SUBSET Players]
          /\ \A d \in PlankDays :
                kept[d] \in {plank.paid[d], {}}
                  /\ (Open(plank, plankDay, d) => kept[d] = plank.paid[d])
      BY <1>5, <1>6, <1>7
    <3> HIDE DEF kept
    <3>3. AnswerPlain(s, dive, kept)
      BY <3>1, <3>2 DEF AnswerPlain
    <3> QED BY <1>3, <1>4, <3>2, <3>3
  <2> QED BY <2>1, <2>2
<1> QED BY <1>2, <1>9, <1>10

LEMMA AnswerKeeps ==
  ASSUME GamesInv, NEW s \in Dives, NEW recognised \in BOOLEAN, NEW player \in Names,
         Answer(s, recognised, player)
  PROVE  GamesInv'
<1>1. plank \in Plank /\ plankDay \in PlankDays /\ PlankFits(plank, plankDay)
      /\ prizes \in Seq(Prize) /\ GamesTypeOK /\ PlankPaysOnce
  BY DEF GamesInv, GamesTypeOK, PlankInv
<1>2. UNCHANGED <<plankFile, ride, rideFile, plankDay, utcDay, crashed>>
  BY DEF Answer
<1>3. s \in Live(plank.dives)
  BY AnswerKinds
<1>4. PICK dive \in Dive, paids \in [PlankDays -> SUBSET Players] :
         /\ dive.day = plank.dives[s].day /\ dive.total <= dive.answered
         /\ AnswerPlain(s, dive, paids) \/ AnswerPaid(s, dive, paids)
  BY AnswerKinds
<1>5. dive.day \in PlankDays /\ Open(plank, plankDay, dive.day)
  BY <1>3, <1>4, DiveDay DEF Open, LiveDays
<1>6. CASE AnswerPlain(s, dive, paids)
  <2>1. /\ plank' \in Plank /\ PlankFits(plank', plankDay)
        /\ LiveDays(plank'.dives) = LiveDays(plank.dives)
    <3>1. PaysOnly(plank, dive.day, paids)
      BY <1>6 DEF AnswerPlain, PaysOnly
    <3>2. plank' = Answered(plank, s, dive, paids)
      BY <1>6 DEF AnswerPlain, Answered
    <3>3. /\ Answered(plank, s, dive, paids) \in Plank
          /\ PlankFits(Answered(plank, s, dive, paids), plankDay)
          /\ LiveDays(Answered(plank, s, dive, paids).dives) = LiveDays(plank.dives)
      BY <1>1, <1>3, <1>4, <3>1, AnswerFits
    <3> QED BY <3>2, <3>3
  <2>2. GamesTypeOK'
    BY <1>1, <1>2, <1>6, <2>1 DEF GamesTypeOK, AnswerPlain, NoPrize
  <2>3. RideInv'
    BY <1>1, <1>2, <1>6, RideApart DEF GamesInv, AnswerPlain, NoPrize, Adds
  <2>4. ASSUME NEW d \in PlankDays, Open(plank', plankDay, d)
        PROVE  Open(plank, plankDay, d) /\ plank'.paid[d] = plank.paid[d]
    <3>1. Open(plank, plankDay, d)
      BY <2>1, <2>4 DEF Open
    <3>2. plank'.paid = paids
      BY <1>6 DEF AnswerPlain
    <3> QED BY <1>6, <3>1, <3>2 DEF AnswerPlain
  <2>5. PlankPaysOnce'
    BY <1>1, <1>2, <1>6, <2>4 DEF PlankPaysOnce, AnswerPlain, NoPrize
  <2> QED BY <1>2, <2>1, <2>2, <2>3, <2>5 DEF GamesInv, PlankInv
<1>7. CASE AnswerPaid(s, dive, paids)
  <2> DEFINE prize == PlankPrize(dive)
             more == [paids EXCEPT ![dive.day] = @ \cup {dive.player}]
  <2>1. /\ Enqueue(prize)
        /\ dive.player \in Players /\ dive.player \notin plank.paid[dive.day]
        /\ plank' = [dives |-> [plank.dives EXCEPT ![s] = dive], paid |-> more]
        /\ \A d \in PlankDays :
              paids[d] \in {plank.paid[d], {}}
                /\ (Open(plank, plankDay, d) => paids[d] = plank.paid[d])
    BY <1>7 DEF AnswerPaid
  <2>2. /\ prize \in Prize /\ prize.game = "plank" /\ prize.of = dive.player
        /\ prize.day = dive.day
    BY <1>5, <2>1 DEF PlankPrize, Prize
  <2>3. /\ more \in [PlankDays -> SUBSET Players]
        /\ \A d \in PlankDays : more[d] # {} => plank.paid[d] # {} \/ d = dive.day
        /\ \A d \in PlankDays : paids[d] \subseteq more[d]
        /\ dive.player \in more[dive.day]
    BY <1>5, <2>1
  <2> HIDE DEF prize, more
  <2>4. /\ plank' \in Plank /\ PlankFits(plank', plankDay)
        /\ LiveDays(plank'.dives) = LiveDays(plank.dives)
    <3>1. PaysOnly(plank, dive.day, more)
      BY <2>3 DEF PaysOnly
    <3>2. plank' = Answered(plank, s, dive, more)
      BY <2>1 DEF Answered
    <3>3. /\ Answered(plank, s, dive, more) \in Plank
          /\ PlankFits(Answered(plank, s, dive, more), plankDay)
          /\ LiveDays(Answered(plank, s, dive, more).dives) = LiveDays(plank.dives)
      BY <1>1, <1>3, <1>4, <2>3, <3>1, AnswerFits
    <3> QED BY <3>2, <3>3
  <2>5. /\ prizes' \in Seq(Prize) /\ Len(prizes') <= MaxPrizes
        /\ queue' \subseteq 1 .. Len(prizes') /\ prizes' = Append(prizes, prize)
    BY <1>1, <2>1, <2>2, EnqueueType
  <2>6. GamesTypeOK'
    BY <1>1, <1>2, <2>4, <2>5 DEF GamesTypeOK
  <2>7. RideInv'
    BY <1>1, <1>2, <2>2, <2>5, RideApart DEF GamesInv, Adds
  <2>8. crashed.plank \in Nat
    BY <1>1, GamesAssumption DEF GamesTypeOK
  <2>9. ASSUME NEW o \in Keys, NEW d \in PlankDays
        PROVE  /\ HowMany(prizes', "plank", o, d) <= crashed.plank + 1
               /\ Open(plank', plankDay, d) /\ o \notin plank'.paid[d]
                    => HowMany(prizes', "plank", o, d) <= crashed.plank
    <3> DEFINE n == HowMany(prizes, "plank", o, d)
               m == HowMany(prizes', "plank", o, d)
    <3>1. n \in Nat /\ m = IF dive.player = o /\ dive.day = d THEN n + 1 ELSE n
      BY <1>1, <2>2, <2>5, OnePrizeMore
    <3>2. n <= crashed.plank + 1
          /\ (Open(plank, plankDay, d) /\ o \notin plank.paid[d] => n <= crashed.plank)
      BY <1>1 DEF PlankPaysOnce
    <3>3. plank'.paid = more /\ (Open(plank', plankDay, d) => Open(plank, plankDay, d))
      BY <2>1, <2>4 DEF Open
    <3> HIDE DEF n, m
    <3>4. CASE dive.player = o /\ dive.day = d
      <4>1. n <= crashed.plank /\ m = n + 1
        BY <1>5, <2>1, <3>1, <3>2, <3>4
      <4>2. m <= crashed.plank + 1 /\ o \in plank'.paid[d]
        BY <2>3, <2>8, <3>1, <3>3, <3>4, <4>1
      <4> QED BY <4>2 DEF m
    <3>5. CASE ~(dive.player = o /\ dive.day = d)
      <4>1. m = n
        BY <3>1, <3>5
      <4>2. Open(plank', plankDay, d) /\ o \notin plank'.paid[d] => o \notin plank.paid[d]
        BY <2>1, <2>3, <3>3
      <4> QED BY <3>2, <3>3, <4>1, <4>2 DEF m
    <3> QED BY <3>4, <3>5
  <2>10. PlankPaysOnce'
    BY <1>2, <2>9 DEF PlankPaysOnce
  <2> QED BY <1>2, <2>4, <2>6, <2>7, <2>10 DEF GamesInv, PlankInv
<1> QED BY <1>4, <1>6, <1>7

LEMMA SavePlankKeeps ==
  ASSUME GamesInv, SavePlank
  PROVE  GamesInv'
<1>1. plankFile' = plank /\ NoPrize
      /\ UNCHANGED <<plank, ride, rideFile, plankDay, utcDay, crashed>>
  BY DEF SavePlank
<1>2. GamesTypeOK'
  BY <1>1 DEF GamesInv, GamesTypeOK, NoPrize
<1>3. RideInv'
  BY <1>1, RideApart DEF GamesInv, NoPrize, Adds
<1>4. PlankInv'
  BY <1>1 DEF GamesInv, PlankInv, PlankPaysOnce, NoPrize
<1> QED BY <1>2, <1>3, <1>4 DEF GamesInv

\* A crash forgets at most one prize of each player and day, and pays for it
\* with the crash.
LEMMA CrashPlankKeeps ==
  ASSUME GamesInv, CrashPlank
  PROVE  GamesInv'
<1>1. plank' = plankFile /\ NoPrize
      /\ crashed' = [crashed EXCEPT !.plank = @ + 1]
      /\ crashed.plank + crashed.ride < MaxCrashes
      /\ UNCHANGED <<plankFile, ride, rideFile, plankDay, utcDay>>
  BY DEF CrashPlank, MayCrash
<1>2. crashed \in [plank : 0 .. MaxCrashes, ride : 0 .. MaxCrashes] /\ MaxCrashes \in Nat
  BY GamesAssumption DEF GamesInv, GamesTypeOK
<1>3. /\ crashed' \in [plank : 0 .. MaxCrashes, ride : 0 .. MaxCrashes]
      /\ crashed'.plank = crashed.plank + 1 /\ crashed'.ride = crashed.ride
  BY <1>1, <1>2
<1>4. GamesTypeOK'
  BY <1>1, <1>3 DEF GamesInv, GamesTypeOK, NoPrize
<1>5. RideInv'
  BY <1>1, <1>3, RideApart DEF GamesInv, NoPrize, Adds
<1>6. PlankPaysOnce'
  <2>1. ASSUME NEW o \in Keys, NEW d \in PlankDays
        PROVE  HowMany(prizes, "plank", o, d) <= crashed.plank + 1
    BY DEF GamesInv, PlankInv, PlankPaysOnce
  <2>2. prizes \in Seq(Prize) /\ crashed.plank \in Nat
    BY <1>2 DEF GamesInv, GamesTypeOK
  <2>3. ASSUME NEW o \in Keys, NEW d \in PlankDays
        PROVE  HowMany(prizes', "plank", o, d) <= crashed'.plank
               /\ HowMany(prizes', "plank", o, d) <= crashed'.plank + 1
    <3> DEFINE n == HowMany(prizes, "plank", o, d)
    <3>1. n \in Nat
      <4>1. IsFiniteSet(1 .. Len(prizes))
        BY <2>2, LenProperties, FS_Interval
      <4>2. IsFiniteSet(Alike(prizes, "plank", o, d))
        BY <4>1, FS_Subset DEF Alike
      <4> QED BY <4>2, FS_CardinalityType DEF HowMany
    <3>2. prizes' = prizes
      BY <1>1 DEF NoPrize
    <3>3. n <= crashed.plank + 1
      BY <2>1
    <3> HIDE DEF n
    <3>4. n <= crashed'.plank /\ n <= crashed'.plank + 1
      BY <1>3, <2>2, <3>1, <3>3
    <3> QED BY <3>2, <3>4 DEF n
  <2> QED BY <2>3 DEF PlankPaysOnce
<1> QED BY <1>1, <1>4, <1>5, <1>6 DEF GamesInv, PlankInv

LEMMA NewPlankDayKeeps ==
  ASSUME GamesInv, NewPlankDay
  PROVE  GamesInv'
<1>1. plankDay = utcDay /\ plankDay' = plankDay + 1 /\ NoPrize
      /\ UNCHANGED <<plank, plankFile, ride, rideFile, utcDay, crashed>>
  BY DEF NewPlankDay
<1>2. plankDay \in PlankDays /\ plankDay' \in PlankDays
  BY <1>1, GamesAssumption DEF GamesInv, GamesTypeOK, PlankDays, Days
<1>3. GamesTypeOK'
  BY <1>1, <1>2 DEF GamesInv, GamesTypeOK, NoPrize
<1>4. RideInv'
  BY <1>1, RideApart DEF GamesInv, NoPrize, Adds
<1>5. PlankFits(plank, plankDay') /\ PlankFits(plankFile, plankDay')
  BY <1>1, <1>2, FitsLater DEF GamesInv, GamesTypeOK, PlankInv
<1>6. \A d \in PlankDays : Open(plank, plankDay', d) => Open(plank, plankDay, d)
  BY <1>1, <1>2, DaysPositive DEF Open
<1>7. PlankPaysOnce'
  BY <1>1, <1>6 DEF GamesInv, PlankInv, PlankPaysOnce, NoPrize
<1> QED BY <1>1, <1>3, <1>4, <1>5, <1>7 DEF GamesInv, PlankInv

\* A record is the fastest, and a course that pays has not paid today.
LEMMA ClaimKeeps ==
  ASSUME GamesInv, NEW c \in Courses, NEW addr \in Names, NEW named \in BOOLEAN,
         NEW time \in 1 .. MaxTime, Claim(c, addr, named, time)
  PROVE  GamesInv'
<1> DEFINE amount == RidePurse(c, addr, named)
           prize == [game |-> "ride", of |-> c, day |-> utcDay, to |-> addr, amount |-> amount]
           record == [time |-> time, addr |-> addr]
           records == [ride.records EXCEPT ![c] = record]
           paids == IF amount > 0 THEN [ride.paid EXCEPT ![c] = utcDay] ELSE ride.paid
<1>1. /\ ride = rideFile /\ Beats(c, time)
      /\ ride' = [records |-> records, paid |-> paids]
      /\ IF amount > 0 THEN Enqueue(prize) ELSE NoPrize
      /\ UNCHANGED <<plank, plankFile, rideFile, plankDay, utcDay, crashed>>
  BY DEF Claim, RideFree
<1>2. /\ ride \in Board /\ prizes \in Seq(Prize) /\ utcDay \in Days /\ GamesTypeOK
      /\ NotPaidAhead /\ RidePaysOnce
      /\ crashed.ride \in Nat
  BY GamesAssumption DEF GamesInv, GamesTypeOK, RideInv
<1>3. amount \in {0, RideNamed, RideAmount}
      /\ (amount > 0 => addr \in Players /\ ride.paid[c] # utcDay)
  BY DEF RidePurse, Names
<1>4. utcDay \in PlankDays /\ utcDay \in 0 .. MaxDay /\ utcDay \in Nat
  BY <1>2, GamesAssumption DEF PlankDays, Days
<1>5. amount > 0 => /\ prize \in Prize /\ prize.game = "ride" /\ prize.of = c
                    /\ prize.day = utcDay
  BY <1>3, <1>4, GamesAssumption DEF Prize
<1> HIDE DEF amount, prize
<1>6. record \in Record /\ record # NoRecord /\ record.time = time
  <2>1. record \in Record
    BY DEF Record
  <2>2. record.time # 0
    BY GamesAssumption
  <2> QED BY <2>1, <2>2 DEF NoRecord
<1> HIDE DEF record
<1>7. /\ ride' \in Board /\ ride'.records = records /\ ride'.paid = paids
      /\ records[c] = record
      /\ \A k \in Courses : k # c => records[k] = ride.records[k]
      /\ \A k \in Courses : paids[k] \in {ride.paid[k], utcDay}
      /\ \A k \in Courses : k # c \/ ~(amount > 0) => paids[k] = ride.paid[k]
      /\ amount > 0 => paids[c] = utcDay
  BY <1>1, <1>2, <1>4, <1>6 DEF Board
<1> HIDE DEF records, paids
<1>8. GamesTypeOK'
  <2>1. CASE amount > 0
    <3>1. /\ prizes' \in Seq(Prize) /\ Len(prizes') <= MaxPrizes
          /\ queue' \subseteq 1 .. Len(prizes')
      BY <1>1, <1>2, <1>5, <2>1, EnqueueType
    <3> QED BY <1>1, <1>2, <1>7, <3>1 DEF GamesTypeOK
  <2>2. CASE ~(amount > 0)
    BY <1>1, <1>2, <1>7, <2>2 DEF GamesTypeOK, NoPrize
  <2> QED BY <2>1, <2>2
<1>9. PlankInv'
  <2>1. Adds("ride")
    BY <1>1, <1>5 DEF Adds, Enqueue, NoPrize
  <2> QED BY <1>1, <1>2, <2>1, PlankApart DEF GamesInv
<1>10. NotPaidAhead'
  <2>1. \A k \in Courses : ride.paid[k] \in Nat
    BY <1>2, GamesAssumption DEF Board
  <2> QED BY <1>1, <1>2, <1>4, <1>7, <2>1 DEF NotPaidAhead
<1>11. RecordsFit'
  <2>1. ASSUME NEW k \in Courses, rideFile.records[k] # NoRecord
        PROVE  \/ records[k] = rideFile.records[k]
               \/ records[k] # NoRecord /\ records[k].time < rideFile.records[k].time
    <3>1. CASE k = c
      BY <1>1, <1>6, <1>7, <2>1, <3>1 DEF Beats
    <3>2. CASE k # c
      BY <1>1, <1>7, <3>2
    <3> QED BY <3>1, <3>2
  <2> QED BY <1>1, <1>7, <2>1 DEF RecordsFit
<1>12. RidePaysOnce'
  <2>1. ASSUME NEW o \in Keys, NEW d \in PlankDays
        PROVE  /\ HowMany(prizes', "ride", o, d) <= crashed.ride + 1
               /\ o \in Courses /\ d >= utcDay /\ paids[o] # d
                    => HowMany(prizes', "ride", o, d) <= crashed.ride
    <3> DEFINE n == HowMany(prizes, "ride", o, d)
               m == HowMany(prizes', "ride", o, d)
    <3>1. /\ n <= crashed.ride + 1
          /\ o \in Courses /\ d >= utcDay /\ ride.paid[o] # d => n <= crashed.ride
      BY <1>2 DEF RidePaysOnce
    <3>2. CASE ~(amount > 0)
      <4>1. prizes' = prizes /\ \A k \in Courses : paids[k] = ride.paid[k]
        BY <1>1, <1>7, <3>2 DEF NoPrize
      <4> HIDE DEF n
      <4> QED BY <3>1, <4>1 DEF n
    <3>3. CASE amount > 0
      <4>1. prizes' = Append(prizes, prize)
        BY <1>1, <3>3 DEF Enqueue
      <4>2. n \in Nat /\ m = IF c = o /\ utcDay = d THEN n + 1 ELSE n
        BY <1>2, <1>5, <3>3, <4>1, OnePrizeMore
      <4> HIDE DEF n, m
      <4>3. CASE c = o /\ utcDay = d
        <5>1. n <= crashed.ride
          BY <1>3, <1>4, <3>1, <3>3, <4>3
        <5>2. m <= crashed.ride + 1 /\ paids[o] = d
          BY <1>2, <1>7, <3>3, <4>2, <4>3, <5>1
        <5> QED BY <5>2 DEF m
      <4>4. CASE ~(c = o /\ utcDay = d)
        <5>1. m = n
          BY <4>2, <4>4
        <5>2. o \in Courses /\ d >= utcDay /\ paids[o] # d => ride.paid[o] # d
          <6>1. CASE o \in Courses /\ d >= utcDay /\ paids[o] # d /\ ride.paid[o] = d
            <7>1. o = c
              BY <1>7, <6>1
            <7>2. d > utcDay /\ ride.paid[c] <= utcDay
              BY <1>2, <1>4, <4>4, <6>1, <7>1, DaysPositive DEF NotPaidAhead
            <7> QED BY <1>4, <6>1, <7>1, <7>2, DaysPositive
          <6> QED BY <6>1
        <5> QED BY <3>1, <5>1, <5>2 DEF m
      <4> QED BY <4>3, <4>4
    <3> QED BY <3>2, <3>3
  <2> QED BY <1>1, <1>7, <2>1 DEF RidePaysOnce
<1> QED BY <1>8, <1>9, <1>10, <1>11, <1>12 DEF GamesInv, RideInv

LEMMA SaveRideKeeps ==
  ASSUME GamesInv, SaveRide
  PROVE  GamesInv'
<1>1. rideFile' = ride /\ NoPrize
      /\ UNCHANGED <<plank, plankFile, ride, plankDay, utcDay, crashed>>
  BY DEF SaveRide
<1>2. GamesTypeOK'
  BY <1>1 DEF GamesInv, GamesTypeOK, NoPrize
<1>3. PlankInv'
  BY <1>1, PlankApart DEF GamesInv, NoPrize, Adds
<1>4. RideInv'
  BY <1>1 DEF GamesInv, RideInv, NotPaidAhead, RecordsFit, RidePaysOnce, NoPrize
<1> QED BY <1>2, <1>3, <1>4 DEF GamesInv

LEMMA CrashRideKeeps ==
  ASSUME GamesInv, CrashRide
  PROVE  GamesInv'
<1>1. ride' = rideFile /\ NoPrize
      /\ crashed' = [crashed EXCEPT !.ride = @ + 1]
      /\ crashed.plank + crashed.ride < MaxCrashes
      /\ UNCHANGED <<plank, plankFile, rideFile, plankDay, utcDay>>
  BY DEF CrashRide, MayCrash
<1>2. crashed \in [plank : 0 .. MaxCrashes, ride : 0 .. MaxCrashes] /\ MaxCrashes \in Nat
  BY GamesAssumption DEF GamesInv, GamesTypeOK
<1>3. /\ crashed' \in [plank : 0 .. MaxCrashes, ride : 0 .. MaxCrashes]
      /\ crashed'.ride = crashed.ride + 1 /\ crashed'.plank = crashed.plank
  BY <1>1, <1>2
<1>4. GamesTypeOK'
  BY <1>1, <1>3 DEF GamesInv, GamesTypeOK, NoPrize
<1>5. PlankInv'
  BY <1>1, <1>3, PlankApart DEF GamesInv, NoPrize, Adds
<1>6. RidePaysOnce'
  <2>1. prizes \in Seq(Prize) /\ crashed.ride \in Nat
    BY <1>2 DEF GamesInv, GamesTypeOK
  <2>2. ASSUME NEW o \in Keys, NEW d \in PlankDays
        PROVE  HowMany(prizes', "ride", o, d) <= crashed'.ride
               /\ HowMany(prizes', "ride", o, d) <= crashed'.ride + 1
    <3> DEFINE n == HowMany(prizes, "ride", o, d)
    <3>1. n \in Nat
      <4>1. IsFiniteSet(1 .. Len(prizes))
        BY <2>1, LenProperties, FS_Interval
      <4>2. IsFiniteSet(Alike(prizes, "ride", o, d))
        BY <4>1, FS_Subset DEF Alike
      <4> QED BY <4>2, FS_CardinalityType DEF HowMany
    <3>2. prizes' = prizes
      BY <1>1 DEF NoPrize
    <3>3. n <= crashed.ride + 1
      BY DEF GamesInv, RideInv, RidePaysOnce
    <3> HIDE DEF n
    <3>4. n <= crashed'.ride /\ n <= crashed'.ride + 1
      BY <1>3, <2>1, <3>1, <3>3
    <3> QED BY <3>2, <3>4 DEF n
  <2> QED BY <2>2 DEF RidePaysOnce
<1>7. NotPaidAhead' /\ RecordsFit'
  BY <1>1 DEF GamesInv, RideInv, NotPaidAhead, RecordsFit
<1> QED BY <1>4, <1>5, <1>6, <1>7 DEF GamesInv, RideInv

LEMMA NewUtcDayKeeps ==
  ASSUME GamesInv, NewUtcDay
  PROVE  GamesInv'
<1>1. utcDay < MaxDay /\ utcDay' = utcDay + 1 /\ NoPrize
      /\ UNCHANGED <<plank, plankFile, ride, rideFile, plankDay, crashed>>
  BY DEF NewUtcDay
<1>2. utcDay \in Days /\ utcDay' \in Days /\ utcDay \in Nat
  BY <1>1, GamesAssumption DEF GamesInv, GamesTypeOK, Days
<1>3. GamesTypeOK'
  BY <1>1, <1>2 DEF GamesInv, GamesTypeOK, NoPrize
<1>4. PlankInv'
  BY <1>1, PlankApart DEF GamesInv, NoPrize, Adds
<1>5. NotPaidAhead'
  <2>1. \A k \in Courses : ride.paid[k] \in Nat /\ rideFile.paid[k] \in Nat
    BY GamesAssumption DEF GamesInv, GamesTypeOK, Board
  <2> QED BY <1>1, <1>2, <2>1 DEF GamesInv, RideInv, NotPaidAhead
<1>6. RidePaysOnce'
  <2>1. \A d \in PlankDays : d >= utcDay' => d >= utcDay
    BY <1>1, <1>2, DaysPositive
  <2> QED BY <1>1, <2>1 DEF GamesInv, RideInv, RidePaysOnce, NoPrize
<1>7. RecordsFit'
  BY <1>1 DEF GamesInv, RideInv, RecordsFit
<1> QED BY <1>3, <1>4, <1>5, <1>6, <1>7 DEF GamesInv, RideInv

\* The harbour reads the games' queue and takes files out of it, no more.
LEMMA HarbourApart ==
  ASSUME GamesInv, GamesUnchanged, queue' \subseteq queue
  PROVE  GamesInv'
<1>1. UNCHANGED <<plank, plankFile, ride, rideFile, prizes, plankDay, utcDay, crashed>>
  BY DEF GamesUnchanged
<1>2. GamesTypeOK'
  BY <1>1 DEF GamesInv, GamesTypeOK
<1>3. PlankInv'
  BY <1>1 DEF GamesInv, PlankInv, PlankPaysOnce
<1>4. RideInv'
  BY <1>1 DEF GamesInv, RideInv, NotPaidAhead, RecordsFit, RidePaysOnce
<1> QED BY <1>2, <1>3, <1>4 DEF GamesInv

LEMMA HarbourUnqueues ==
  ASSUME HarbourNext
  PROVE  GamesUnchanged /\ queue' \subseteq queue
BY DEF HarbourNext, BeginTick, Welcome, WelcomeFails, FirstBlock, SaveGift, RollWeek,
       LetterOfTheWeek, OpenPurse, Refuse, Hold, GiftLetter, PlainTransfer, SettleFile,
       Unqueue, EndTick, CrashHarbour

LEMMA NextGames == GamesInv /\ [Next]_vars => GamesInv'
<1> SUFFICES ASSUME GamesInv, [Next]_vars PROVE GamesInv'
  OBVIOUS
<1>1. CASE GamesNext
  BY <1>1, StartKeeps, AnswerKeeps, SavePlankKeeps, ClaimKeeps, SaveRideKeeps,
     CrashPlankKeeps, CrashRideKeeps, NewPlankDayKeeps, NewUtcDayKeeps DEF GamesNext
<1>2. CASE HarbourNext
  BY <1>2, HarbourUnqueues, HarbourApart
<1>3. CASE UNCHANGED vars
  BY <1>3, HarbourApart DEF vars, gameVars, GamesUnchanged
<1> QED BY <1>1, <1>2, <1>3 DEF Next, Play

\* A player and a plank day, a course and a UTC day: one prize, and one more
\* for each crash of that game, for any number of sessions and any KEEP_DAYS.
THEOREM OnePrizeADay == Spec => []PrizesOncePerDay
<1>1. Init => GamesInv
  BY InitGames DEF Init
<1>2. GamesInv => PrizesOncePerDay
  <2> SUFFICES ASSUME GamesInv, NEW i \in 1 .. Len(prizes)
               PROVE  HowMany(prizes, prizes[i].game, prizes[i].of, prizes[i].day)
                        <= 1 + (IF prizes[i].game = "plank" THEN crashed.plank ELSE crashed.ride)
    BY DEF PrizesOncePerDay, HowMany, Alike
  <2>1. prizes[i] \in Prize /\ crashed.plank \in Nat /\ crashed.ride \in Nat
    BY GamesAssumption DEF GamesInv, GamesTypeOK
  <2>2. /\ prizes[i].game \in {"plank", "ride"} /\ prizes[i].of \in Keys
        /\ prizes[i].day \in PlankDays
    BY <2>1 DEF Prize, Keys
  <2>3. CASE prizes[i].game = "plank"
    BY <2>1, <2>2, <2>3 DEF GamesInv, PlankInv, PlankPaysOnce
  <2>4. CASE prizes[i].game # "plank"
    BY <2>1, <2>2, <2>4 DEF GamesInv, RideInv, RidePaysOnce
  <2> QED BY <2>3, <2>4
<1> QED
  BY <1>1, <1>2, NextGames, PTL DEF Spec

\* No step, a crash and a restart included, slows down a record on file.
THEOREM RecordsNeverSlower == Spec => RecordsOnlyFall
<1> DEFINE Falls == \A c \in Courses :
                      LET old == rideFile.records[c]
                          new == rideFile'.records[c]
                      IN  old # NoRecord => new = old \/ (new # NoRecord /\ new.time < old.time)
<1>1. Init => GamesInv
  BY InitGames DEF Init
<1>2. GamesInv /\ [Next]_vars => [Falls]_rideFile
  <2> SUFFICES ASSUME GamesInv, [Next]_vars, rideFile' # rideFile PROVE Falls
    OBVIOUS
  <2>1. SaveRide
    <3>1. ~HarbourNext
      BY HarbourUnqueues DEF GamesUnchanged
    <3>2. GamesNext
      BY <3>1 DEF Next, Play, vars, gameVars
    <3> QED BY <3>2 DEF GamesNext, StartDive, Answer, SavePlank, Claim, CrashPlank,
                        CrashRide, NewPlankDay, NewUtcDay
  <2>2. rideFile' = ride
    BY <2>1 DEF SaveRide
  <2> QED BY <2>2 DEF GamesInv, RideInv, RecordsFit
<1>3. GamesInv /\ [Next]_vars => GamesInv'
  BY NextGames
<1> QED
  BY <1>1, <1>2, <1>3, PTL DEF Spec, RecordsOnlyFall

----------------------------------------------------------------------------
(* The harbour's tick. *)

\* Between the letter that failed and the transfer the day still affords it;
\* the file is removed after its outcome is on file; a txid is a payment taken.
Affordable == pc = "plain" => CanPay(prizes[Item].amount)
Filed == pc = "unqueue" => paid[Item] # None
Taken == pc = "txid" => sent[Item] >= 1

\* Nothing is on file or on the chain for a prize nobody has won.
Unwon == \A i \in 1 .. MaxPrizes : i > Len(prizes) => paid[i] = None /\ sent[i] = 0

HarbourInv ==
  /\ HarbourTypeOK
  /\ Affordable
  /\ PrizesAreKept /\ Filed
  /\ ReceiptsAreTrue /\ Taken
  /\ Unwon

Purses == [day : 0 .. MaxDay, paidToday : 0 .. DailyCap, tipped : SUBSET Players,
           week : Weeks \cup {0}, bonused : SUBSET Players]

\* The weeks of the calendar, in the order of their days.
LEMMA WeekType ==
  ASSUME NEW d \in Days
  PROVE  Week(d) \in Weeks /\ \A e \in Days : d <= e => Week(d) <= Week(e)
<1> DEFINE Until(x) == {m \in Mondays : m <= x}
<1>1. MaxDay \in Nat /\ Mondays \subseteq 1 .. MaxDay /\ d \in 1 .. MaxDay
  BY GamesAssumption, PurseAssumption DEF Days
<1>2. IsFiniteSet(1 .. MaxDay) /\ Cardinality(1 .. MaxDay) = MaxDay
  <2>1. 1 \in Int /\ MaxDay \in Int
    BY <1>1
  <2>2. IsFiniteSet(1 .. MaxDay)
    BY <2>1, FS_Interval
  <2>3. Cardinality(1 .. MaxDay) = IF 1 > MaxDay THEN 0 ELSE MaxDay - 1 + 1
    BY <2>1, FS_Interval
  <2> QED BY <1>1, <2>2, <2>3
<1>3. ASSUME NEW x
      PROVE  /\ IsFiniteSet(Until(x)) /\ Cardinality(Until(x)) \in Nat
             /\ Cardinality(Until(x)) <= MaxDay
  <2>1. Until(x) \subseteq 1 .. MaxDay
    BY <1>1
  <2> HIDE DEF Until
  <2> QED BY <1>2, <2>1, FS_Subset, FS_CardinalityType
<1>4. ASSUME NEW e \in Days, d <= e PROVE Cardinality(Until(d)) <= Cardinality(Until(e))
  <2>1. Until(d) \subseteq Until(e)
    <3>1. \A m \in Mondays : m \in Nat
      BY <1>1
    <3>2. e \in Nat /\ d \in Nat
      BY <1>1 DEF Days
    <3> QED BY <1>4, <3>1, <3>2
  <2>2. IsFiniteSet(Until(e))
    BY <1>3
  <2> HIDE DEF Until
  <2> QED BY <2>1, <2>2, FS_Subset
<1>5. \A x : Week(x) = 1 + Cardinality(Until(x))
  BY DEF Week
<1>6. Cardinality(Until(d)) \in 0 .. MaxDay /\ \A e \in Days : Cardinality(Until(e)) \in 0 .. MaxDay
  BY <1>1, <1>3
<1> HIDE DEF Until
<1> QED BY <1>1, <1>4, <1>5, <1>6 DEF Weeks

\* The day rolls, a gift is counted, its receiver remembered.
LEMMA DayRolled ==
  ASSUME NEW p \in Purses, NEW d \in 0 .. MaxDay,
         NEW q, q = [p EXCEPT !.day = d, !.paidToday = 0]
  PROVE  /\ q \in Purses /\ q.day = d /\ q.paidToday = 0
         /\ q.tipped = p.tipped /\ q.week = p.week /\ q.bonused = p.bonused
<1> DEFINE a1 == [p EXCEPT !.day = d]
<1>1. /\ a1 \in Purses /\ a1.day = d
      /\ a1.tipped = p.tipped /\ a1.week = p.week /\ a1.bonused = p.bonused
  BY DEF Purses
<1>2. q = [a1 EXCEPT !.paidToday = 0]
  OBVIOUS
<1>3. 0 \in 0 .. DailyCap
  BY PurseAssumption
<1> HIDE DEF a1
<1> QED BY <1>1, <1>2, <1>3 DEF Purses

TipsTo(q, p, x, a) == q = [p EXCEPT !.paidToday = @ + x, !.tipped = @ \cup {a}]
Thanks(q, p, x, a) == q = [p EXCEPT !.paidToday = @ + x, !.bonused = @ \cup {a}]

LEMMA TipCounted ==
  ASSUME NEW p \in Purses, NEW x \in Nat, p.paidToday + x <= DailyCap, NEW a \in Players,
         NEW q, TipsTo(q, p, x, a)
  PROVE  /\ q \in Purses /\ q.day = p.day /\ q.paidToday = p.paidToday + x
         /\ q.tipped = p.tipped \cup {a} /\ q.week = p.week /\ q.bonused = p.bonused
<1> DEFINE a1 == [p EXCEPT !.paidToday = @ + x]
<1>0. p.paidToday + x \in 0 .. DailyCap
  BY PurseAssumption DEF Purses
<1>1. /\ a1 \in Purses /\ a1.day = p.day /\ a1.paidToday = p.paidToday + x
      /\ a1.tipped = p.tipped /\ a1.week = p.week /\ a1.bonused = p.bonused
  BY <1>0 DEF Purses
<1>2. q = [a1 EXCEPT !.tipped = @ \cup {a}]
  BY DEF Purses, TipsTo
<1> HIDE DEF a1
<1> QED BY <1>1, <1>2 DEF Purses

LEMMA BonusCounted ==
  ASSUME NEW p \in Purses, NEW x \in Nat, p.paidToday + x <= DailyCap, NEW a \in Players,
         NEW q, Thanks(q, p, x, a)
  PROVE  /\ q \in Purses /\ q.day = p.day /\ q.paidToday = p.paidToday + x
         /\ q.bonused = p.bonused \cup {a} /\ q.week = p.week /\ q.tipped = p.tipped
<1> DEFINE a1 == [p EXCEPT !.paidToday = @ + x]
<1>0. p.paidToday + x \in 0 .. DailyCap
  BY PurseAssumption DEF Purses
<1>1. /\ a1 \in Purses /\ a1.day = p.day /\ a1.paidToday = p.paidToday + x
      /\ a1.tipped = p.tipped /\ a1.week = p.week /\ a1.bonused = p.bonused
  BY <1>0 DEF Purses
<1>2. q = [a1 EXCEPT !.bonused = @ \cup {a}]
  BY DEF Purses, Thanks
<1> HIDE DEF a1
<1> QED BY <1>1, <1>2 DEF Purses

LEMMA PaymentCounted ==
  ASSUME NEW p \in Purses, NEW x \in Nat, p.paidToday + x <= DailyCap,
         NEW q, q = [p EXCEPT !.paidToday = @ + x]
  PROVE  /\ q \in Purses /\ q.day = p.day /\ q.paidToday = p.paidToday + x
         /\ q.tipped = p.tipped /\ q.week = p.week /\ q.bonused = p.bonused
<1>0. p.paidToday + x \in 0 .. DailyCap
  BY PurseAssumption DEF Purses
<1> QED BY <1>0 DEF Purses

LEMMA WeekRolled ==
  ASSUME NEW p \in Purses, NEW w \in Weeks, NEW q, q = [p EXCEPT !.week = w]
  PROVE  /\ q \in Purses /\ q.day = p.day /\ q.paidToday = p.paidToday
         /\ q.tipped = p.tipped /\ q.week = w /\ q.bonused = p.bonused
BY DEF Purses

\* The prize the tick is at is one of the queue.
LEMMA ItemIsQueued ==
  ASSUME GamesTypeOK, HarbourTypeOK, todo # {}
  PROVE  /\ Item \in todo /\ Item \in queue
         /\ Item \in 1 .. Len(prizes) /\ Item \in 1 .. MaxPrizes
         /\ prizes[Item] \in Prize
         /\ prizes[Item].amount \in 1 .. LargestGift
<1>1. /\ todo \subseteq queue /\ queue \subseteq 1 .. Len(prizes)
      /\ prizes \in Seq(Prize) /\ Len(prizes) \in Nat /\ Len(prizes) <= MaxPrizes
      /\ MaxPrizes \in Nat
  BY GamesAssumption, LenProperties DEF GamesTypeOK, HarbourTypeOK
<1>2. todo \subseteq Nat
  BY <1>1
<1>3. Item \in todo
  BY <1>2, MinOf DEF Item
<1>4. Item \in 1 .. Len(prizes)
  BY <1>1, <1>3
<1>5. Item \in 1 .. MaxPrizes /\ prizes[Item] \in Prize
  BY <1>1, <1>4
<1>6. prizes[Item].amount \in 1 .. LargestGift
  BY <1>5, GamesAssumption, PurseAssumption DEF Prize
<1> QED BY <1>1, <1>3, <1>4, <1>5, <1>6

LEMMA InitHarbour == Init => HarbourInv
<1> SUFFICES ASSUME Init PROVE HarbourInv
  OBVIOUS
<1>1. /\ agent = [day |-> 0, paidToday |-> 0, tipped |-> {}, week |-> 0, bonused |-> {}] /\ agentFile = agent
      /\ pc = "idle" /\ todo = {} /\ killed = 0 /\ lost = 0
      /\ paid = [i \in 1 .. MaxPrizes |-> None]
      /\ sent = [i \in 1 .. MaxPrizes |-> 0]
      /\ gifts = [o \in Occasions |-> 0]
      /\ spent = [d \in Days |-> 0] /\ late = {}
      /\ prizes = << >>
  BY DEF Init, GamesInit
<1>2. HarbourTypeOK
  BY <1>1, GamesAssumption, PurseAssumption DEF HarbourTypeOK, Steps, Outcomes, Unsaved
<1>3. PrizesAreKept /\ ReceiptsAreTrue
  <2>1. Len(prizes) = 0
    BY <1>1
  <2>2. \A i \in 1 .. Len(prizes) : FALSE
    BY <2>1
  <2> QED BY <2>2 DEF PrizesAreKept, ReceiptsAreTrue
<1>4. Unwon
  BY <1>1 DEF Unwon
<1> QED BY <1>1, <1>2, <1>3, <1>4 DEF HarbourInv, Affordable, Filed, Taken

\* What a step of a game can do to the queue of prizes and to the day.
LEMMA GamesQueue ==
  ASSUME GamesNext
  PROVE  /\ NoPrize \/ \E prize : Enqueue(prize)
         /\ utcDay' = utcDay \/ NewUtcDay
<1>1. ASSUME NEW s \in Dives, NEW player \in Names, StartDive(s, player)
      PROVE  NoPrize /\ utcDay' = utcDay
  BY <1>1 DEF StartDive
<1>2. ASSUME NEW s \in Dives, NEW recognised \in BOOLEAN, NEW player \in Names,
             Answer(s, recognised, player)
      PROVE  (NoPrize \/ \E prize : Enqueue(prize)) /\ utcDay' = utcDay
  BY <1>2 DEF Answer, DivePrize
<1>3. ASSUME NEW c \in Courses, NEW addr \in Names, NEW named \in BOOLEAN,
             NEW time \in 1 .. MaxTime, Claim(c, addr, named, time)
      PROVE  (NoPrize \/ \E prize : Enqueue(prize)) /\ utcDay' = utcDay
  BY <1>3 DEF Claim
<1>4. CASE SavePlank \/ SaveRide \/ CrashPlank \/ CrashRide \/ NewPlankDay \/ NewUtcDay
  BY <1>4 DEF SavePlank, SaveRide, CrashPlank, CrashRide, NewPlankDay, NewUtcDay
<1> QED BY <1>1, <1>2, <1>3, <1>4 DEF GamesNext

\* The games add prizes at the end, under the harbour's tick.
LEMMA QueueGrows ==
  ASSUME GamesInv, GamesNext
  PROVE  /\ queue \subseteq queue'
         /\ Len(prizes) \in Nat /\ Len(prizes') \in Nat /\ Len(prizes) <= Len(prizes')
         /\ Len(prizes') <= MaxPrizes
         /\ \A i \in 1 .. Len(prizes) : prizes'[i] = prizes[i]
         /\ \A i \in 1 .. Len(prizes') : i \in 1 .. Len(prizes) \/ i \in queue'
         /\ queue' \ queue \subseteq 1 .. Len(prizes') /\ (queue' \ queue) \cap (1 .. Len(prizes)) = {}
<1>1. prizes \in Seq(Prize) /\ Len(prizes) \in Nat /\ Len(prizes) <= MaxPrizes
      /\ MaxPrizes \in Nat
  BY GamesAssumption, LenProperties DEF GamesInv, GamesTypeOK
<1>2. CASE NoPrize
  BY <1>1, <1>2 DEF NoPrize
<1>3. ASSUME NEW prize, Enqueue(prize)
      PROVE  /\ queue' = queue \cup {Len(prizes) + 1}
             /\ Len(prizes') = Len(prizes) + 1
             /\ Len(prizes) < MaxPrizes
             /\ \A i \in 1 .. Len(prizes) : prizes'[i] = prizes[i]
  <2>1. prizes' = Append(prizes, prize)
    BY <1>3 DEF Enqueue
  <2>2. prizes \in Seq(Prize \cup {prize})
    BY <1>1, SeqMonotonic
  <2> QED BY <1>3, <2>1, <2>2, AppendProperties DEF Enqueue
<1>4. CASE \E prize : Enqueue(prize)
  <2>1. /\ queue' = queue \cup {Len(prizes) + 1}
        /\ Len(prizes') = Len(prizes) + 1
        /\ Len(prizes) < MaxPrizes
        /\ \A i \in 1 .. Len(prizes) : prizes'[i] = prizes[i]
    BY <1>3, <1>4
  <2>2. \A i \in 1 .. Len(prizes') : i \in 1 .. Len(prizes) \/ i = Len(prizes) + 1
    BY <1>1, <2>1
  <2>3. Len(prizes) + 1 \in 1 .. Len(prizes') /\ Len(prizes) + 1 \notin 1 .. Len(prizes)
    BY <1>1, <2>1
  <2> QED BY <1>1, <2>1, <2>2, <2>3
<1> QED BY <1>2, <1>4, GamesQueue

LEMMA PlayKeeps ==
  ASSUME GamesInv, HarbourInv, Play
  PROVE  HarbourInv'
<1>1. GamesNext /\ UNCHANGED <<agent, agentFile, pc, todo, paid, killed, sent, gifts, spent, late, lost>>
  BY DEF Play, harbourVars, chainVars
<1>2. /\ queue \subseteq queue' /\ Len(prizes) \in Nat /\ Len(prizes') \in Nat
      /\ \A i \in 1 .. Len(prizes) : prizes'[i] = prizes[i]
      /\ \A i \in 1 .. Len(prizes') : i \in 1 .. Len(prizes) \/ i \in queue'
      /\ (queue' \ queue) \cap (1 .. Len(prizes)) = {}
  BY <1>1, QueueGrows
<1>3. Len(prizes) <= Len(prizes') /\ Len(prizes') <= MaxPrizes /\ MaxPrizes \in Nat
  BY <1>1, QueueGrows, GamesAssumption
<1>4. HarbourTypeOK'
  BY <1>1, <1>2 DEF HarbourInv, HarbourTypeOK
<1>5. Affordable'
  <2>1. CASE pc = "plain"
    <3>1. todo # {}
      BY <2>1 DEF HarbourInv, HarbourTypeOK
    <3>2. Item' = Item /\ prizes'[Item] = prizes[Item]
      BY <1>1, <1>2, <3>1, ItemIsQueued DEF HarbourInv, GamesInv, Item
    <3> QED BY <1>1, <2>1, <3>2 DEF HarbourInv, Affordable, CanPay
  <2>2. CASE pc # "plain"
    BY <1>1, <2>2 DEF Affordable
  <2> QED BY <2>1, <2>2
<1>6. PrizesAreKept'
  BY <1>1, <1>2 DEF HarbourInv, PrizesAreKept
<1>7. Filed' /\ Taken'
  BY <1>1 DEF HarbourInv, Filed, Taken, Item
<1>8. ReceiptsAreTrue'
  <2>1. ASSUME NEW i \in 1 .. Len(prizes'), paid[i] = "txid" PROVE sent[i] >= 1
    <3>1. CASE i \in 1 .. Len(prizes)
      BY <2>1, <3>1 DEF HarbourInv, ReceiptsAreTrue
    <3>2. CASE i \notin 1 .. Len(prizes)
      <4>1. i \in 1 .. MaxPrizes /\ i > Len(prizes)
        BY <1>2, <1>3, <3>2
      <4> QED BY <2>1, <4>1 DEF HarbourInv, Unwon, None
    <3> QED BY <3>1, <3>2
  <2> QED BY <1>1, <2>1 DEF ReceiptsAreTrue
<1>9. Unwon'
  BY <1>1, <1>2, <1>3 DEF HarbourInv, Unwon
<1> QED
  BY <1>4, <1>5, <1>6, <1>7, <1>8, <1>9 DEF HarbourInv

\* Steps that pay nothing and file nothing only have to keep their types.
LEMMA QuietKeeps ==
  ASSUME HarbourInv, GamesUnchanged, UNCHANGED <<queue, paid, sent>>,
         pc' \notin {"plain", "unqueue", "txid"}, HarbourTypeOK'
  PROVE  HarbourInv'
<1>1. prizes' = prizes
  BY DEF GamesUnchanged
<1>2. PrizesAreKept' /\ ReceiptsAreTrue' /\ Unwon'
  BY <1>1 DEF HarbourInv, PrizesAreKept, ReceiptsAreTrue, Unwon
<1> QED BY <1>2 DEF HarbourInv, Affordable, Filed, Taken

\* What the chain takes goes on today's account.
LEMMA TakesType ==
  ASSUME GamesTypeOK, HarbourTypeOK, NEW amount \in Nat, Takes(amount)
  PROVE  spent' \in [Days -> Nat] /\ late' \subseteq Days
BY DEF GamesTypeOK, HarbourTypeOK, Takes

LEMMA TakesGiftType ==
  ASSUME GamesTypeOK, HarbourTypeOK, NEW o, NEW amount \in Nat, TakesGift(o, amount)
  PROVE  /\ spent' \in [Days -> Nat] /\ late' \subseteq Days
         /\ gifts' \in [Occasions -> Nat] /\ sent' = sent
<1>1. spent' \in [Days -> Nat] /\ late' \subseteq Days
  BY TakesType DEF TakesGift
<1>2. gifts' = [gifts EXCEPT ![o] = @ + 1] /\ sent' = sent
  BY DEF TakesGift
<1>3. gifts \in [Occasions -> Nat]
  BY DEF HarbourTypeOK
<1>4. gifts' \in [Occasions -> Nat]
  <2>1. gifts' = [x \in Occasions |-> IF x = o THEN gifts[o] + 1 ELSE gifts[x]]
    BY <1>2, <1>3
  <2>2. ASSUME NEW x \in Occasions PROVE (IF x = o THEN gifts[o] + 1 ELSE gifts[x]) \in Nat
    <3>1. gifts[x] \in Nat
      BY <1>3
    <3>2. CASE x = o
      BY <3>1, <3>2
    <3>3. CASE x # o
      BY <3>1, <3>3
    <3> QED BY <3>2, <3>3
  <2> QED BY <2>1, <2>2
<1> QED BY <1>1, <1>2, <1>4

LEMMA TakesPrizeType ==
  ASSUME GamesTypeOK, HarbourTypeOK, todo # {}, TakesPrize(Item)
  PROVE  /\ spent' \in [Days -> Nat] /\ late' \subseteq Days /\ gifts' = gifts
         /\ sent' \in [1 .. MaxPrizes -> Nat]
         /\ sent'[Item] = sent[Item] + 1
         /\ \A i \in 1 .. MaxPrizes : i # Item => sent'[i] = sent[i]
         /\ \A i \in 1 .. MaxPrizes : sent'[i] >= sent[i]
         /\ sent'[Item] >= 1
<1>0. Item \in 1 .. MaxPrizes /\ prizes[Item].amount \in 1 .. LargestGift /\ LargestGift \in Nat
  BY ItemIsQueued, PurseAssumption
<1>1. Item \in 1 .. MaxPrizes /\ prizes[Item].amount \in Nat
  BY <1>0
<1>2. spent' \in [Days -> Nat] /\ late' \subseteq Days
  BY <1>1, TakesType DEF TakesPrize
<1>3. sent \in [1 .. MaxPrizes -> Nat] /\ sent' = [sent EXCEPT ![Item] = @ + 1] /\ gifts' = gifts
  BY DEF HarbourTypeOK, TakesPrize
<1> QED BY <1>1, <1>2, <1>3

\* Counting a payment the day affords keeps paid_today under the ceiling.
LEMMA CountType ==
  ASSUME HarbourTypeOK, NEW amount \in Nat, CanPay(amount), Count(amount)
  PROVE  agent' \in Purses
<1>1. agent \in Purses /\ agent.paidToday + amount <= DailyCap
      /\ agent' = [agent EXCEPT !.paidToday = @ + amount]
  BY DEF HarbourTypeOK, CanPay, Count, Purses
<1> QED BY <1>1, PaymentCounted

LEMMA BeginTickKeeps ==
  ASSUME GamesInv, HarbourInv, BeginTick PROVE HarbourInv'
<1>1. /\ agent' = IF agent.day = utcDay THEN agent
                  ELSE [agent EXCEPT !.day = utcDay, !.paidToday = 0]
      /\ pc = "idle" /\ pc' = "post" /\ GamesUnchanged
      /\ UNCHANGED <<queue, killed, agentFile, todo, paid, sent, gifts, spent, late, lost>>
  BY DEF BeginTick, chainVars
<1>2. agent \in Purses /\ utcDay \in 0 .. MaxDay
  BY GamesAssumption DEF HarbourInv, HarbourTypeOK, GamesInv, GamesTypeOK, Days, Purses
<1>3. agent' \in Purses
  BY <1>1, <1>2, DayRolled
<1>4. HarbourTypeOK'
  BY <1>1, <1>3 DEF HarbourInv, HarbourTypeOK, Steps, Purses, Outcomes
<1> QED BY <1>1, <1>4, QuietKeeps

LEMMA SaveGiftKeeps ==
  ASSUME HarbourInv, SaveGift PROVE HarbourInv'
<1>1. HarbourTypeOK' /\ pc' \in {"post", "bonus"}
  BY DEF SaveGift, HarbourInv, HarbourTypeOK, Steps, Outcomes, Unsaved, chainVars
<1> QED BY <1>1, QuietKeeps DEF SaveGift, chainVars

LEMMA RollWeekKeeps ==
  ASSUME GamesInv, HarbourInv, RollWeek PROVE HarbourInv'
<1>1. /\ agent' = [agent EXCEPT !.week = Week(utcDay)]
      /\ pc' \in {"judge", "bonus"} /\ GamesUnchanged
      /\ UNCHANGED <<queue, killed, agentFile, todo, paid, sent, gifts, spent, late, lost>>
  BY DEF RollWeek, chainVars
<1>2. agent \in Purses /\ utcDay \in Days
  BY DEF HarbourInv, HarbourTypeOK, GamesInv, GamesTypeOK, Purses
<1>3. agent' \in Purses
  BY <1>1, <1>2, WeekType, WeekRolled
<1>4. HarbourTypeOK'
  BY <1>1, <1>3 DEF HarbourInv, HarbourTypeOK, Steps, Purses, Outcomes
<1> QED BY <1>1, <1>4, QuietKeeps

LEMMA OpenPurseKeeps ==
  ASSUME HarbourInv, OpenPurse PROVE HarbourInv'
<1>1. HarbourTypeOK'
  BY DEF OpenPurse, Pending, HarbourInv, HarbourTypeOK, Steps, Outcomes, Unsaved, chainVars
<1> QED BY <1>1, QuietKeeps DEF OpenPurse, chainVars

LEMMA RefuseKeeps ==
  ASSUME HarbourInv, Refuse PROVE HarbourInv'
<1>1. HarbourTypeOK'
  BY DEF Refuse, HarbourInv, HarbourTypeOK, Steps, Outcomes, Unsaved, chainVars
<1> QED BY <1>1, QuietKeeps DEF Refuse, chainVars

LEMMA HoldKeeps ==
  ASSUME HarbourInv, Hold PROVE HarbourInv'
<1>1. HarbourTypeOK'
  BY DEF Hold, HarbourInv, HarbourTypeOK, Steps, Outcomes, Unsaved, chainVars
<1> QED BY <1>1, QuietKeeps DEF Hold, chainVars

LEMMA EndTickKeeps ==
  ASSUME HarbourInv, EndTick PROVE HarbourInv'
<1>1. HarbourTypeOK'
  BY DEF EndTick, HarbourInv, HarbourTypeOK, Steps, Outcomes, Unsaved, chainVars
<1> QED BY <1>1, QuietKeeps DEF EndTick, chainVars

LEMMA CrashHarbourKeeps ==
  ASSUME HarbourInv, CrashHarbour PROVE HarbourInv'
<1>1. HarbourTypeOK'
  BY DEF CrashHarbour, HarbourInv, HarbourTypeOK, Steps, Outcomes, Unsaved, chainVars
<1> QED BY <1>1, QuietKeeps DEF CrashHarbour, chainVars

\* A gift the node takes, whether its answer comes or is lost.
LEMMA GiftKeeps ==
  ASSUME GamesInv, HarbourInv, NEW o, NEW amount \in Nat, TakesGift(o, amount), GamesUnchanged,
         UNCHANGED <<queue, killed, agentFile, todo, paid>>, agent' \in Purses,
         lost' = lost \/ AnswerLost, pc' \in Unsaved \cup {"idle", "bonus", "purse"}
  PROVE  HarbourInv'
<1>1. HarbourTypeOK /\ GamesTypeOK
  BY DEF HarbourInv, GamesInv
<1>2. /\ spent' \in [Days -> Nat] /\ late' \subseteq Days
      /\ gifts' \in [Occasions -> Nat] /\ sent' = sent /\ lost' \in Nat
  BY <1>1, TakesGiftType DEF AnswerLost, HarbourTypeOK
<1>3. HarbourTypeOK'
  BY <1>1, <1>2 DEF HarbourTypeOK, Steps, Outcomes, Unsaved, Purses
<1> QED BY <1>2, <1>3, QuietKeeps DEF Unsaved

LEMMA WelcomeKeeps ==
  ASSUME GamesInv, HarbourInv, NEW a \in Players, Welcome(a) PROVE HarbourInv'
<1>1. /\ CanPay(Tip) /\ TakesGift(<<"tip", a>>, Tip) /\ GamesUnchanged
      /\ agent' = [agent EXCEPT !.paidToday = @ + Tip, !.tipped = @ \cup {a}]
      /\ pc' = "tipped" /\ UNCHANGED <<queue, killed, agentFile, todo, paid, lost>>
  BY DEF Welcome, Welcomes
<1>2. agent \in Purses /\ agent.paidToday + Tip <= DailyCap /\ Tip \in Nat
  BY <1>1, PurseAssumption DEF HarbourInv, HarbourTypeOK, CanPay, Purses
<1>3. agent' \in Purses
  <2>1. TipsTo(agent', agent, Tip, a)
    BY <1>1 DEF TipsTo
  <2> QED BY <1>2, <2>1, TipCounted
<1> QED BY <1>1, <1>2, <1>3, GiftKeeps DEF Unsaved

LEMMA WelcomeFailsKeeps ==
  ASSUME GamesInv, HarbourInv, NEW a \in Players, WelcomeFails(a) PROVE HarbourInv'
<1>1. /\ GamesUnchanged /\ pc' = "idle"
      /\ UNCHANGED <<queue, killed, agent, agentFile, todo, paid>>
  BY DEF WelcomeFails
<1>2. agent \in Purses /\ Tip \in Nat
  BY PurseAssumption DEF HarbourInv, HarbourTypeOK, Purses
<1>3. CASE UNCHANGED chainVars
  <2>1. HarbourTypeOK'
    BY <1>1, <1>3 DEF HarbourInv, HarbourTypeOK, Steps, Outcomes, chainVars
  <2> QED BY <1>1, <1>3, <2>1, QuietKeeps DEF chainVars
<1>4. CASE TakesGift(<<"tip", a>>, Tip) /\ AnswerLost
  BY <1>1, <1>2, <1>4, GiftKeeps
<1> QED BY <1>3, <1>4 DEF WelcomeFails

LEMMA LetterOfTheWeekKeeps ==
  ASSUME GamesInv, HarbourInv, LetterOfTheWeek PROVE HarbourInv'
<1>1. GamesUnchanged /\ UNCHANGED <<queue, killed, agentFile, todo, paid>>
  BY DEF LetterOfTheWeek
<1>2. CASE UNCHANGED <<agent, chainVars>> /\ pc' = "bonus"
  <2>1. HarbourTypeOK'
    BY <1>1, <1>2 DEF HarbourInv, HarbourTypeOK, Steps, Outcomes, chainVars
  <2> QED BY <1>1, <1>2, <2>1, QuietKeeps DEF chainVars
<1>3. ASSUME NEW amount \in HarbourPrizes, CanPay(amount),
             TakesGift(<<"week", agentFile.week>>, amount),
             \/ Count(amount) /\ pc' = "won" /\ UNCHANGED lost
             \/ AnswerLost /\ pc' = "bonus" /\ UNCHANGED agent
      PROVE  HarbourInv'
  <2>1. amount \in Nat
    BY PurseAssumption
  <2>2. agent' \in Purses
    BY <1>3, <2>1, CountType DEF HarbourInv, HarbourTypeOK, Purses
  <2>3. (lost' = lost \/ AnswerLost) /\ pc' \in Unsaved \cup {"idle", "bonus", "purse"}
    BY <1>3 DEF Unsaved
  <2> QED BY <1>1, <1>3, <2>1, <2>2, <2>3, GiftKeeps
<1> QED BY <1>2, <1>3 DEF LetterOfTheWeek

LEMMA FirstBlockKeeps ==
  ASSUME GamesInv, HarbourInv, NEW a \in Players, NEW amount \in HarbourPrizes,
         FirstBlock(a, amount)
  PROVE  HarbourInv'
<1>1. GamesUnchanged /\ UNCHANGED <<queue, killed, agentFile, todo, paid>>
  BY DEF FirstBlock
<1>2. /\ CanPay(amount) /\ TakesGift(<<"bonus", a>>, amount)
      /\ \/ /\ agent' = [agent EXCEPT !.paidToday = @ + amount, !.bonused = @ \cup {a}]
            /\ pc' = "thanked" /\ lost' = lost
         \/ AnswerLost /\ pc' = "purse" /\ agent' = agent
  BY DEF FirstBlock
<1>3. amount \in Nat /\ agent \in Purses /\ agent.paidToday + amount <= DailyCap
  BY <1>2, PurseAssumption DEF HarbourInv, HarbourTypeOK, CanPay, Purses
<1>4. agent' \in Purses
  <2>1. CASE agent' = [agent EXCEPT !.paidToday = @ + amount, !.bonused = @ \cup {a}]
    <3>1. Thanks(agent', agent, amount, a)
      BY <2>1 DEF Thanks
    <3> QED BY <1>3, <3>1, BonusCounted
  <2>2. CASE agent' = agent
    BY <1>3, <2>2
  <2> QED BY <1>2, <2>1, <2>2
<1>5. (lost' = lost \/ AnswerLost) /\ pc' \in Unsaved \cup {"idle", "bonus", "purse"}
  BY <1>2 DEF Unsaved
<1> QED BY <1>1, <1>2, <1>3, <1>4, <1>5, GiftKeeps

\* The node takes the prize, refuses it, or takes it and its answer is lost; the
\* item stays the one the tick is at.
LEMMA PaymentKeeps ==
  ASSUME GamesInv, HarbourInv, GamesUnchanged, todo # {}, CanPay(prizes[Item].amount),
         UNCHANGED <<queue, killed, agentFile, todo, paid>>,
         \/ TakesPrize(Item) /\ Count(prizes[Item].amount) /\ pc' = "txid" /\ lost' = lost
         \/ UNCHANGED <<agent, sent, gifts, spent, late, lost>> /\ pc' \in {"plain", "error"}
         \/ TakesPrize(Item) /\ AnswerLost /\ UNCHANGED agent /\ pc' \in {"plain", "error"}
  PROVE  HarbourInv'
<1>1. HarbourTypeOK /\ GamesTypeOK /\ prizes' = prizes /\ Item' = Item
  BY DEF HarbourInv, GamesInv, GamesUnchanged, Item
<1>2. Item \in 1 .. MaxPrizes /\ Item \in 1 .. Len(prizes) /\ prizes[Item].amount \in Nat
  <2>1. LargestGift \in Nat
    BY PurseAssumption
  <2> QED BY <1>1, <2>1, ItemIsQueued
<1>3. /\ sent' \in [1 .. MaxPrizes -> Nat] /\ gifts' \in [Occasions -> Nat]
      /\ spent' \in [Days -> Nat] /\ late' \subseteq Days /\ lost' \in Nat
      /\ \A i \in 1 .. MaxPrizes : sent'[i] >= sent[i]
      /\ \A i \in 1 .. MaxPrizes : i # Item => sent'[i] = sent[i]
      /\ pc' = "txid" => sent'[Item] >= 1
  <2>1. CASE UNCHANGED <<agent, sent, gifts, spent, late, lost>> /\ pc' \in {"plain", "error"}
    BY <1>1, <2>1 DEF HarbourTypeOK
  <2>2. CASE TakesPrize(Item)
    <3>1. lost' \in Nat
      BY <1>1 DEF HarbourTypeOK, AnswerLost
    <3> QED BY <1>1, <2>2, <3>1, TakesPrizeType DEF HarbourTypeOK
  <2> QED BY <2>1, <2>2
<1>4. agent' \in Purses /\ (pc' = "plain" => agent' = agent) /\ pc' \in {"txid", "plain", "error"}
  BY <1>1, <1>2, CountType DEF HarbourTypeOK, Purses
<1>5. HarbourTypeOK'
  BY <1>1, <1>3, <1>4 DEF HarbourTypeOK, Steps, Outcomes, Purses
<1>6. Affordable'
  BY <1>1, <1>4 DEF Affordable, CanPay
<1>7. Filed' /\ Taken'
  BY <1>1, <1>3, <1>4 DEF Filed, Taken
<1>8. PrizesAreKept'
  BY <1>1 DEF HarbourInv, PrizesAreKept
<1>9. Len(prizes) \in Nat /\ Len(prizes) <= MaxPrizes /\ MaxPrizes \in Nat
  BY <1>1, LenProperties, GamesAssumption DEF GamesTypeOK
<1>10. ReceiptsAreTrue'
  <2>1. ASSUME NEW i \in 1 .. Len(prizes), paid[i] = "txid" PROVE sent'[i] >= 1
    <3>1. i \in 1 .. MaxPrizes /\ sent[i] >= 1
      BY <1>9, <2>1 DEF HarbourInv, ReceiptsAreTrue
    <3>2. sent[i] \in Nat /\ sent'[i] \in Nat /\ sent'[i] >= sent[i]
      BY <1>1, <1>3, <3>1 DEF HarbourTypeOK
    <3> QED BY <3>1, <3>2
  <2> QED BY <1>1, <2>1 DEF ReceiptsAreTrue
<1>11. Unwon'
  BY <1>1, <1>2, <1>3, <1>9 DEF HarbourInv, Unwon
<1> QED BY <1>5, <1>6, <1>7, <1>8, <1>10, <1>11 DEF HarbourInv

LEMMA GiftLetterKeeps ==
  ASSUME GamesInv, HarbourInv, GiftLetter PROVE HarbourInv'
<1>1. /\ GamesUnchanged /\ todo # {} /\ CanPay(prizes[Item].amount)
      /\ UNCHANGED <<queue, killed, agentFile, todo, paid>>
  BY DEF GiftLetter
<1>2. \/ TakesPrize(Item) /\ Count(prizes[Item].amount) /\ pc' = "txid" /\ lost' = lost
      \/ UNCHANGED <<agent, sent, gifts, spent, late, lost>> /\ pc' \in {"plain", "error"}
      \/ TakesPrize(Item) /\ AnswerLost /\ UNCHANGED agent /\ pc' \in {"plain", "error"}
  BY DEF GiftLetter, chainVars
<1> QED BY <1>1, <1>2, PaymentKeeps

LEMMA PlainTransferKeeps ==
  ASSUME GamesInv, HarbourInv, PlainTransfer PROVE HarbourInv'
<1>1. /\ GamesUnchanged /\ pc = "plain"
      /\ UNCHANGED <<queue, killed, agentFile, todo, paid>>
  BY DEF PlainTransfer
<1>2. todo # {} /\ CanPay(prizes[Item].amount)
  BY <1>1 DEF HarbourInv, HarbourTypeOK, Affordable
<1>3. \/ TakesPrize(Item) /\ Count(prizes[Item].amount) /\ pc' = "txid" /\ lost' = lost
      \/ UNCHANGED <<agent, sent, gifts, spent, late, lost>> /\ pc' \in {"plain", "error"}
      \/ TakesPrize(Item) /\ AnswerLost /\ UNCHANGED agent /\ pc' \in {"plain", "error"}
  BY DEF PlainTransfer, chainVars, Refused
<1> QED BY <1>1, <1>2, <1>3, PaymentKeeps

\* The outcome is filed first: a txid only when the chain took the payment.
LEMMA SettleFileKeeps ==
  ASSUME GamesInv, HarbourInv, SettleFile PROVE HarbourInv'
<1>1. /\ pc \in Outcomes /\ paid' = [paid EXCEPT ![Item] = pc] /\ pc' = "unqueue"
      /\ GamesUnchanged
      /\ UNCHANGED <<queue, killed, agent, agentFile, todo, sent, gifts, spent, late, lost>>
  BY DEF SettleFile, chainVars
<1>2. HarbourTypeOK /\ GamesTypeOK /\ prizes' = prizes /\ Item' = Item /\ todo # {}
  BY <1>1 DEF HarbourInv, GamesInv, GamesUnchanged, Item, HarbourTypeOK
<1>3. Item \in 1 .. MaxPrizes /\ Item \in 1 .. Len(prizes) /\ Len(prizes) \in Nat
  BY <1>2, ItemIsQueued, LenProperties DEF GamesTypeOK
<1>4. /\ paid' \in [1 .. MaxPrizes -> Outcomes \cup {None}]
      /\ paid'[Item] = pc /\ \A i \in 1 .. MaxPrizes : i # Item => paid'[i] = paid[i]
  BY <1>1, <1>2, <1>3 DEF HarbourTypeOK
<1>5. pc # None
  BY <1>1 DEF Outcomes, None
<1>6. HarbourTypeOK'
  BY <1>1, <1>2, <1>4 DEF HarbourTypeOK, Steps
<1>7. Affordable' /\ Filed' /\ Taken'
  BY <1>1, <1>2, <1>4, <1>5 DEF Affordable, Filed, Taken
<1>8. Len(prizes) <= MaxPrizes /\ MaxPrizes \in Nat
  BY <1>2, GamesAssumption DEF GamesTypeOK
<1>9. \A i \in 1 .. Len(prizes) : i \in 1 .. MaxPrizes
  BY <1>3, <1>8
<1>10. PrizesAreKept'
  BY <1>1, <1>2, <1>4, <1>5, <1>9 DEF HarbourInv, PrizesAreKept
<1>11. ReceiptsAreTrue'
  BY <1>1, <1>2, <1>4, <1>9 DEF HarbourInv, ReceiptsAreTrue, Taken
<1>12. Unwon'
  <2>1. ~(Item > Len(prizes))
    BY <1>3
  <2> QED BY <1>1, <1>2, <1>4, <2>1 DEF HarbourInv, Unwon
<1> QED BY <1>6, <1>7, <1>10, <1>11, <1>12 DEF HarbourInv

LEMMA UnqueueKeeps ==
  ASSUME GamesInv, HarbourInv, Unqueue PROVE HarbourInv'
<1>1. /\ pc = "unqueue" /\ queue' = queue \ {Item} /\ todo' = todo \ {Item} /\ pc' = "pay"
      /\ prizes' = prizes
      /\ UNCHANGED <<killed, agent, agentFile, paid, sent, gifts, spent, late, lost>>
  BY DEF Unqueue, chainVars, GamesUnchanged
<1>2. HarbourTypeOK'
  BY <1>1 DEF HarbourInv, HarbourTypeOK, Steps, Outcomes
<1>3. Affordable' /\ Filed' /\ Taken'
  BY <1>1 DEF Affordable, Filed, Taken
<1>4. PrizesAreKept'
  BY <1>1 DEF HarbourInv, PrizesAreKept, Filed
<1>5. ReceiptsAreTrue' /\ Unwon'
  BY <1>1 DEF HarbourInv, ReceiptsAreTrue, Unwon
<1> QED BY <1>2, <1>3, <1>4, <1>5 DEF HarbourInv

LEMMA NextHarbour == GamesInv /\ HarbourInv /\ [Next]_vars => HarbourInv'
<1> SUFFICES ASSUME GamesInv, HarbourInv, [Next]_vars PROVE HarbourInv'
  OBVIOUS
<1>1. CASE HarbourNext
  BY <1>1, BeginTickKeeps, WelcomeKeeps, WelcomeFailsKeeps, FirstBlockKeeps, SaveGiftKeeps,
     RollWeekKeeps, LetterOfTheWeekKeeps, OpenPurseKeeps,
     RefuseKeeps, HoldKeeps, GiftLetterKeeps, PlainTransferKeeps, SettleFileKeeps,
     UnqueueKeeps, EndTickKeeps, CrashHarbourKeeps DEF HarbourNext
<1>2. CASE UNCHANGED vars
  <2>1. UNCHANGED <<prizes, queue, agent, agentFile, pc, todo, paid, killed, sent, gifts, spent, late, lost>>
    BY <1>2 DEF vars, gameVars, harbourVars, chainVars
  <2> QED BY <2>1 DEF HarbourInv, HarbourTypeOK, Affordable, PrizesAreKept, Filed, ReceiptsAreTrue,
                      Taken, Unwon, CanPay, Item
<1> QED BY <1>1, <1>2, PlayKeeps DEF Next

\* The games, their files, the queue, the harbour's memory and file, its counters
\* and the paid/ directories are always well formed; no dive has more answers than
\* questions, and paid_today never passes the ceiling.
THEOREM WellTyped == Spec => []TypeOK
<1>1. Init => GamesInv /\ HarbourInv
  BY InitGames, InitHarbour DEF Init
<1>2. GamesInv /\ HarbourInv => TypeOK
  BY DEF GamesInv, HarbourInv, TypeOK
<1> QED
  BY <1>1, <1>2, NextGames, NextHarbour, PTL DEF Spec

\* At every moment a prize is in queue/ or its outcome is in paid/.
THEOREM NoPrizeIsLost == Spec => []PrizesAreKept
<1>1. Init => GamesInv /\ HarbourInv
  BY InitGames, InitHarbour DEF Init
<1>2. HarbourInv => PrizesAreKept
  BY DEF HarbourInv
<1> QED
  BY <1>1, <1>2, NextGames, NextHarbour, PTL DEF Spec

\* A txid in paid/ is a payment the chain took.
THEOREM ReceiptsAreForPayments == Spec => []ReceiptsAreTrue
<1>1. Init => GamesInv /\ HarbourInv
  BY InitGames, InitHarbour DEF Init
<1>2. HarbourInv => ReceiptsAreTrue
  BY DEF HarbourInv
<1> QED
  BY <1>1, <1>2, NextGames, NextHarbour, PTL DEF Spec

----------------------------------------------------------------------------
(* What leaves the purse in a day. *)

\* Crashes forget up to a ceiling each, lost answers up to a payment each.
Forgotten == DailyCap * killed + LargestGift * lost

\* The ceiling of yesterday's tick, on a day on which it still paid something.
Overlap(d) == IF d \in late THEN DailyCap ELSE 0

\* What memory can account for today: its own day's payments; those of the tick
\* of an earlier day that still runs, or a ceiling when that tick is over.
Counted ==
  IF agent.day = utcDay THEN agent.paidToday + Overlap(utcDay)
  ELSE IF utcDay \notin late THEN 0
  ELSE IF pc = "idle" THEN DailyCap ELSE agent.paidToday

\* The memory never falls behind the file.
DaysInOrder == agentFile.day <= agent.day /\ agent.day <= utcDay

SpentFits ==
  /\ \A d \in Days : d > utcDay => spent[d] = 0 /\ d \notin late
  /\ \A d \in Days : d < utcDay => spent[d] <= Forgotten + (DailyCap + Overlap(d))
  /\ spent[utcDay] <= Forgotten + Counted

SpendingInv == DaysInOrder /\ SpentFits

LEMMA SpendingTypes ==
  ASSUME GamesTypeOK, HarbourTypeOK
  PROVE  /\ agent \in Purses /\ agentFile \in Purses
         /\ agent.paidToday \in 0 .. DailyCap /\ agentFile.paidToday \in 0 .. DailyCap
         /\ agent.day \in Nat /\ agentFile.day \in Nat
         /\ utcDay \in Days /\ utcDay \in Nat /\ spent \in [Days -> Nat]
         /\ late \subseteq Days
         /\ DailyCap \in Nat /\ LargestGift \in Nat /\ Tip \in 1 .. LargestGift
         /\ killed \in Nat /\ lost \in Nat
         /\ Forgotten \in Nat /\ Counted \in 0 .. (2 * DailyCap)
         /\ \A d : Overlap(d) \in {0, DailyCap}
         /\ Counted <= DailyCap + Overlap(utcDay)
<1>1. /\ agent \in Purses /\ agentFile \in Purses
      /\ utcDay \in Days /\ spent \in [Days -> Nat] /\ late \subseteq Days
      /\ killed \in Nat /\ lost \in Nat
  BY DEF GamesTypeOK, HarbourTypeOK, Purses
<1>2. DailyCap \in Nat /\ LargestGift \in Nat /\ Tip \in 1 .. LargestGift
  BY PurseAssumption
<1>3. agent.paidToday \in 0 .. DailyCap /\ agentFile.paidToday \in 0 .. DailyCap
      /\ agent.day \in Nat /\ agentFile.day \in Nat
  BY <1>1, GamesAssumption DEF Purses
<1>4. utcDay \in Nat
  BY <1>1, GamesAssumption DEF Days
<1>5. Forgotten \in Nat
  <2>1. \A x, y \in Nat : x * y \in Nat
    OBVIOUS
  <2>2. DailyCap * killed \in Nat /\ LargestGift * lost \in Nat
    BY <1>1, <1>2, <2>1
  <2> QED BY <2>2 DEF Forgotten
<1>6. \A d : Overlap(d) \in {0, DailyCap}
  BY DEF Overlap
<1>7. Counted \in 0 .. (2 * DailyCap) /\ Counted <= DailyCap + Overlap(utcDay)
  BY <1>2, <1>3 DEF Counted, Overlap
<1> QED BY <1>1, <1>2, <1>3, <1>4, <1>5, <1>6, <1>7

LEMMA CountedType ==
  GamesTypeOK /\ HarbourTypeOK => Forgotten \in Nat /\ Counted \in 0 .. (2 * DailyCap)
BY SpendingTypes

\* One crash and one lost answer more.
LEMMA ForgetMore ==
  ASSUME NEW c \in Nat, NEW r \in Nat, NEW k \in Nat, NEW l \in Nat
  PROVE  /\ c * (k + 1) + r * l = (c * k + r * l) + c
         /\ c * k + r * (l + 1) = (c * k + r * l) + r
<1>1. c * (k + 1) = c * k + c /\ r * (l + 1) = r * l + r
  OBVIOUS
<1>2. \A x, y \in Nat : x * y \in Nat
  OBVIOUS
<1>3. c * k \in Nat /\ r * l \in Nat
  BY <1>2
<1> QED BY <1>1, <1>3

\* A step of the day adds no more to what was spent than to what explains it.
LEMMA SpentStep ==
  ASSUME GamesTypeOK, HarbourTypeOK, HarbourTypeOK', GamesTypeOK', SpentFits, utcDay' = utcDay,
         late' \in {late, late \cup {utcDay}},
         NEW x \in Nat, spent' = [spent EXCEPT ![utcDay] = @ + x],
         Forgotten <= Forgotten', Forgotten + Counted + x <= Forgotten' + Counted'
  PROVE  SpentFits'
<1> DEFINE f == Forgotten
           g == Forgotten'
           b == Counted
           c == Counted'
<1>1. f \in Nat /\ b \in Nat /\ utcDay \in Days /\ spent \in [Days -> Nat] /\ DailyCap \in Nat
      /\ utcDay \in Nat
  BY SpendingTypes
<1>2. g \in Nat /\ c \in Nat
  <2>1. (GamesTypeOK /\ HarbourTypeOK => Forgotten \in Nat /\ Counted \in 0 .. (2 * DailyCap))'
    BY CountedType, PTL
  <2>2. g \in Nat /\ Counted' \in 0 .. (2 * DailyCap)
    BY <2>1
  <2> HIDE DEF g
  <2> QED BY <1>1, <2>2
<1>3. /\ \A d \in Days : d > utcDay => spent[d] = 0 /\ d \notin late
      /\ \A d \in Days : d < utcDay => spent[d] <= f + (DailyCap + Overlap(d))
      /\ spent[utcDay] <= f + b /\ f <= g /\ f + b + x <= g + c
  BY DEF SpentFits
<1>4. \A d \in Days : d \in Nat
  BY GamesAssumption DEF Days
<1>5. \A d : d # utcDay => (d \in late' <=> d \in late)
  OBVIOUS
<1>6. \A d : Overlap(d) \in {0, DailyCap}
  BY DEF Overlap
<1>7. \A d : d # utcDay => Overlap(d)' = Overlap(d)
  BY <1>5 DEF Overlap
<1> HIDE DEF f, g, b, c
<1>8. \A d \in Days : d > utcDay => spent'[d] = 0 /\ d \notin late'
  BY <1>1, <1>3, <1>4, <1>5
<1>9. ASSUME NEW d \in Days, d < utcDay PROVE spent'[d] <= g + (DailyCap + Overlap(d)')
  <2>1. spent'[d] = spent[d] /\ spent[d] \in Nat /\ d # utcDay
    BY <1>1, <1>4, <1>9
  <2>2. Overlap(d)' = Overlap(d) /\ spent[d] <= f + (DailyCap + Overlap(d))
    BY <1>3, <1>7, <1>9, <2>1
  <2>3. PICK o : o = Overlap(d) /\ o \in {0, DailyCap}
    BY <1>6
  <2>4. spent[d] <= g + (DailyCap + o)
    BY <1>1, <1>2, <1>3, <2>1, <2>2, <2>3
  <2> QED BY <2>1, <2>2, <2>3, <2>4
<1>10. spent'[utcDay] <= g + c
  <2>1. spent'[utcDay] = spent[utcDay] + x /\ spent[utcDay] \in Nat
    BY <1>1
  <2> QED BY <1>1, <1>2, <1>3, <2>1
<1> QED BY <1>8, <1>9, <1>10 DEF SpentFits, g, c

\* A step that neither spends nor forgets.
LEMMA QuietSpending ==
  ASSUME GamesTypeOK, HarbourTypeOK, GamesTypeOK', HarbourTypeOK', SpendingInv,
         UNCHANGED <<utcDay, spent, late, killed, lost>>,
         DaysInOrder', Counted <= Counted'
  PROVE  SpendingInv'
<1>1. Forgotten' = Forgotten
  BY DEF Forgotten
<1>2. Forgotten \in Nat /\ Counted \in Nat /\ utcDay \in Days /\ spent \in [Days -> Nat]
  BY SpendingTypes
<1>3. Counted' \in Nat
  <2>1. (GamesTypeOK /\ HarbourTypeOK => Forgotten \in Nat /\ Counted \in 0 .. (2 * DailyCap))'
    BY CountedType, PTL
  <2>2. Counted' \in 0 .. (2 * DailyCap)
    BY <2>1
  <2> HIDE DEF Counted
  <2> QED BY <2>2
<1>4. spent' = [spent EXCEPT ![utcDay] = @ + 0]
  BY <1>2
<1>5. Forgotten <= Forgotten' /\ Forgotten + Counted + 0 <= Forgotten' + Counted'
  <2> DEFINE f == Forgotten
             g == Forgotten'
             b == Counted
             c == Counted'
  <2>1. f \in Nat /\ b \in Nat /\ c \in Nat /\ g = f /\ b <= c
    BY <1>1, <1>2, <1>3
  <2> HIDE DEF f, g, b, c
  <2>2. f <= g /\ f + b + 0 <= g + c
    BY <2>1
  <2> QED BY <2>2 DEF f, g, b, c
<1>6. SpentFits'
  BY <1>4, <1>5, SpentStep DEF SpendingInv
<1> QED BY <1>6 DEF SpendingInv

\* A payment: counted in memory, or its answer lost.
LEMMA PaidSpending ==
  ASSUME GamesTypeOK, HarbourTypeOK, GamesTypeOK', HarbourTypeOK', SpendingInv,
         NEW x \in 1 .. LargestGift, Takes(x), UNCHANGED <<utcDay, killed, agentFile>>,
         pc # "idle",
         \/ /\ lost' = lost /\ pc' # "idle"
            /\ agent'.day = agent.day /\ agent'.paidToday = agent.paidToday + x
         \/ lost' = lost + 1 /\ agent' = agent
  PROVE  SpentFits'
<1>1. Forgotten \in Nat /\ Counted \in Nat /\ LargestGift \in Nat /\ x \in 1 .. LargestGift
      /\ x \in Nat /\ DailyCap \in Nat /\ killed \in Nat /\ lost \in Nat
      /\ agent.paidToday \in 0 .. DailyCap
  BY SpendingTypes
<1>2. /\ spent' = [spent EXCEPT ![utcDay] = @ + x]
      /\ late' = IF agent.day = utcDay THEN late ELSE late \cup {utcDay}
  BY DEF Takes
<1>3. Forgotten <= Forgotten' /\ Forgotten + Counted + x <= Forgotten' + Counted'
  <2>1. CASE /\ lost' = lost /\ pc' # "idle"
             /\ agent'.day = agent.day /\ agent'.paidToday = agent.paidToday + x
    <3>1. Forgotten' = Forgotten
      BY <2>1 DEF Forgotten
    <3>2. Counted' \in Nat /\ Counted' >= Counted + x
      <4>1. CASE agent.day = utcDay
        <5>1. agent'.day = utcDay' /\ late' = late /\ utcDay' = utcDay
          BY <1>2, <2>1, <4>1
        <5>2. Counted' = agent'.paidToday + Overlap(utcDay)
          BY <5>1 DEF Counted, Overlap
        <5>3. Counted = agent.paidToday + Overlap(utcDay) /\ Overlap(utcDay) \in Nat
          BY <1>1, <4>1 DEF Counted, Overlap
        <5>4. PICK o : o = Overlap(utcDay)
          OBVIOUS
        <5>5. Counted' \in Nat /\ Counted' >= Counted + x
          BY ONLY <1>1, <2>1, <5>2, <5>3, <5>4
        <5> QED BY <5>5
      <4>2. CASE agent.day # utcDay
        BY <1>1, <1>2, <2>1, <4>2 DEF Counted
      <4> QED BY <4>1, <4>2
    <3> DEFINE f == Forgotten
               g == Forgotten'
               b == Counted
               c == Counted'
    <3>3. f \in Nat /\ b \in Nat /\ g = f /\ c \in Nat /\ c >= b + x
      BY <1>1, <3>1, <3>2
    <3> HIDE DEF f, g, b, c
    <3>4. f <= g /\ f + b + x <= g + c
      BY <1>1, <3>3
    <3> QED BY <3>4 DEF f, g, b, c
  <2>2. CASE lost' = lost + 1 /\ agent' = agent
    <3>1. Forgotten' = Forgotten + LargestGift
      BY <1>1, <2>2, ForgetMore DEF Forgotten
    <3>2. Counted' \in Nat /\ Counted' >= Counted
      <4>1. CASE agent.day = utcDay
        <5>1. late' = late /\ utcDay' = utcDay
          BY <1>2, <4>1
        <5>2. Counted' = Counted
          BY <2>2, <4>1, <5>1 DEF Counted, Overlap
        <5>3. Counted >= Counted
          BY <1>1
        <5> QED BY <1>1, <5>2, <5>3
      <4>2. CASE agent.day # utcDay
        BY <1>1, <1>2, <2>2, <4>2 DEF Counted
      <4> QED BY <4>1, <4>2
    <3> DEFINE f == Forgotten
               g == Forgotten'
               b == Counted
               c == Counted'
    <3>3. f \in Nat /\ b \in Nat /\ g = f + LargestGift /\ c \in Nat /\ c >= b
      BY <1>1, <3>1, <3>2
    <3> HIDE DEF f, g, b, c
    <3>4. f <= g /\ f + b + x <= g + c
      BY <1>1, <3>3
    <3> QED BY <3>4 DEF f, g, b, c
  <2> QED BY <2>1, <2>2
<1> QED BY <1>1, <1>2, <1>3, SpentStep DEF SpendingInv

\* Midnight: yesterday is closed with a ceiling on its account, and one more
\* when a tick of the day before paid on it.
LEMMA NewDaySpending ==
  ASSUME GamesTypeOK, HarbourTypeOK, GamesTypeOK', SpendingInv, NewUtcDay,
         UNCHANGED <<agent, agentFile, pc, spent, late, killed, lost>>
  PROVE  SpendingInv'
<1>1. /\ agent.day \in Nat /\ agentFile.day \in Nat
      /\ utcDay \in Days /\ utcDay \in Nat /\ spent \in [Days -> Nat] /\ DailyCap \in Nat
      /\ Forgotten \in Nat /\ Counted \in Nat
      /\ \A d : Overlap(d) \in {0, DailyCap}
      /\ Counted <= DailyCap + Overlap(utcDay)
  BY SpendingTypes
<1>2. utcDay' = utcDay + 1 /\ utcDay' \in Days
  BY DEF NewUtcDay, GamesTypeOK
<1>3. DaysInOrder'
  BY <1>1, <1>2 DEF SpendingInv, DaysInOrder
<1>4. agent.day # utcDay'
  BY <1>1, <1>2 DEF SpendingInv, DaysInOrder
<1>5. \A d \in Days : d \in Nat
  BY GamesAssumption DEF Days
<1>6. /\ \A d \in Days : d > utcDay => spent[d] = 0 /\ d \notin late
      /\ \A d \in Days : d < utcDay => spent[d] <= Forgotten + (DailyCap + Overlap(d))
      /\ spent[utcDay] <= Forgotten + Counted
  BY DEF SpendingInv, SpentFits
<1>7. utcDay' \notin late /\ spent[utcDay'] = 0
  BY <1>1, <1>2, <1>6
<1>8. Counted' = 0 /\ Forgotten' = Forgotten /\ \A d : Overlap(d)' = Overlap(d)
  BY <1>4, <1>7 DEF Counted, Forgotten, Overlap
<1> DEFINE f == Forgotten
           b == Counted
<1>9. f \in Nat /\ b \in Nat /\ spent[utcDay] <= f + b /\ b <= DailyCap + Overlap(utcDay)
  BY <1>1, <1>6
<1> HIDE DEF f, b
<1>10. \A d \in Days : d > utcDay' => spent[d] = 0 /\ d \notin late
  BY <1>1, <1>2, <1>5, <1>6
<1>11. ASSUME NEW d \in Days, d < utcDay' PROVE spent[d] <= f + (DailyCap + Overlap(d))
  <2>1. CASE d = utcDay
    <3>1. PICK o : o = Overlap(utcDay) /\ o \in {0, DailyCap}
      BY <1>1
    <3>2. spent[utcDay] \in Nat /\ b <= DailyCap + o
      BY <1>1, <1>9, <3>1
    <3>3. spent[utcDay] <= f + (DailyCap + o)
      BY <1>1, <1>9, <3>1, <3>2
    <3> QED BY <2>1, <3>1, <3>3
  <2>2. CASE d # utcDay
    <3>1. d < utcDay
      BY <1>1, <1>2, <1>5, <1>11, <2>2
    <3> QED BY <1>6, <3>1 DEF f
  <2> QED BY <2>1, <2>2
<1>12. spent[utcDay'] <= f + 0
  BY <1>7, <1>9
<1>13. SpentFits'
  BY <1>8, <1>10, <1>11, <1>12 DEF SpentFits, f
<1> QED BY <1>3, <1>13 DEF SpendingInv

\* A crash forgets what the file does not say, a ceiling at most.
LEMMA CrashSpending ==
  ASSUME GamesTypeOK, HarbourTypeOK, GamesTypeOK', HarbourTypeOK', SpendingInv,
         agent' = agentFile, killed' = killed + 1, pc' = "idle",
         UNCHANGED <<utcDay, spent, late, lost, agentFile>>
  PROVE  SpendingInv'
<1>1. /\ agent.paidToday \in 0 .. DailyCap /\ agentFile.paidToday \in 0 .. DailyCap
      /\ agent.day \in Nat /\ agentFile.day \in Nat
      /\ utcDay \in Days /\ utcDay \in Nat /\ spent \in [Days -> Nat] /\ DailyCap \in Nat
      /\ Forgotten \in Nat /\ Counted \in 0 .. (2 * DailyCap)
      /\ LargestGift \in Nat /\ killed \in Nat /\ lost \in Nat
  BY SpendingTypes
<1>2. Forgotten' = Forgotten + DailyCap
  BY <1>1, ForgetMore DEF Forgotten
<1>3. DaysInOrder'
  BY <1>1 DEF SpendingInv, DaysInOrder
<1>4. Counted <= DailyCap + Counted' /\ Counted' \in Nat
  <2>1. agentFile.day <= agent.day /\ agent.day <= utcDay
    BY DEF SpendingInv, DaysInOrder
  <2> QED BY <1>1, <2>1 DEF Counted, Overlap
<1>5. spent' = [spent EXCEPT ![utcDay] = @ + 0]
  BY <1>1
<1>6. Forgotten <= Forgotten' /\ Forgotten + Counted + 0 <= Forgotten' + Counted'
  <2> DEFINE f == Forgotten
             g == Forgotten'
             b == Counted
             c == Counted'
  <2>0. Counted \in Nat
    BY <1>1
  <2>1. f \in Nat /\ b \in Nat /\ DailyCap \in Nat
    BY <1>1, <2>0
  <2>2. g = f + DailyCap
    BY <1>2
  <2>3. b <= DailyCap + c /\ c \in Nat
    BY <1>4
  <2> HIDE DEF f, g, b, c
  <2>4. f <= g /\ f + b + 0 <= g + c
    BY <2>1, <2>2, <2>3
  <2> QED BY <2>4 DEF f, g, b, c
<1>7. SpentFits'
  BY <1>5, <1>6, SpentStep DEF SpendingInv
<1> QED BY <1>3, <1>7 DEF SpendingInv

LEMMA InitSpending == Init => SpendingInv
<1> SUFFICES ASSUME Init PROVE SpendingInv
  OBVIOUS
<1>1. /\ agent = [day |-> 0, paidToday |-> 0, tipped |-> {}, week |-> 0, bonused |-> {}]
      /\ agentFile = agent /\ late = {}
      /\ spent = [d \in Days |-> 0] /\ utcDay = 1 /\ killed = 0 /\ lost = 0
  BY DEF Init, GamesInit
<1>2. utcDay \in Days /\ DailyCap \in Nat /\ LargestGift \in Nat /\ \A d \in Days : d \in Nat
  BY <1>1, GamesAssumption, PurseAssumption DEF Days
<1>3. agent.day = 0 /\ agent.paidToday = 0
  BY <1>1
<1>4. Forgotten = 0 /\ Counted = 0 /\ \A d : Overlap(d) = 0
  BY <1>1, <1>2, <1>3 DEF Forgotten, Counted, Overlap
<1>5. \A d \in Days : ~(d < utcDay)
  BY <1>1, GamesAssumption DEF Days
<1>6. SpentFits
  BY <1>1, <1>2, <1>4, <1>5 DEF SpentFits
<1> QED BY <1>1, <1>6 DEF SpendingInv, DaysInOrder

\* A gift of the harbour's own: an amount the day affords, counted with its
\* receiver, or its answer lost.
LEMMA GiftSpending ==
  ASSUME GamesTypeOK, HarbourTypeOK, GamesTypeOK', HarbourTypeOK', SpendingInv,
         UNCHANGED <<utcDay, killed, agentFile>>, pc # "idle",
         NEW x \in 1 .. LargestGift, NEW o, TakesGift(o, x),
         \/ /\ lost' = lost /\ pc' # "idle"
            /\ agent'.day = agent.day /\ agent'.paidToday = agent.paidToday + x
         \/ AnswerLost /\ agent' = agent
  PROVE  SpendingInv'
<1>1. Takes(x)
  BY DEF TakesGift
<1>2. SpentFits'
  BY <1>1, PaidSpending DEF AnswerLost
<1>3. DaysInOrder'
  BY DEF SpendingInv, DaysInOrder
<1> QED BY <1>2, <1>3 DEF SpendingInv

\* The tick, a payment at a time.
LEMMA TickSpending ==
  ASSUME GamesInv, HarbourInv, GamesInv', HarbourInv', SpendingInv, HarbourNext
  PROVE  SpendingInv'
<1>1. GamesTypeOK /\ HarbourTypeOK /\ GamesTypeOK' /\ HarbourTypeOK'
  BY DEF GamesInv, HarbourInv
<1>2. utcDay' = utcDay
  BY HarbourUnqueues DEF GamesUnchanged
<1>3. /\ agent.paidToday \in 0 .. DailyCap
      /\ agent \in Purses /\ DailyCap \in Nat
      /\ agent.day \in Nat /\ agentFile.day \in Nat /\ utcDay \in Nat
      /\ utcDay \in Days /\ utcDay \in 0 .. MaxDay
      /\ Tip \in 1 .. LargestGift
      /\ Counted \in 0 .. (2 * DailyCap)
  BY <1>1, SpendingTypes, GamesAssumption DEF Days
<1>4. DaysInOrder
  BY DEF SpendingInv
<1>5. ASSUME BeginTick PROVE SpendingInv'
  <2>1. /\ agent' = IF agent.day = utcDay THEN agent
                    ELSE [agent EXCEPT !.day = utcDay, !.paidToday = 0]
        /\ pc = "idle" /\ pc' = "post"
        /\ UNCHANGED <<killed, agentFile, spent, late, lost>>
    BY <1>5 DEF BeginTick, chainVars
  <2>2. CASE agent.day = utcDay
    <3>1. agent' = agent
      BY <2>1, <2>2
    <3>2. Counted <= Counted'
      BY <1>2, <1>3, <2>1, <2>2, <3>1 DEF Counted, Overlap
    <3>3. DaysInOrder'
      BY <1>2, <1>4, <2>1, <3>1 DEF DaysInOrder
    <3> QED BY <1>1, <1>2, <2>1, <3>2, <3>3, QuietSpending
  <2>3. CASE agent.day # utcDay
    <3>1. agent'.day = utcDay /\ agent'.paidToday = 0
      BY <1>3, <2>1, <2>3, DayRolled
    <3>2. Counted <= Counted'
      BY <1>2, <1>3, <2>1, <2>3, <3>1 DEF Counted, Overlap
    <3>3. DaysInOrder'
      BY <1>2, <1>3, <1>4, <2>1, <3>1 DEF DaysInOrder
    <3> QED BY <1>1, <1>2, <2>1, <3>2, <3>3, QuietSpending
  <2> QED BY <2>2, <2>3
<1>6. ASSUME SaveGift \/ EndTick PROVE SpendingInv'
  <2>1. /\ agentFile' = agent /\ agent' = agent /\ pc # "idle"
        /\ UNCHANGED <<killed, spent, late, lost>>
    BY <1>6 DEF SaveGift, EndTick, Unsaved, chainVars
  <2>2. DaysInOrder'
    BY <1>2, <1>3, <1>4, <2>1 DEF DaysInOrder
  <2>3. Counted <= Counted'
    BY <1>2, <1>3, <2>1 DEF Counted, Overlap
  <2> QED BY <1>1, <1>2, <2>1, <2>2, <2>3, QuietSpending
<1>7. ASSUME OpenPurse \/ Refuse \/ Hold \/ SettleFile \/ Unqueue PROVE SpendingInv'
  <2>1. /\ UNCHANGED <<agent, agentFile, killed, spent, late, lost>>
        /\ pc # "idle" /\ pc' # "idle"
    BY <1>7 DEF OpenPurse, Refuse, Hold, SettleFile, Unqueue, Outcomes, chainVars
  <2>2. DaysInOrder'
    BY <1>2, <1>4, <2>1 DEF DaysInOrder
  <2>3. Counted <= Counted'
    BY <1>2, <1>3, <2>1 DEF Counted, Overlap
  <2> QED BY <1>1, <1>2, <2>1, <2>2, <2>3, QuietSpending
<1>8. ASSUME RollWeek PROVE SpendingInv'
  <2>1. /\ agent' = [agent EXCEPT !.week = Week(utcDay)]
        /\ UNCHANGED <<agentFile, killed, spent, late, lost>>
        /\ pc # "idle" /\ pc' # "idle"
    BY <1>8 DEF RollWeek, chainVars
  <2>2. agent'.day = agent.day /\ agent'.paidToday = agent.paidToday
    BY <1>3, <2>1, WeekType, WeekRolled
  <2>3. DaysInOrder'
    BY <1>2, <1>4, <2>1, <2>2 DEF DaysInOrder
  <2>4. Counted <= Counted'
    BY <1>2, <1>3, <2>1, <2>2 DEF Counted, Overlap
  <2> QED BY <1>1, <1>2, <2>1, <2>3, <2>4, QuietSpending
<1>9. ASSUME NEW a \in Players, Welcome(a) PROVE SpendingInv'
  <2>1. /\ TakesGift(<<"tip", a>>, Tip) /\ CanPay(Tip) /\ pc = "post" /\ pc' = "tipped"
        /\ agent' = [agent EXCEPT !.paidToday = @ + Tip, !.tipped = @ \cup {a}]
        /\ UNCHANGED <<killed, agentFile, lost>>
    BY <1>9 DEF Welcome, Welcomes
  <2>2. agent'.day = agent.day /\ agent'.paidToday = agent.paidToday + Tip
    <3>1. Tip \in Nat /\ agent.paidToday + Tip <= DailyCap
      BY <1>3, <2>1 DEF CanPay
    <3>2. TipsTo(agent', agent, Tip, a)
      BY <2>1 DEF TipsTo
    <3>3. agent \in Purses
      BY <1>3
    <3> QED BY <3>1, <3>2, <3>3, TipCounted
  <2> QED BY <1>1, <1>2, <1>3, <2>1, <2>2, GiftSpending
<1>10. ASSUME NEW a \in Players, WelcomeFails(a) PROVE SpendingInv'
  <2>1. UNCHANGED <<killed, agent, agentFile>> /\ pc = "post" /\ pc' = "idle"
    BY <1>10 DEF WelcomeFails
  <2>2. CASE UNCHANGED chainVars
    <3>1. UNCHANGED <<spent, late, lost>>
      BY <2>2 DEF chainVars
    <3>2. DaysInOrder'
      BY <1>2, <1>4, <2>1 DEF DaysInOrder
    <3>3. Counted <= Counted'
      BY <1>2, <1>3, <2>1, <3>1 DEF Counted, Overlap
    <3> QED BY <1>1, <1>2, <2>1, <3>1, <3>2, <3>3, QuietSpending
  <2>3. CASE TakesGift(<<"tip", a>>, Tip) /\ AnswerLost
    BY <1>1, <1>2, <1>3, <2>1, <2>3, GiftSpending
  <2> QED BY <1>10, <2>2, <2>3 DEF WelcomeFails
<1>11. ASSUME LetterOfTheWeek PROVE SpendingInv'
  <2>1. UNCHANGED <<killed, agentFile>> /\ pc = "judge"
    BY <1>11 DEF LetterOfTheWeek
  <2>2. CASE UNCHANGED <<agent, chainVars>> /\ pc' = "bonus"
    <3>1. UNCHANGED <<agent, spent, late, lost>>
      BY <2>2 DEF chainVars
    <3>2. DaysInOrder'
      BY <1>2, <1>4, <2>1, <3>1 DEF DaysInOrder
    <3>3. Counted <= Counted'
      BY <1>2, <1>3, <2>1, <2>2, <3>1 DEF Counted, Overlap
    <3> QED BY <1>1, <1>2, <2>1, <3>1, <3>2, <3>3, QuietSpending
  <2>3. ASSUME NEW amount \in HarbourPrizes, CanPay(amount),
               TakesGift(<<"week", agentFile.week>>, amount),
               \/ Count(amount) /\ pc' = "won" /\ UNCHANGED lost
               \/ AnswerLost /\ pc' = "bonus" /\ UNCHANGED agent
        PROVE  SpendingInv'
    <3>1. amount \in 1 .. LargestGift /\ amount \in Nat
      BY PurseAssumption
    <3>2. Count(amount) => agent'.day = agent.day /\ agent'.paidToday = agent.paidToday + amount
      BY <1>3, <2>3, <3>1, PaymentCounted DEF Count, CanPay
    <3>3. \/ /\ lost' = lost /\ pc' # "idle"
             /\ agent'.day = agent.day /\ agent'.paidToday = agent.paidToday + amount
          \/ AnswerLost /\ agent' = agent
      BY <2>3, <3>2
    <3>4. pc # "idle"
      BY <2>1
    <3> QED BY <1>1, <1>2, <2>1, <2>3, <3>1, <3>3, <3>4, GiftSpending
  <2> QED BY <1>11, <2>2, <2>3 DEF LetterOfTheWeek
<1>12. ASSUME NEW a \in Players, NEW amount \in HarbourPrizes, FirstBlock(a, amount)
       PROVE  SpendingInv'
  <2>1. /\ CanPay(amount) /\ TakesGift(<<"bonus", a>>, amount) /\ pc = "bonus"
        /\ UNCHANGED <<killed, agentFile>>
        /\ \/ /\ agent' = [agent EXCEPT !.paidToday = @ + amount, !.bonused = @ \cup {a}]
              /\ pc' = "thanked" /\ lost' = lost
           \/ AnswerLost /\ pc' = "purse" /\ agent' = agent
    BY <1>12 DEF FirstBlock
  <2>2. amount \in 1 .. LargestGift /\ amount \in Nat
    BY PurseAssumption
  <2>3. agent' = [agent EXCEPT !.paidToday = @ + amount, !.bonused = @ \cup {a}]
          => agent'.day = agent.day /\ agent'.paidToday = agent.paidToday + amount
    <3>1. agent.paidToday + amount <= DailyCap
      BY <2>1 DEF CanPay
    <3>2. ASSUME agent' = [agent EXCEPT !.paidToday = @ + amount, !.bonused = @ \cup {a}]
          PROVE  agent'.day = agent.day /\ agent'.paidToday = agent.paidToday + amount
      <4>1. agent \in Purses
        BY <1>3
      <4>2. Thanks(agent', agent, amount, a)
        BY <3>2 DEF Thanks
      <4> QED BY <2>2, <3>1, <4>1, <4>2, BonusCounted
    <3> QED BY <3>2
  <2>4. \/ /\ lost' = lost /\ pc' # "idle"
           /\ agent'.day = agent.day /\ agent'.paidToday = agent.paidToday + amount
        \/ AnswerLost /\ agent' = agent
    BY <2>1, <2>3
  <2>5. pc # "idle"
    BY <2>1
  <2> QED BY <1>1, <1>2, <2>1, <2>2, <2>4, <2>5, GiftSpending
<1>13. ASSUME GiftLetter \/ PlainTransfer PROVE SpendingInv'
  <2> DEFINE x == prizes[Item].amount
  <2>1. /\ UNCHANGED <<killed, agentFile>> /\ pc # "idle" /\ pc' # "idle" /\ todo # {}
        /\ \/ TakesPrize(Item) /\ Count(x) /\ lost' = lost
           \/ UNCHANGED <<agent, spent, late, lost>>
           \/ TakesPrize(Item) /\ AnswerLost /\ agent' = agent
    BY <1>1, <1>13 DEF GiftLetter, PlainTransfer, chainVars, Refused, HarbourTypeOK
  <2>2. x \in 1 .. LargestGift
    BY <1>1, <2>1, ItemIsQueued
  <2>3. CASE UNCHANGED <<agent, spent, late, lost>>
    <3>1. Counted <= Counted'
      BY <1>2, <1>3, <2>1, <2>3 DEF Counted, Overlap
    <3>2. DaysInOrder'
      BY <1>2, <1>4, <2>1, <2>3 DEF DaysInOrder
    <3> QED BY <1>1, <1>2, <2>1, <2>3, <3>1, <3>2, QuietSpending
  <2>4. CASE TakesPrize(Item) /\ Count(x) /\ lost' = lost
    <3>1. Takes(x)
      BY <2>4 DEF TakesPrize
    <3>2. agent'.day = agent.day /\ agent'.paidToday = agent.paidToday + x
      BY <1>3, <2>4 DEF Count, Purses
    <3> HIDE DEF x
    <3>3. SpentFits'
      BY <1>1, <1>2, <2>1, <2>2, <2>4, <3>1, <3>2, PaidSpending
    <3> QED BY <1>2, <1>4, <2>1, <3>2, <3>3 DEF SpendingInv, DaysInOrder
  <2>5. CASE TakesPrize(Item) /\ AnswerLost /\ agent' = agent
    <3>1. Takes(x) /\ lost' = lost + 1
      BY <2>5 DEF TakesPrize, AnswerLost
    <3> HIDE DEF x
    <3>2. SpentFits'
      BY <1>1, <1>2, <2>1, <2>2, <2>5, <3>1, PaidSpending
    <3> QED BY <1>2, <1>4, <2>1, <2>5, <3>2 DEF SpendingInv, DaysInOrder
  <2> QED BY <2>1, <2>3, <2>4, <2>5
<1>14. ASSUME CrashHarbour PROVE SpendingInv'
  BY <1>1, <1>2, <1>14, CrashSpending DEF CrashHarbour, chainVars
<1> QED BY <1>5, <1>6, <1>7, <1>8, <1>9, <1>10, <1>11, <1>12, <1>13, <1>14 DEF HarbourNext

LEMMA NextSpending ==
  GamesInv /\ HarbourInv /\ SpendingInv /\ [Next]_vars => SpendingInv'
<1> SUFFICES ASSUME GamesInv, HarbourInv, SpendingInv, [Next]_vars PROVE SpendingInv'
  OBVIOUS
<1>1. GamesInv' /\ HarbourInv'
  BY NextGames, NextHarbour
<1>2. GamesTypeOK /\ HarbourTypeOK /\ GamesTypeOK' /\ HarbourTypeOK'
  BY <1>1 DEF GamesInv, HarbourInv
<1>3. ASSUME utcDay' = utcDay, UNCHANGED <<agent, agentFile, pc, spent, late, killed, lost>>
      PROVE  SpendingInv'
  <2>1. Counted' = Counted /\ Counted <= Counted
    <3>1. Counted \in 0 .. (2 * DailyCap) /\ DailyCap \in Nat
      BY <1>2, SpendingTypes
    <3> QED BY <1>3, <3>1 DEF Counted, Overlap
  <2>2. DaysInOrder'
    BY <1>3 DEF SpendingInv, DaysInOrder
  <2> QED BY <1>2, <1>3, <2>1, <2>2, QuietSpending
<1>4. CASE Play
  <2>1. GamesNext /\ UNCHANGED <<agent, agentFile, pc, spent, late, killed, lost>>
    BY <1>4 DEF Play, harbourVars, chainVars
  <2>2. utcDay' = utcDay \/ NewUtcDay
    BY <2>1, GamesQueue
  <2> QED BY <1>2, <1>3, <2>1, <2>2, NewDaySpending
<1>5. CASE HarbourNext
  BY <1>1, <1>5, TickSpending
<1>6. CASE UNCHANGED vars
  BY <1>3, <1>6 DEF vars, gameVars, harbourVars, chainVars
<1> QED BY <1>4, <1>5, <1>6 DEF Next

\* All that the purse gives away in a UTC day - tips, letters of the week, first
\* blocks and prizes of the games: one ceiling, one more when a tick of the day
\* before still paid on it, one for each crash, and the payments whose answer was
\* lost.
THEOREM SpendingHasACeiling == Spec => []SpendingIsBounded
<1>1. Init => GamesInv /\ HarbourInv /\ SpendingInv
  BY InitGames, InitHarbour, InitSpending DEF Init
<1>2. GamesInv /\ HarbourInv /\ SpendingInv => SpendingIsBounded
  <2> SUFFICES ASSUME GamesInv, HarbourInv, SpendingInv, NEW d \in Days
               PROVE  spent[d] <= DailyCap * (1 + (IF d \in late THEN 1 ELSE 0) + killed)
                                    + LargestGift * lost
    BY DEF SpendingIsBounded
  <2>1. /\ Forgotten \in Nat /\ Counted \in Nat /\ DailyCap \in Nat
        /\ utcDay \in Nat /\ spent \in [Days -> Nat] /\ killed \in Nat /\ lost \in Nat
        /\ LargestGift \in Nat /\ Counted <= DailyCap + Overlap(utcDay)
    BY SpendingTypes DEF GamesInv, HarbourInv
  <2>2. PICK n : n = IF d \in late THEN 1 ELSE 0
    OBVIOUS
  <2>3. n \in {0, 1} /\ Overlap(d) = DailyCap * n
    BY <2>1, <2>2 DEF Overlap
  <2>4. DailyCap * (1 + n + killed) + LargestGift * lost = Forgotten + (DailyCap + DailyCap * n)
    <3>1. DailyCap * (1 + n + killed) = DailyCap * killed + DailyCap + DailyCap * n
      BY <2>1, <2>3
    <3>2. \A x, y \in Nat : x * y \in Nat
      OBVIOUS
    <3>3. DailyCap * killed \in Nat /\ LargestGift * lost \in Nat /\ DailyCap * n \in Nat
      BY <2>1, <2>3, <3>2
    <3> QED BY <2>1, <3>1, <3>3 DEF Forgotten
  <2>5. d \in Nat /\ spent[d] \in Nat
    BY <2>1, GamesAssumption DEF Days
  <2>6. /\ d > utcDay => spent[d] = 0
        /\ d < utcDay => spent[d] <= Forgotten + (DailyCap + Overlap(d))
        /\ spent[utcDay] <= Forgotten + Counted
    BY DEF SpendingInv, SpentFits
  <2> DEFINE f == Forgotten
             b == Counted
  <2>7. f \in Nat /\ b \in Nat /\ b <= DailyCap + Overlap(utcDay)
    BY <2>1
  <2>8. PICK o : o = DailyCap * n
    OBVIOUS
  <2>9. o \in Nat
    <3>1. n = 0 \/ n = 1
      BY <2>3
    <3> QED BY <2>1, <2>8, <3>1
  <2> HIDE DEF f, b
  <2>10. spent[d] <= f + (DailyCap + o)
    <3>1. CASE d = utcDay
      <4>1. spent[d] <= f + b /\ b <= DailyCap + o
        BY <2>3, <2>6, <2>7, <2>8, <3>1 DEF f, b
      <4> QED BY <2>1, <2>5, <2>7, <2>9, <4>1
    <3>2. CASE d < utcDay
      BY <2>3, <2>6, <2>8, <3>2 DEF f
    <3>3. CASE d > utcDay
      BY <2>1, <2>6, <2>7, <2>9, <3>3
    <3> QED BY <2>1, <2>5, <3>1, <3>2, <3>3
  <2> QED BY <2>2, <2>4, <2>8, <2>10 DEF f
<1> QED
  BY <1>1, <1>2, NextGames, NextHarbour, NextSpending, PTL DEF Spec

----------------------------------------------------------------------------
(* What is paid twice. *)

\* What an agent state remembers as given: the addresses tipped and thanked, the
\* weeks that are over.
Done(f) == {o \in Occasions : \/ o[1] = "tip" /\ o[2] \in f.tipped
                              \/ o[1] = "bonus" /\ o[2] \in f.bonused
                              \/ o[1] = "week" /\ o[2] < f.week}

\* Payments that a crash would leave, or has left, as repeats: all payments of a
\* prize still in the queue, and all gifts for an occasion not yet on file.
PrizeOver == [i \in 1 .. MaxPrizes |-> IF i \in queue THEN sent[i] ELSE Extra(sent[i])]
GiftOver == [o \in Occasions |-> IF o \in Done(agentFile) THEN Extra(gifts[o]) ELSE gifts[o]]

\* The payment under way: taken by the chain, not yet filed.
UnderWay ==
  IF pc \in {"txid"} \cup Unsaved \/ (pc = "unqueue" /\ paid[Item] = "txid") THEN 1 ELSE 0

Explained ==
  Total(PrizeOver, 1 .. MaxPrizes) + Total(GiftOver, Occasions) <= killed + lost + UnderWay

\* The week in memory has come; the file has the same one until the week rolls,
\* and the week that is over while its prize is looked at.
WeeksFit ==
  /\ agent.week <= Week(utcDay)
  /\ pc \in {"idle", "post", "tipped"} => agentFile.week = agent.week
  /\ pc \in {"judge", "won"} => agentFile.week >= 1 /\ agentFile.week < agent.week

\* The file never knows more than the memory.
FileBehind ==
  /\ agentFile.tipped \subseteq agent.tipped
  /\ agentFile.bonused \subseteq agent.bonused
  /\ agentFile.week <= agent.week

\* The gift just given is one the next save puts on file.
UnsavedFits == pc \in Unsaved => \E o \in Done(agent) \ Done(agentFile) : gifts[o] >= 1

RepeatsInv == Explained /\ WeeksFit /\ FileBehind /\ UnsavedFits

LEMMA OccasionsFinite == IsFiniteSet(Occasions)
<1>1. IsFiniteSet(Players) /\ MaxDay \in Nat
  BY GamesAssumption
<1>2. IsFiniteSet(Weeks)
  <2>1. 1 \in Int /\ MaxDay + 1 \in Int
    BY <1>1
  <2>2. IsFiniteSet(1 .. MaxDay + 1)
    BY <2>1, FS_Interval
  <2> QED BY <2>2 DEF Weeks
<1>3. IsFiniteSet({"tip", "bonus"}) /\ IsFiniteSet({"week"})
  <2>1. IsFiniteSet({"tip"}) /\ IsFiniteSet({"bonus"}) /\ IsFiniteSet({"week"})
    BY FS_Singleton
  <2>2. {"tip", "bonus"} = {"tip"} \cup {"bonus"}
    OBVIOUS
  <2> QED BY <2>1, <2>2, FS_Union
<1>4. IsFiniteSet({"tip", "bonus"} \X Players) /\ IsFiniteSet({"week"} \X Weeks)
  BY <1>1, <1>2, <1>3, FS_Product
<1> QED BY <1>4, FS_Union DEF Occasions

\* What happens to an agent state between two saves only adds to what it remembers.
LEMMA DoneGrows ==
  ASSUME NEW f \in Purses, NEW g \in Purses,
         f.tipped \subseteq g.tipped, f.bonused \subseteq g.bonused, f.week <= g.week
  PROVE  Done(f) \subseteq Done(g)
<1>1. f.week \in Nat /\ g.week \in Nat
  BY DEF Purses, Weeks
<1>2. ASSUME NEW o \in Occasions, o[1] = "week" PROVE o[2] \in Nat
  BY <1>2 DEF Occasions, Weeks
<1> QED BY <1>1, <1>2 DEF Done

LEMMA ExtraType ==
  ASSUME NEW n \in Nat
  PROVE  /\ Extra(n) \in Nat /\ Extra(n) <= n
         /\ n = 0 => Extra(n) = n
         /\ n >= 1 => n = Extra(n) + 1
BY DEF Extra

\* Both are functions to natural numbers with a total.
OversTyped ==
  /\ PrizeOver \in [1 .. MaxPrizes -> Nat] /\ GiftOver \in [Occasions -> Nat]
  /\ IsFiniteSet(1 .. MaxPrizes) /\ IsFiniteSet(Occasions)
  /\ Total(PrizeOver, 1 .. MaxPrizes) \in Nat /\ Total(GiftOver, Occasions) \in Nat
  /\ killed \in Nat /\ lost \in Nat

LEMMA OverTypes == GamesTypeOK /\ HarbourTypeOK => OversTyped
<1> SUFFICES ASSUME GamesTypeOK, HarbourTypeOK PROVE OversTyped
  OBVIOUS
<1>1. sent \in [1 .. MaxPrizes -> Nat] /\ gifts \in [Occasions -> Nat] /\ killed \in Nat /\ lost \in Nat
  BY DEF HarbourTypeOK
<1>2. PrizeOver \in [1 .. MaxPrizes -> Nat]
  BY <1>1, ExtraType DEF PrizeOver
<1>3. GiftOver \in [Occasions -> Nat]
  BY <1>1, ExtraType DEF GiftOver
<1>4. MaxPrizes \in Int /\ 1 \in Int
  BY GamesAssumption
<1>5. IsFiniteSet(1 .. MaxPrizes)
  BY <1>4, FS_Interval
<1> QED BY <1>1, <1>2, <1>3, <1>5, OccasionsFinite, TotalNat DEF OversTyped

LEMMA InitRepeats == Init => RepeatsInv
<1> SUFFICES ASSUME Init PROVE RepeatsInv
  OBVIOUS
<1>1. /\ agent = [day |-> 0, paidToday |-> 0, tipped |-> {}, week |-> 0, bonused |-> {}]
      /\ agentFile = agent
      /\ sent = [i \in 1 .. MaxPrizes |-> 0] /\ gifts = [o \in Occasions |-> 0]
      /\ pc = "idle" /\ killed = 0 /\ lost = 0 /\ queue = {}
  BY DEF Init, GamesInit
<1>2. Extra(0) = 0
  BY ExtraType
<1>3. /\ \A i \in 1 .. MaxPrizes : PrizeOver[i] = 0
      /\ \A o \in Occasions : GiftOver[o] = 0
  <2>1. \A i \in 1 .. MaxPrizes : PrizeOver[i] = 0
    BY <1>1, <1>2 DEF PrizeOver
  <2>2. ASSUME NEW o \in Occasions PROVE GiftOver[o] = 0
    <3>1. GiftOver[o] = IF o \in Done(agentFile) THEN Extra(gifts[o]) ELSE gifts[o]
      BY DEF GiftOver
    <3>2. gifts[o] = 0
      BY <1>1
    <3> QED BY <1>2, <3>1, <3>2
  <2> QED BY <2>1, <2>2
<1>4. Total(PrizeOver, 1 .. MaxPrizes) = 0 /\ Total(GiftOver, Occasions) = 0
  BY <1>3, TotalZero
<1>5. UnderWay = 0
  BY <1>1 DEF UnderWay, Unsaved
<1>6. WeeksFit
  <2>1. utcDay \in Days
    BY InitGames DEF Init, GamesInv, GamesTypeOK
  <2>2. Week(utcDay) \in Nat
    BY <2>1, WeekType DEF Weeks
  <2> QED BY <1>1, <2>2 DEF WeeksFit
<1>7. FileBehind /\ UnsavedFits
  BY <1>1 DEF FileBehind, UnsavedFits, Unsaved
<1>8. Explained
  BY <1>1, <1>4, <1>5 DEF Explained
<1> QED BY <1>6, <1>7, <1>8 DEF RepeatsInv

\* Nothing is paid and nothing filed.
LEMMA QuietRepeats ==
  ASSUME GamesTypeOK, HarbourTypeOK, Explained,
         UNCHANGED <<sent, gifts, lost>>,
         PrizeOver' = PrizeOver, GiftOver' = GiftOver,
         (killed' = killed /\ UnderWay' = UnderWay) \/ killed' = killed + 1
  PROVE  Explained'
<1> DEFINE p == Total(PrizeOver, 1 .. MaxPrizes)
           t == Total(GiftOver, Occasions)
           u == UnderWay
           v == UnderWay'
<1>1. p \in Nat /\ t \in Nat /\ killed \in Nat /\ lost \in Nat
  BY OverTypes DEF OversTyped
<1>2. u \in {0, 1} /\ v \in {0, 1}
  BY DEF UnderWay
<1>3. p + t <= killed + lost + u
  BY DEF Explained
<1>4. Total(PrizeOver', 1 .. MaxPrizes) = p /\ Total(GiftOver', Occasions) = t /\ lost' = lost
  OBVIOUS
<1>5. (killed' = killed /\ v = u) \/ killed' = killed + 1
  OBVIOUS
<1> HIDE DEF p, t, u, v
<1>6. p + t <= killed' + lost + v
  BY <1>1, <1>2, <1>3, <1>5
<1> QED BY <1>4, <1>6 DEF Explained, v

\* The chain takes a gift for an occasion that is not on file.
LEMMA GiftRepeats ==
  ASSUME GamesTypeOK, HarbourTypeOK, HarbourTypeOK', GamesTypeOK',
         NEW o \in Occasions, o \notin Done(agentFile), NEW amount,
         TakesGift(o, amount), UNCHANGED <<agentFile, queue>>
  PROVE  /\ Total(GiftOver', Occasions) = Total(GiftOver, Occasions) + 1
         /\ Total(PrizeOver', 1 .. MaxPrizes) = Total(PrizeOver, 1 .. MaxPrizes)
         /\ gifts'[o] >= 1
<1>1. gifts \in [Occasions -> Nat] /\ sent' = sent /\ gifts' = [gifts EXCEPT ![o] = @ + 1]
  BY DEF HarbourTypeOK, TakesGift
<1>2. PrizeOver' = PrizeOver
  BY <1>1 DEF PrizeOver
<1>3. GiftOver'[o] = GiftOver[o] + 1 /\ \A x \in Occasions \ {o} : GiftOver'[x] = GiftOver[x]
  <2>1. gifts'[o] = gifts[o] + 1 /\ \A x \in Occasions \ {o} : gifts'[x] = gifts[x]
    BY <1>1
  <2>2. \A x \in Occasions :
          /\ GiftOver[x] = IF x \in Done(agentFile) THEN Extra(gifts[x]) ELSE gifts[x]
          /\ GiftOver'[x] = IF x \in Done(agentFile) THEN Extra(gifts'[x]) ELSE gifts'[x]
    BY DEF GiftOver
  <2> QED BY <2>1, <2>2
<1>4. GiftOver \in [Occasions -> Nat] /\ IsFiniteSet(Occasions) /\ Total(GiftOver, Occasions) \in Nat
  BY OverTypes DEF OversTyped
<1>5. GiftOver' \in [Occasions -> Nat]
  <2>1. (GamesTypeOK /\ HarbourTypeOK => OversTyped)'
    BY OverTypes, PTL
  <2> QED BY <2>1 DEF OversTyped
<1>6. Total(GiftOver', Occasions) = Total(GiftOver, Occasions) - GiftOver[o] + GiftOver'[o]
  BY <1>3, <1>4, <1>5, TotalUpdate
<1>7. GiftOver[o] \in Nat /\ gifts[o] \in Nat
  BY <1>1, <1>4
<1> QED BY <1>1, <1>2, <1>3, <1>4, <1>6, <1>7

\* The chain takes a payment of the prize the tick is at.
LEMMA PrizeRepeats ==
  ASSUME GamesTypeOK, HarbourTypeOK, HarbourTypeOK', GamesTypeOK', todo # {},
         TakesPrize(Item), UNCHANGED <<agentFile, queue>>
  PROVE  /\ Total(PrizeOver', 1 .. MaxPrizes) = Total(PrizeOver, 1 .. MaxPrizes) + 1
         /\ Total(GiftOver', Occasions) = Total(GiftOver, Occasions)
<1>1. /\ Item \in 1 .. MaxPrizes /\ Item \in queue
  BY ItemIsQueued
<1>2. sent \in [1 .. MaxPrizes -> Nat] /\ gifts' = gifts /\ sent' = [sent EXCEPT ![Item] = @ + 1]
  BY DEF HarbourTypeOK, TakesPrize
<1>3. GiftOver' = GiftOver
  BY <1>2 DEF GiftOver
<1>4. /\ PrizeOver'[Item] = PrizeOver[Item] + 1
      /\ \A x \in 1 .. MaxPrizes : x # Item => PrizeOver'[x] = PrizeOver[x]
  BY <1>1, <1>2 DEF PrizeOver
<1>5. /\ PrizeOver \in [1 .. MaxPrizes -> Nat] /\ IsFiniteSet(1 .. MaxPrizes)
      /\ Total(PrizeOver, 1 .. MaxPrizes) \in Nat
  BY OverTypes DEF OversTyped
<1>6. PrizeOver' \in [1 .. MaxPrizes -> Nat]
  <2>1. (GamesTypeOK /\ HarbourTypeOK => OversTyped)'
    BY OverTypes, PTL
  <2> QED BY <2>1 DEF OversTyped
<1>7. \A x \in (1 .. MaxPrizes) \ {Item} : PrizeOver'[x] = PrizeOver[x]
  BY <1>4
<1>8. Total(PrizeOver', 1 .. MaxPrizes)
        = Total(PrizeOver, 1 .. MaxPrizes) - PrizeOver[Item] + PrizeOver'[Item]
  <2> DEFINE S == 1 .. MaxPrizes
  <2>1. /\ IsFiniteSet(S) /\ PrizeOver \in [S -> Nat] /\ PrizeOver' \in [S -> Nat]
        /\ Item \in S /\ \A x \in S \ {Item} : PrizeOver'[x] = PrizeOver[x]
    BY <1>1, <1>5, <1>6, <1>7
  <2> HIDE DEF S
  <2>2. Total(PrizeOver', S) = Total(PrizeOver, S) - PrizeOver[Item] + PrizeOver'[Item]
    BY <2>1, TotalUpdate
  <2> QED BY <2>2 DEF S
<1>9. PrizeOver[Item] \in Nat
  BY <1>1, <1>5
<1> QED BY <1>3, <1>4, <1>5, <1>8, <1>9

\* A file leaves the queue: what was paid once is done with.
LEMMA UnqueueRepeats ==
  ASSUME GamesTypeOK, HarbourTypeOK, HarbourTypeOK', GamesTypeOK', todo # {}, Explained,
         pc = "unqueue", paid[Item] = "txid" => sent[Item] >= 1,
         queue' = queue \ {Item}, pc' = "pay",
         UNCHANGED <<agentFile, paid, sent, gifts, killed, lost>>
  PROVE  Explained'
<1>1. /\ Item \in 1 .. MaxPrizes /\ Item \in queue
  BY ItemIsQueued
<1>2. sent \in [1 .. MaxPrizes -> Nat]
  BY DEF HarbourTypeOK
<1>3. GiftOver' = GiftOver
  BY DEF GiftOver
<1>4. /\ PrizeOver[Item] = sent[Item] /\ PrizeOver'[Item] = Extra(sent[Item])
      /\ \A x \in 1 .. MaxPrizes : x # Item => PrizeOver'[x] = PrizeOver[x]
  BY <1>1 DEF PrizeOver
<1>5. /\ PrizeOver \in [1 .. MaxPrizes -> Nat] /\ IsFiniteSet(1 .. MaxPrizes)
      /\ Total(PrizeOver, 1 .. MaxPrizes) \in Nat
      /\ Total(GiftOver, Occasions) \in Nat /\ killed \in Nat /\ lost \in Nat
  BY OverTypes DEF OversTyped
<1>6. PrizeOver' \in [1 .. MaxPrizes -> Nat]
  <2>1. (GamesTypeOK /\ HarbourTypeOK => OversTyped)'
    BY OverTypes, PTL
  <2> QED BY <2>1 DEF OversTyped
<1>7. \A x \in (1 .. MaxPrizes) \ {Item} : PrizeOver'[x] = PrizeOver[x]
  BY <1>4
<1>8. Total(PrizeOver', 1 .. MaxPrizes)
        = Total(PrizeOver, 1 .. MaxPrizes) - PrizeOver[Item] + PrizeOver'[Item]
  <2> DEFINE S == 1 .. MaxPrizes
  <2>1. /\ IsFiniteSet(S) /\ PrizeOver \in [S -> Nat] /\ PrizeOver' \in [S -> Nat]
        /\ Item \in S /\ \A x \in S \ {Item} : PrizeOver'[x] = PrizeOver[x]
    BY <1>1, <1>5, <1>6, <1>7
  <2> HIDE DEF S
  <2>2. Total(PrizeOver', S) = Total(PrizeOver, S) - PrizeOver[Item] + PrizeOver'[Item]
    BY <2>1, TotalUpdate
  <2> QED BY <2>2 DEF S
<1>9. UnderWay = (IF paid[Item] = "txid" THEN 1 ELSE 0) /\ UnderWay' = 0
  BY DEF UnderWay, Unsaved
<1> DEFINE p == Total(PrizeOver, 1 .. MaxPrizes)
           q == Total(PrizeOver', 1 .. MaxPrizes)
           t == Total(GiftOver, Occasions)
           n == sent[Item]
<1>10. p \in Nat /\ t \in Nat /\ n \in Nat /\ q = p - n + Extra(n)
  BY <1>1, <1>2, <1>4, <1>5, <1>8
<1>11. p + t <= killed + lost + UnderWay
  BY DEF Explained
<1>12. Extra(n) \in Nat /\ Extra(n) <= n /\ (n >= 1 => n = Extra(n) + 1)
  BY <1>10, ExtraType
<1>13. paid[Item] = "txid" => n >= 1
  OBVIOUS
<1> HIDE DEF p, q, t, n
<1>14. q + t <= killed + lost
  BY <1>5, <1>9, <1>10, <1>11, <1>12, <1>13
<1>15. killed' = killed /\ lost' = lost /\ Total(GiftOver', Occasions) = t
  BY <1>3 DEF t
<1>16. q + t <= killed + lost + 0
  BY <1>5, <1>14
<1> QED BY <1>9, <1>15, <1>16 DEF Explained, q

\* The memory is on file: the gift just given, once, is done with.
LEMMA SaveRepeats ==
  ASSUME GamesTypeOK, HarbourTypeOK, HarbourTypeOK', GamesTypeOK',
         Explained, FileBehind, UnsavedFits,
         agentFile' = agent, UnderWay' = 0, pc \in Unsaved \/ UnderWay = 0,
         UNCHANGED <<agent, queue, sent, gifts, killed, lost>>
  PROVE  Explained'
<1>1. gifts \in [Occasions -> Nat] /\ agent \in Purses /\ agentFile \in Purses
  BY DEF HarbourTypeOK, Purses
<1>2. PrizeOver' = PrizeOver
  BY DEF PrizeOver
<1>3. Done(agentFile) \subseteq Done(agent)
  BY <1>1, DoneGrows DEF FileBehind
<1>4. ASSUME NEW x \in Occasions
      PROVE  /\ GiftOver'[x] <= GiftOver[x]
             /\ x \in Done(agent) \ Done(agentFile) /\ gifts[x] >= 1
                  => GiftOver'[x] + 1 <= GiftOver[x]
  <2>1. /\ GiftOver[x] = IF x \in Done(agentFile) THEN Extra(gifts[x]) ELSE gifts[x]
        /\ GiftOver'[x] = IF x \in Done(agent) THEN Extra(gifts[x]) ELSE gifts[x]
    BY DEF GiftOver
  <2>2. gifts[x] \in Nat /\ Extra(gifts[x]) \in Nat /\ Extra(gifts[x]) <= gifts[x]
        /\ (gifts[x] >= 1 => gifts[x] = Extra(gifts[x]) + 1)
    BY <1>1, ExtraType
  <2>3. x \in Done(agentFile) => x \in Done(agent)
    BY <1>3
  <2> QED BY <2>1, <2>2, <2>3
<1>5. /\ GiftOver \in [Occasions -> Nat] /\ IsFiniteSet(Occasions)
      /\ Total(PrizeOver, 1 .. MaxPrizes) \in Nat
      /\ Total(GiftOver, Occasions) \in Nat /\ killed \in Nat /\ lost \in Nat
  BY OverTypes DEF OversTyped
<1>6. GiftOver' \in [Occasions -> Nat] /\ Total(GiftOver', Occasions) \in Nat
  <2>1. (GamesTypeOK /\ HarbourTypeOK => OversTyped)'
    BY OverTypes, PTL
  <2> QED BY <2>1 DEF OversTyped
<1>7. Total(GiftOver', Occasions) + UnderWay <= Total(GiftOver, Occasions)
  <2>1. CASE pc \in Unsaved
    <3>1. PICK o \in Done(agent) \ Done(agentFile) : gifts[o] >= 1
      BY <2>1 DEF UnsavedFits
    <3>2. o \in Occasions /\ GiftOver'[o] + 1 <= GiftOver[o]
      BY <1>4, <3>1 DEF Done
    <3>3. \A x \in Occasions : GiftOver'[x] <= GiftOver[x]
      BY <1>4
    <3>4. Total(GiftOver', Occasions) + 1 <= Total(GiftOver, Occasions)
      BY ONLY <1>5, <1>6, <3>2, <3>3, TotalStrict
    <3>5. UnderWay = 1
      BY <2>1 DEF UnderWay
    <3> QED BY <3>4, <3>5
  <2>2. CASE UnderWay = 0
    <3>1. \A x \in Occasions : GiftOver'[x] <= GiftOver[x]
      BY <1>4
    <3>2. Total(GiftOver', Occasions) <= Total(GiftOver, Occasions)
      BY ONLY <1>5, <1>6, <3>1, TotalMonotone
    <3> QED BY <1>6, <2>2, <3>2
  <2> QED BY <2>1, <2>2
<1> DEFINE p == Total(PrizeOver, 1 .. MaxPrizes)
           t == Total(GiftOver, Occasions)
           s == Total(GiftOver', Occasions)
           u == UnderWay
<1>8. p \in Nat /\ t \in Nat /\ s \in Nat /\ u \in {0, 1} /\ s + u <= t /\ p + t <= killed + lost + u
  BY <1>5, <1>6, <1>7 DEF Explained, UnderWay
<1> HIDE DEF p, t, s, u
<1>9. p + s <= killed + lost + 0
  BY <1>5, <1>8
<1>10. killed' = killed /\ lost' = lost /\ Total(PrizeOver', 1 .. MaxPrizes) = p
  BY <1>2 DEF p
<1> QED BY <1>9, <1>10 DEF Explained, s

\* One payment more, of a prize or of a tip.
OneMore ==
  \/ /\ Total(PrizeOver', 1 .. MaxPrizes) = Total(PrizeOver, 1 .. MaxPrizes) + 1
     /\ Total(GiftOver', Occasions) = Total(GiftOver, Occasions)
  \/ /\ Total(PrizeOver', 1 .. MaxPrizes) = Total(PrizeOver, 1 .. MaxPrizes)
     /\ Total(GiftOver', Occasions) = Total(GiftOver, Occasions) + 1

\* A payment is under way, or its answer is lost.
LEMMA PaidRepeats ==
  ASSUME GamesTypeOK, HarbourTypeOK, Explained, UnderWay = 0, killed' = killed,
         OneMore,
         (lost' = lost /\ UnderWay' = 1) \/ (lost' = lost + 1 /\ UnderWay' = 0)
  PROVE  Explained'
<1> DEFINE p == Total(PrizeOver, 1 .. MaxPrizes)
           t == Total(GiftOver, Occasions)
           q == Total(PrizeOver', 1 .. MaxPrizes)
           s == Total(GiftOver', Occasions)
           v == UnderWay'
<1>1. p \in Nat /\ t \in Nat /\ killed \in Nat /\ lost \in Nat
  BY OverTypes DEF OversTyped
<1>2. p + t <= killed + lost + 0 /\ ((q = p + 1 /\ s = t) \/ (q = p /\ s = t + 1))
  <2>1. p + t <= killed + lost + 0
    BY DEF Explained
  <2>2. (q = p + 1 /\ s = t) \/ (q = p /\ s = t + 1)
    BY DEF OneMore
  <2> QED BY <2>1, <2>2
<1>3. (lost' = lost /\ v = 1) \/ (lost' = lost + 1 /\ v = 0)
  OBVIOUS
<1> HIDE DEF p, t, q, s, v
<1>4. q + s <= killed + lost' + v
  BY <1>1, <1>2, <1>3
<1> QED BY <1>4 DEF Explained, q, s, v

LEMMA PlayRepeats ==
  ASSUME GamesInv, HarbourInv, GamesInv', RepeatsInv, Play
  PROVE  RepeatsInv'
<1>1. GamesNext /\ UNCHANGED <<agent, agentFile, pc, todo, paid, killed, sent, gifts, lost>>
  BY DEF Play, harbourVars, chainVars
<1>2. /\ queue \subseteq queue' /\ queue' \ queue \subseteq 1 .. Len(prizes')
      /\ (queue' \ queue) \cap (1 .. Len(prizes)) = {}
      /\ Len(prizes) \in Nat /\ Len(prizes') \in Nat
  BY <1>1, QueueGrows
<1>3. ASSUME NEW i \in 1 .. MaxPrizes, i \in queue', i \notin queue
      PROVE  sent[i] = Extra(sent[i])
  <2>1. i > Len(prizes)
    BY <1>2, <1>3
  <2>2. sent[i] = 0
    BY <2>1 DEF HarbourInv, Unwon
  <2> QED BY <2>2, ExtraType
<1>4. PrizeOver' = PrizeOver
  BY <1>1, <1>2, <1>3 DEF PrizeOver
<1>5. GiftOver' = GiftOver /\ UnderWay' = UnderWay
  BY <1>1 DEF GiftOver, UnderWay, Item
<1>6. Explained'
  BY <1>1, <1>4, <1>5, QuietRepeats DEF GamesInv, HarbourInv, RepeatsInv
<1>7. WeeksFit'
  <2>1. utcDay \in Days /\ utcDay' \in Days /\ (utcDay' = utcDay \/ utcDay' = utcDay + 1)
    BY <1>1, GamesQueue DEF GamesInv, GamesTypeOK, NewUtcDay
  <2>2. utcDay <= utcDay'
    BY <2>1 DEF Days
  <2>3. Week(utcDay) \in Nat /\ Week(utcDay') \in Nat /\ Week(utcDay) <= Week(utcDay')
    BY <2>1, <2>2, WeekType DEF Weeks
  <2>4. agent.week \in Nat /\ agent.week <= Week(utcDay)
    BY DEF HarbourInv, HarbourTypeOK, Weeks, RepeatsInv, WeeksFit
  <2>5. agent.week <= Week(utcDay)'
    <3>1. Week(utcDay)' = Week(utcDay')
      BY DEF Week
    <3> QED BY <2>3, <2>4, <3>1
  <2> QED BY <1>1, <2>5 DEF RepeatsInv, WeeksFit
<1>8. FileBehind' /\ UnsavedFits'
  BY <1>1 DEF RepeatsInv, FileBehind, UnsavedFits
<1> QED BY <1>6, <1>7, <1>8 DEF RepeatsInv

\* What the file says is what it said, and the memory has lost nothing: the
\* invariant needs only its count, its week and its gift.
LEMMA StepRepeats ==
  ASSUME HarbourTypeOK, RepeatsInv, Explained', agentFile' = agentFile, utcDay' = utcDay,
         agent' = agent \/ (/\ agent.tipped \subseteq agent'.tipped /\ agent'.week = agent.week
                            /\ agent.bonused \subseteq agent'.bonused),
         pc' \in {"idle", "post", "tipped"} => pc \in {"idle", "post", "tipped"},
         pc' \in {"judge", "won"} => pc \in {"judge", "won"},
         UnsavedFits'
  PROVE  RepeatsInv'
<1>1. /\ agent'.week = agent.week /\ agent.tipped \subseteq agent'.tipped
      /\ agent.bonused \subseteq agent'.bonused
  OBVIOUS
<1>2. WeeksFit'
  <2>1. Week(utcDay)' = Week(utcDay)
    BY DEF Week
  <2> QED BY <1>1, <2>1 DEF RepeatsInv, WeeksFit
<1>3. FileBehind'
  BY <1>1 DEF RepeatsInv, FileBehind
<1> QED BY <1>2, <1>3 DEF RepeatsInv

\* What a gift adds to the memory is done with at the next save.
LEMMA NewlyDone ==
  ASSUME HarbourTypeOK, NEW o \in Occasions, o \in Done(agent'), o \notin Done(agentFile),
         agentFile' = agentFile, gifts'[o] >= 1
  PROVE  UnsavedFits'
<1>1. o \in Done(agent)' /\ o \notin Done(agentFile)'
  BY DEF Done
<1> QED BY <1>1 DEF UnsavedFits

\* A gift that is not on file: the chain took it, and the memory knows of it or
\* its answer is lost.
LEMMA GiftStep ==
  ASSUME GamesInv, HarbourInv, GamesInv', HarbourInv', RepeatsInv,
         NEW o \in Occasions, o \notin Done(agentFile), NEW amount, TakesGift(o, amount),
         UNCHANGED <<agentFile, queue, killed>>, UnderWay = 0,
         \/ pc' \in Unsaved /\ lost' = lost /\ o \in Done(agent')
         \/ pc' \in {"idle", "bonus", "purse"} /\ AnswerLost
  PROVE  Explained' /\ UnsavedFits'
<1>1. GamesTypeOK /\ HarbourTypeOK /\ GamesTypeOK' /\ HarbourTypeOK' /\ Explained
  BY DEF GamesInv, HarbourInv, RepeatsInv
<1>2. /\ Total(GiftOver', Occasions) = Total(GiftOver, Occasions) + 1
      /\ Total(PrizeOver', 1 .. MaxPrizes) = Total(PrizeOver, 1 .. MaxPrizes)
      /\ gifts'[o] >= 1
  BY <1>1, GiftRepeats
<1>3. OneMore
  BY <1>2 DEF OneMore
<1>4. CASE pc' \in Unsaved /\ lost' = lost /\ o \in Done(agent')
  <2>1. UnderWay' = 1
    BY <1>4 DEF UnderWay
  <2>2. Explained'
    BY <1>1, <1>3, <1>4, <2>1, PaidRepeats
  <2>3. UnsavedFits'
    BY <1>1, <1>2, <1>4, NewlyDone
  <2> QED BY <2>2, <2>3
<1>5. CASE pc' \in {"idle", "bonus", "purse"} /\ AnswerLost
  <2>1. UnderWay' = 0 /\ UnsavedFits'
    BY <1>5 DEF UnderWay, UnsavedFits, Unsaved
  <2>2. Explained'
    BY <1>1, <1>3, <1>5, <2>1, PaidRepeats DEF AnswerLost
  <2> QED BY <2>1, <2>2
<1> QED BY <1>4, <1>5

\* The day rolls: what was given is remembered.
RollsTo(q, p, d) == q = [p EXCEPT !.day = d, !.paidToday = 0]

LEMMA RolledOver ==
  ASSUME NEW p \in Purses, NEW d \in 0 .. MaxDay, NEW q, RollsTo(q, p, d)
  PROVE  q.tipped = p.tipped /\ q.week = p.week /\ q.bonused = p.bonused
<1> DEFINE a1 == [p EXCEPT !.day = d]
<1>1. a1 \in Purses /\ a1.tipped = p.tipped /\ a1.week = p.week /\ a1.bonused = p.bonused
  BY DEF Purses
<1>2. q = [a1 EXCEPT !.paidToday = 0]
  BY DEF RollsTo
<1> HIDE DEF a1
<1> QED BY <1>1, <1>2 DEF Purses

LEMMA TickRepeats ==
  ASSUME GamesInv, HarbourInv, GamesInv', HarbourInv', RepeatsInv, HarbourNext
  PROVE  RepeatsInv'
<1>1. /\ GamesTypeOK /\ HarbourTypeOK /\ GamesTypeOK' /\ HarbourTypeOK'
      /\ Explained /\ WeeksFit /\ FileBehind /\ UnsavedFits
  BY DEF GamesInv, HarbourInv, RepeatsInv
<1>2. /\ agent \in Purses /\ agentFile \in Purses /\ utcDay \in 0 .. MaxDay /\ utcDay \in Days
      /\ agent.week \in Nat /\ agentFile.week \in Nat
  <2>1. agent \in Purses /\ agentFile \in Purses
    BY <1>1 DEF HarbourTypeOK, Purses
  <2>2. utcDay \in Days /\ utcDay \in 0 .. MaxDay
    BY <1>1, GamesAssumption DEF GamesTypeOK, Days
  <2>3. agent.week \in Weeks \cup {0} /\ agentFile.week \in Weeks \cup {0}
    BY <2>1 DEF Purses
  <2> QED BY <2>1, <2>2, <2>3 DEF Weeks
<1>3. ASSUME BeginTick \/ OpenPurse \/ Refuse \/ Hold PROVE RepeatsInv'
  <2>1. /\ UNCHANGED <<queue, agentFile, killed, sent, gifts, lost, utcDay>>
        /\ \/ pc = "idle" /\ pc' = "post"
           \/ pc \in {"bonus", "purse", "pay"} /\ pc' \in {"pay", "error"}
    BY <1>3 DEF BeginTick, OpenPurse, Refuse, Hold, chainVars, GamesUnchanged
  <2>2. agent' = agent \/ (/\ agent.tipped \subseteq agent'.tipped /\ agent'.week = agent.week
                           /\ agent.bonused \subseteq agent'.bonused)
    <3>1. CASE agent' = agent
      BY <3>1
    <3>2. CASE BeginTick /\ agent.day # utcDay
      <4>1. agent' = [agent EXCEPT !.day = utcDay, !.paidToday = 0]
        BY <3>2 DEF BeginTick
      <4>2. /\ agent'.tipped = agent.tipped /\ agent'.week = agent.week
            /\ agent'.bonused = agent.bonused
        <5>1. agent \in Purses /\ utcDay \in 0 .. MaxDay
          BY <1>2
        <5>2. RollsTo(agent', agent, utcDay)
          BY ONLY <4>1 DEF RollsTo
        <5> QED BY ONLY <5>1, <5>2, RolledOver
      <4> QED BY <4>2
    <3>3. CASE BeginTick /\ agent.day = utcDay
      <4>1. agent' = agent
        BY <3>3 DEF BeginTick
      <4> QED BY <3>1, <4>1
    <3>4. CASE OpenPurse \/ Refuse \/ Hold
      <4>1. agent' = agent
        BY <3>4 DEF OpenPurse, Refuse, Hold
      <4> QED BY <3>1, <4>1
    <3> QED BY <1>3, <3>2, <3>3, <3>4
  <2>3. PrizeOver' = PrizeOver /\ GiftOver' = GiftOver
    BY <2>1 DEF PrizeOver, GiftOver
  <2>4. UnderWay = 0 /\ UnderWay' = 0 /\ UnsavedFits'
    BY <2>1 DEF UnderWay, UnsavedFits, Unsaved
  <2>5. Explained'
    BY <1>1, <2>1, <2>3, <2>4, QuietRepeats
  <2> QED BY <1>1, <2>1, <2>2, <2>4, <2>5, StepRepeats
<1>4. ASSUME SettleFile PROVE RepeatsInv'
  <2>1. /\ UNCHANGED <<queue, agent, agentFile, todo, killed, sent, gifts, lost, utcDay>>
        /\ pc \in Outcomes /\ pc' = "unqueue" /\ paid' = [paid EXCEPT ![Item] = pc]
    BY <1>4 DEF SettleFile, chainVars, GamesUnchanged
  <2>2. todo # {} /\ Item' = Item
    BY <1>1, <2>1 DEF HarbourTypeOK, Item
  <2>3. Item \in 1 .. MaxPrizes
    BY <1>1, <2>2, ItemIsQueued
  <2>4. paid'[Item] = pc
    BY <1>1, <2>1, <2>3 DEF HarbourTypeOK
  <2>5. UnderWay' = UnderWay /\ UnsavedFits'
    BY <2>1, <2>2, <2>4 DEF UnderWay, UnsavedFits, Outcomes, Unsaved
  <2>6. PrizeOver' = PrizeOver /\ GiftOver' = GiftOver
    BY <2>1 DEF PrizeOver, GiftOver
  <2>7. Explained'
    BY <1>1, <2>1, <2>5, <2>6, QuietRepeats
  <2> QED BY <1>1, <2>1, <2>5, <2>7, StepRepeats
<1>5. ASSUME Unqueue PROVE RepeatsInv'
  <2>1. /\ pc = "unqueue" /\ queue' = queue \ {Item} /\ pc' = "pay"
        /\ UNCHANGED <<agent, agentFile, paid, sent, gifts, killed, lost, utcDay>>
    BY <1>5 DEF Unqueue, chainVars, GamesUnchanged
  <2>2. todo # {}
    BY <1>1, <2>1 DEF HarbourTypeOK
  <2>3. paid[Item] = "txid" => sent[Item] >= 1
    BY <1>1, <2>2, ItemIsQueued DEF HarbourInv, ReceiptsAreTrue
  <2>4. Explained'
    BY <1>1, <2>1, <2>2, <2>3, UnqueueRepeats
  <2>5. UnsavedFits'
    BY <2>1 DEF UnsavedFits, Unsaved
  <2> QED BY <1>1, <2>1, <2>4, <2>5, StepRepeats
<1>6. ASSUME SaveGift \/ EndTick PROVE RepeatsInv'
  <2>1. /\ agentFile' = agent /\ UNCHANGED <<agent, queue, sent, gifts, killed, lost, utcDay>>
        /\ pc \in Unsaved \cup {"post", "pay"} /\ pc' \in {"post", "bonus", "idle"}
    BY <1>6 DEF SaveGift, EndTick, chainVars, GamesUnchanged
  <2>2. UnderWay' = 0 /\ (pc \in Unsaved \/ UnderWay = 0)
    BY <2>1 DEF UnderWay, Unsaved
  <2>3. Explained'
    BY <1>1, <2>1, <2>2, SaveRepeats
  <2>4. FileBehind' /\ UnsavedFits'
    BY <1>2, <2>1 DEF FileBehind, UnsavedFits, Unsaved
  <2>5. WeeksFit'
    <3>1. Week(utcDay)' = Week(utcDay)
      BY <2>1 DEF Week
    <3> QED BY <1>1, <2>1, <3>1 DEF WeeksFit
  <2> QED BY <2>3, <2>4, <2>5 DEF RepeatsInv
<1>7. ASSUME CrashHarbour PROVE RepeatsInv'
  <2>1. /\ agent' = agentFile /\ pc' = "idle" /\ killed' = killed + 1
        /\ UNCHANGED <<agentFile, queue, sent, gifts, lost, utcDay>>
    BY <1>7 DEF CrashHarbour, chainVars, GamesUnchanged
  <2>2. PrizeOver' = PrizeOver /\ GiftOver' = GiftOver
    BY <2>1 DEF PrizeOver, GiftOver
  <2>3. Explained'
    BY <1>1, <2>1, <2>2, QuietRepeats
  <2>4. FileBehind' /\ UnsavedFits'
    BY <1>2, <2>1 DEF FileBehind, UnsavedFits, Unsaved
  <2>5. WeeksFit'
    <3>1. Week(utcDay)' = Week(utcDay)
      BY <2>1 DEF Week
    <3>2. agentFile.week <= Week(utcDay)
      <4>1. Week(utcDay) \in Nat
        BY <1>2, WeekType DEF Weeks
      <4> QED BY <1>1, <1>2, <4>1 DEF WeeksFit, FileBehind
    <3> QED BY <2>1, <3>1, <3>2 DEF WeeksFit
  <2> QED BY <2>3, <2>4, <2>5 DEF RepeatsInv
<1>8. ASSUME RollWeek PROVE RepeatsInv'
  <2>1. /\ pc = "post" /\ agent' = [agent EXCEPT !.week = Week(utcDay)]
        /\ pc' = IF agent.week \in {0, Week(utcDay)} THEN "bonus" ELSE "judge"
        /\ UNCHANGED <<agentFile, queue, killed, sent, gifts, lost, utcDay>>
    BY <1>8 DEF RollWeek, chainVars, GamesUnchanged
  <2>2. /\ agent'.week = Week(utcDay) /\ agent'.tipped = agent.tipped
        /\ agent'.bonused = agent.bonused /\ Week(utcDay) \in Nat
    BY <1>2, <2>1, WeekType, WeekRolled DEF Weeks
  <2>3. /\ PrizeOver' = PrizeOver /\ GiftOver' = GiftOver
        /\ UnderWay = 0 /\ UnderWay' = 0 /\ UnsavedFits'
    BY <2>1 DEF PrizeOver, GiftOver, UnderWay, UnsavedFits, Unsaved
  <2>4. Explained'
    BY <1>1, <2>1, <2>3, QuietRepeats
  <2>5. agentFile.week = agent.week /\ agent.week <= Week(utcDay)
    BY <1>1, <2>1 DEF WeeksFit
  <2>6. WeeksFit'
    <3>1. Week(utcDay)' = Week(utcDay)
      BY <2>1 DEF Week
    <3> QED BY <1>2, <2>1, <2>2, <2>5, <3>1 DEF WeeksFit
  <2>7. FileBehind'
    BY <1>1, <2>1, <2>2, <2>5 DEF FileBehind
  <2> QED BY <2>3, <2>4, <2>6, <2>7 DEF RepeatsInv
<1>9. ASSUME LetterOfTheWeek PROVE RepeatsInv'
  <2>1. pc = "judge" /\ UNCHANGED <<agentFile, queue, killed, utcDay>>
    BY <1>9 DEF LetterOfTheWeek, GamesUnchanged
  <2>2. UnderWay = 0
    BY <2>1 DEF UnderWay, Unsaved
  <2>3. CASE UNCHANGED <<agent, chainVars>> /\ pc' = "bonus"
    <3>1. /\ PrizeOver' = PrizeOver /\ GiftOver' = GiftOver
          /\ UnderWay' = 0 /\ UnsavedFits'
      BY <2>1, <2>3 DEF PrizeOver, GiftOver, UnderWay, UnsavedFits, Unsaved, chainVars
    <3>2. UNCHANGED <<sent, gifts, lost>>
      BY <2>3 DEF chainVars
    <3>3. Explained'
      BY <1>1, <2>1, <2>2, <3>1, <3>2, QuietRepeats
    <3> QED BY <1>1, <2>1, <2>3, <3>1, <3>3, StepRepeats
  <2>4. ASSUME NEW amount \in HarbourPrizes, CanPay(amount),
               TakesGift(<<"week", agentFile.week>>, amount),
               \/ Count(amount) /\ pc' = "won" /\ UNCHANGED lost
               \/ AnswerLost /\ pc' = "bonus" /\ UNCHANGED agent
        PROVE  RepeatsInv'
    <3>1. PICK o : o = <<"week", agentFile.week>>
      OBVIOUS
    <3>2. agentFile.week \in Weeks /\ agentFile.week < agent.week
      <4>1. agentFile.week >= 1 /\ agentFile.week < agent.week
        BY <1>1, <2>1 DEF WeeksFit
      <4>2. agentFile.week \in Weeks \cup {0}
        BY <1>2 DEF Purses
      <4> QED BY <4>1, <4>2
    <3>3. o \in Occasions
      BY <3>1, <3>2 DEF Occasions
    <3>4. o \notin Done(agentFile)
      BY <1>2, <3>1 DEF Done
    <3>5. agent'.week = agent.week /\ agent'.tipped = agent.tipped /\ agent'.bonused = agent.bonused
      <4>1. CASE Count(amount)
        <5>1. amount \in Nat
          BY PurseAssumption
        <5>2. agent.paidToday + amount <= DailyCap
          BY <2>4 DEF CanPay
        <5> QED BY <1>2, <4>1, <5>1, <5>2, PaymentCounted DEF Count
      <4>2. CASE agent' = agent
        BY <4>2
      <4> QED BY <2>4, <4>1, <4>2
    <3>6. o \in Done(agent')
      BY <3>1, <3>2, <3>3, <3>5 DEF Done
    <3>7. TakesGift(o, amount)
      BY <2>4, <3>1
    <3>8. Explained' /\ UnsavedFits'
      BY <2>1, <2>2, <2>4, <3>3, <3>4, <3>6, <3>7, GiftStep DEF Unsaved
    <3> QED BY <1>1, <2>1, <2>4, <3>5, <3>8, StepRepeats
  <2> QED BY <1>9, <2>3, <2>4 DEF LetterOfTheWeek
<1>10. ASSUME NEW a \in Players, NEW amount \in HarbourPrizes, FirstBlock(a, amount) PROVE RepeatsInv'
  <2>1. /\ pc = "bonus" /\ a \notin agent.bonused /\ CanPay(amount)
        /\ TakesGift(<<"bonus", a>>, amount)
        /\ \/ Thanks(agent', agent, amount, a) /\ pc' = "thanked" /\ lost' = lost
           \/ AnswerLost /\ pc' = "purse" /\ agent' = agent
        /\ UNCHANGED <<agentFile, queue, killed, utcDay>>
    BY <1>10 DEF FirstBlock, GamesUnchanged, Thanks
  <2>2. PICK o : o = <<"bonus", a>>
    OBVIOUS
  <2>3. o \in Occasions
    BY <2>2 DEF Occasions
  <2>4. o \notin Done(agentFile)
    BY <1>1, <2>1, <2>2 DEF Done, FileBehind
  <2>5. CASE Thanks(agent', agent, amount, a) /\ pc' = "thanked" /\ lost' = lost
    <3>1. amount \in Nat /\ agent.paidToday + amount <= DailyCap
      BY <2>1, PurseAssumption DEF CanPay
    <3>2. /\ agent'.week = agent.week /\ agent'.tipped = agent.tipped
          /\ agent'.bonused = agent.bonused \cup {a}
      BY <1>2, <2>5, <3>1, BonusCounted
    <3>3. o \in Done(agent')
      BY <2>2, <2>3, <3>2 DEF Done
    <3>4. TakesGift(o, amount) /\ UnderWay = 0
      BY <2>1, <2>2 DEF UnderWay, Unsaved
    <3>5. pc' \in Unsaved
      BY <2>5 DEF Unsaved
    <3>6. Explained' /\ UnsavedFits'
      BY <2>1, <2>3, <2>4, <2>5, <3>3, <3>4, <3>5, GiftStep
    <3> QED BY <1>1, <2>1, <2>5, <3>2, <3>6, StepRepeats
  <2>6. CASE AnswerLost /\ pc' = "purse" /\ agent' = agent
    <3>1. TakesGift(o, amount) /\ UnderWay = 0
      BY <2>1, <2>2 DEF UnderWay, Unsaved
    <3>2. Explained' /\ UnsavedFits'
      BY <2>1, <2>3, <2>4, <2>6, <3>1, GiftStep
    <3> QED BY <1>1, <2>1, <2>6, <3>2, StepRepeats
  <2> QED BY <2>1, <2>5, <2>6
<1>11. ASSUME NEW a \in Players, Welcome(a) PROVE RepeatsInv'
  <2>1. /\ pc = "post" /\ pc' = "tipped" /\ a \notin agent.tipped /\ CanPay(Tip)
        /\ TakesGift(<<"tip", a>>, Tip) /\ TipsTo(agent', agent, Tip, a)
        /\ UNCHANGED <<queue, agentFile, killed, lost, utcDay>>
    BY <1>11 DEF Welcome, Welcomes, GamesUnchanged, TipsTo
  <2>2. PICK o : o = <<"tip", a>>
    OBVIOUS
  <2>3. o \in Occasions
    BY <2>2 DEF Occasions
  <2>4. o \notin Done(agentFile)
    BY <1>1, <2>1, <2>2 DEF Done, FileBehind
  <2>5. Tip \in Nat /\ agent.paidToday + Tip <= DailyCap
    BY <2>1, PurseAssumption DEF CanPay
  <2>6. /\ agent'.week = agent.week /\ agent'.tipped = agent.tipped \cup {a}
        /\ agent'.bonused = agent.bonused
    BY <1>2, <2>1, <2>5, TipCounted
  <2>7. o \in Done(agent')
    BY <2>2, <2>3, <2>6 DEF Done
  <2>8. TakesGift(o, Tip) /\ UnderWay = 0 /\ pc' \in Unsaved
    BY <2>1, <2>2 DEF UnderWay, Unsaved
  <2>9. Explained' /\ UnsavedFits'
    BY <2>1, <2>3, <2>4, <2>7, <2>8, GiftStep
  <2> QED BY <1>1, <2>1, <2>6, <2>9, StepRepeats
<1>12. ASSUME NEW a \in Players, WelcomeFails(a) PROVE RepeatsInv'
  <2>1. pc = "post" /\ pc' = "idle" /\ UNCHANGED <<queue, agent, agentFile, killed, utcDay>>
    BY <1>12 DEF WelcomeFails, GamesUnchanged
  <2>2. UnderWay = 0 /\ UnderWay' = 0
    BY <2>1 DEF UnderWay, Unsaved
  <2>3. CASE UNCHANGED chainVars
    <3>1. PrizeOver' = PrizeOver /\ GiftOver' = GiftOver /\ UnsavedFits'
      BY <2>1, <2>3 DEF PrizeOver, GiftOver, chainVars, UnsavedFits, Unsaved
    <3>2. Explained'
      BY <1>1, <2>1, <2>2, <2>3, <3>1, QuietRepeats DEF chainVars
    <3> QED BY <1>1, <2>1, <3>1, <3>2, StepRepeats
  <2>4. CASE Welcomes(a) /\ TakesGift(<<"tip", a>>, Tip) /\ AnswerLost
    <3>1. PICK o : o = <<"tip", a>>
      OBVIOUS
    <3>2. o \in Occasions /\ TakesGift(o, Tip)
      BY <2>4, <3>1 DEF Occasions
    <3>3. o \notin Done(agentFile)
      BY <1>1, <2>4, <3>1 DEF Done, FileBehind, Welcomes
    <3>4. Explained' /\ UnsavedFits'
      BY <2>1, <2>2, <2>4, <3>2, <3>3, GiftStep
    <3> QED BY <1>1, <2>1, <3>4, StepRepeats
  <2> QED BY <1>12, <2>3, <2>4 DEF WelcomeFails
<1>13. ASSUME GiftLetter \/ PlainTransfer PROVE RepeatsInv'
  <2>1. /\ UNCHANGED <<queue, killed, agentFile, utcDay>> /\ todo # {} /\ pc \in {"pay", "plain"}
        /\ CanPay(prizes[Item].amount)
        /\ \/ TakesPrize(Item) /\ Count(prizes[Item].amount) /\ lost' = lost /\ pc' = "txid"
           \/ UNCHANGED <<agent, sent, gifts, lost>> /\ pc' \in {"plain", "error"}
           \/ TakesPrize(Item) /\ AnswerLost /\ agent' = agent /\ pc' \in {"plain", "error"}
    BY <1>1, <1>13 DEF GiftLetter, PlainTransfer, chainVars, Refused, HarbourTypeOK,
                       GamesUnchanged, HarbourInv, Affordable
  <2>2. UnderWay = 0 /\ UnderWay' = IF pc' = "txid" THEN 1 ELSE 0
    BY <2>1 DEF UnderWay, Unsaved
  <2>3. /\ agent'.tipped = agent.tipped /\ agent'.week = agent.week
        /\ agent'.bonused = agent.bonused
    <3>1. CASE Count(prizes[Item].amount)
      <4>1. prizes[Item].amount \in Nat
        BY <1>1, <2>1, ItemIsQueued, PurseAssumption
      <4>2. agent.paidToday + prizes[Item].amount <= DailyCap
        BY <2>1 DEF CanPay
      <4> QED BY <1>2, <3>1, <4>1, <4>2, PaymentCounted DEF Count
    <3>2. CASE agent' = agent
      BY <3>2
    <3> QED BY <2>1, <3>1, <3>2
  <2>4. UnsavedFits'
    BY <2>1 DEF UnsavedFits, Unsaved
  <2>5. Explained'
    <3>1. CASE UNCHANGED <<agent, sent, gifts, lost>> /\ pc' \in {"plain", "error"}
      <4>1. PrizeOver' = PrizeOver /\ GiftOver' = GiftOver
        BY <2>1, <3>1 DEF PrizeOver, GiftOver
      <4> QED BY <1>1, <2>1, <2>2, <3>1, <4>1, QuietRepeats
    <3>2. CASE TakesPrize(Item)
      <4>1. /\ Total(PrizeOver', 1 .. MaxPrizes) = Total(PrizeOver, 1 .. MaxPrizes) + 1
            /\ Total(GiftOver', Occasions) = Total(GiftOver, Occasions)
        BY <1>1, <2>1, <3>2, PrizeRepeats
      <4>2. OneMore
        BY <4>1 DEF OneMore
      <4>3. CASE lost' = lost /\ pc' = "txid"
        BY <1>1, <2>1, <2>2, <4>2, <4>3, PaidRepeats
      <4>4. CASE AnswerLost /\ pc' \in {"plain", "error"}
        BY <1>1, <2>1, <2>2, <4>2, <4>4, PaidRepeats DEF AnswerLost
      <4>5. CASE UNCHANGED <<agent, sent, gifts, lost>> /\ pc' \in {"plain", "error"}
        BY <3>1, <4>5
      <4> QED BY <2>1, <4>3, <4>4, <4>5
    <3> QED BY <2>1, <3>1, <3>2
  <2> QED BY <1>1, <2>1, <2>3, <2>4, <2>5, StepRepeats
<1> QED BY <1>3, <1>4, <1>5, <1>6, <1>7, <1>8, <1>9, <1>10, <1>11, <1>12, <1>13 DEF HarbourNext

LEMMA NextRepeats ==
  GamesInv /\ HarbourInv /\ RepeatsInv /\ [Next]_vars => RepeatsInv'
<1> SUFFICES ASSUME GamesInv, HarbourInv, RepeatsInv, [Next]_vars PROVE RepeatsInv'
  OBVIOUS
<1>1. GamesInv' /\ HarbourInv'
  BY NextGames, NextHarbour
<1>2. CASE UNCHANGED vars
  BY <1>2 DEF vars, gameVars, harbourVars, chainVars, RepeatsInv, Explained, WeeksFit, Week,
              FileBehind, UnsavedFits, Done, PrizeOver, GiftOver, UnderWay, Item
<1> QED BY <1>1, <1>2, PlayRepeats, TickRepeats DEF Next

\* Repeats of a prize or of a gift, over any number of prizes, players and weeks, are
\* never more than the crashes of the harbour and the answers it lost.
THEOREM RepeatsAreExplained == Spec => []NothingPaidTwice
<1>1. Init => GamesInv /\ HarbourInv /\ RepeatsInv
  BY InitGames, InitHarbour, InitRepeats DEF Init
<1>2. GamesInv /\ HarbourInv /\ RepeatsInv => NothingPaidTwice
  <2> SUFFICES ASSUME GamesInv, HarbourInv, RepeatsInv PROVE NothingPaidTwice
    OBVIOUS
  <2> DEFINE S == 1 .. MaxPrizes
             f == [i \in S |-> Extra(sent[i])]
             g == [o \in Occasions |-> Extra(gifts[o])]
             p == Total(PrizeOver, S)
             t == Total(GiftOver, Occasions)
  <2>1. GamesTypeOK /\ HarbourTypeOK /\ p + t <= killed + lost + UnderWay /\ UnsavedFits
    BY DEF GamesInv, HarbourInv, RepeatsInv, Explained
  <2>2. /\ PrizeOver \in [S -> Nat] /\ GiftOver \in [Occasions -> Nat]
        /\ IsFiniteSet(S) /\ IsFiniteSet(Occasions)
        /\ p \in Nat /\ t \in Nat /\ killed \in Nat /\ lost \in Nat
    BY <2>1, OverTypes DEF OversTyped
  <2>3. sent \in [S -> Nat] /\ gifts \in [Occasions -> Nat]
    BY <2>1 DEF HarbourTypeOK
  <2>4. /\ f \in [S -> Nat] /\ \A i \in S : f[i] <= PrizeOver[i]
        /\ \A i \in S : i \in queue /\ sent[i] >= 1 => f[i] + 1 <= PrizeOver[i]
    <3>1. ASSUME NEW i \in S
          PROVE  /\ f[i] = Extra(sent[i]) /\ f[i] \in Nat /\ f[i] <= PrizeOver[i]
                 /\ i \in queue /\ sent[i] >= 1 => f[i] + 1 <= PrizeOver[i]
      <4>1. f[i] = Extra(sent[i]) /\ sent[i] \in Nat
            /\ PrizeOver[i] = IF i \in queue THEN sent[i] ELSE Extra(sent[i])
        BY <2>3 DEF PrizeOver
      <4> QED BY <4>1, ExtraType
    <3> QED BY <3>1
  <2>5. /\ g \in [Occasions -> Nat] /\ \A o \in Occasions : g[o] <= GiftOver[o]
        /\ \A o \in Occasions : o \notin Done(agentFile) /\ gifts[o] >= 1 => g[o] + 1 <= GiftOver[o]
    <3>1. ASSUME NEW o \in Occasions
          PROVE  /\ g[o] = Extra(gifts[o]) /\ g[o] \in Nat /\ g[o] <= GiftOver[o]
                 /\ o \notin Done(agentFile) /\ gifts[o] >= 1 => g[o] + 1 <= GiftOver[o]
      <4>1. g[o] = Extra(gifts[o]) /\ gifts[o] \in Nat
            /\ GiftOver[o] = IF o \in Done(agentFile) THEN Extra(gifts[o]) ELSE gifts[o]
        BY <2>3 DEF GiftOver
      <4> QED BY <4>1, ExtraType
    <3> QED BY <3>1
  <2>6. NothingPaidTwice <=> Total(f, S) + Total(g, Occasions) <= killed + lost
    BY DEF NothingPaidTwice
  <2>7. pc \in {"txid", "unqueue"} => Item \in S /\ Item \in queue /\ Item \in 1 .. Len(prizes)
    BY <2>1, ItemIsQueued DEF HarbourTypeOK, Outcomes
  <2> HIDE DEF S, f, g
  <2>8. /\ Total(f, S) \in Nat /\ Total(g, Occasions) \in Nat
        /\ Total(f, S) <= p /\ Total(g, Occasions) <= t
    BY <2>2, <2>4, <2>5, TotalNat, TotalMonotone
  <2>9. CASE UnderWay = 0
    <3> HIDE DEF p, t
    <3> QED BY <2>1, <2>2, <2>6, <2>8, <2>9
  <2>10. CASE UnderWay = 1 /\ pc \notin Unsaved
    <3>1. pc = "txid" \/ (pc = "unqueue" /\ paid[Item] = "txid")
      BY <2>10 DEF UnderWay
    <3>2. Item \in S /\ Item \in queue /\ sent[Item] >= 1
      BY <2>7, <3>1 DEF HarbourInv, Taken, ReceiptsAreTrue
    <3>3. Total(f, S) + 1 <= p
      BY <2>2, <2>4, <3>2, TotalStrict
    <3> HIDE DEF p, t
    <3> QED BY <2>1, <2>2, <2>6, <2>8, <2>10, <3>3
  <2>11. CASE UnderWay = 1 /\ pc \in Unsaved
    <3>1. PICK o \in Occasions : o \notin Done(agentFile) /\ gifts[o] >= 1
      BY <2>1, <2>11 DEF UnsavedFits, Done
    <3>2. Total(g, Occasions) + 1 <= t
      BY <2>2, <2>5, <3>1, TotalStrict
    <3> HIDE DEF p, t
    <3> QED BY <2>1, <2>2, <2>6, <2>8, <2>11, <3>2
  <2> QED BY <2>9, <2>10, <2>11 DEF UnderWay
<1> QED
  BY <1>1, <1>2, NextGames, NextHarbour, NextRepeats, PTL DEF Spec
=============================================================================
