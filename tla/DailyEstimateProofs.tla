-------------------------- MODULE DailyEstimateProofs -------------------------
(***************************************************************************)
(* The daily estimate, for every length of a day, every choice of zones    *)
(* and of balances, and any number of observations, failures and restarts. *)
(*                                                                         *)
(* Closed days are settled.  What a summary adds up to plays no part here: *)
(* it is a value of the samples it was made of.  What counts is when it is *)
(* made, so the invariant follows the newest sample: unless the clock was  *)
(* set back, nothing is observed before it, and by the time an observation *)
(* of another day is stored, the newest sample's day has been settled.     *)
(*                                                                         *)
(* The estimate only grows.  Spend is a recursive function of a sequence,  *)
(* so what it returns takes induction: over sets of naturals, because Less *)
(* is well-founded on them.  A sample placed among a day's splits one      *)
(* decrease between neighbours into two that are no smaller together.      *)
(***************************************************************************)
EXTENDS DailyEstimate, WellFoundedInduction, FiniteSetTheorems, TLAPS

Recording == phase # "idle"

Types ==
  /\ now \in 0..MaxClock /\ stepsBack \in Nat /\ zone \in Zones
  /\ samples = [d \in Days |-> samples[d]]
  /\ summaries = [d \in Days |-> summaries[d]]
  /\ latest \in {NoSample} \cup [at : Nat, day : Days]
  /\ phase \in {"idle", "settling", "storing"}
  /\ Recording => observed.at \in Nat /\ observed.day \in Days

(* Nothing was captured after the clock's time, or before the newest       *)
(* sample, unless the clock has been set back.                             *)
TimeGoesOn ==
  stepsBack = 0 =>
    /\ latest.at <= now
    /\ Recording => latest.at <= observed.at /\ observed.at <= now

(* Between the two calls of record() the day it leaves is settled.         *)
LeftDayIsSettled ==
  stepsBack = 0 /\ phase = "storing" /\ latest.day \in Days /\ latest.day # observed.day =>
    summaries[latest.day] = Summarize(samples[latest.day])

Inv == Types /\ TimeGoesOn /\ ClosedDaysAreSettled /\ LeftDayIsSettled

-------------------------------------------------------------------------------
(* Days are counted from the first one, so that -1 is none of them.        *)
LEMMA NoSuchDay == -1 \notin Days
  <1> SUFFICES ASSUME NEW at \in 0..MaxClock, NEW z \in Zones,
                      (at + z) \div DayLength = -1
               PROVE  FALSE
    BY DEF Days, LocalDay
  <1>1. at + z \in Nat /\ DayLength \in Nat /\ DayLength > 0
    BY EstimateAssumption
  <1> QED  BY <1>1

(* The current time is on one of the days.                                 *)
LEMMA TodayIsADay ==
  ASSUME now \in 0..MaxClock, zone \in Zones
  PROVE  LocalDay(now, zone) \in Days
  BY DEF Days

(* The first state has nothing to settle.                                  *)
LEMMA InvInit == Init => Inv
  <1> SUFFICES ASSUME Init PROVE Inv
    OBVIOUS
  <1>1. now \in 0..MaxClock /\ stepsBack \in Nat /\ zone \in Zones
    BY EstimateAssumption DEF Init
  <1>2. samples = [d \in Days |-> samples[d]] /\ summaries = [d \in Days |-> summaries[d]]
    BY DEF Init
  <1>3. Types
    BY <1>1, <1>2 DEF Init, Types, Recording
  <1>4. TimeGoesOn
    BY DEF Init, TimeGoesOn, NoSample, Recording
  <1>5. ClosedDaysAreSettled /\ LeftDayIsSettled
    BY DEF Init, ClosedDaysAreSettled, LeftDayIsSettled
  <1> QED  BY <1>3, <1>4, <1>5 DEF Inv

(* Observing and failing, restarting and waiting leave the store alone.    *)
LEMMA StoreUntouched ==
  ASSUME Inv, UNCHANGED storeVars, stepsBack' = 0 => stepsBack = 0,
         phase' = "storing" => phase = "storing" /\ UNCHANGED observed
  PROVE  ClosedDaysAreSettled' /\ LeftDayIsSettled'
  BY DEF Inv, ClosedDaysAreSettled, LeftDayIsSettled, storeVars

(* Settling changes the summary of the newest sample's day and no other.   *)
LEMMA SettleKeepsInv == ASSUME Inv, Settle PROVE Inv'
  <1>1. /\ phase = "settling" /\ phase' = "storing"
        /\ UNCHANGED <<now, stepsBack, zone, samples, latest, observed>>
        /\ summaries' = IF DayChanged
                        THEN [summaries EXCEPT ![latest.day] = Summarize(samples[latest.day])]
                        ELSE summaries
    BY DEF Settle, SettleDay, clockVars
  <1>2. /\ summaries' = [d \in Days |-> summaries'[d]]
        /\ \A d \in Days \ {latest.day} : summaries'[d] = summaries[d]
    BY <1>1 DEF Inv, Types
  <1>3. Types' /\ TimeGoesOn'
    BY <1>1, <1>2 DEF Inv, Types, TimeGoesOn, Recording
  <1>4. ClosedDaysAreSettled'
    BY <1>1, <1>2 DEF Inv, ClosedDaysAreSettled
  <1>5. LeftDayIsSettled'
    <2> SUFFICES ASSUME latest.day \in Days, latest.day # observed.day
                 PROVE  summaries'[latest.day] = Summarize(samples[latest.day])
      BY <1>1 DEF LeftDayIsSettled
    <2>1. DayChanged
      BY NoSuchDay DEF DayChanged, NoSample
    <2> QED  BY <1>1, <2>1 DEF Inv, Types
  <1> QED  BY <1>3, <1>4, <1>5 DEF Inv

(* Storing makes the observation the newest sample, unless the clock went  *)
(* back; the day it leaves has been settled, all others already were.      *)
LEMMA StoreKeepsInv == ASSUME Inv, StoreSample PROVE Inv'
  <1>1. /\ phase = "storing" /\ phase' = "idle"
        /\ UNCHANGED <<now, stepsBack, zone, summaries>>
        /\ latest' = IF observed.at >= latest.at
                     THEN [at |-> observed.at, day |-> observed.day] ELSE latest
    BY DEF StoreSample, clockVars, Newest
  <1>2. PICK s : samples' = [samples EXCEPT ![observed.day] = s]
    BY DEF StoreSample
  <1>3. /\ samples' = [d \in Days |-> samples'[d]]
        /\ \A d \in Days \ {observed.day} : samples'[d] = samples[d]
    BY <1>2 DEF Inv, Types
  <1>4. observed.at \in Nat /\ observed.day \in Days
    BY <1>1 DEF Inv, Types, Recording
  <1>5. Types'
    BY <1>1, <1>3, <1>4 DEF Inv, Types, Recording
  <1>6. stepsBack = 0 => latest'.at = observed.at /\ latest'.day = observed.day
                         /\ observed.at <= now
    <2>1. latest.at \in Nat
      BY DEF Inv, Types, NoSample
    <2> QED  BY <1>1, <1>4, <2>1 DEF Inv, TimeGoesOn, Recording
  <1>7. TimeGoesOn' /\ LeftDayIsSettled'
    BY <1>1, <1>6 DEF TimeGoesOn, LeftDayIsSettled, Recording
  <1>8. ClosedDaysAreSettled'
    <2> SUFFICES ASSUME stepsBack = 0, NEW d \in Days, samples'[d] # <<>>, d # observed.day
                 PROVE  summaries[d] = Summarize(samples[d])
      BY <1>1, <1>3, <1>6 DEF ClosedDaysAreSettled
    <2>1. CASE d = latest.day
      BY <1>1, <2>1 DEF Inv, LeftDayIsSettled
    <2>2. CASE d # latest.day
      BY <1>3, <2>2 DEF Inv, ClosedDaysAreSettled
    <2> QED  BY <2>1, <2>2
  <1> QED  BY <1>5, <1>7, <1>8 DEF Inv

(* Every step keeps it.                                                    *)
LEMMA InvStep == Inv /\ [Next]_vars => Inv'
  <1> SUFFICES ASSUME Inv, [Next]_vars PROVE Inv'
    OBVIOUS
  <1> USE DEF clockVars, storeVars
  <1>1. ASSUME NEW total \in Totals, Observe(total) PROVE Inv'
    <2>1. /\ phase' = "settling" /\ observed'.at = now
          /\ observed'.day = LocalDay(now, zone)
          /\ UNCHANGED <<now, stepsBack, zone, samples, latest, summaries>>
      BY <1>1 DEF Observe
    <2>2. observed'.at \in Nat /\ observed'.day \in Days
      BY <2>1, TodayIsADay DEF Inv, Types
    <2>3. Types' /\ TimeGoesOn'
      BY <2>1, <2>2 DEF Inv, Types, TimeGoesOn, Recording
    <2> QED  BY <2>1, <2>3, StoreUntouched DEF Inv
  <1>2. CASE Settle
    BY <1>2, SettleKeepsInv
  <1>3. CASE StoreSample
    BY <1>3, StoreKeepsInv
  <1>4. ASSUME NEW z \in Zones, Fail \/ Restart(z) PROVE Inv'
    <2>1. /\ phase' = "idle" /\ zone' \in Zones
          /\ UNCHANGED <<now, stepsBack, samples, latest, summaries>>
      BY <1>4 DEF Fail, Restart, Inv, Types
    <2>2. Types' /\ TimeGoesOn'
      BY <2>1 DEF Inv, Types, TimeGoesOn, Recording
    <2> QED  BY <2>1, <2>2, StoreUntouched DEF Inv
  <1>5. CASE Tick
    <2>1. /\ now < MaxClock /\ now' = now + 1
          /\ UNCHANGED <<stepsBack, zone, samples, latest, summaries, phase, observed>>
      BY <1>5 DEF Tick
    <2>2. now' \in 0..MaxClock /\ latest.at \in Int
      BY <2>1, EstimateAssumption DEF Inv, Types, NoSample
    <2>3. Types' /\ TimeGoesOn'
      BY <2>1, <2>2 DEF Inv, Types, TimeGoesOn, Recording
    <2> QED  BY <2>1, <2>3, StoreUntouched DEF Inv
  <1>6. ASSUME NEW at \in 0..MaxClock, SetBack(at) PROVE Inv'
    <2>1. /\ now' = at /\ stepsBack' = stepsBack + 1
          /\ UNCHANGED <<zone, samples, latest, summaries, phase, observed>>
      BY <1>6 DEF SetBack
    <2>2. stepsBack' \in Nat /\ stepsBack' # 0
      BY <2>1 DEF Inv, Types
    <2>3. Types' /\ TimeGoesOn'
      BY <2>1, <2>2 DEF Inv, Types, TimeGoesOn, Recording
    <2> QED  BY <2>1, <2>2, <2>3, StoreUntouched DEF Inv
  <1>7. CASE UNCHANGED vars
    <2>1. Types' /\ TimeGoesOn'
      BY <1>7 DEF vars, Inv, Types, TimeGoesOn, Recording
    <2> QED  BY <1>7, <2>1, StoreUntouched DEF vars, Inv
  <1>8. ASSUME Fail PROVE Inv'
    <2>1. zone \in Zones
      BY DEF Inv, Types
    <2> QED  BY <1>4, <1>8, <2>1
  <1> QED  BY <1>1, <1>2, <1>3, <1>4, <1>5, <1>6, <1>7, <1>8 DEF Next

(* What every run of the estimator keeps.                                  *)
THEOREM InductiveInvariant == Spec => []Inv
  BY InvInit, InvStep, PTL DEF Spec

(* Unless the clock is set back, every day but the newest has the summary  *)
(* of all of its samples, however often record() broke off half way and    *)
(* whichever zones cut the days.                                           *)
THEOREM ClosedDaysSettled == Spec => []ClosedDaysAreSettled
  <1>1. Inv => ClosedDaysAreSettled
    BY DEF Inv
  <1> QED  BY <1>1, InductiveInvariant, PTL

-------------------------------------------------------------------------------
(* Less is well-founded on the naturals, said of sets: what holds for      *)
(* every set can be cited for any property.                                *)
LEMMA LeastNatural ==
  ASSUME NEW T, T \subseteq Nat, T # {}
  PROVE  \E n \in T : \A m \in T : n <= m
  <1> DEFINE R == {p \in Nat \X Nat : p[1] < p[2]}
  <1>1. IsWellFoundedOn(R, Nat)
    BY NatLessThanWellFounded DEF OpToRel
  <1>2. \A m, n \in Nat : <<m, n>> \in R <=> m < n
    OBVIOUS
  <1> HIDE DEF R
  <1>3. PICK x \in T : \A y \in T : <<y, x>> \notin R
    BY <1>1, WFMin
  <1>4. ASSUME NEW y \in T PROVE x <= y
    <2>1. x \in Nat /\ y \in Nat
      OBVIOUS
    <2>2. ~(y < x)
      BY <1>2, <1>3, <2>1
    <2> QED  BY <2>1, <2>2
  <1> QED  BY <1>4

(* Induction over the naturals, as a fact of sets.                         *)
LEMMA NaturalInduction ==
  ASSUME NEW T, 0 \in T, \A n \in Nat : n \in T => n + 1 \in T
  PROVE  \A n \in Nat : n \in T
  <1> SUFFICES ASSUME NEW m \in Nat, m \notin T PROVE FALSE
    OBVIOUS
  <1> DEFINE U == Nat \ T
  <1>1. U # {} /\ U \subseteq Nat
    OBVIOUS
  <1> HIDE DEF U
  <1>2. PICK n \in U : \A k \in U : n <= k
    BY <1>1, LeastNatural
  <1>3. n \in Nat /\ n \notin T /\ n # 0
    BY <1>2 DEF U
  <1>4. n - 1 \in Nat /\ n - 1 \notin U
    BY <1>2, <1>3, <1>1
  <1>5. n - 1 \in T /\ (n - 1) + 1 = n
    BY <1>3, <1>4 DEF U
  <1> QED  BY <1>3, <1>4, <1>5

-------------------------------------------------------------------------------
(* Running totals: the recursive function that Spend is defined by exists, *)
(* and obeys its equation.                                                 *)
Totalled(f, d, n) ==
  f = [m \in 0..n |-> IF m < 2 THEN 0 ELSE f[m - 1] + d[m]]

LEMMA TotalsExist ==
  ASSUME NEW d, NEW n \in Nat
  PROVE  \E f : Totalled(f, d, n)
  <1> DEFINE T == {m \in Nat : \E f : Totalled(f, d, m)}
  <1>1. 0 \in T
    <2> DEFINE f == [m \in 0..0 |-> 0]
    <2>1. Totalled(f, d, 0)
      BY DEF Totalled
    <2> QED  BY <2>1
  <1>2. ASSUME NEW m \in Nat, m \in T PROVE m + 1 \in T
    <2>1. PICK f : Totalled(f, d, m)
      BY <1>2
    <2> DEFINE g == [k \in 0..(m + 1) |-> IF k < 2 THEN 0 ELSE f[k - 1] + d[k]]
    <2>2. \A k \in 0..m : g[k] = f[k]
      BY <2>1 DEF Totalled
    <2>3. g = [k \in 0..(m + 1) |-> IF k < 2 THEN 0 ELSE g[k - 1] + d[k]]
      <3>1. ASSUME NEW k \in 0..(m + 1), ~(k < 2) PROVE g[k - 1] = f[k - 1]
        <4>1. k - 1 \in 0..m
          BY <3>1
        <4> HIDE DEF g
        <4> QED  BY <2>2, <4>1
      <3> QED  BY <3>1
    <2> HIDE DEF g
    <2>4. Totalled(g, d, m + 1)
      BY <2>3 DEF Totalled
    <2> QED  BY <2>4
  <1> HIDE DEF T
  <1>3. n \in T
    BY <1>1, <1>2, NaturalInduction
  <1> QED  BY <1>3 DEF T

(* What two neighbours of a day show of spend.                             *)
Decrease(s, n) == Positive(s[n - 1].total - s[n].total)

(* Positive is a natural at least as large.                                *)
LEMMA PositiveIsNat == \A n \in Int : Positive(n) \in Nat /\ Positive(n) >= n
  BY DEF Positive

(* Spend is the last of the running totals of the decreases.               *)
LEMMA SpendIsTotalled ==
  ASSUME NEW s, Len(s) \in Nat,
         \A n \in 1..Len(s) : s[n].total \in Int
  PROVE  \E f \in [0..Len(s) -> Nat] :
           /\ Spend(s) = f[Len(s)]
           /\ \A n \in 0..Len(s) : n < 2 => f[n] = 0
           /\ \A n \in 2..Len(s) : f[n] = f[n - 1] + Decrease(s, n)
  <1> DEFINE N == Len(s)
             d == [n \in 2..N |-> Decrease(s, n)]
             f == CHOOSE f : f = [n \in 0..N |-> IF n < 2 THEN 0 ELSE f[n - 1] + Decrease(s, n)]
  <1>1. \A n \in 2..N : Decrease(s, n) \in Nat
    <2> SUFFICES ASSUME NEW n \in 2..N PROVE Decrease(s, n) \in Nat
      OBVIOUS
    <2>1. n \in 1..N /\ n - 1 \in 1..N
      OBVIOUS
    <2>2. s[n - 1].total - s[n].total \in Int
      BY <2>1
    <2> QED  BY <2>2, PositiveIsNat DEF Decrease
  <1>2. \E g : Totalled(g, d, N)
    BY TotalsExist
  <1>3. \E g : g = [n \in 0..N |-> IF n < 2 THEN 0 ELSE g[n - 1] + Decrease(s, n)]
    <2>1. PICK g : Totalled(g, d, N)
      BY <1>2
    <2>2. \A n \in 0..N : ~(n < 2) => d[n] = Decrease(s, n)
      OBVIOUS
    <2> HIDE DEF d
    <2>3. g = [n \in 0..N |-> IF n < 2 THEN 0 ELSE g[n - 1] + Decrease(s, n)]
      BY <2>1, <2>2 DEF Totalled
    <2> QED  BY <2>3
  <1>4. f = [n \in 0..N |-> IF n < 2 THEN 0 ELSE f[n - 1] + Decrease(s, n)]
    BY <1>3
  <1>5. Spend(s) = f[N]
    BY DEF Spend, Decrease
  <1> HIDE DEF f
  <1>6. /\ \A n \in 0..N : n < 2 => f[n] = 0
        /\ \A n \in 2..N : f[n] = f[n - 1] + Decrease(s, n)
    BY <1>4
  <1>7. f \in [0..N -> Nat]
    <2> DEFINE T == {n \in Nat : n <= N => f[n] \in Nat}
    <2>1. 0 \in T
      BY <1>6
    <2>2. ASSUME NEW n \in Nat, n \in T PROVE n + 1 \in T
      BY <1>1, <1>6, <2>2
    <2> HIDE DEF T
    <2>3. \A n \in Nat : n \in T
      BY <2>1, <2>2, NaturalInduction
    <2>4. \A n \in 0..N : f[n] \in Nat
      BY <2>3 DEF T
    <2> QED  BY <1>4, <2>4
  <1> QED  BY <1>5, <1>6, <1>7
-------------------------------------------------------------------------------
(* t is s with x behind its first k elements.                              *)
IsInserted(s, x, k, t) ==
  /\ Len(t) = Len(s) + 1
  /\ \A i \in 1..k : t[i] = s[i]
  /\ t[k + 1] = x
  /\ \A i \in (k + 1)..Len(s) : t[i + 1] = s[i]

(* InsertAt moves what is behind the place and nothing else.               *)
LEMMA Inserted ==
  ASSUME NEW S, NEW s \in Seq(S), NEW x \in S, NEW k \in 0..Len(s), NEW t,
         t = InsertAt(s, k + 1, x)
  PROVE  t \in Seq(S) /\ IsInserted(s, x, k, t)
  <1>0. Len(s) \in Nat /\ k \in Nat /\ k <= Len(s) /\ (k + 1) - 1 = k
    OBVIOUS
  <1>1. PICK a : a = SubSeq(s, 1, k)
    OBVIOUS
  <1>2. PICK b : b = <<x>>
    OBVIOUS
  <1>3. PICK c : c = SubSeq(s, k + 1, Len(s))
    OBVIOUS
  <1>4. t = a \o b \o c
    BY <1>0, <1>1, <1>2, <1>3 DEF InsertAt
  <1>5. a \in Seq(S) /\ Len(a) = k /\ \A i \in 1..k : a[i] = s[i]
    BY <1>1
  <1>6. b \in Seq(S) /\ Len(b) = 1 /\ b[1] = x
    BY <1>2
  <1>7. c \in Seq(S) /\ Len(c) = Len(s) - k /\ \A i \in 1..(Len(s) - k) : c[i] = s[k + i]
    BY <1>3
  <1>8. /\ a \o b \o c \in Seq(S) /\ Len(a \o b \o c) = Len(a) + Len(b) + Len(c)
        /\ \A i \in 1..Len(a) : (a \o b \o c)[i] = a[i]
        /\ \A i \in 1..Len(b) : (a \o b \o c)[Len(a) + i] = b[i]
        /\ \A i \in 1..Len(c) : (a \o b \o c)[Len(a) + Len(b) + i] = c[i]
    <2>1. a \in Seq(S) /\ b \in Seq(S) /\ c \in Seq(S)
      BY <1>5, <1>6, <1>7
    <2> QED  BY ONLY <2>1
  <1>9. /\ t \in Seq(S) /\ Len(t) = k + 1 + (Len(s) - k)
        /\ \A i \in 1..k : t[i] = a[i]
        /\ \A i \in 1..1 : t[k + i] = b[i]
        /\ \A i \in 1..(Len(s) - k) : t[k + 1 + i] = c[i]
    BY <1>4, <1>5, <1>6, <1>7, <1>8
  <1>10. Len(t) = Len(s) + 1 /\ t[k + 1] = x
    BY <1>0, <1>6, <1>9
  <1>11. \A i \in 1..k : t[i] = s[i]
    BY <1>5, <1>9
  <1>12. ASSUME NEW i \in (k + 1)..Len(s) PROVE t[i + 1] = s[i]
    <2>1. i - k \in 1..(Len(s) - k) /\ k + 1 + (i - k) = i + 1 /\ k + (i - k) = i
      BY <1>0
    <2>2. c[i - k] = s[k + (i - k)]
      BY <1>7, <2>1
    <2>3. t[k + 1 + (i - k)] = c[i - k]
      BY <1>9, <2>1
    <2> QED  BY <2>1, <2>2, <2>3
  <1> QED  BY <1>9, <1>10, <1>11, <1>12 DEF IsInserted

(* A sample holds a balance, which is a number.                            *)
LEMMA SampleTotals ==
  ASSUME NEW s \in Seq(Sample)
  PROVE  Len(s) \in Nat /\ \A n \in 1..Len(s) : s[n].total \in Int
  <1> SUFFICES ASSUME NEW n \in 1..Len(s) PROVE s[n].total \in Int
    OBVIOUS
  <1>1. s[n] \in Sample
    OBVIOUS
  <1>2. s[n].total \in Totals
    BY <1>1 DEF Sample
  <1>3. Totals \subseteq Nat
    BY EstimateAssumption
  <1>4. s[n].total \in Nat
    BY ONLY <1>2, <1>3
  <1> QED  BY <1>4

(* One more sample never takes spend away: a neighbour's decrease is at    *)
(* most the two it is split into.                                          *)
LEMMA SpendGrows ==
  ASSUME NEW s \in Seq(Sample), NEW x \in Sample, NEW k \in 0..Len(s), NEW t \in Seq(Sample),
         IsInserted(s, x, k, t)
  PROVE  Spend(t) >= Spend(s)
  <1> DEFINE N == Len(s)
  <1>1. /\ t \in Seq(Sample) /\ Len(t) = N + 1
        /\ \A i \in 1..k : t[i] = s[i]
        /\ t[k + 1] = x
        /\ \A i \in (k + 1)..N : t[i + 1] = s[i]
    BY DEF IsInserted
  <1>2. /\ \A i \in 1..N : s[i].total \in Int
        /\ \A i \in 1..(N + 1) : t[i].total \in Int
    BY <1>1, SampleTotals
  <1>3. PICK f \in [0..N -> Nat] :
           /\ Spend(s) = f[N]
           /\ \A n \in 0..N : n < 2 => f[n] = 0
           /\ \A n \in 2..N : f[n] = f[n - 1] + Decrease(s, n)
    <2>1. Len(s) \in Nat
      OBVIOUS
    <2> QED  BY <1>2, <2>1, SpendIsTotalled
  <1>4. PICK g \in [0..(N + 1) -> Nat] :
           /\ Spend(t) = g[N + 1]
           /\ \A n \in 0..(N + 1) : n < 2 => g[n] = 0
           /\ \A n \in 2..(N + 1) : g[n] = g[n - 1] + Decrease(t, n)
    <2>1. Len(t) \in Nat /\ Len(t) = N + 1
      BY <1>1
    <2> QED  BY <1>2, <2>1, SpendIsTotalled
  \* Up to the place nothing changes ...
  <1>5. \A n \in 0..k : g[n] = f[n]
    <2> DEFINE T == {n \in Nat : n <= k => g[n] = f[n]}
    <2>1. 0 \in T
      BY <1>3, <1>4
    <2>2. ASSUME NEW n \in Nat, n \in T PROVE n + 1 \in T
      <3> SUFFICES ASSUME n + 1 <= k PROVE g[n + 1] = f[n + 1]
        OBVIOUS
      <3>1. g[n] = f[n]
        BY <2>2
      <3>2. CASE n = 0
        BY <1>3, <1>4, <3>2
      <3>3. CASE n # 0
        <4>1. n \in 1..k /\ n + 1 \in 1..k /\ (n + 1) - 1 = n
          BY <3>3
        <4>2. Decrease(t, n + 1) = Decrease(s, n + 1)
          BY <1>1, <4>1 DEF Decrease
        <4>3. n + 1 \in 2..N /\ n + 1 \in 2..(N + 1)
          BY <4>1
        <4> QED  BY <1>3, <1>4, <3>1, <4>1, <4>2, <4>3
      <3> QED  BY <3>2, <3>3
    <2> HIDE DEF T
    <2>3. \A n \in Nat : n \in T
      BY <2>1, <2>2, NaturalInduction
    <2> QED  BY <2>3 DEF T
  \* ... and behind it the sum is one sample ahead.
  <1>6. \A n \in (k + 1)..N : g[n + 1] >= f[n]
    <2> DEFINE T == {m \in Nat : k + 1 + m <= N => g[k + 1 + m + 1] >= f[k + 1 + m]}
    <2>1. 0 \in T
      <3> SUFFICES ASSUME k + 1 <= N PROVE g[k + 2] >= f[k + 1]
        OBVIOUS
      <3>1. CASE k = 0
        <4>1. f[k + 1] = 0 /\ g[k + 2] \in Nat
          BY <1>3, <3>1
        <4> QED  BY <4>1
      <3>2. CASE k # 0
        <4> DEFINE u == s[k].total
                   v == s[k + 1].total
                   w == x.total
        <4>1. /\ k \in 1..k /\ k + 1 \in (k + 1)..N /\ k \in 1..N /\ k + 1 \in 1..N
              /\ k + 1 \in 2..N /\ k + 1 \in 2..(N + 1) /\ k + 2 \in 2..(N + 1)
              /\ (k + 1) - 1 = k /\ (k + 2) - 1 = k + 1 /\ (k + 1) + 1 = k + 2
          BY <3>2
        <4>2. t[k] = s[k] /\ t[k + 1] = x /\ t[k + 2] = s[k + 1]
          BY <1>1, <4>1
        <4>3. u \in Int /\ v \in Int /\ w \in Int
          BY <1>2, <4>1, <4>2
        <4>4. /\ Decrease(t, k + 1) = Positive(u - w)
              /\ Decrease(t, k + 2) = Positive(w - v)
              /\ Decrease(s, k + 1) = Positive(u - v)
          BY <4>1, <4>2 DEF Decrease
        <4> HIDE DEF u, v, w
        <4>5. /\ Positive(u - w) + Positive(w - v) >= Positive(u - v)
              /\ Positive(u - w) \in Nat /\ Positive(w - v) \in Nat /\ Positive(u - v) \in Nat
          BY <4>3 DEF Positive
        <4>6. /\ f[k + 1] = f[k] + Positive(u - v)
              /\ g[k + 1] = g[k] + Positive(u - w)
              /\ g[k + 2] = g[k + 1] + Positive(w - v)
          BY <1>3, <1>4, <4>1, <4>4
        <4>7. g[k] = f[k] /\ f[k] \in Nat
          BY <1>5
        <4> QED  BY <4>5, <4>6, <4>7
      <3> QED  BY <3>1, <3>2
    <2>2. ASSUME NEW m \in Nat, m \in T PROVE m + 1 \in T
      <3> DEFINE n == k + 1 + m
      <3> SUFFICES ASSUME n + 1 <= N PROVE g[n + 2] >= f[n + 1]
        OBVIOUS
      <3>1. g[n + 1] >= f[n] /\ n \in Nat /\ n >= k + 1
        BY <2>2
      <3> HIDE DEF n
      <3>2. /\ n \in (k + 1)..N /\ n + 1 \in (k + 1)..N /\ n + 1 \in 2..N /\ n + 2 \in 2..(N + 1)
            /\ (n + 1) - 1 = n /\ (n + 2) - 1 = n + 1 /\ (n + 1) + 1 = n + 2
        BY <3>1
      <3>3. t[n + 1] = s[n] /\ t[n + 2] = s[n + 1]
        BY <1>1, <3>2
      <3>4. Decrease(t, n + 2) = Decrease(s, n + 1)
        BY <3>2, <3>3 DEF Decrease
      <3>5. f[n + 1] = f[n] + Decrease(s, n + 1) /\ g[n + 2] = g[n + 1] + Decrease(s, n + 1)
        BY <1>3, <1>4, <3>2, <3>4
      <3>6. f[n] \in Nat /\ g[n + 1] \in Nat /\ Decrease(s, n + 1) \in Nat
        <4>1. s[n].total - s[n + 1].total \in Int
          <5>1. n \in 1..N /\ n + 1 \in 1..N
            BY <3>2
          <5> QED  BY <1>2, <5>1
        <4>2. Decrease(s, n + 1) \in Nat
          BY <3>2, <4>1, PositiveIsNat DEF Decrease
        <4>3. n \in 0..N /\ n + 1 \in 0..(N + 1)
          BY <3>2
        <4> QED  BY <4>2, <4>3
      <3> QED  BY <3>1, <3>5, <3>6
    <2> HIDE DEF T
    <2>3. \A m \in Nat : m \in T
      BY <2>1, <2>2, NaturalInduction
    <2> SUFFICES ASSUME NEW n \in (k + 1)..N PROVE g[n + 1] >= f[n]
      OBVIOUS
    <2>4. n - (k + 1) \in T /\ k + 1 + (n - (k + 1)) = n
      BY <2>3
    <2> QED  BY <2>4 DEF T
  <1>7. g[N + 1] >= f[N]
    <2>1. CASE k = N
      <3>1. g[N] = f[N] /\ f[N] \in Nat
        BY <1>5, <2>1
      <3>2. CASE N = 0
        BY <1>3, <3>2
      <3>3. CASE N # 0
        <4>1. N + 1 \in 2..(N + 1) /\ (N + 1) - 1 = N /\ N \in 1..(N + 1) /\ N + 1 \in 1..(N + 1)
          BY <3>3
        <4>2. t[N].total - t[N + 1].total \in Int
          <5>1. t[N].total \in Int /\ t[N + 1].total \in Int
            BY <1>2, <4>1
          <5> QED  BY ONLY <5>1
        <4>3. Decrease(t, N + 1) \in Nat
          BY <4>1, <4>2, PositiveIsNat DEF Decrease
        <4>4. g[N + 1] = g[N] + Decrease(t, N + 1)
          BY <1>4, <4>1
        <4> QED  BY <3>1, <4>3, <4>4
      <3> QED  BY <3>2, <3>3
    <2>2. CASE k # N
      <3>1. N \in (k + 1)..N
        BY <2>2
      <3> QED  BY <1>6, <3>1
    <2> QED  BY <2>1, <2>2
  <1> QED  BY <1>3, <1>4, <1>7

-------------------------------------------------------------------------------
(* The place of a sample is one of the places of its day.                  *)
LEMMA PlaceIsThere ==
  ASSUME NEW s \in Seq(Sample), NEW x \in Sample
  PROVE  \E k \in 0..Len(s) : Place(s, x) \in Seq(Sample) /\ IsInserted(s, x, k, Place(s, x))
  <1> DEFINE before == {i \in DOMAIN s : s[i].at <= x.at}
  <1>1. Len(s) \in Nat /\ DOMAIN s = 1..Len(s)
    OBVIOUS
  <1>2. IsFiniteSet(1..Len(s)) /\ Cardinality(1..Len(s)) = Len(s)
    BY <1>1, FS_Interval
  <1>3. before \subseteq 1..Len(s)
    BY <1>1
  <1>4. Cardinality(before) \in 0..Len(s)
    <2> HIDE DEF before
    <2>1. Cardinality(before) <= Cardinality(1..Len(s)) /\ IsFiniteSet(before)
      BY <1>2, <1>3, FS_Subset
    <2>2. Cardinality(before) \in Nat
      BY <2>1, FS_CardinalityType
    <2> QED  BY <1>1, <1>2, <2>1, <2>2
  <1>5. Place(s, x) = InsertAt(s, Cardinality(before) + 1, x)
    BY DEF Place
  <1> HIDE DEF before
  <1> QED  BY <1>4, <1>5, Inserted

(* A summary counts: what it adds up to is never negative.                 *)
LEMMA SummaryIsTyped ==
  ASSUME NEW s \in Seq(Sample)
  PROVE  Summarize(s) \in [spend : Nat, adjustments : Nat]
  <1>1. Len(s) \in Nat /\ \A n \in 1..Len(s) : s[n].total \in Int
    BY SampleTotals
  <1>2. Spend(s) \in Nat
    <2>1. PICK f \in [0..Len(s) -> Nat] : Spend(s) = f[Len(s)]
      BY <1>1, SpendIsTotalled
    <2> QED  BY <1>1, <2>1
  <1>3. Adjustments(s) \in Nat
    <2> DEFINE T == {i \in 2..Len(s) : s[i].total > s[i - 1].total \/ s[i].adjustment}
    <2>1. IsFiniteSet(2..Len(s)) /\ T \subseteq 2..Len(s)
      BY <1>1, FS_Interval
    <2>2. IsFiniteSet(T)
      <3> HIDE DEF T
      <3> QED  BY <2>1, FS_Subset
    <2>3. Cardinality(T) \in Nat
      <3> HIDE DEF T
      <3> QED  BY <2>2, FS_CardinalityType
    <2> QED  BY <2>3 DEF Adjustments
  <1> QED  BY <1>2, <1>3 DEF Summarize

(* The first state holds no sample.                                        *)
LEMMA TypeInit == Init => TypeOK
  <1> SUFFICES ASSUME Init PROVE TypeOK
    OBVIOUS
  <1>1. samples \in [Days -> Seq(Sample)]
    BY DEF Init
  <1> QED  BY <1>1 DEF Init, TypeOK

(* What is stored is placed among the samples of its day.                  *)
LEMMA StoreIsTyped ==
  ASSUME Inv, TypeOK, StoreSample
  PROVE  /\ TypeOK'
         /\ \A d \in Days : samples'[d] = samples[d]
              \/ \E x \in Sample, k \in 0..Len(samples[d]) :
                   IsInserted(samples[d], x, k, samples'[d])
  <1> DEFINE d == observed.day
             s == samples[d]
             x == [at |-> observed.at, total |-> observed.total,
                   adjustment |-> Mark(s, observed.total)]
  <1>1. /\ phase = "storing" /\ phase' = "idle" /\ UNCHANGED <<now, stepsBack, zone, summaries>>
        /\ samples' = [samples EXCEPT ![d] = Place(s, x)]
        /\ latest' = IF observed.at >= latest.at
                     THEN [at |-> observed.at, day |-> observed.day] ELSE latest
    BY DEF StoreSample, clockVars, Newest
  <1>2. d \in Days /\ observed.at \in Nat /\ observed.total \in Totals
    BY <1>1 DEF Inv, Types, TypeOK, Recording
  <1>3. s \in Seq(Sample) /\ x \in Sample
    BY <1>2 DEF TypeOK, Sample, Mark
  <1> HIDE DEF x, s
  <1>4. PICK k \in 0..Len(s) : Place(s, x) \in Seq(Sample) /\ IsInserted(s, x, k, Place(s, x))
    BY <1>3, PlaceIsThere
  <1>5. samples' \in [Days -> Seq(Sample)]
    BY <1>1, <1>4 DEF TypeOK
  <1>6. TypeOK'
    BY <1>1, <1>2, <1>5 DEF TypeOK
  <1>7. ASSUME NEW e \in Days
        PROVE  samples'[e] = samples[e]
                 \/ \E y \in Sample, j \in 0..Len(samples[e]) :
                      IsInserted(samples[e], y, j, samples'[e])
    <2>1. CASE e = d
      <3>1. samples'[e] = Place(s, x) /\ samples[e] = s
        BY <1>1, <1>2, <2>1 DEF TypeOK, s
      <3> QED  BY <1>3, <1>4, <3>1
    <2>2. CASE e # d
      BY <1>1, <2>2 DEF TypeOK
    <2> QED  BY <2>1, <2>2
  <1> QED  BY <1>6, <1>7

(* Every other step stores nothing; a summary is made of a day's samples.  *)
LEMMA TypeStep ==
  ASSUME Inv, TypeOK, [Next]_vars
  PROVE  TypeOK' /\ (StoreSample \/ UNCHANGED samples)
  <1> USE DEF clockVars, storeVars
  <1>1. ASSUME NEW total \in Totals, Observe(total) PROVE TypeOK' /\ UNCHANGED samples
    <2>1. /\ phase' = "settling" /\ observed'.total = total
          /\ observed'.day = LocalDay(now, zone)
          /\ UNCHANGED <<now, stepsBack, zone, samples, latest, summaries>>
      BY <1>1 DEF Observe
    <2>2. observed'.day \in Days
      BY <2>1, TodayIsADay DEF Inv, Types
    <2> QED  BY <2>1, <2>2 DEF TypeOK
  <1>2. CASE Settle
    <2>1. /\ phase = "settling" /\ phase' = "storing"
          /\ UNCHANGED <<now, stepsBack, zone, samples, latest, observed>>
          /\ summaries' = IF DayChanged
                          THEN [summaries EXCEPT ![latest.day] = Summarize(samples[latest.day])]
                          ELSE summaries
      BY <1>2 DEF Settle, SettleDay
    <2>2. summaries' \in [Days -> {NoSummary} \cup [spend : Nat, adjustments : Nat]]
      <3>1. CASE DayChanged
        <4>1. latest.day \in Days
          BY <3>1 DEF TypeOK, DayChanged
        <4>2. Summarize(samples[latest.day]) \in [spend : Nat, adjustments : Nat]
          BY <4>1, SummaryIsTyped DEF TypeOK
        <4> QED  BY <2>1, <3>1, <4>2 DEF TypeOK
      <3>2. CASE ~DayChanged
        BY <2>1, <3>2 DEF TypeOK
      <3> QED  BY <3>1, <3>2
    <2> QED  BY <2>1, <2>2 DEF TypeOK
  <1>3. CASE StoreSample
    BY <1>3, StoreIsTyped
  <1>4. CASE Fail
    BY <1>4 DEF Fail, TypeOK
  <1>5. ASSUME NEW z \in Zones, Restart(z) PROVE TypeOK' /\ UNCHANGED samples
    BY <1>5 DEF Restart, TypeOK
  <1>6. CASE Tick
    BY <1>6 DEF Tick, TypeOK
  <1>7. ASSUME NEW at \in 0..MaxClock, SetBack(at) PROVE TypeOK' /\ UNCHANGED samples
    BY <1>7 DEF SetBack, TypeOK
  <1>8. CASE UNCHANGED vars
    BY <1>8 DEF vars, TypeOK
  <1> QED  BY <1>1, <1>2, <1>3, <1>4, <1>5, <1>6, <1>7, <1>8 DEF Next

(* What list_day answers are samples of the day, a summary's spend and     *)
(* adjustments are counts, and record() has an observation while it runs.  *)
THEOREM TypeCorrect == Spec => []TypeOK
  <1>1. Inv /\ TypeOK /\ [Next]_vars => TypeOK'
    BY TypeStep
  <1> QED  BY <1>1, TypeInit, InductiveInvariant, PTL DEF Spec

(* The estimate of a day only grows, wherever among the day's samples a    *)
(* sample is placed.                                                       *)
THEOREM EstimateGrows == Spec => EstimateNeverShrinks
  <1>1. ASSUME Inv, TypeOK, [Next]_vars
        PROVE  [\A d \in Days : Spend(samples'[d]) >= Spend(samples[d])]_vars
    <2> SUFFICES ASSUME NEW d \in Days PROVE Spend(samples'[d]) >= Spend(samples[d])
      OBVIOUS
    <2>1. samples[d] \in Seq(Sample) /\ samples'[d] \in Seq(Sample)
      BY <1>1, TypeStep DEF TypeOK
    <2>2. CASE samples'[d] = samples[d]
      <3>1. Spend(samples[d]) \in Nat
        BY <2>1, SummaryIsTyped DEF Summarize
      <3> QED  BY <2>2, <3>1
    <2>3. CASE samples'[d] # samples[d]
      <3>1. StoreSample
        BY <1>1, <2>3, TypeStep
      <3>2. PICK x \in Sample, k \in 0..Len(samples[d]) :
              IsInserted(samples[d], x, k, samples'[d])
        BY <1>1, <2>3, <3>1, StoreIsTyped
      <3> QED  BY <2>1, <3>2, SpendGrows
    <2> QED  BY <2>2, <2>3
  <1> QED  BY <1>1, InductiveInvariant, TypeCorrect, PTL DEF Spec, EstimateNeverShrinks

-------------------------------------------------------------------------------
(* A day's samples are in time order, those of one instant as they came.   *)
InOrder(s) == \A i, j \in 1..Len(s) : i <= j => s[i].at <= s[j].at

(* In a day that is in order, the samples up to an instant come first.     *)
LEMMA EarlierComeFirst ==
  ASSUME NEW s \in Seq(Sample), NEW x \in Sample, InOrder(s)
  PROVE  \E m \in 0..Len(s) : {i \in DOMAIN s : s[i].at <= x.at} = 1..m
  <1> DEFINE later == {i \in 1..Len(s) : ~(s[i].at <= x.at)}
  <1>1. Len(s) \in Nat /\ DOMAIN s = 1..Len(s) /\ later \subseteq Nat
    OBVIOUS
  <1>2. CASE later = {}
    BY <1>1, <1>2
  <1>3. CASE later # {}
    <2>1. PICK n \in later : \A m \in later : n <= m
      <3> HIDE DEF later
      <3> QED  BY <1>1, <1>3, LeastNatural
    <2>2. n \in 1..Len(s) /\ ~(s[n].at <= x.at)
      BY <2>1
    <2>3. ASSUME NEW i \in 1..Len(s) PROVE s[i].at <= x.at <=> i < n
      <3>1. s[i].at \in Nat /\ s[n].at \in Nat /\ x.at \in Nat
        <4>1. s[i] \in Sample /\ s[n] \in Sample
          BY <2>2
        <4> QED  BY <4>1 DEF Sample
      <3>2. ASSUME i < n PROVE s[i].at <= x.at
        BY <2>1, <3>2
      <3>3. ASSUME n <= i PROVE s[n].at <= s[i].at
        BY <2>2, <3>3 DEF InOrder
      <3> QED  BY <2>2, <3>1, <3>2, <3>3
    <2>4. {i \in DOMAIN s : s[i].at <= x.at} = 1..(n - 1)
      <3>1. \A i \in 1..Len(s) : i < n <=> i \in 1..(n - 1)
        BY <2>2
      <3>2. 1..(n - 1) \subseteq 1..Len(s)
        BY <2>2, <1>1
      <3> QED  BY <1>1, <2>3, <3>1, <3>2
    <2> QED  BY <1>1, <2>2, <2>4
  <1> QED  BY <1>2, <1>3

(* Placing keeps the order.                                                *)
LEMMA PlaceKeepsOrder ==
  ASSUME NEW s \in Seq(Sample), NEW x \in Sample, InOrder(s)
  PROVE  InOrder(Place(s, x))
  <1> DEFINE before == {i \in DOMAIN s : s[i].at <= x.at}
  <1>1. PICK k \in 0..Len(s) : before = 1..k
    BY EarlierComeFirst
  <1>2. Len(s) \in Nat /\ k \in Nat /\ DOMAIN s = 1..Len(s)
    OBVIOUS
  <1>3. Cardinality(before) = k
    <2>1. Cardinality(1..k) = k
      BY <1>2, FS_Interval
    <2> HIDE DEF before
    <2> QED  BY <1>1, <2>1
  <1>4. PICK t : t = Place(s, x)
    OBVIOUS
  <1>5. t = InsertAt(s, k + 1, x)
    <2>1. Place(s, x) = InsertAt(s, Cardinality(before) + 1, x)
      BY DEF Place
    <2> HIDE DEF before
    <2> QED  BY <1>3, <1>4, <2>1
  <1>6. \A i \in 1..Len(s) : s[i].at <= x.at <=> i <= k
    <2>1. \A i \in 1..Len(s) : s[i].at <= x.at <=> i \in 1..k
      BY <1>1, <1>2
    <2> QED  BY <1>2, <2>1
  <1>7. t \in Seq(Sample) /\ IsInserted(s, x, k, t)
    BY <1>5, Inserted
  <1>8. /\ Len(t) = Len(s) + 1
        /\ \A i \in 1..k : t[i] = s[i]
        /\ t[k + 1] = x
        /\ \A i \in (k + 1)..Len(s) : t[i + 1] = s[i]
    BY <1>7 DEF IsInserted
  <1>9. x.at \in Nat /\ \A i \in 1..Len(s) : s[i].at \in Nat
    <2>1. x.at \in Nat
      BY DEF Sample
    <2>2. ASSUME NEW i \in 1..Len(s) PROVE s[i].at \in Nat
      <3>1. s[i] \in Sample
        OBVIOUS
      <3> QED  BY <3>1 DEF Sample
    <2> QED  BY <2>1, <2>2
  \* Every element of t is x, or one of s on its side of x.
  <1>10. ASSUME NEW i \in 1..Len(t)
         PROVE  \/ i \in 1..k /\ t[i] = s[i]
                \/ i = k + 1 /\ t[i] = x
                \/ i - 1 \in (k + 1)..Len(s) /\ t[i] = s[i - 1]
    <2>1. CASE i <= k
      BY <1>8, <2>1
    <2>2. CASE i = k + 1
      BY <1>8, <2>2
    <2>3. CASE i > k + 1
      <3>1. i - 1 \in (k + 1)..Len(s) /\ (i - 1) + 1 = i
        BY <1>2, <1>8, <2>3
      <3> QED  BY <1>8, <3>1
    <2> QED  BY <1>2, <2>1, <2>2, <2>3
  <1>11. ASSUME NEW i \in 1..Len(t), NEW j \in 1..Len(t), i < j
         PROVE  t[i].at <= t[j].at
    <2>1. CASE i \in 1..k /\ j \in 1..k
      <3>1. t[i] = s[i] /\ t[j] = s[j] /\ i \in 1..Len(s) /\ j \in 1..Len(s)
        BY <1>2, <1>8, <2>1
      <3> QED  BY <1>11, <3>1 DEF InOrder
    <2>2. CASE i \in 1..k /\ j = k + 1
      <3>1. t[i] = s[i] /\ t[j] = x /\ i \in 1..Len(s) /\ i <= k
        BY <1>2, <1>8, <2>2
      <3> QED  BY <1>6, <3>1
    <2>3. CASE i \in 1..k /\ j - 1 \in (k + 1)..Len(s) /\ t[j] = s[j - 1]
      <3>1. t[i] = s[i] /\ i \in 1..Len(s) /\ j - 1 \in 1..Len(s) /\ i <= j - 1
        BY <1>2, <1>8, <2>3
      <3> QED  BY <2>3, <3>1 DEF InOrder
    <2>4. CASE i = k + 1 /\ j - 1 \in (k + 1)..Len(s) /\ t[j] = s[j - 1]
      <3>1. t[i] = x /\ j - 1 \in 1..Len(s) /\ ~(j - 1 <= k)
        BY <1>2, <1>8, <2>4
      <3>2. ~(s[j - 1].at <= x.at) /\ s[j - 1].at \in Nat /\ x.at \in Nat
        BY <1>6, <1>9, <3>1
      <3>3. x.at <= s[j - 1].at
        BY ONLY <3>2
      <3> QED  BY <2>4, <3>1, <3>3
    <2>5. CASE /\ i - 1 \in (k + 1)..Len(s) /\ t[i] = s[i - 1]
               /\ j - 1 \in (k + 1)..Len(s) /\ t[j] = s[j - 1]
      <3>1. i - 1 \in 1..Len(s) /\ j - 1 \in 1..Len(s) /\ i - 1 <= j - 1
        BY <1>2, <1>11, <2>5
      <3> QED  BY <2>5, <3>1 DEF InOrder
    <2>6. i \in Int /\ j \in Int /\ i < j
      BY <1>11
    <2> QED  BY <1>2, <1>10, <2>1, <2>2, <2>3, <2>4, <2>5, <2>6
  <1>12. ASSUME NEW i \in 1..Len(t) PROVE t[i].at <= t[i].at
    <2>1. t[i] \in Sample
      BY <1>7
    <2>2. t[i].at \in Nat
      BY <2>1 DEF Sample
    <2> QED  BY <2>2
  <1>13. InOrder(t)
    <2> SUFFICES ASSUME NEW i \in 1..Len(t), NEW j \in 1..Len(t), i <= j
                 PROVE  t[i].at <= t[j].at
      BY DEF InOrder
    <2>1. i < j \/ i = j
      OBVIOUS
    <2> QED  BY <1>11, <1>12, <2>1
  <1> QED  BY <1>4, <1>13

(* Every day's samples are kept in time order, although the clock is set   *)
(* back and days are observed from several zones: what Place counts is the *)
(* number of samples that stay before the new one.                         *)
THEOREM SamplesInOrder == Spec => [](\A d \in Days : InOrder(samples[d]))
  <1> DEFINE Ordered == \A d \in Days : InOrder(samples[d])
  <1>1. Init => Ordered
    BY DEF Init, InOrder
  <1>2. ASSUME Inv, TypeOK, Ordered, [Next]_vars PROVE Ordered'
    <2>1. CASE UNCHANGED samples
      BY <1>2, <2>1
    <2>2. CASE StoreSample
      <3> DEFINE s == samples[observed.day]
                 x == [at |-> observed.at, total |-> observed.total,
                       adjustment |-> Mark(s, observed.total)]
      <3>1. /\ phase = "storing"
            /\ samples' = [samples EXCEPT ![observed.day] = Place(s, x)]
        BY <2>2 DEF StoreSample
      <3>2. observed.day \in Days /\ observed.at \in Nat /\ observed.total \in Totals
        BY <1>2, <3>1 DEF Inv, Types, TypeOK, Recording
      <3>3. s \in Seq(Sample) /\ x \in Sample /\ InOrder(s)
        BY <1>2, <3>2 DEF TypeOK, Sample, Mark
      <3> HIDE DEF x, s
      <3>4. InOrder(Place(s, x))
        BY <3>3, PlaceKeepsOrder
      <3> QED  BY <1>2, <3>1, <3>4 DEF TypeOK
    <2> QED  BY <1>2, <2>1, <2>2, TypeStep
  <1> HIDE DEF Ordered
  <1>3. Spec => []Ordered
    BY <1>1, <1>2, InductiveInvariant, TypeCorrect, PTL DEF Spec
  <1> QED  BY <1>3 DEF Ordered
===============================================================================
