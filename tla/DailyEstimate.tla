----------------------------- MODULE DailyEstimate ----------------------------
(***************************************************************************)
(* The daily spend estimate of one balance: DailySpendEstimator::record    *)
(* of crates/usage-core/src/estimate.rs over the Store's observations and  *)
(* daily summaries.                                                        *)
(*                                                                         *)
(* record() makes several store calls, each a transaction of its own; the  *)
(* service may be killed, or a call may fail, between any two.  A local    *)
(* day is a stretch of the wall clock as the configured time zone cuts it; *)
(* another zone is in effect after a restart, and the clock may be set     *)
(* back.                                                                   *)
(***************************************************************************)
EXTENDS Integers, Sequences, FiniteSets, FiniteSetsExt, SequencesExt

CONSTANTS
  DayLength,     \* clock units in a day
  Zones,         \* offsets of the time zones that may be configured
  Totals,        \* balances the provider reports
  MaxClock,      \* bound: the clock stops here
  MaxSamples,    \* bound: how many observations are stored
  MaxStepsBack   \* bound: how often the clock is set back

ASSUME EstimateAssumption ==
  /\ DayLength \in Nat \ {0}
  /\ Zones \subseteq Nat /\ Totals \subseteq Nat
  /\ MaxClock \in Nat /\ MaxSamples \in Nat /\ MaxStepsBack \in Nat

VARIABLES
  now,          \* the wall clock
  stepsBack,    \* how often it was set back
  zone,         \* the time zone the estimator was built with
  samples,      \* what list_day answers: each day's observations, in time order
  latest,       \* what latest() answers: the newest observation of all
  summaries,    \* daily_summaries
  phase,        \* how far record() is
  observed      \* the observation being recorded

vars == <<now, stepsBack, zone, samples, latest, summaries, phase, observed>>
clockVars == <<now, stepsBack>>
storeVars == <<samples, latest, summaries>>

LocalDay(at, z) == (at + z) \div DayLength
Days == {LocalDay(at, z) : at \in 0..MaxClock, z \in Zones}

NoSample == [at |-> 0, day |-> -1]
NoSummary == [spend |-> -1, adjustments |-> 0]
NoObservation == [at |-> 0, day |-> -1, total |-> 0]

Stored == MapThenSumSet(LAMBDA d : Len(samples[d]), Days)

-------------------------------------------------------------------------------
(* summarize_day: only decreases between neighbours are spend; an increase *)
(* or a marked sample is an adjustment.                                    *)
Positive(n) == IF n > 0 THEN n ELSE 0

SpendNet(s) == IF s = <<>> THEN 0 ELSE Positive(s[1].total - s[Len(s)].total)

Spend(s) ==
  LET upTo[n \in 0..Len(s)] ==
        IF n < 2 THEN 0 ELSE upTo[n - 1] + Positive(s[n - 1].total - s[n].total)
  IN upTo[Len(s)]

Adjustments(s) ==
  Cardinality({i \in 2..Len(s) : s[i].total > s[i - 1].total \/ s[i].adjustment})

SummarizeNet(s) ==
  [spend |-> s[1].total - s[Len(s)].total, adjustments |-> Adjustments(s)]

Summarize(s) == [spend |-> Spend(s), adjustments |-> Adjustments(s)]

(* A sample goes behind those of its instant and before later ones.        *)
Place(s, x) == InsertAt(s, Cardinality({i \in DOMAIN s : s[i].at <= x.at}) + 1, x)

-------------------------------------------------------------------------------
Init ==
  /\ now = 0 /\ stepsBack = 0
  /\ zone \in Zones
  /\ samples = [d \in Days |-> <<>>]
  /\ latest = NoSample
  /\ summaries = [d \in Days |-> NoSummary]
  /\ phase = "idle" /\ observed = NoObservation

(* A reading arrives with a balance, stamped with its time of capture.     *)
Observe(total) ==
  /\ phase = "idle" /\ Stored < MaxSamples
  /\ observed' = [at |-> now, day |-> LocalDay(now, zone), total |-> total]
  /\ phase' = "settling"
  /\ UNCHANGED <<clockVars, zone, storeVars>>

DayChanged == latest # NoSample /\ latest.day # observed.day

SettleDay(d) ==
  /\ phase = "settling"
  /\ summaries' = IF DayChanged
                  THEN [summaries EXCEPT ![d] = Summarize(samples[d])]
                  ELSE summaries
  /\ phase' = "storing"
  /\ UNCHANGED <<clockVars, zone, samples, latest, observed>>

SettleToday == SettleDay(observed.day)

(* The first observation of another day settles the day of the newest      *)
(* sample before it is stored.                                             *)
Settle == SettleDay(latest.day)

Newest(x) == IF x.at >= latest.at THEN [at |-> x.at, day |-> x.day] ELSE latest

(* An observation above the day's newest one is marked as an adjustment.   *)
Mark(s, total) == s # <<>> /\ total > s[Len(s)].total

StoreSample ==
  LET s == samples[observed.day]
      x == [at |-> observed.at, total |-> observed.total,
            adjustment |-> Mark(s, observed.total)]
  IN
  /\ phase = "storing"
  /\ samples' = [samples EXCEPT ![observed.day] = Place(s, x)]
  /\ latest' = Newest(observed)
  /\ phase' = "idle" /\ observed' = NoObservation
  /\ UNCHANGED <<clockVars, zone, summaries>>

(* A store call fails and record() returns with what it has done so far.   *)
Fail ==
  /\ phase # "idle"
  /\ phase' = "idle" /\ observed' = NoObservation
  /\ UNCHANGED <<clockVars, zone, storeVars>>

(* The service is killed and started, perhaps with another time zone.      *)
Restart(z) ==
  /\ zone' = z
  /\ phase' = "idle" /\ observed' = NoObservation
  /\ UNCHANGED <<clockVars, storeVars>>

Tick ==
  /\ now < MaxClock
  /\ now' = now + 1
  /\ UNCHANGED <<stepsBack, zone, storeVars, phase, observed>>

SetBack(at) ==
  /\ at < now /\ stepsBack < MaxStepsBack
  /\ now' = at /\ stepsBack' = stepsBack + 1
  /\ UNCHANGED <<zone, storeVars, phase, observed>>

Next ==
  \/ \E total \in Totals : Observe(total)
  \/ Settle \/ StoreSample \/ Fail
  \/ \E z \in Zones : Restart(z)
  \/ Tick
  \/ \E at \in 0..MaxClock : SetBack(at)

Spec == Init /\ [][Next]_vars

-------------------------------------------------------------------------------
(* Properties.                                                             *)

Sample == [at : Nat, total : Totals, adjustment : BOOLEAN]

(* Every variable keeps its type.                                          *)
TypeOK ==
  /\ now \in Nat /\ stepsBack \in Nat /\ zone \in Zones
  /\ samples \in [Days -> Seq(Sample)]
  /\ latest \in {NoSample} \cup [at : Nat, day : Days]
  /\ summaries \in [Days -> {NoSummary} \cup [spend : Nat, adjustments : Nat]]
  /\ phase \in {"idle", "settling", "storing"}
  /\ phase # "idle" => observed.day \in Days /\ observed.total \in Totals

(* Every day but the newest is settled, and by all of its samples, however *)
(* often record() broke off half way and whichever time zones cut the      *)
(* days: only a clock that is set back leaves samples behind.              *)
ClosedDaysAreSettled ==
  stepsBack = 0 =>
    \A d \in Days : samples[d] # <<>> /\ d # latest.day =>
      summaries[d] = Summarize(samples[d])

(* The estimate of a day only grows, even when a sample arrives behind     *)
(* later ones because the clock was set back.                              *)
EstimateNeverShrinks ==
  [][\A d \in Days : Spend(samples'[d]) >= Spend(samples[d])]_vars
===============================================================================
