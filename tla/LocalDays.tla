------------------------------ MODULE LocalDays ------------------------------
(* The local days of the statistics: how a wall-clock time is turned into an    *)
(* instant across a change of the zone's offset, and the ranges GLM and the     *)
(* DeepSeek console are asked for.  Time is counted in steps; a zone is the     *)
(* offset in force at each instant.                                             *)
EXTENDS Integers

CONSTANTS DayLength,   \* steps of a day without a change
          Horizon,     \* the last instant
          MaxGap       \* how far a probe for the end of a gap goes

ASSUME LocalDaysAssumption ==
    /\ DayLength \in Nat \ {0} /\ Horizon \in Nat /\ MaxGap \in Nat

Instants == 0..Horizon

Local(zone, t) == t + zone[t]
LocalDay(zone, t) == Local(zone, t) \div DayLength

\* from_local_datetime: no instant, one, or two when the clock was set back.
Instances(zone, local) == {t \in Instants : Local(zone, t) = local}

Earliest(T) == CHOOSE t \in T : \A u \in T : t <= u
Latest(T) == CHOOSE t \in T : \A u \in T : u <= t

\* Faulty variant: a time that occurs twice stands for its second occurrence.
LocalInstantLatest(zone, local) ==
    IF Instances(zone, local) # {} THEN Latest(Instances(zone, local)) ELSE local

\* local_instant: the earliest instant that reads so; in a gap, the first one
\* after it; behind a longer gap, the reading taken as UTC.
LocalInstant(zone, local) ==
    LET later == {l \in local..(local + MaxGap) : Instances(zone, l) # {}} IN
    IF later # {} THEN Earliest(Instances(zone, Earliest(later))) ELSE local

\* A day starts once: it does not come back, its first instant reads no later
\* than the others, and is no further from midnight than a probe goes.
StartsOnce(zone, day) ==
    \E first \in Instants :
       /\ LocalDay(zone, first) = day
       /\ \A t \in Instants : LocalDay(zone, t) < day <=> t < first
       /\ \A t \in Instants : LocalDay(zone, t) = day => Local(zone, first) <= Local(zone, t)
       /\ Local(zone, first) <= day * DayLength + MaxGap

Midnight(zone, day) == LocalInstant(zone, day * DayLength)

\* DeepSeekWebCollector::window: the whole local day, up to the next midnight.
UsageWindow(zone, now) ==
    LET day == LocalDay(zone, now) IN
    [day |-> day, from |-> Midnight(zone, day), to |-> Midnight(zone, day + 1)]

\* GlmRefreshContext::range: from local midnight to the instant of the request.
StatisticsRange(zone, now) ==
    LET day == LocalDay(zone, now) IN
    [day |-> day, from |-> Midnight(zone, day), to |-> now]

\* StatisticsRange::scope.
Scope(range, confirmed) ==
    [day |-> range.day, from |-> range.from, to |-> range.to, confirmed |-> confirmed]
================================================================================
