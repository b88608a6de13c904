----------------------------- MODULE CodexReadings -----------------------------
(* The Codex collector (adapters/codex/mod.rs) and the look-up of its command   *)
(* line tool (adapters/codex/cli.rs).  The session's requests are those of      *)
(* CodexSession; here an answer arrives or fails with a kind.                   *)
EXTENDS Answers

------------------------------------------------------------------------------
(* discover_codex_cli.  What is found at a path: "available", "failing" (it     *)
(* runs and fails, or times out), "gone" (a file that cannot be started) or     *)
(* "missing".                                                                   *)

Places == {"available", "failing", "gone", "missing"}

\* probe: a spawn that finds no program counts as a broken tool too.
Broken(place) == place \in {"failing", "gone"}
ProbeKind(place) == IF place = "gone" THEN "missing_config" ELSE "process"

\* A configured path is used or reported, never replaced by another tool.
Configured(path) ==
    CASE ~path.absolute -> "missing_config"
      [] path.place = "available" -> "none"
      [] path.place = "missing" -> "missing_config"
      [] OTHER -> ProbeKind(path.place)

\* Otherwise the first tool that answers is used; without one, the first broken
\* one explains why.
Searched(places) ==
    LET broken == {i \in 1..Len(places) : Broken(places[i])} IN
    CASE \E i \in 1..Len(places) : places[i] = "available" -> "none"
      [] broken = {} -> "missing_config"
      [] OTHER -> ProbeKind(places[CHOOSE i \in broken : \A j \in broken : i <= j])

Discover(cli) == IF cli.configured THEN Configured(cli.path) ELSE Searched(cli.places)

------------------------------------------------------------------------------
(* Rate limits: [object, byId, legacy].  byId is a set of buckets, empty also   *)
(* for an absent or unusable field; legacy is "absent", "other" or "bucket",    *)
(* then in bucket.  A bucket is [object, id, primary, secondary, credits]; a    *)
(* window is [is, used, minutes, resets], is: "absent", "other" or "object".    *)

\* used_percent.
UsedPercent(v) == Check(IsPercentage(v), "compatibility")

Positive(v) == IF IsNumber(v) /\ v.n > 0 THEN v.n ELSE 0

Window(w) ==
    CASE w.is = "absent" -> "none"
      [] w.is = "other" -> "compatibility"
      [] OTHER -> UsedPercent(w.used)

\* window_metrics: both directions of each window that is there.
WindowMetrics(bucket, name) ==
    LET w == bucket[name] IN
    IF w.is # "object" THEN {}
    ELSE Quota(<<bucket.id, name>>, w.used, Positive(w.minutes), Positive(w.resets))

\* credit_metric: a balance that is no number is kept as the text it is; one of
\* another type is left out.
CreditValue(v) ==
    CASE IsNumeric(v) -> Number(v.n)
      [] v = Word -> Word
      [] OTHER -> Absent

CreditMetric(bucket) ==
    IF Given(CreditValue(bucket.credits))
      THEN {MetricInput(<<bucket.id, "credits">>, CreditValue(bucket.credits), "credits")}
      ELSE {}

BucketCheck(bucket) ==
    FirstFailure(<<Check(bucket.object, "compatibility"),
                   Window(bucket.primary), Window(bucket.secondary)>>)

\* The buckets by limit id are preferred to the legacy one.
Buckets(limits) ==
    IF limits.byId # {} THEN limits.byId
    ELSE IF limits.legacy = "bucket" THEN {limits.bucket} ELSE {}

\* normalize_codex_rate_limits: a legacy field of another type is an error even
\* where it is not used.
NormalizeRateLimits(limits) ==
    LET buckets == Buckets(limits)
        kind == FirstFailure(<<Check(limits.object, "compatibility"),
                               Check(limits.legacy # "other", "compatibility"),
                               Check(buckets # {}, "compatibility"),
                               Check(\A b \in buckets : BucketCheck(b) = "none", "compatibility")>>)
    IN Outcome(<<kind>>,
               IF kind # "none" THEN {}
               ELSE UNION {WindowMetrics(b, "primary") \cup WindowMetrics(b, "secondary")
                             \cup CreditMetric(b) : b \in buckets})

------------------------------------------------------------------------------
(* Usage: [summary, buckets, lifetime]; summary: the answer is an object with a *)
(* summary object; buckets is [is, entries], an entry [object, day, tokens].    *)

Readable(entry) == entry.object /\ entry.day # "" /\ IsCount(entry.tokens)

\* The entries are read in order up to that of the requested day; what follows
\* it is not looked at.
UpToDay(entries, day) ==
    LET found == {i \in 1..Len(entries) : Readable(entries[i]) /\ entries[i].day = day} IN
    IF found = {} THEN entries
    ELSE SubSeq(entries, 1, CHOOSE i \in found : \A j \in found : i <= j)

\* normalize_codex_usage.
NormalizeUsage(usage, day) ==
    LET entries == IF usage.buckets.is = "array" THEN UpToDay(usage.buckets.entries, day) ELSE <<>>
    IN Outcome(<<Check(usage.summary, "compatibility"),
                 Check(usage.buckets.is \in {"absent", "array"}, "compatibility"),
                 Check(\A e \in Elements(entries) : Readable(e), "compatibility")>>,
               {[MetricInput(<<"activity", "daily">>, e.tokens, "tokens")
                   EXCEPT !.scope = [day |-> 1, from |-> 0, to |-> 0, confirmed |-> TRUE]] :
                  e \in {f \in Elements(entries) : f.day = day}}
                 \cup {MetricInput(<<"activity", "lifetime">>, v, "tokens") :
                         v \in {u \in {usage.lifetime} : IsCount(u)}})

\* CodexAdapter::refresh, three requests one after the other.  What becomes of the
\* usage request does not decide the outcome.
RefreshCodex(day, answer) ==
    LET limits == NormalizeRateLimits(answer.limits)
        usage == IF answer.usageRpc = "none" THEN NormalizeUsage(answer.usage, day).metrics ELSE {}
    IN Outcome(<<answer.accountRpc,
                 Check(Given(answer.account), "authentication"),
                 answer.limitsRpc,
                 limits.kind>>,
               limits.metrics \cup usage)
================================================================================
