------------------------------ MODULE GlmReadings ------------------------------
(* The GLM collectors: the Coding Plan quota with its activity                  *)
(* (adapters/glm/quota.rs) and the experimental wallet (adapters/glm/wallet.rs).*)
(* A body is                                                                    *)
(*   [json, rejected, ...]  rejected: "no", "plan" (the account has no Coding   *)
(*                          Plan) or "key" (any other success: false)           *)
(* and, for the quota, limits, a sequence of entries, empty unless array says   *)
(* that the answer has that array.                                              *)
EXTENDS Answers, LocalDays

\* read_json, after the transport's own verdict on the status.
ReadJson(response, body) ==
    FirstFailure(<<Classify(response.status),
                   Check(body.json, "compatibility"),
                   CASE body.rejected = "no" -> "none"
                     [] body.rejected = "plan" -> "missing_config"
                     [] OTHER -> "authentication">>)

------------------------------------------------------------------------------
(* Quota windows.  An entry is [type, unit, number, duration, percentage, reset]*)

Weekly == {"7d", "168h", "1w"}

\* quota_window: unit and number win over the type's name and the duration.
QuotaWindow(entry) ==
    CASE entry.type = "TIME_LIMIT" -> "tools.monthly"
      [] entry.type \notin {"TOKENS_LIMIT", "CREDIT_LIMIT", "WEEKLY_LIMIT"} -> "unknown"
      [] entry.unit = 3 /\ entry.number = 5 -> "5h"
      [] entry.unit = 6 /\ entry.number = 1 -> "weekly"
      [] entry.type = "WEEKLY_LIMIT" \/ entry.duration \in Weekly -> "weekly"
      [] entry.duration = "5h" -> "5h"
      [] OTHER -> "unknown"

\* duration_seconds, and the length a window has when none is stated.  The week
\* spelled 1w names the window but is no duration.
WindowSeconds(entry) ==
    CASE entry.duration = "5h" -> 18000
      [] entry.duration \in {"7d", "168h"} -> 604800
      [] QuotaWindow(entry) = "5h" -> 18000
      [] QuotaWindow(entry) = "weekly" -> 604800
      [] OTHER -> 0

\* reset_at_from_millis: a time that is not believable stays absent.
MaxReset == 9
ResetAt(v) == IF IsNumber(v) /\ v.n \in 1..MaxReset THEN v.n ELSE 0

Recognized(limits) == {e \in Elements(limits) : QuotaWindow(e) # "unknown"}

\* Each recognized entry must state its share, or the whole answer is refused.
Percentages(limits) ==
    Check(\A e \in Recognized(limits) : IsPercentage(e.percentage), "compatibility")

QuotaMetrics(limits) ==
    UNION {Quota(<<"quota", QuotaWindow(e)>>, e.percentage, WindowSeconds(e), ResetAt(e.reset)) :
             e \in Recognized(limits)}

------------------------------------------------------------------------------
(* Activity of models and tools: [json, rejected, echo, entries], an entry is   *)
(* [name, count, usage]; echo says whether the answer repeats both ends of the  *)
(* range it was asked for: "same", "other" or "none".                           *)

\* range_confirmed_from_envelope: an answer that echoes nothing confirms nothing.
RangeConfirmed(body) == body.echo = "same"

\* The tokens of a model, the calls of a tool under either name.
Counted(kind, e) == IF kind = "tool" THEN Either(e.count, e.usage) ELSE e.count

ActivityMetrics(kind, body, range) ==
    {[MetricInput(<<kind, e.name>>, Counted(kind, e), kind)
        EXCEPT !.scope = Scope(range, RangeConfirmed(body))] :
       e \in {f \in Elements(body.entries) : f.name # "" /\ IsCount(Counted(kind, f))}}

\* normalize_glm_payloads, from the three bodies that could be read.
NormalizeGlm(answer, range) ==
    LET limits == answer.quota.limits IN
    Outcome(<<Check(answer.quota.array, "compatibility"),
              Percentages(limits),
              Check(Recognized(limits) # {}, "compatibility")>>,
            QuotaMetrics(limits)
              \cup ActivityMetrics("model", answer.models, range)
              \cup ActivityMetrics("tool", answer.tools, range))

\* GlmQuotaCollector::refresh: three requests at once, looked at in this order.
RefreshGlmQuota(item, zone, now, answer) ==
    LET secret == QuietSecret(item)
        range == StatisticsRange(zone, now)
        read == NormalizeGlm(answer, range)
        arrived(r) == <<Get(secret, r), SameOrigin(r)>>
    IN Outcome(<<Check(Usable(secret), "missing_config")>>
                 \o arrived(answer.models.http)
                 \o arrived(answer.tools.http)
                 \o arrived(answer.quota.http)
                 \o <<ReadJson(answer.models.http, answer.models),
                      ReadJson(answer.tools.http, answer.tools),
                      ReadJson(answer.quota.http, answer.quota),
                      read.kind>>,
               read.metrics)

------------------------------------------------------------------------------
(* The wallet: [http, json, rejected, balance, currency, estimate].             *)

\* validate_endpoint: what is configured is either usable or never asked.
Endpoints == {"own", "unset", "invalid", "insecure", "foreign", "with credentials"}
ValidateEndpoint(endpoint) == Check(endpoint = "own", "missing_config")

\* The estimator is given the reported balance; its outcome never removes it.
WalletMetrics(answer) ==
    {[MetricInput(<<"wallet", answer.currency, "balance">>, Number(answer.balance.n), answer.currency)
        EXCEPT !.marks = {"experimental"}]}
      \cup SpendMetric(answer.currency, answer.estimate)

\* GlmWalletCollector::refresh.
RefreshGlmWallet(item, enabled, answer) ==
    LET secret == QuietSecret(item) IN
    Outcome(<<Check(enabled, "missing_config"),
              Check(Usable(secret), "missing_config"),
              ValidateEndpoint(answer.endpoint),
              Get(secret, answer.http),
              SameOrigin(answer.http),
              ReadJson(answer.http, answer),
              Check(IsNumeric(answer.balance), "compatibility"),
              Check(answer.currency # "", "compatibility")>>,
            WalletMetrics(answer))
================================================================================
