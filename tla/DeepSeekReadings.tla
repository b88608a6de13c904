--------------------------- MODULE DeepSeekReadings ---------------------------
(* The DeepSeek collectors: the documented balance (adapters/deepseek.rs) and   *)
(* the console's billed usage (adapters/deepseek_web.rs).                       *)
EXTENDS Answers, LocalDays

------------------------------------------------------------------------------
(* Balance: [http, json, framed, infos]; framed: is_available is a boolean and  *)
(* balance_infos an array.  An entry is [object, currency, total, granted,      *)
(* toppedUp, estimate].                                                         *)

Components == {"total", "granted", "toppedUp"}
CurrencyCode(entry) ==
    Check(entry.object /\ entry.currency \notin {"", "too long"}, "compatibility")

\* optional_money: absent and null are no amount, a decimal text is one, and
\* anything else makes the answer incompatible.
OptionalMoney(v) == Check(~Given(v) \/ v.is = "numeral", "compatibility")

\* parse_balance, the entries in their order.
ParseBalance(answer) ==
    FirstFailure(<<Check(answer.json, "compatibility"), Check(answer.framed, "compatibility")>>
      \o [i \in 1..Len(answer.infos) |->
            FirstFailure(<<CurrencyCode(answer.infos[i]),
                           OptionalMoney(answer.infos[i].total),
                           OptionalMoney(answer.infos[i].granted),
                           OptionalMoney(answer.infos[i].toppedUp)>>)])

\* Each component is a metric, one that was not reported an unavailable one.
BalanceMetrics(entry) ==
    {Normalize(MetricInput(<<"wallet", entry.currency, c>>,
                           IF Given(entry[c]) THEN Number(entry[c].n) ELSE Absent,
                           entry.currency)) :
       c \in Components}

\* DeepSeekCollector::estimate: a total that was not reported is not recorded.
Estimated(entry) ==
    IF Given(entry.total) THEN SpendMetric(entry.currency, entry.estimate) ELSE {}

\* DeepSeekCollector::refresh.
RefreshDeepSeek(item, answer) ==
    Outcome(<<ResolveApiKey(item),
              Get(KeychainGet(item).secret, answer.http),
              Classify(answer.http.status),
              ParseBalance(answer)>>,
            UNION {BalanceMetrics(e) \cup Estimated(e) : e \in Elements(answer.infos)})

------------------------------------------------------------------------------
(* Billed usage.  An envelope is [http, json, code, data, biz, usage, nested,   *)
(* echo, array, ...]; the codes are numbers or absent, data and biz "object",   *)
(* "absent" or "other", usage says that data itself looks like the payload and  *)
(* array that it has the list of costs or buckets, else empty here.             *)

MissingToken == Number(40002)
InvalidToken == Number(40003)

Verdict(code) ==
    CASE ~IsNumber(code) \/ code.n = 0 -> "none"
      [] code \in {MissingToken, InvalidToken} -> "authentication"
      [] OTHER -> "compatibility"

\* read_envelope.
ReadEnvelope(secret, e) ==
    FirstFailure(<<Get(secret, e.http), SameOrigin(e.http), Classify(e.http.status),
                   Check(e.json, "compatibility"), Verdict(e.code)>>)

\* unreadable_biz_data: the nested verdict, if the answer carries one.
Unreadable(e) == IF Verdict(e.nested) = "none" THEN "compatibility" ELSE Verdict(e.nested)

\* biz_data: under data.biz_data, or directly under data.
BizData(e) ==
    CASE e.data # "object" -> "compatibility"
      [] e.biz = "object" -> "none"
      [] e.biz = "other" -> Unreadable(e)
      [] e.usage -> "none"
      [] OTHER -> Unreadable(e)

\* Costs: a sequence of [currency, series, costs], series: the arrays are there.
MaxMoney == 8
CostEntry(c) ==
    FirstFailure(<<Check(c.currency # "", "compatibility"), Check(c.series, "compatibility"),
                   Check(\A i \in 1..Len(c.costs) : IsNumeric(c.costs[i]) => c.costs[i].n <= MaxMoney,
                         "compatibility")>>)

Currencies(costs) == {c.currency : c \in Elements(costs)}
Total(costs, currency) ==
    LET sums == [i \in 1..Len(costs) |->
                   IF costs[i].currency = currency THEN Number(Sum(costs[i].costs)) ELSE Absent]
    IN Sum(sums)

\* parse_costs: the sum of each currency starts at zero, whatever it finds.
ParseCosts(cost) ==
    FirstFailure(<<Check(cost.array, "compatibility")>>
                   \o [i \in 1..Len(cost.costs) |-> CostEntry(cost.costs[i])]
                   \o <<Check(\A c \in Currencies(cost.costs) : Total(cost.costs, c) <= MaxMoney,
                              "compatibility")>>)

\* parse_amounts: sums that stay absent until a bucket states a part of them.
Counters == {"hit", "miss", "response"}
Tokens(buckets) ==
    [i \in (1..Len(buckets)) \X Counters |-> buckets[i[1]][i[2]]]
Requests(buckets) == [i \in 1..Len(buckets) |-> buckets[i].request]

\* Faulty variant: the sum of a counter nobody states is zero.
SumFromZero(values) == Number(Sum(values))

SumIfStated(values) ==
    IF \E i \in DOMAIN values : IsNumeric(values[i]) THEN Number(Sum(values)) ELSE Absent

\* echo_confirms_window, for both answers.
EchoConfirms(e) == e.echo = "same"

UsageMetric(key, value, unit, scope) ==
    IF Given(value)
      THEN {[MetricInput(key, value, unit) EXCEPT !.scope = scope, !.marks = {"experimental"}]}
      ELSE {}

\* normalize_usage.
UsageMetrics(cost, amount, window) ==
    LET scope == Scope(window, EchoConfirms(cost) /\ EchoConfirms(amount)) IN
    (UNION {UsageMetric(<<"spend", c, "billed">>, Number(Total(cost.costs, c)), c, scope) :
              c \in Currencies(cost.costs)})
      \cup UsageMetric(<<"activity", "tokens">>, SumIfStated(Tokens(amount.buckets)), "tokens", scope)
      \cup UsageMetric(<<"activity", "requests">>, SumIfStated(Requests(amount.buckets)), "requests", scope)

NormalizeUsage(cost, amount, window) ==
    LET parsed == FirstFailure(<<BizData(cost), BizData(amount), ParseCosts(cost),
                                 Check(amount.array, "compatibility")>>)
    IN Outcome(<<parsed>>, IF parsed = "none" THEN UsageMetrics(cost, amount, window) ELSE {})

\* DeepSeekWebCollector::refresh: both requests at once, the cost looked at first.
RefreshDeepSeekWeb(item, enabled, zone, now, answer) ==
    LET secret == QuietSecret(item)
        read == NormalizeUsage(answer.cost, answer.amount, UsageWindow(zone, now))
    IN Outcome(<<Check(enabled, "missing_config"),
                 Check(Usable(secret), "missing_config"),
                 ReadEnvelope(secret, answer.cost),
                 ReadEnvelope(secret, answer.amount),
                 read.kind>>,
               read.metrics)
================================================================================
