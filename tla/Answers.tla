------------------------------- MODULE Answers -------------------------------
(* What the collectors of usage-core share: the values of a JSON answer, the    *)
(* HTTP transport with its classification of failures, the metrics a reading is *)
(* made of, and the state of a card.  No text is modelled: a value of an answer *)
(* is a number, a text that spells one, another text, null, absent, or a value  *)
(* of another type.                                                             *)
EXTENDS Integers, Sequences, FiniteSets

Number(n)  == [is |-> "number", n |-> n]
Numeral(n) == [is |-> "numeral", n |-> n]
Word       == [is |-> "word", n |-> 0]
Null       == [is |-> "null", n |-> 0]
Absent     == [is |-> "absent", n |-> 0]
Other      == [is |-> "other", n |-> 0]

IsNumber(v) == v.is = "number"
\* A number, or a text that spells one without doubt.
IsNumeric(v) == v.is \in {"number", "numeral"}
Given(v) == v.is \notin {"null", "absent"}
IsCount(v) == IsNumber(v) /\ v.n >= 0
IsPercentage(v) == IsNumber(v) /\ v.n \in 0..100
\* The first of two fields that holds a number.
Either(v, w) == IF IsCount(v) THEN v ELSE w

SumOf(S) == LET sum[T \in SUBSET S] ==
                  IF T = {} THEN 0
                  ELSE LET t == CHOOSE t \in T : TRUE IN t[1] + sum[T \ {t}]
            IN  sum[S]

\* The sum of the numbers found at the given places: values is a function.
Sum(values) == SumOf({<<values[i].n, i>> : i \in {j \in DOMAIN values : IsNumeric(values[j])}})

Elements(s) == {s[i] : i \in 1..Len(s)}
IsArray(s) == s \in Seq(Elements(s))
IsEstimate(v) == Given(v) => IsNumber(v)

------------------------------------------------------------------------------
(* Failures and outcomes.                                                       *)

ErrorKinds == {"missing_config", "authentication", "compatibility", "network",
               "rate_limit", "process", "storage"}

\* The first of a sequence of checks that fails, as the chain of ? operators
\* reports it; "none" when all of them pass.
FirstFailure(checks) ==
    LET failed == {i \in 1..Len(checks) : checks[i] # "none"} IN
    IF failed = {} THEN "none" ELSE checks[CHOOSE i \in failed : \A j \in failed : i <= j]

Check(holds, kind) == IF holds THEN "none" ELSE kind

\* A collector answers with all of its metrics or with an error and none.
Outcome(checks, metrics) ==
    LET kind == FirstFailure(checks) IN
    [kind |-> kind, metrics |-> IF kind = "none" THEN metrics ELSE {}]

------------------------------------------------------------------------------
(* ReqwestTransport: a response is [arrives, status, origin]; a redirect to     *)
(* another scheme or host, a timeout and a broken connection do not arrive.     *)

Classify(status) ==
    CASE status \in 200..299 -> "none"
      [] status \in {401, 403} -> "authentication"
      [] status = 429 -> "rate_limit"
      [] OTHER -> "network"

\* A credential that fits in no header is refused before anything is sent.
Headers(secret) == Check(secret # "unprintable", "compatibility")

Get(secret, response) ==
    FirstFailure(<<Headers(secret),
                   Check(response.arrives, "network"),
                   Classify(response.status)>>)

\* ensure_same_origin: a transport need not report the final URL.
SameOrigin(response) == Check(response.origin \in {"own", "unreported"}, "network")

------------------------------------------------------------------------------
(* Credentials: what the keychain holds for a connection.                       *)

\* keychain_get_sync: an empty item and a missing one are both "no secret".
KeychainGet(item) ==
    CASE item = "denied" -> [kind |-> "authentication", secret |-> "none"]
      [] item \in {"none", "empty"} -> [kind |-> "none", secret |-> "none"]
      [] OTHER -> [kind |-> "none", secret |-> item]

\* keychain_set_sync refuses what is blank after trimming.
KeychainSet(secret) == Check(secret \notin {"none", "blank"}, "missing_config")

Usable(secret) == secret \notin {"none", "blank"}

\* The resolvers of build_collectors drop the error of a refused read ...
QuietSecret(item) == KeychainGet(item).secret
\* ... except that of the DeepSeek balance.
ResolveApiKey(item) ==
    FirstFailure(<<KeychainGet(item).kind,
                   Check(Usable(KeychainGet(item).secret), "missing_config")>>)

------------------------------------------------------------------------------
(* Metrics.                                                                     *)

NoScope == [day |-> 0, from |-> 0, to |-> 0, confirmed |-> FALSE]

\* A metric before normalization; a window or reset of 0 is absent.
MetricInput(key, value, unit) ==
    [key |-> key, value |-> value, unit |-> unit, window |-> 0, reset |-> 0,
     scope |-> NoScope, marks |-> {"authoritative"}]

\* UsageMetric::normalize: an absent value becomes null and says it is unavailable.
Normalize(input) ==
    IF Given(input.value) THEN input
    ELSE [input EXCEPT !.value = Null, !.marks = @ \cup {"unavailable"}]

\* UsageMetric::validate.
Validate(metric) ==
    /\ metric.key # <<>> /\ metric.unit # ""
    /\ metric.marks # {}
    /\ metric.unit = "percent" /\ IsNumber(metric.value) => IsPercentage(metric.value)

\* Used and remaining share of one quota window.
Quota(prefix, used, window, reset) ==
    {[Normalize(MetricInput(Append(prefix, side[1]), Number(side[2]), "percent"))
         EXCEPT !.window = window, !.reset = reset] :
       side \in {<<"used", used.n>>, <<"remaining", 100 - used.n>>}}

\* The daily spend a wallet's estimator computed; a failed estimate is absent
\* and never takes the balance with it.
SpendMetric(currency, estimate) ==
    IF Given(estimate.spend)
      THEN {[MetricInput(<<"spend", currency, "daily">>, estimate.spend, currency)
               EXCEPT !.scope = [day |-> estimate.day, from |-> 0, to |-> 0, confirmed |-> TRUE],
                      !.marks = {"estimated"} \cup (IF estimate.partial THEN {"partial"} ELSE {})]}
      ELSE {}

================================================================================
