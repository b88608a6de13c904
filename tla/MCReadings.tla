------------------------------ MODULE MCReadings ------------------------------
(* Answers for Readings: a plain one for each connection, and what differs from *)
(* it in one place.                                                             *)
EXTENDS Readings, TLC

Steady == [t \in Instants |-> 0]
\* The clock jumps over midnight; midnight comes twice; the hour before it does.
Spring == [t \in Instants |-> IF t < 8 THEN 0 ELSE 1]
Fall == [t \in Instants |-> IF t < 8 THEN 1 ELSE 0]
FallBefore == [t \in Instants |-> IF t < 8 THEN 0 ELSE -1]
\* The zone matters to the collectors that ask for a range of a local day.
MCZones(c) == IF c \in {"glm:quota", "deepseek:web"} THEN {Steady, Spring, Fall, FallBefore}
              ELSE {Steady}

Vary(r, f, S) == {[r EXCEPT ![f] = v] : v \in S}
VaryAt(r, f, g, S) == {[r EXCEPT ![f][g] = v] : v \in S}

Http == [arrives |-> TRUE, status |-> 200, origin |-> "own"]
Https == {[Http EXCEPT !.arrives = FALSE]} \cup Vary(Http, "status", {204, 304, 401, 429, 500})
           \cup Vary(Http, "origin", {"unreported", "foreign"})
Values == {Number(0), Number(1), Number(-1), Number(101), Numeral(2), Word, Null, Absent, Other}
Few == {Number(0), Number(1), Numeral(2), Absent}

------------------------------------------------------------------------------
FiveHours == [type |-> "TOKENS_LIMIT", unit |-> 3, number |-> 5, duration |-> "none",
              percentage |-> Number(40), reset |-> Number(5)]
Entries == Vary(FiveHours, "percentage", Values) \cup Vary(FiveHours, "reset", Values)
             \cup [type : {"TIME_LIMIT", "TOKENS_LIMIT", "WEEKLY_LIMIT", "OTHER"}, unit : {0, 3, 6},
                   number : {1, 5}, duration : {"none", "5h", "168h", "1w"},
                   percentage : {Number(70)}, reset : {Absent}]
Use(n, c, u) == [name |-> n, count |-> c, usage |-> u]
Models == [http |-> Http, json |-> TRUE, rejected |-> "no", echo |-> "same",
           entries |-> <<Use("m1", Number(3), Absent)>>]
Quotas == [http |-> Http, json |-> TRUE, rejected |-> "no", array |-> TRUE,
           limits |-> <<FiveHours>>]
Plain == [models |-> Models, tools |-> [Models EXCEPT !.echo = "none"], quota |-> Quotas]
Bodies(f) == VaryAt(Plain, f, "http", Https) \cup VaryAt(Plain, f, "json", {FALSE})
               \cup VaryAt(Plain, f, "rejected", {"plan", "key"})
GlmQuotaAnswers ==
    {Plain} \cup Bodies("models") \cup Bodies("tools") \cup Bodies("quota")
      \cup VaryAt(Plain, "quota", "limits",
                  {<<>>} \cup {<<e>> : e \in Entries}
                    \cup {<<FiveHours, e>> : e \in Vary(FiveHours, "percentage", Values)})
      \cup {[Plain EXCEPT !.quota.array = FALSE, !.quota.limits = <<>>]}
      \cup VaryAt(Plain, "models", "echo", {"other", "none"})
      \cup VaryAt(Plain, "models", "entries",
                  {<<>>} \cup {<<Use(n, v, Number(1))>> : n \in {"", "m1"}, v \in Values})
      \cup VaryAt(Plain, "tools", "entries", {<<Use("t1", v, w)>> : v, w \in Few})

------------------------------------------------------------------------------
Estimates == [spend : {Number(0), Number(2), Absent}, day : {1}, partial : BOOLEAN]
Wallet == [http |-> Http, json |-> TRUE, rejected |-> "no", balance |-> Number(4), currency |-> "CNY",
           endpoint |-> "own", estimate |-> [spend |-> Number(1), day |-> 1, partial |-> FALSE]]
GlmWalletAnswers ==
    {Wallet} \cup Vary(Wallet, "http", Https) \cup Vary(Wallet, "json", {FALSE})
      \cup Vary(Wallet, "rejected", {"plan", "key"}) \cup Vary(Wallet, "balance", Values)
      \cup Vary(Wallet, "currency", {""}) \cup Vary(Wallet, "endpoint", Endpoints)
      \cup Vary(Wallet, "estimate", Estimates)

Info == [object |-> TRUE, currency |-> "CNY", total |-> Numeral(5), granted |-> Numeral(2),
         toppedUp |-> Absent, estimate |-> Wallet.estimate]
Infos == Vary(Info, "object", {FALSE}) \cup Vary(Info, "currency", {"", "too long"})
           \cup UNION {Vary(Info, c, Values) : c \in {"total", "granted", "toppedUp"}}
           \cup Vary(Info, "estimate", Estimates)
Balance == [http |-> Http, json |-> TRUE, framed |-> TRUE, infos |-> <<Info>>]
DeepSeekAnswers ==
    {Balance} \cup Vary(Balance, "http", Https) \cup Vary(Balance, "json", {FALSE})
      \cup Vary(Balance, "framed", {FALSE})
      \cup Vary(Balance, "infos", {<<>>} \cup {<<i>> : i \in Infos}
                  \cup {<<[Info EXCEPT !.currency = "USD"], i>> : i \in Infos})

------------------------------------------------------------------------------
Envelope == [http |-> Http, json |-> TRUE, code |-> Number(0), data |-> "object", biz |-> "object",
             usage |-> FALSE, nested |-> Absent, echo |-> "same", array |-> TRUE]
Costs(c, s) == [currency |-> c, series |-> TRUE, costs |-> s]
Cost == Envelope @@ [costs |-> <<Costs("CNY", <<Number(2), Numeral(1)>>)>>]
Bucket(h, m, r, q) == [hit |-> h, miss |-> m, response |-> r, request |-> q]
Amount == Envelope @@ [buckets |-> <<Bucket(Number(1), Absent, Number(2), Number(1))>>]
Web == [cost |-> Cost, amount |-> Amount]
Envelopes(f) ==
    VaryAt(Web, f, "http", Https) \cup VaryAt(Web, f, "json", {FALSE})
      \cup VaryAt(Web, f, "code", {Number(40002), Number(40003), Number(7), Word, Absent})
      \cup VaryAt(Web, f, "data", {"other", "absent"})
      \cup {[Web EXCEPT ![f].biz = b, ![f].usage = u, ![f].nested = n] :
              b \in {"other", "absent"}, u \in BOOLEAN, n \in {Absent, Number(0), Number(40003), Number(7)}}
      \cup VaryAt(Web, f, "echo", {"other", "none"})
WebAnswers ==
    {Web} \cup Envelopes("cost") \cup Envelopes("amount")
      \cup {[Web EXCEPT !.cost.array = FALSE, !.cost.costs = <<>>],
            [Web EXCEPT !.amount.array = FALSE, !.amount.buckets = <<>>]}
      \cup VaryAt(Web, "cost", "costs",
             {<<>>, <<[Costs("CNY", <<>>) EXCEPT !.series = FALSE]>>,
              <<Costs("", <<Number(1)>>)>>, <<Costs("CNY", <<Number(8)>>), Costs("CNY", <<Number(8)>>)>>,
              <<Costs("CNY", <<Number(1)>>), Costs("USD", <<>>), Costs("CNY", <<Number(3), Absent>>)>>}
             \cup {<<Costs("USD", <<v, w>>)>> : v \in Values, w \in Few})
      \cup VaryAt(Web, "amount", "buckets",
             {<<>>}
             \cup {<<Bucket(v, w, Absent, v)>> : v \in Values, w \in Few}
             \cup {<<Bucket(Number(1), Number(1), Number(1), Absent), Bucket(Absent, Absent, v, w)>> :
                     v, w \in Few})

------------------------------------------------------------------------------
Cli == [configured |-> FALSE, path |-> [absolute |-> TRUE, place |-> "available"],
        places |-> <<"missing", "available">>]
Clis == Vary(Cli, "places", [1..3 -> Codex!Places])
          \cup {[Cli EXCEPT !.configured = TRUE, !.path.absolute = a, !.path.place = p] :
                  a \in BOOLEAN, p \in Codex!Places}
Week == [is |-> "object", used |-> Number(30), minutes |-> Number(10), resets |-> Number(7)]
NoWindow == [Week EXCEPT !.is = "absent"]
Windows == {NoWindow, [Week EXCEPT !.is = "other"]}
             \cup UNION {Vary(Week, f, Values) : f \in {"used", "minutes", "resets"}}
Limit(id) == [object |-> TRUE, id |-> id, primary |-> Week, secondary |-> NoWindow, credits |-> Numeral(2)]
Limits == [object |-> TRUE, byId |-> {Limit("codex")}, legacy |-> "absent", bucket |-> Limit("codex")]
LimitBuckets == Vary(Limit("codex"), "object", {FALSE})
             \cup UNION {Vary(Limit("codex"), f, Windows) : f \in {"primary", "secondary"}}
             \cup Vary(Limit("codex"), "credits", Values)
Day(d, v) == [object |-> TRUE, day |-> d, tokens |-> v]
Usage == [summary |-> TRUE, lifetime |-> Number(9),
          buckets |-> [is |-> "array", entries |-> <<Day("past", Number(1)), Day("today", Number(2))>>]]
Usages == Vary(Usage, "summary", {FALSE}) \cup Vary(Usage, "lifetime", Values)
            \cup VaryAt(Usage, "buckets", "is", {"absent", "other"})
            \cup VaryAt(Usage, "buckets", "entries",
                   {<<Day(d, v), Day(e, w)>> : d, e \in {"", "past", "today"}, v, w \in {Number(0), Number(3), Null}}
                   \cup {<<[Day("past", Number(1)) EXCEPT !.object = FALSE]>>})
CodexPlain == [cli |-> Cli, accountRpc |-> "none", account |-> Other, limitsRpc |-> "none",
               limits |-> Limits, usageRpc |-> "none", usage |-> Usage]
RpcKinds == {"process", "network", "compatibility", "authentication"}
CodexAnswers ==
    {CodexPlain} \cup Vary(CodexPlain, "cli", Clis)
      \cup UNION {Vary(CodexPlain, f, RpcKinds) : f \in {"accountRpc", "limitsRpc", "usageRpc"}}
      \cup Vary(CodexPlain, "account", {Null, Absent})
      \cup VaryAt(CodexPlain, "limits", "object", {FALSE})
      \cup {[CodexPlain EXCEPT !.limits.byId = S, !.limits.legacy = l] :
              S \in {{}, {Limit("codex"), [Limit("spark") EXCEPT !.secondary = Week]}},
              l \in {"absent", "other", "bucket"}}
      \cup VaryAt(CodexPlain, "limits", "byId", {{b} : b \in LimitBuckets})
      \cup Vary(CodexPlain, "usage", Usages)

------------------------------------------------------------------------------
MCAnswers(c) ==
    CASE c = "glm:quota"       -> GlmQuotaAnswers
      [] c = "glm:wallet"      -> GlmWalletAnswers
      [] c = "deepseek:wallet" -> DeepSeekAnswers
      [] c = "deepseek:web"    -> WebAnswers
      [] c = "codex"           -> CodexAnswers
================================================================================
