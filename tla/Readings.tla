------------------------------- MODULE Readings -------------------------------
(* One connection of the service, from the answer of its provider to its        *)
(* reading: the key in the keychain and the handlers that store and delete it   *)
(* (put_credential, delete_credential, validate_credential in                   *)
(* crates/usage-service/src/api.rs) and the collection (refresh_provider and    *)
(* the collectors).  The provider answers whatever it likes, and any time may   *)
(* pass between a request and its run.  When a run may start and who waits for  *)
(* whom is the matter of RefreshScheduler, what is stored of it and shown that  *)
(* of ConnectionRefresh.                                                        *)
EXTENDS GlmReadings

CONSTANTS Followed,      \* the connections one of which is followed
          ZonesOf(_),    \* the configured timezone
          Days,          \* the instants a run may happen at
          Today,         \* the day Codex is asked about
          AnswersOf(_),  \* the answers of each connection's provider
          Secrets,       \* what a user may paste as a key
          MaxPuts,       \* pasted keys in all
          MaxRuns        \* runs, the last of which ends what is followed

DeepSeek == INSTANCE DeepSeekReadings
Codex == INSTANCE CodexReadings

Experimental == {"glm:wallet", "deepseek:web"}

ASSUME ReadingsAssumption ==
    /\ Followed \subseteq Experimental \cup {"glm:quota", "deepseek:wallet", "codex"}
    /\ \A c \in Followed : ZonesOf(c) \subseteq [Instants -> Int]
    /\ Days \subseteq Instants
    /\ MaxPuts \in Nat /\ MaxRuns \in Nat

\* Where the bounds of a day are asked for, the days of the zone follow each other.
ASSUME ZonesAssumption ==
    \A c \in Followed \cap {"glm:quota", "deepseek:web"} :
      \A z \in ZonesOf(c), t \in Days :
        StartsOnce(z, LocalDay(z, t)) /\ StartsOnce(z, LocalDay(z, t) + 1)

\* Arrays are sequences, and an estimator answers with an amount or with nothing.
ASSUME AnswersAssumption ==
    /\ \A a \in AnswersOf("glm:wallet") : IsEstimate(a.estimate.spend)
    /\ \A a \in AnswersOf("deepseek:wallet") : \A e \in Elements(a.infos) : IsEstimate(e.estimate.spend)
    /\ \A a \in AnswersOf("deepseek:web") :
         /\ IsArray(a.cost.costs)
         /\ \A e \in Elements(a.cost.costs) : IsArray(e.costs)
    /\ \A a \in AnswersOf("codex") : IsArray(a.usage.buckets.entries)

VARIABLES conn,      \* the connection
          zone,      \* the timezone the service was started with
          now,       \* the instant
          item,      \* what the keychain holds
          locked,    \* macOS refuses to read it
          enabled,   \* the switch of an experimental connection
          asked,     \* the instant a request that waits for its run was made, or -1
          put,       \* the key that is being validated, or "none"
          puts,
          accepted,  \* the keys a provider has accepted
          runs,
          last       \* the last run: its outcome, and if it has a reading the
                     \* answer and instant it was made from

readingVars == <<conn, zone, now, item, locked, enabled, asked, put, puts, accepted, runs, last>>

NoReading == [answer |-> <<>>, at |-> -1, outcome |-> Outcome(<<"unknown">>, {})]

ReadingInit ==
    /\ conn \in Followed
    /\ zone \in ZonesOf(conn)
    /\ now \in Days
    /\ item = "stored" /\ accepted = {"stored"}
    /\ locked \in BOOLEAN
    /\ enabled = TRUE
    /\ asked = -1
    /\ put = "none" /\ puts = 0
    /\ runs = 0
    /\ last = NoReading

\* What a read of the keychain finds.
Item == IF locked THEN "denied" ELSE item

\* A collector's refresh with the key it resolves, for a request made at `at`.
\* Only the GLM quota has a context from before the run.
Refresh(key, on, at, answer) ==
    CASE conn = "glm:quota"       -> RefreshGlmQuota(key, zone, at, answer)
      [] conn = "glm:wallet"      -> RefreshGlmWallet(key, on, answer)
      [] conn = "deepseek:wallet" -> DeepSeek!RefreshDeepSeek(key, answer)
      [] conn = "deepseek:web"    -> DeepSeek!RefreshDeepSeekWeb(key, on, zone, now, answer)
      [] conn = "codex"           ->
           IF Codex!Discover(answer.cli) = "none" THEN Codex!RefreshCodex(Today, answer)
           ELSE Outcome(<<Codex!Discover(answer.cli)>>, {})

------------------------------------------------------------------------------

\* The schedule or refresh_provider: a switched-off connection is not attempted.
Ask ==
    /\ asked = -1
    /\ conn \in Experimental => enabled
    /\ asked' = now
    /\ UNCHANGED <<conn, zone, now, item, locked, enabled, put, puts, accepted, runs, last>>

\* The run of refresh_provider.
Collect ==
    /\ asked # -1
    /\ \E answer \in AnswersOf(conn) :
          LET outcome == Refresh(Item, enabled, asked, answer) IN
          last' = IF outcome.kind = "none"
                    THEN [answer |-> answer, at |-> asked, outcome |-> outcome]
                    ELSE [NoReading EXCEPT !.outcome = outcome]
    /\ asked' = -1
    /\ runs' = runs + 1
    /\ UNCHANGED <<conn, zone, now, item, locked, enabled, put, puts, accepted>>

\* put_credential up to the request of validate_credential: a blank key is refused
\* at once, and Codex has no key here.
PutCredential ==
    /\ put = "none" /\ puts < MaxPuts
    /\ conn # "codex"
    /\ put' \in {secret \in Secrets : Usable(secret)}
    /\ puts' = puts + 1
    /\ UNCHANGED <<conn, zone, now, item, locked, enabled, asked, accepted, runs, last>>

\* Faulty variant: the key is stored before it is tried.
StoresUntried ==
    /\ put # "none"
    /\ \E answer \in AnswersOf(conn) :
          accepted' = accepted \cup
            (IF Refresh(put, TRUE, now, answer).kind = "none" THEN {put} ELSE {})
    /\ item' = put
    /\ put' = "none"
    /\ UNCHANGED <<conn, zone, now, locked, enabled, asked, puts, runs, last>>

\* The validation is a refresh with the pasted key, whatever the switch says; a
\* key that passes is written, if macOS lets it.
Validated ==
    /\ put # "none"
    /\ \E answer \in AnswersOf(conn), stored \in BOOLEAN :
          LET passes == Refresh(put, TRUE, now, answer).kind = "none" IN
          /\ accepted' = accepted \cup (IF passes THEN {put} ELSE {})
          /\ item' = IF passes /\ stored /\ KeychainSet(put) = "none" THEN put ELSE item
    /\ put' = "none"
    /\ UNCHANGED <<conn, zone, now, locked, enabled, asked, puts, runs, last>>

DeleteCredential ==
    /\ conn # "codex"
    /\ item # "none"
    /\ item' = "none"
    /\ UNCHANGED <<conn, zone, now, locked, enabled, asked, put, puts, accepted, runs, last>>

\* The user switches an experimental connection.
Switch ==
    /\ conn \in Experimental
    /\ enabled' = ~enabled
    /\ UNCHANGED <<conn, zone, now, item, locked, asked, put, puts, accepted, runs, last>>

\* macOS locks the keychain, or the user unlocks it.
Lock ==
    /\ locked' = ~locked
    /\ UNCHANGED <<conn, zone, now, item, enabled, asked, put, puts, accepted, runs, last>>

Tick ==
    /\ now' \in {t \in Days : t > now}
    /\ UNCHANGED <<conn, zone, item, locked, enabled, asked, put, puts, accepted, runs, last>>

ReadingNext ==
    /\ runs < MaxRuns
    /\ \/ Ask \/ Collect
       \/ PutCredential \/ Validated \/ DeleteCredential
       \/ Switch
       \/ Lock \/ Tick

ReadingSpec == ReadingInit /\ [][ReadingNext]_readingVars

------------------------------------------------------------------------------
(* What an answer states: keys with their numbers.                              *)

WindowsStated(prefix, name, v) ==
    {<<prefix \o <<name, "used">>, v.n>>, <<prefix \o <<name, "remaining">>, 100 - v.n>>}

StatedByGlm(a) ==
    (UNION {WindowsStated(<<"quota">>, QuotaWindow(e), e.percentage) :
              e \in {f \in Elements(a.quota.limits) : QuotaWindow(f) # "unknown"}})
      \cup {<<<<"model", e.name>>, e.count.n>> :
              e \in {f \in Elements(a.models.entries) : f.name # "" /\ IsCount(f.count)}}
      \cup {<<<<"tool", e.name>>, IF IsCount(e.count) THEN e.count.n ELSE e.usage.n>> :
              e \in {f \in Elements(a.tools.entries) :
                       f.name # "" /\ (IsCount(f.count) \/ IsCount(f.usage))}}

StatedEstimate(currency, total, estimate) ==
    {<<<<"spend", currency, "daily">>, v.n>> : v \in {u \in {estimate.spend} : Given(total) /\ Given(u)}}

StatedByDeepSeek(a) ==
    UNION {{<<<<"wallet", e.currency, c>>, e[c].n>> :
              c \in {d \in DeepSeek!Components : Given(e[d])}}
             \cup StatedEstimate(e.currency, e.total, e.estimate) : e \in Elements(a.infos)}

\* Costs by currency, the ones nobody stated left out.
StatedByWeb(a) ==
    {<<<<"spend", c, "billed">>, DeepSeek!Total(a.cost.costs, c)>> :
       c \in {d \in DeepSeek!Currencies(a.cost.costs) :
                \E e \in Elements(a.cost.costs) :
                  e.currency = d /\ \E i \in 1..Len(e.costs) : IsNumeric(e.costs[i])}}
      \cup {<<<<"activity", s[1]>>, Sum(s[2])>> :
              s \in {r \in {<<"tokens", DeepSeek!Tokens(a.amount.buckets)>>,
                            <<"requests", DeepSeek!Requests(a.amount.buckets)>>} :
                       \E i \in DOMAIN r[2] : IsNumeric(r[2][i])}}

StatedByCodex(a) ==
    UNION {(UNION {WindowsStated(<<b.id>>, w, b[w].used) :
                     w \in {v \in {"primary", "secondary"} : b[v].is = "object"}})
             \cup {<<<<b.id, "credits">>, v.n>> : v \in {u \in {b.credits} : IsNumeric(u)}} :
             b \in Codex!Buckets(a.limits)}

Activity(m) == m.key \in {<<"activity", "daily">>, <<"activity", "lifetime">>}

Stated(a) ==
    CASE conn = "glm:quota"       -> StatedByGlm(a)
      [] conn = "glm:wallet"      -> {<<<<"wallet", a.currency, "balance">>, a.balance.n>>}
                                       \cup StatedEstimate(a.currency, a.balance, a.estimate)
      [] conn = "deepseek:wallet" -> StatedByDeepSeek(a)
      [] conn = "deepseek:web"    -> StatedByWeb(a)
      [] conn = "codex"           -> StatedByCodex(a)

------------------------------------------------------------------------------
(* Properties.                                                                  *)

Numbers(metrics) == {<<m.key, m.value.n>> : m \in {k \in metrics : IsNumber(k.value)}}

\* A reading holds exactly the numbers its answer states, under their names: no
\* number is made up where the answer has none, and none is lost.  The activity
\* of Codex may be missing, but is never that of another day; a currency without
\* any cost is billed 0.
ReadingTellsTheAnswer ==
    last.outcome.kind = "none" =>
      LET numbers == Numbers({m \in last.outcome.metrics : conn = "codex" => ~Activity(m)})
          stated == Stated(last.answer)
      IN /\ stated \subseteq numbers
         /\ \A x \in numbers \ stated : conn = "deepseek:web" /\ x[1][1] = "spend" /\ x[2] = 0
         /\ conn = "codex" =>
              \A m \in last.outcome.metrics : m.key = <<"activity", "daily">> =>
                \E e \in Elements(last.answer.usage.buckets.entries) : e.day = Today /\ e.tokens = m.value

\* A range that an answer has confirmed holds the instants of the day it is
\* labelled with, no more and no fewer (the GLM range only those before the
\* request), also where the clock changes at midnight and where the request waited
\* over midnight for its run.
DayIsToday ==
    last.outcome.kind = "none" =>
      \A m \in last.outcome.metrics :
        m.scope.confirmed /\ conn \in {"glm:quota", "deepseek:web"} =>
          {t \in Instants : t >= m.scope.from /\ t < m.scope.to} =
            {t \in Instants : /\ LocalDay(zone, t) = m.scope.day
                              /\ conn = "glm:quota" => t < last.at}

\* The keychain never holds a key the provider has not accepted, whatever is
\* pasted, deleted, switched and locked while a validation is under way.
KeyWasAccepted == item \in accepted \cup {"none"}
================================================================================
