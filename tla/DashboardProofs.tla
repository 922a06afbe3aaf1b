---------------------------- MODULE DashboardProofs ----------------------------
(***************************************************************************)
(* Proofs about Dashboard, for any number of rows, of changes during a     *)
(* request and any limit of a list: the figures of one answer agree, and   *)
(* successive answers advance.                                             *)
(*                                                                         *)
(* Both follow from how far an answered figure and the present count of    *)
(* its query may be apart (StaysNear), which each change of the table      *)
(* moves by one row at most.                                               *)
(***************************************************************************)
EXTENDS Dashboard, FiniteSetTheorems, TLAPS

-----------------------------------------------------------------------------
(* Least and greatest numbers.                                             *)

LEMMA MinOfTwo ==
    ASSUME NEW a \in Int, NEW b \in Int
    PROVE  Min({a, b}) = IF a <= b THEN a ELSE b
BY DEF Min

LEMMA SumsGrow ==
    ASSUME NEW a \in Nat, NEW b \in Nat, NEW c \in Nat, NEW d \in Nat, a <= c, b <= d
    PROVE  a + b <= c + d /\ a + b \in Nat /\ c + d \in Nat
OBVIOUS

LessThan == OpToRel(<, Nat)

LEMMA Least ==
    ASSUME NEW T \in SUBSET Nat, T # {}
    PROVE  \E m \in T : \A n \in T : m <= n
<1>1. IsWellFoundedOn(LessThan, Nat)
    BY NatLessThanWellFounded DEF LessThan
<1>2. LessThan = {p \in Nat \X Nat : p[1] < p[2]}
    BY DEF LessThan, OpToRel
<1>3. PICK m \in T : \A n \in T : <<n, m>> \notin LessThan
    BY <1>1, WFMin
<1>4. \A n \in T : ~ (n < m)
    BY <1>2, <1>3
<1> QED
    BY <1>3, <1>4

\* A set of numbers with a bound has a greatest one.
LEMMA MaxOfBounded ==
    ASSUME NEW b \in Nat, NEW S \in SUBSET (0..b), S # {}
    PROVE  Max(S) \in S
<1> DEFINE T == {b - x : x \in S}
<1>1. T \in SUBSET Nat /\ T # {}
  <2>1. \A x \in S : b - x \in Nat
    OBVIOUS
  <2>2. PICK x \in S : TRUE
    OBVIOUS
  <2>3. b - x \in T
    OBVIOUS
  <2> QED
    BY <2>1, <2>3
<1>2. PICK m \in T : \A n \in T : m <= n
    BY <1>1, Least
<1>3. PICK x \in S : m = b - x
    OBVIOUS
<1>4. \A y \in S : x >= y
    BY <1>2, <1>3
<1> QED
    BY <1>3, <1>4 DEF Max

-----------------------------------------------------------------------------
(* The queries of the endpoints.                                           *)

LEMMA QueriesAre ==
    /\ Queries["log_stats"] = LogStats
    /\ Queries["anomaly_summary"] = AnomalySummary
    /\ Queries["confidence_distribution"] = ConfidenceDistribution
    /\ Queries["alert_stats"] = AlertStats
    /\ Queries["system_summary"] = SystemSummary
    /\ Queries["pipeline_health"] = PipelineHealth
    /\ Queries["list_services"] = Services
    /\ Queries["service_trend"] = Trend
    /\ Queries["list_logs"] = List(Logs)
    /\ Queries["list_analyses"] = List(Analyses)
    /\ Queries["list_alerts"] = List(Alerts)
    /\ Queries["get_log"] = ById(Logs)
    /\ Queries["get_analysis"] = ById(Analyses)
    /\ Queries["get_alert"] = ById(Alerts)
    /\ Requests = {"log_stats", "anomaly_summary", "confidence_distribution", "alert_stats",
                   "system_summary", "pipeline_health", "list_services", "service_trend",
                   "list_logs", "list_analyses", "list_alerts", "get_log", "get_analysis",
                   "get_alert"}
BY DEF Queries, Requests

LEMMA QueryFields ==
    ASSUME NEW name, NEW t, NEW marks, NEW window
    PROVE  /\ Q(name, t, marks, window).name = name
           /\ Q(name, t, marks, window).table = t
           /\ Q(name, t, marks, window).marks = marks
           /\ Q(name, t, marks, window).window = window
BY DEF Q

\* Every query has a number and a window.
HaveWindows(queries) ==
    /\ DOMAIN queries \subseteq Nat
    /\ \A i \in DOMAIN queries : queries[i].window \in Windows

LEMMA WindowsOfQueries == \A r \in Requests : HaveWindows(Queries[r])
<1> USE QueryFields DEF HaveWindows, Count, Windows, M5, H1, H24, D7, Ever
<1>1. HaveWindows(LogStats)
    BY DEF LogStats
<1>2. HaveWindows(AnomalySummary)
    BY DEF AnomalySummary
<1>3. HaveWindows(ConfidenceDistribution)
    BY DEF ConfidenceDistribution
<1>4. HaveWindows(AlertStats)
    BY DEF AlertStats
<1>5. HaveWindows(SystemSummary)
    BY DEF SystemSummary
<1>6. HaveWindows(PipelineHealth)
    BY DEF PipelineHealth
<1>7. HaveWindows(Services) /\ HaveWindows(Trend)
    BY DEF Services, Trend
<1>8. \A t \in Tables : HaveWindows(List(t)) /\ HaveWindows(ById(t))
    BY DEF List, ById
<1> HIDE DEF HaveWindows
<1> QED
    BY <1>1, <1>2, <1>3, <1>4, <1>5, <1>6, <1>7, <1>8, QueriesAre DEF Tables

LEMMA QueryWindow ==
    ASSUME NEW r \in Requests, NEW n \in Names(r)
    PROVE  QueryOf(r, n).window \in Windows /\ Place(r, n) \in Nat
<1>1. \E i \in DOMAIN Queries[r] : Queries[r][i].name = n
    BY DEF Names
<1>2. Place(r, n) \in DOMAIN Queries[r]
    BY <1>1 DEF Place
<1> QED
    BY <1>2, WindowsOfQueries DEF QueryOf, HaveWindows

\* A query is found at its place, if no other one has its name.
LEMMA PlaceIs ==
    ASSUME NEW r, NEW i \in DOMAIN Queries[r], NEW n, Queries[r][i].name = n,
           \A j \in DOMAIN Queries[r] : Queries[r][j].name = n => j = i
    PROVE  Place(r, n) = i /\ QueryOf(r, n) = Queries[r][i]
BY DEF Place, QueryOf

LEMMA LogStatsPlaces ==
    LET At(n, i, q) == Place("log_stats", n) = i /\ QueryOf("log_stats", n) = q IN
    /\ At("total", 1, Count("total", Logs, H24))
    /\ At("by_level", 2, Count("by_level", Logs, H24))
    /\ At("by_service", 3, Count("by_service", Logs, H24))
    /\ At("error_rate", 4, Count("error_rate", Logs, H1))
<1>1. /\ DOMAIN LogStats = 1..4
      /\ LogStats[1] = Count("total", Logs, H24)
      /\ LogStats[2] = Count("by_level", Logs, H24)
      /\ LogStats[3] = Count("by_service", Logs, H24)
      /\ LogStats[4] = Count("error_rate", Logs, H1)
    BY DEF LogStats
<1>2. /\ LogStats[1].name = "total" /\ LogStats[2].name = "by_level"
      /\ LogStats[3].name = "by_service" /\ LogStats[4].name = "error_rate"
    BY <1>1, QueryFields DEF Count
<1> QED
    BY <1>1, <1>2, PlaceIs, QueriesAre

LEMMA AnomalySummaryPlaces ==
    LET At(n, i, q) == Place("anomaly_summary", n) = i /\ QueryOf("anomaly_summary", n) = q IN
    /\ At("total", 1, Count("total", Analyses, Ever))
    /\ At("by_severity", 2, Count("by_severity", Analyses, Ever))
    /\ At("last_24h", 3, Count("last_24h", Analyses, H24))
    /\ At("top_services", 4, Count("top_services", Analyses, D7))
<1>1. /\ DOMAIN AnomalySummary = 1..4
      /\ AnomalySummary[1] = Count("total", Analyses, Ever)
      /\ AnomalySummary[2] = Count("by_severity", Analyses, Ever)
      /\ AnomalySummary[3] = Count("last_24h", Analyses, H24)
      /\ AnomalySummary[4] = Count("top_services", Analyses, D7)
    BY DEF AnomalySummary
<1>2. /\ AnomalySummary[1].name = "total" /\ AnomalySummary[2].name = "by_severity"
      /\ AnomalySummary[3].name = "last_24h" /\ AnomalySummary[4].name = "top_services"
    BY <1>1, QueryFields DEF Count
<1> QED
    BY <1>1, <1>2, PlaceIs, QueriesAre

LEMMA ConfidencePlaces ==
    LET At(n, i, q) == /\ Place("confidence_distribution", n) = i
                       /\ QueryOf("confidence_distribution", n) = q
    IN
    /\ At("distribution", 1, Count("distribution", Analyses, Ever))
    /\ At("average", 2, Count("average", Analyses, Ever))
    /\ At("total", 3, Count("total", Analyses, Ever))
<1>1. /\ DOMAIN ConfidenceDistribution = 1..3
      /\ ConfidenceDistribution[1] = Count("distribution", Analyses, Ever)
      /\ ConfidenceDistribution[2] = Count("average", Analyses, Ever)
      /\ ConfidenceDistribution[3] = Count("total", Analyses, Ever)
    BY DEF ConfidenceDistribution
<1>2. /\ ConfidenceDistribution[1].name = "distribution"
      /\ ConfidenceDistribution[2].name = "average"
      /\ ConfidenceDistribution[3].name = "total"
    BY <1>1, QueryFields DEF Count
<1> QED
    BY <1>1, <1>2, PlaceIs, QueriesAre

LEMMA AlertStatsPlaces ==
    LET At(n, i, q) == Place("alert_stats", n) = i /\ QueryOf("alert_stats", n) = q IN
    /\ At("total", 1, Count("total", Alerts, Ever))
    /\ At("sent", 2, Q("sent", Alerts, {"sent"}, Ever))
    /\ At("by_severity", 3, Count("by_severity", Alerts, Ever))
<1>1. /\ DOMAIN AlertStats = 1..3
      /\ AlertStats[1] = Count("total", Alerts, Ever)
      /\ AlertStats[2] = Q("sent", Alerts, {"sent"}, Ever)
      /\ AlertStats[3] = Count("by_severity", Alerts, Ever)
    BY DEF AlertStats
<1>2. /\ AlertStats[1].name = "total" /\ AlertStats[2].name = "sent"
      /\ AlertStats[3].name = "by_severity"
    BY <1>1, QueryFields DEF Count
<1> QED
    BY <1>1, <1>2, PlaceIs, QueriesAre

LEMMA SystemSummaryPlaces ==
    LET At(n, i, q) == Place("system_summary", n) = i /\ QueryOf("system_summary", n) = q IN
    /\ At("logs_1h", 1, Count("logs_1h", Logs, H1))
    /\ At("logs_24h", 2, Count("logs_24h", Logs, H24))
    /\ At("error_rate", 3, Count("error_rate", Logs, H1))
    /\ At("anomalies_24h", 4, Count("anomalies_24h", Analyses, H24))
    /\ At("critical", 5, Q("critical", Analyses, {"critical"}, H24))
    /\ At("avg_confidence", 6, Count("avg_confidence", Analyses, H24))
    /\ At("sent", 7, Q("sent", Alerts, {"sent"}, H24))
    /\ At("suppressed", 8, Q("suppressed", Alerts, {"suppressed"}, H24))
    /\ At("avg_analysis_ms", 9, Count("avg_analysis_ms", Analyses, H24))
<1>1. /\ DOMAIN SystemSummary = 1..9
      /\ SystemSummary[1] = Count("logs_1h", Logs, H1)
      /\ SystemSummary[2] = Count("logs_24h", Logs, H24)
      /\ SystemSummary[3] = Count("error_rate", Logs, H1)
      /\ SystemSummary[4] = Count("anomalies_24h", Analyses, H24)
      /\ SystemSummary[5] = Q("critical", Analyses, {"critical"}, H24)
      /\ SystemSummary[6] = Count("avg_confidence", Analyses, H24)
      /\ SystemSummary[7] = Q("sent", Alerts, {"sent"}, H24)
      /\ SystemSummary[8] = Q("suppressed", Alerts, {"suppressed"}, H24)
      /\ SystemSummary[9] = Count("avg_analysis_ms", Analyses, H24)
    BY DEF SystemSummary
<1>2. /\ SystemSummary[1].name = "logs_1h" /\ SystemSummary[2].name = "logs_24h"
      /\ SystemSummary[3].name = "error_rate" /\ SystemSummary[4].name = "anomalies_24h"
      /\ SystemSummary[5].name = "critical" /\ SystemSummary[6].name = "avg_confidence"
      /\ SystemSummary[7].name = "sent" /\ SystemSummary[8].name = "suppressed"
      /\ SystemSummary[9].name = "avg_analysis_ms"
    BY <1>1, QueryFields DEF Count
<1> QED
    BY <1>1, <1>2, PlaceIs, QueriesAre

LEMMA ListPlaces ==
    ASSUME NEW t, NEW r, Queries[r] = List(t)
    PROVE  Place(r, "list") = 1 /\ QueryOf(r, "list") = Count("list", t, Ever)
<1>1. DOMAIN List(t) = 1..1 /\ List(t)[1] = Count("list", t, Ever)
    BY DEF List
<1>2. List(t)[1].name = "list"
    BY <1>1, QueryFields DEF Count
<1> QED
    BY <1>1, <1>2, PlaceIs

-----------------------------------------------------------------------------
(* The rows that a query counts.                                           *)

Hits(q, marks) == {i \in DOMAIN rows : rows[i].mark \in marks /\ rows[i].age <= q.window}

RowsOK == table \in Tables /\ rows \in Seq(Row(table))

LEMMA RowsAre ==
    ASSUME RowsOK
    PROVE  /\ DOMAIN rows = 1..Len(rows) /\ Len(rows) \in Nat
           /\ \A i \in DOMAIN rows : rows[i].mark \in Marks(table) /\ rows[i].age \in Windows
<1>1. /\ DOMAIN rows = 1..Len(rows) /\ Len(rows) \in Nat
      /\ \A i \in DOMAIN rows : rows[i] \in Row(table)
    BY DEF RowsOK
<1> QED
    BY <1>1 DEF Row

LEMMA Upto ==
    ASSUME NEW n \in Nat
    PROVE  IsFiniteSet(1..n) /\ Cardinality(1..n) = n
<1>1. IsFiniteSet(1..n) /\ Cardinality(1..n) = IF 1 > n THEN 0 ELSE n - 1 + 1
    BY FS_Interval
<1> QED
    BY <1>1

LEMMA HitsFinite ==
    ASSUME RowsOK, NEW q, NEW marks
    PROVE  /\ IsFiniteSet(Hits(q, marks)) /\ Matching(q, marks) = Cardinality(Hits(q, marks))
           /\ Matching(q, marks) \in Nat /\ Matching(q, marks) <= Len(rows)
<1>1. Hits(q, marks) \in SUBSET (1..Len(rows))
    BY RowsAre DEF Hits
<1>2. IsFiniteSet(1..Len(rows)) /\ Cardinality(1..Len(rows)) = Len(rows)
    BY RowsAre, Upto
<1>3. /\ IsFiniteSet(Hits(q, marks)) /\ Cardinality(Hits(q, marks)) <= Len(rows)
      /\ Cardinality(Hits(q, marks)) \in Nat
    BY <1>1, <1>2, FS_Subset, FS_CardinalityType
<1>4. Matching(q, marks) = Cardinality(Hits(q, marks))
    BY DEF Matching, Hits
<1> QED
    BY <1>3, <1>4

\* A wider window and more marks count more rows.
LEMMA MatchingGrows ==
    ASSUME RowsOK, NEW p, NEW q, NEW m, NEW n, m \subseteq n,
           p.window \in Windows, q.window \in Windows, p.window <= q.window
    PROVE  Matching(p, m) <= Matching(q, n)
<1>1. Hits(p, m) \subseteq Hits(q, n)
    BY RowsAre DEF Hits, Windows, M5, Ever
<1>2. Cardinality(Hits(p, m)) <= Cardinality(Hits(q, n))
    BY <1>1, HitsFinite, FS_Subset
<1> QED
    BY <1>2, HitsFinite

\* All marks and no window count all rows.
LEMMA MatchingAll ==
    ASSUME RowsOK, NEW q, q.window = Ever
    PROVE  Matching(q, Marks(table)) = Len(rows)
<1>1. Hits(q, Marks(table)) = 1..Len(rows)
    BY RowsAre DEF Hits, Windows, M5, Ever
<1>2. Cardinality(1..Len(rows)) = Len(rows)
    BY RowsAre, Upto
<1> QED
    BY <1>1, <1>2, HitsFinite

\* A row that is inserted adds itself.
LEMMA InsertMatching ==
    ASSUME RowsOK, NEW r \in Row(table), Insert(r), NEW q, NEW m
    PROVE  /\ RowsOK' /\ Len(rows') = Len(rows) + 1
           /\ Matching(q, m)' \in {Matching(q, m), Matching(q, m) + 1}
<1>1. rows' = Append(rows, r) /\ table' = table
    BY DEF Insert
<1>2. RowsOK'
    BY <1>1 DEF RowsOK
<1>3. /\ Len(rows') = Len(rows) + 1 /\ DOMAIN rows' = 1..(Len(rows) + 1)
      /\ \A i \in DOMAIN rows : rows'[i] = rows[i]
      /\ DOMAIN rows = 1..Len(rows) /\ Len(rows) \in Nat
    BY <1>1 DEF RowsOK
<1>4. \/ Hits(q, m)' = Hits(q, m)
      \/ Hits(q, m)' = Hits(q, m) \cup {Len(rows) + 1}
    BY <1>3 DEF Hits
<1>5. Len(rows) + 1 \notin Hits(q, m)
    BY <1>3 DEF Hits
<1>6. /\ IsFiniteSet(Hits(q, m)) /\ Matching(q, m) = Cardinality(Hits(q, m))
    BY HitsFinite
<1>7. Matching(q, m)' = Cardinality(Hits(q, m)')
    BY DEF Matching, Hits
<1>8. Cardinality(Hits(q, m) \cup {Len(rows) + 1}) = Cardinality(Hits(q, m)) + 1
    BY <1>5, <1>6, FS_AddElement
<1> QED
    BY <1>2, <1>3, <1>4, <1>6, <1>7, <1>8

\* A row that grows older leaves one window at most, and not the widest.
LEMMA AgeMatching ==
    ASSUME RowsOK, NEW i \in DOMAIN rows, Age(i), NEW q, NEW m, q.window \in Windows
    PROVE  /\ RowsOK' /\ Len(rows') = Len(rows)
           /\ Matching(q, m)' \in {Matching(q, m), Matching(q, m) - 1} /\ Matching(q, m)' \in Nat
           /\ q.window = Ever => Matching(q, m)' = Matching(q, m)
<1>1. /\ rows' = [rows EXCEPT ![i].age = @ + 1] /\ table' = table
      /\ rows[i].age < Ever
    BY DEF Age
<1>2. rows[i].age + 1 \in Windows /\ rows[i].age \in Windows
    BY <1>1, RowsAre DEF Windows, M5, Ever
<1>3. /\ DOMAIN rows' = DOMAIN rows /\ Len(rows') = Len(rows)
      /\ \A j \in DOMAIN rows : j # i => rows'[j] = rows[j]
      /\ rows'[i] = [rows[i] EXCEPT !.age = @ + 1]
    BY <1>1 DEF RowsOK
<1>4. rows'[i] \in Row(table) /\ rows'[i].mark = rows[i].mark
      /\ rows'[i].age = rows[i].age + 1
  <2>1. rows[i] \in Row(table)
    BY DEF RowsOK
  <2> QED
    BY <1>2, <1>3, <2>1 DEF Row
<1>5. RowsOK'
  <2>1. \A j \in 1..Len(rows) : rows'[j] \in Row(table)
    BY <1>3, <1>4, RowsAre DEF RowsOK
  <2> QED
    BY <1>1, <1>3, <2>1, RowsAre DEF RowsOK
<1>6. /\ \/ Hits(q, m)' = Hits(q, m)
         \/ Hits(q, m)' = Hits(q, m) \ {i} /\ i \in Hits(q, m)
      /\ q.window = Ever => Hits(q, m)' = Hits(q, m)
  <2>1. ASSUME NEW j \in DOMAIN rows, j # i PROVE j \in Hits(q, m)' <=> j \in Hits(q, m)
    BY <1>3, <2>1 DEF Hits
  <2>2. /\ i \in Hits(q, m)' <=> rows[i].mark \in m /\ rows[i].age + 1 <= q.window
        /\ i \in Hits(q, m) <=> rows[i].mark \in m /\ rows[i].age <= q.window
    BY <1>3, <1>4 DEF Hits
  <2>3. /\ rows[i].age + 1 <= q.window => rows[i].age <= q.window
        /\ q.window = Ever => rows[i].age + 1 <= q.window
    BY <1>2 DEF Windows, M5, Ever
  <2>4. i \in Hits(q, m)' => i \in Hits(q, m)
    BY <2>2, <2>3
  <2>5. q.window = Ever /\ i \in Hits(q, m) => i \in Hits(q, m)'
    BY <2>2, <2>3
  <2>6. Hits(q, m) \subseteq DOMAIN rows /\ Hits(q, m)' \subseteq DOMAIN rows
    BY <1>3 DEF Hits
  <2> HIDE DEF Hits
  <2> QED
    BY <2>1, <2>4, <2>5, <2>6
<1>7. /\ IsFiniteSet(Hits(q, m)) /\ Matching(q, m) = Cardinality(Hits(q, m))
      /\ Cardinality(Hits(q, m)) \in Nat
    BY HitsFinite
<1>8. Matching(q, m)' = Cardinality(Hits(q, m)')
    BY DEF Matching, Hits
<1>9. i \in Hits(q, m) => Cardinality(Hits(q, m) \ {i}) = Cardinality(Hits(q, m)) - 1
    BY <1>7, FS_RemoveElement
<1>10. Cardinality(Hits(q, m)') \in Nat
  <2>1. Hits(q, m)' \subseteq Hits(q, m)
    BY <1>6
  <2> QED
    BY <1>7, <2>1, FS_Subset, FS_CardinalityType
<1> QED
    BY <1>3, <1>5, <1>6, <1>7, <1>8, <1>9, <1>10

-----------------------------------------------------------------------------
(* The invariant.                                                          *)

\* The figures that were answered, and what the query of one counts now.
Given      == DOMAIN got \ Unasked
Asks(n)    == QueryOf(request, n)
Counted(q) == Matching(q, q.marks)

\* The answer to q is that count, and no part of it.
Exact(q) == q.name \notin {"by_service", "top_services", "services", "points", "row", "list"}

\* p counts some of the rows that q counts.
Within(p, q) == p.name # "list" /\ p.marks \subseteq q.marks /\ p.window <= q.window

TypesOK ==
    /\ RowsOK
    /\ request \in Requests \cup {"none"}
    /\ limit \in Nat /\ came \in Nat /\ left \in Nat
    /\ known \in 0..Len(rows)
    /\ \A n \in DOMAIN got : got[n] \in Nat \cup {NotYet, None}
    /\ DOMAIN got \subseteq IF Busy THEN Names(request) ELSE {}

\* The figures that were answered are the first ones, and none of them failed.
InOrder ==
    request \notin Concurrent =>
        /\ \A n \in DOMAIN got : got[n] # None
        /\ \A a \in Unasked : \A b \in Given : Place(request, b) <= Place(request, a)

\* A figure and what its query counts now differ by what happened since.
StaysNear ==
    \A n \in Given : got[n] # None =>
        /\ got[n] <= Len(rows)
        /\ Asks(n).name # "list" =>
              /\ got[n] <= Counted(Asks(n)) + left
              /\ Asks(n).window = Ever => got[n] <= Counted(Asks(n))
        /\ Exact(Asks(n)) => Counted(Asks(n)) <= got[n] + came

\* So two figures agree, in the direction of their queries if they have one.
OneByOneAgree ==
    request \notin Concurrent =>
        \A a, b \in Given : Place(request, a) < Place(request, b) =>
            /\ Exact(Asks(b)) /\ Within(Asks(a), Asks(b)) =>
                  /\ NoMore(a, b, left)
                  /\ Asks(a).window = Ever => NoMore(a, b, 0)
            /\ Exact(Asks(a)) /\ Within(Asks(b), Asks(a)) => NoMore(b, a, came)
AtOnceAgree ==
    request \in Concurrent =>
        \A a, b \in Given :
            got[b] # None /\ Exact(Asks(b)) /\ Within(Asks(a), Asks(b)) =>
                NoMore(a, b, came + left)

FiguresInv == TypesOK /\ InOrder /\ StaysNear /\ OneByOneAgree /\ AtOnceAgree

\* What a query may answer, within what it counts.
LEMMA AnswersAre ==
    ASSUME RowsOK, limit \in Nat, NEW q, NEW x \in Answers(q)
    PROVE  /\ x \in Nat /\ x <= Len(rows)
           /\ q.name # "list" => x <= Counted(q)
           /\ Exact(q) => x = Counted(q)
           /\ q.name = "list" => x = Min({limit, Matching(q, filter)})
<1>1. /\ Counted(q) \in Nat /\ Counted(q) <= Len(rows)
      /\ Matching(q, filter) \in Nat /\ Matching(q, filter) <= Len(rows)
      /\ Len(rows) \in Nat
    BY HitsFinite, RowsAre DEF Counted
<1>2. /\ Min({1, Counted(q)}) = IF 1 <= Counted(q) THEN 1 ELSE Counted(q)
      /\ Min({limit, Matching(q, filter)}) =
           IF limit <= Matching(q, filter) THEN limit ELSE Matching(q, filter)
    BY <1>1, MinOfTwo
<1>3. CASE q.name \in {"by_service", "top_services", "services"}
  <2>1. x \in Min({1, Counted(q)})..Counted(q)
    BY <1>3 DEF Answers, Counted
  <2> QED
    BY <1>1, <1>2, <1>3, <2>1 DEF Exact
<1>4. CASE q.name = "points"
  <2>1. x \in 0..Counted(q)
    BY <1>4 DEF Answers, Counted
  <2> QED
    BY <1>1, <1>4, <2>1 DEF Exact
<1>5. CASE q.name = "row"
  <2>1. x \in 0..Min({1, Counted(q)})
    BY <1>5 DEF Answers, Counted
  <2> QED
    BY <1>1, <1>2, <1>5, <2>1 DEF Exact
<1>6. CASE q.name = "list"
  <2>1. x = Min({limit, Matching(q, filter)})
    BY <1>6 DEF Answers
  <2> QED
    BY <1>1, <1>2, <1>6, <2>1 DEF Exact
<1>7. CASE Exact(q)
  <2>1. x = Counted(q)
    BY <1>7 DEF Answers, Counted, Exact
  <2> QED
    BY <1>1, <1>7, <2>1 DEF Exact
<1> QED
    BY <1>3, <1>4, <1>5, <1>6, <1>7 DEF Exact

\* A figure that was asked for has a window and a place.
LEMMA FollowedQuery ==
    ASSUME TypesOK, NEW n \in DOMAIN got
    PROVE  /\ Busy /\ request \in Requests /\ n \in Names(request)
           /\ Asks(n).window \in Windows /\ Place(request, n) \in Nat
<1>1. Busy /\ n \in Names(request)
    BY DEF TypesOK
<1>2. request \in Requests
    BY <1>1 DEF TypesOK, Busy
<1> QED
    BY <1>1, <1>2, QueryWindow DEF Asks

\* What counts some of another's rows counts no more.
LEMMA WithinCounts ==
    ASSUME TypesOK, NEW a \in DOMAIN got, NEW b \in DOMAIN got, Within(Asks(a), Asks(b))
    PROVE  Counted(Asks(a)) <= Counted(Asks(b))
BY FollowedQuery, MatchingGrows DEF TypesOK, Within, Counted

\* How an answer or a failure changes the figures.
LEMMA FigureSteps ==
    ASSUME TypesOK, NEW n, n \in Unasked, NEW x \in Nat \cup {None},
           got' = [got EXCEPT ![n] = x], UNCHANGED <<table, rows, request, filter, limit>>
    PROVE  /\ DOMAIN got' = DOMAIN got /\ n \in DOMAIN got /\ n \notin Given
           /\ Unasked' = Unasked \ {n} /\ Given' = Given \cup {n}
           /\ got'[n] = x /\ \A m \in Given : got'[m] = got[m]
           /\ \A q, m : Matching(q, m)' = Matching(q, m)
           /\ \A m : Asks(m)' = Asks(m)
           /\ RowsOK' /\ Busy' = Busy /\ \A r : Names(r)' = Names(r)
<1>1. DOMAIN got' = DOMAIN got /\ n \in DOMAIN got /\ n \notin Given /\ got'[n] = x
      /\ \A m \in DOMAIN got : m # n => got'[m] = got[m]
    BY DEF Unasked, Given
<1>2. x # NotYet
    BY DEF NotYet, None
<1>3. Unasked' = Unasked \ {n}
    BY <1>1, <1>2 DEF Unasked
<1>4. Given' = Given \cup {n}
    BY <1>1, <1>3 DEF Given
<1>5. \A m \in Given : got'[m] = got[m]
    BY <1>1 DEF Given
<1>6. \A q, m : Matching(q, m)' = Matching(q, m)
    BY DEF Matching
<1>7. \A m : Asks(m)' = Asks(m)
    BY DEF Asks, QueryOf, Place
<1>8. RowsOK' /\ Busy' = Busy /\ \A r : Names(r)' = Names(r)
    BY DEF TypesOK, RowsOK, Busy, Names
<1> QED
    BY <1>1, <1>3, <1>4, <1>5, <1>6, <1>7, <1>8

-----------------------------------------------------------------------------
(* The steps.                                                              *)

\* A figure is answered, or its query fails.
LEMMA FigureInv ==
    ASSUME FiguresInv, NEW n, Turn(n), NEW x \in Nat \cup {None},
           got' = [got EXCEPT ![n] = x],
           UNCHANGED <<table, rows, request, filter, limit, came, left, known>>,
           \/ x = None /\ request \in Concurrent
           \/ x \in Answers(Asks(n))
    PROVE  FiguresInv'
<1>0. TypesOK /\ n \in Unasked
    BY DEF FiguresInv, Turn
<1>1. /\ DOMAIN got' = DOMAIN got /\ n \in DOMAIN got /\ n \notin Given
      /\ Unasked' = Unasked \ {n} /\ Given' = Given \cup {n}
      /\ got'[n] = x /\ \A m \in Given : got'[m] = got[m]
      /\ \A m : Asks(m)' = Asks(m)
      /\ RowsOK' /\ Busy' = Busy /\ \A r : Names(r)' = Names(r)
    BY <1>0, FigureSteps
<1>2. \A q : Counted(q)' = Counted(q)
  <2>1. \A q, m : Matching(q, m)' = Matching(q, m)
    BY <1>0, FigureSteps
  <2> QED
    BY <2>1 DEF Counted
<1>3. x # None =>
        /\ x \in Nat /\ x <= Len(rows)
        /\ Asks(n).name # "list" => x <= Counted(Asks(n))
        /\ Exact(Asks(n)) => x = Counted(Asks(n))
    BY <1>0, AnswersAre DEF TypesOK
<1>4. /\ came \in Nat /\ left \in Nat /\ Len(rows) \in Nat
      /\ \A m \in DOMAIN got : Counted(Asks(m)) \in Nat /\ Place(request, m) \in Nat
      /\ \A m \in Given : got[m] \in Nat \cup {None}
      /\ Given \subseteq DOMAIN got
    BY <1>0, FollowedQuery, HitsFinite, RowsAre DEF TypesOK, Counted, Given, Unasked
<1>5. TypesOK'
  <2>1. \A m \in DOMAIN got' : got'[m] \in Nat \cup {NotYet, None}
    BY <1>0, <1>1 DEF TypesOK
  <2> QED
    BY <1>0, <1>1, <2>1 DEF TypesOK
<1>6. InOrder'
  <2> SUFFICES ASSUME request \notin Concurrent
               PROVE  /\ \A m \in DOMAIN got : got'[m] # None
                      /\ \A a \in Unasked \ {n} : \A b \in Given \cup {n} :
                            Place(request, b) <= Place(request, a)
    BY <1>1 DEF InOrder
  <2>1. x # None
    <3>1. x \in Answers(Asks(n))
      OBVIOUS
    <3>2. x \in Nat
      BY <1>0, <3>1, AnswersAre DEF TypesOK
    <3> QED
      BY <3>2 DEF None
  <2>2. \A m \in DOMAIN got : got'[m] # None
    BY <2>1 DEF FiguresInv, InOrder
  <2> QED
    BY <2>2 DEF FiguresInv, InOrder, Turn
<1>7. StaysNear'
  <2> SUFFICES ASSUME NEW m \in Given \cup {n}, got'[m] # None
               PROVE  /\ got'[m] <= Len(rows)
                      /\ Asks(m).name # "list" =>
                            /\ got'[m] <= Counted(Asks(m)) + left
                            /\ Asks(m).window = Ever => got'[m] <= Counted(Asks(m))
                      /\ Exact(Asks(m)) => Counted(Asks(m)) <= got'[m] + came
    BY <1>1, <1>2 DEF StaysNear
  <2>1. CASE m \in Given
    BY <1>1, <2>1 DEF FiguresInv, StaysNear
  <2>2. CASE m = n
    BY <1>1, <1>3, <1>4, <2>2
  <2> QED
    BY <2>1, <2>2
\* Another figure, which was answered before.
<1>8. ASSUME NEW m \in Given
      PROVE  /\ m \in DOMAIN got /\ got'[m] = got[m] /\ (got[m] = None => request \in Concurrent)
             /\ got[m] # None =>
                   /\ got[m] \in Nat
                   /\ Asks(m).name # "list" =>
                         /\ got[m] <= Counted(Asks(m)) + left
                         /\ Asks(m).window = Ever => got[m] <= Counted(Asks(m))
                   /\ Exact(Asks(m)) => Counted(Asks(m)) <= got[m] + came
    BY <1>1, <1>4 DEF FiguresInv, StaysNear, InOrder
<1>9. \A a, b \in DOMAIN got : Within(Asks(a), Asks(b)) => Counted(Asks(a)) <= Counted(Asks(b))
    BY <1>0, WithinCounts
<1>10. OneByOneAgree'
  <2> SUFFICES ASSUME request \notin Concurrent,
                      NEW a \in Given \cup {n}, NEW b \in Given \cup {n},
                      Place(request, a) < Place(request, b)
               PROVE  /\ Exact(Asks(b)) /\ Within(Asks(a), Asks(b)) =>
                            /\ NoMore(a, b, left)'
                            /\ Asks(a).window = Ever => NoMore(a, b, 0)'
                      /\ Exact(Asks(a)) /\ Within(Asks(b), Asks(a)) => NoMore(b, a, came)'
    BY <1>1 DEF OneByOneAgree
  <2>1. CASE a \in Given /\ b \in Given
    BY <1>8, <2>1 DEF FiguresInv, OneByOneAgree, NoMore, Shown
  <2>2. CASE a \in Given /\ b = n
    <3>1. got'[a] = got[a] /\ got'[b] = x /\ got[a] # None /\ x # None
      BY <1>1, <1>6, <1>8, <2>2 DEF InOrder
    <3>2. Exact(Asks(b)) /\ Within(Asks(a), Asks(b)) =>
            /\ got[a] <= x + left
            /\ Asks(a).window = Ever => got[a] <= x
      <4> SUFFICES ASSUME Exact(Asks(b)), Within(Asks(a), Asks(b))
                   PROVE  /\ got[a] <= x + left
                          /\ Asks(a).window = Ever => got[a] <= x
        OBVIOUS
      <4>1. /\ a \in DOMAIN got /\ b \in DOMAIN got /\ got[a] \in Nat /\ x \in Nat
            /\ x = Counted(Asks(b))
        BY <1>1, <1>3, <1>8, <2>2, <3>1
      <4>2. /\ Counted(Asks(a)) \in Nat
            /\ Counted(Asks(a)) <= x
        BY <1>4, <1>9, <4>1
      <4>3. /\ got[a] <= Counted(Asks(a)) + left
            /\ Asks(a).window = Ever => got[a] <= Counted(Asks(a))
        BY <1>8, <2>2, <3>1 DEF Within
      <4> QED
        BY <1>4, <4>1, <4>2, <4>3
    <3>3. Exact(Asks(a)) /\ Within(Asks(b), Asks(a)) => x <= got[a] + came
      BY <1>1, <1>3, <1>4, <1>8, <1>9, <2>2, <3>1 DEF Within
    <3> QED
      BY <1>8, <2>2, <3>1, <3>2, <3>3, <1>3 DEF NoMore, Shown
  <2>3. CASE a = n
    <3>1. b # n /\ b \in Given
      BY <1>1, <1>4, <2>3
    <3>2. Place(request, b) <= Place(request, a)
      BY <1>0, <2>3, <3>1 DEF FiguresInv, InOrder
    <3> QED
      BY <1>1, <1>4, <2>3, <3>1, <3>2
  <2> QED
    BY <2>1, <2>2, <2>3
<1>11. AtOnceAgree'
  <2> SUFFICES ASSUME request \in Concurrent,
                      NEW a \in Given \cup {n}, NEW b \in Given \cup {n},
                      got'[b] # None, Exact(Asks(b)), Within(Asks(a), Asks(b))
               PROVE  NoMore(a, b, came + left)'
    BY <1>1 DEF AtOnceAgree
  <2>1. CASE a \in Given /\ b \in Given
    BY <1>8, <2>1 DEF FiguresInv, AtOnceAgree, NoMore, Shown
  <2>2. CASE a = n \/ b = n
    <3>1. a \in DOMAIN got /\ b \in DOMAIN got /\ Counted(Asks(a)) <= Counted(Asks(b))
          /\ Counted(Asks(a)) \in Nat /\ Counted(Asks(b)) \in Nat
      BY <1>1, <1>4, <1>9
    <3>2. got'[b] \in Nat /\ Counted(Asks(b)) <= got'[b] + came
      BY <1>1, <1>3, <1>4, <1>8, <3>1
    <3>3. got'[a] # None => got'[a] \in Nat /\ got'[a] <= Counted(Asks(a)) + left
      BY <1>1, <1>3, <1>4, <1>8, <3>1 DEF Within
    <3>4. (IF got'[a] = None THEN 0 ELSE got'[a]) <= got'[b] + (came + left)
      BY <1>4, <3>1, <3>2, <3>3
    <3> QED
      BY <3>2, <3>4 DEF NoMore, Shown
  <2> QED
    BY <2>1, <2>2
<1> QED
    BY <1>5, <1>6, <1>7, <1>10, <1>11 DEF FiguresInv

\* What a query counts grows with the rows that come, and shrinks with those
\* that leave a window.
CountsMove ==
    \A q : Busy /\ q.window \in Windows =>
        /\ Counted(q) \in Nat /\ Counted(q)' \in Nat
        /\ Counted(q)' + came <= Counted(q) + came'
        /\ Counted(q) + left <= Counted(q)' + left'
        /\ q.window = Ever => Counted(q) <= Counted(q)'

\* The table changes.
LEMMA ChangeInv ==
    ASSUME FiguresInv, UNCHANGED <<table, request, filter, limit, got, known>>,
           RowsOK', Len(rows) <= Len(rows'), came' \in Nat, left' \in Nat,
           Busy => came <= came' /\ left <= left',
           CountsMove
    PROVE  FiguresInv'
<1>0. TypesOK
    BY DEF FiguresInv
<1>1. /\ Unasked' = Unasked /\ Given' = Given /\ Busy' = Busy
      /\ \A m : Asks(m)' = Asks(m)
      /\ \A r : Names(r)' = Names(r)
    BY DEF Unasked, Given, Busy, Asks, QueryOf, Place, Names
<1>2. Len(rows) \in Nat /\ Len(rows') \in Nat
    BY <1>0 DEF TypesOK, RowsOK
<1>3. TypesOK'
    BY <1>0, <1>1, <1>2 DEF TypesOK
<1>4. InOrder'
    BY <1>1 DEF FiguresInv, InOrder
<1>5. ASSUME NEW n \in Given
      PROVE  /\ Asks(n).window \in Windows /\ Busy
             /\ got[n] \in Nat \cup {None}
             /\ came \in Nat /\ left \in Nat /\ came' \in Nat /\ left' \in Nat
             /\ came <= came' /\ left <= left'
  <2>1. n \in DOMAIN got /\ n \notin Unasked
    BY DEF Given
  <2>2. Asks(n).window \in Windows /\ Busy
    BY <1>0, <2>1, FollowedQuery
  <2> QED
    BY <1>0, <2>1, <2>2 DEF TypesOK, Unasked
<1>6. StaysNear'
  <2> SUFFICES ASSUME NEW n \in Given, got[n] # None, NEW q, q = Asks(n)
               PROVE  /\ got[n] <= Len(rows')
                      /\ q.name # "list" =>
                            /\ got[n] <= Counted(q)' + left'
                            /\ q.window = Ever => got[n] <= Counted(q)'
                      /\ Exact(q) => Counted(q)' <= got[n] + came'
    BY <1>1 DEF StaysNear, Counted
  <2>1. /\ got[n] <= Len(rows)
        /\ q.name # "list" =>
              /\ got[n] <= Counted(q) + left
              /\ q.window = Ever => got[n] <= Counted(q)
        /\ Exact(q) => Counted(q) <= got[n] + came
    BY DEF FiguresInv, StaysNear
  <2>2. q.window \in Windows /\ Busy
    BY <1>5
  <2>3. /\ Counted(q) \in Nat /\ Counted(q)' \in Nat
        /\ Counted(q)' + came <= Counted(q) + came'
        /\ Counted(q) + left <= Counted(q)' + left'
        /\ q.window = Ever => Counted(q) <= Counted(q)'
    BY <2>2 DEF CountsMove
  <2> QED
    BY <1>2, <1>5, <2>1, <2>3
<1>7. ASSUME NEW a \in Given, NEW b \in Given
      PROVE  /\ NoMore(a, b, came) => NoMore(a, b, came)'
             /\ NoMore(a, b, left) => NoMore(a, b, left)'
             /\ NoMore(a, b, came + left) => NoMore(a, b, came + left)'
             /\ NoMore(a, b, 0) => NoMore(a, b, 0)'
  <2>1. Shown(a) \in Nat /\ Shown(b) \in Nat
    BY <1>5 DEF Shown
  <2>2. Shown(a)' = Shown(a) /\ Shown(b)' = Shown(b)
    BY DEF Shown
  <2>3. /\ came <= came' /\ left <= left' /\ came + left <= came' + left'
        /\ came \in Nat /\ came' \in Nat /\ left \in Nat /\ left' \in Nat
        /\ came + left \in Nat /\ came' + left' \in Nat
    <3>1. /\ came <= came' /\ left <= left'
          /\ came \in Nat /\ came' \in Nat /\ left \in Nat /\ left' \in Nat
      BY <1>5
    <3>2. came + left <= came' + left' /\ came + left \in Nat /\ came' + left' \in Nat
      BY <3>1, SumsGrow
    <3> QED
      BY <3>1, <3>2
  <2>4. \A s, t \in Nat : s <= t /\ Shown(a) <= Shown(b) + s => Shown(a) <= Shown(b) + t
    BY <2>1
  <2> QED
    BY <2>2, <2>3, <2>4 DEF NoMore
<1>8. OneByOneAgree'
    BY <1>1, <1>7 DEF FiguresInv, OneByOneAgree
<1>9. AtOnceAgree'
    BY <1>1, <1>7 DEF FiguresInv, AtOnceAgree
<1> QED
    BY <1>3, <1>4, <1>6, <1>8, <1>9 DEF FiguresInv

LEMMA InsertInv ==
    ASSUME FiguresInv, NEW r \in Row(table), Insert(r) PROVE FiguresInv'
<1>0. TypesOK /\ RowsOK
    BY DEF FiguresInv, TypesOK
<1>1. /\ UNCHANGED <<table, request, filter, limit, got, known, left>>
      /\ came' = IF Busy THEN came + 1 ELSE 0
    BY DEF Insert
<1>2. /\ RowsOK' /\ Len(rows') = Len(rows) + 1 /\ Len(rows) \in Nat
    BY <1>0, InsertMatching, RowsAre
<1>3. ASSUME NEW q
      PROVE  Counted(q)' \in {Counted(q), Counted(q) + 1} /\ Counted(q) \in Nat
    BY <1>0, InsertMatching, HitsFinite DEF Counted
<1>4. came \in Nat /\ left \in Nat
    BY <1>0 DEF TypesOK
<1>5. CountsMove
    BY <1>1, <1>3, <1>4 DEF CountsMove
<1> QED
    BY <1>1, <1>2, <1>4, <1>5, ChangeInv

LEMMA AgeInv ==
    ASSUME FiguresInv, NEW i \in DOMAIN rows, Age(i) PROVE FiguresInv'
<1>0. TypesOK /\ RowsOK
    BY DEF FiguresInv, TypesOK
<1>1. /\ UNCHANGED <<table, request, filter, limit, got, known, came>>
      /\ left' = IF Busy THEN left + 1 ELSE 0
    BY DEF Age
<1>2. /\ Len(rows) \in Nat /\ M5 \in Windows
    BY <1>0, RowsAre DEF Windows, M5, Ever
<1>3. ASSUME NEW q, q.window \in Windows
      PROVE  /\ Counted(q)' \in {Counted(q), Counted(q) - 1}
             /\ Counted(q) \in Nat /\ Counted(q)' \in Nat
             /\ q.window = Ever => Counted(q)' = Counted(q)
    BY <1>0, <1>3, AgeMatching, HitsFinite DEF Counted
<1>4. came \in Nat /\ left \in Nat
    BY <1>0 DEF TypesOK
<1>5. CountsMove
    BY <1>1, <1>3, <1>4 DEF CountsMove
<1>6. RowsOK' /\ Len(rows') = Len(rows)
  <2>1. Count("total", table, M5).window \in Windows
    BY <1>2, QueryFields DEF Count
  <2> QED
    BY <1>0, <2>1, AgeMatching
<1> QED
    BY <1>1, <1>2, <1>4, <1>5, <1>6, ChangeInv

\* Nothing is said of the figures of a request that begins or is over.
LEMMA NoFigures ==
    ASSUME TypesOK', Given' = {}, \A n \in DOMAIN got' : got'[n] # None PROVE FiguresInv'
BY DEF FiguresInv, InOrder, StaysNear, OneByOneAgree, AtOnceAgree

LEMMA AskInv ==
    ASSUME FiguresInv, NEW r \in Requests, Ask(r) PROVE FiguresInv'
<1>0. TypesOK
    BY DEF FiguresInv
<1>1. PICK followed \in SUBSET Names(r) : got' = [n \in followed |-> NotYet]
    BY DEF Ask
<1>2. /\ request' = r /\ UNCHANGED <<table, rows, came, left, known>> /\ limit' \in Nat
      /\ \A q : Names(q)' = Names(q)
  <2>1. limit' \in Nat
    BY DashboardAssumption DEF Ask
  <2> QED
    BY <2>1 DEF Ask, Names
<1>3. r # "none"
    BY QueriesAre
<1>4. TypesOK'
    BY <1>0, <1>1, <1>2, <1>3 DEF TypesOK, RowsOK, Busy
<1>5. Given' = {} /\ \A n \in DOMAIN got' : got'[n] # None
    BY <1>1 DEF Given, Unasked, NotYet, None
<1> QED
    BY <1>4, <1>5, NoFigures

LEMMA OverInv ==
    ASSUME TypesOK, NEW status, Over(status), UNCHANGED <<table, rows>>,
           known' \in 0..Len(rows)
    PROVE  FiguresInv'
<1>1. DOMAIN got' = {}
    BY DEF Over
<1>2. TypesOK'
    BY <1>1 DEF Over, TypesOK, RowsOK
<1>3. Given' = {}
    BY <1>1 DEF Given
<1> QED
    BY <1>1, <1>2, <1>3, NoFigures

LEMMA RespondInv ==
    ASSUME FiguresInv, Respond PROVE FiguresInv'
<1> DEFINE S == {known} \cup {Shown(n) : n \in Totals}
<1>0. TypesOK /\ Len(rows) \in Nat
    BY RowsAre DEF FiguresInv, TypesOK
<1>1. ASSUME NEW n \in Totals PROVE Shown(n) \in 0..Len(rows)
  <2>1. n \in Given /\ n \in DOMAIN got /\ got[n] # NotYet
    BY DEF Totals, Given, Respond, Unasked
  <2>2. got[n] \in Nat \cup {None} /\ (got[n] # None => got[n] <= Len(rows))
    BY <1>0, <2>1 DEF TypesOK, FiguresInv, StaysNear
  <2> QED
    BY <1>0, <2>2 DEF Shown
<1>2. S \in SUBSET (0..Len(rows)) /\ S # {}
    BY <1>0, <1>1 DEF TypesOK
<1>3. Max(S) \in 0..Len(rows)
  <2> HIDE DEF S
  <2> QED
    BY <1>0, <1>2, MaxOfBounded
<1>4. known' \in 0..Len(rows) /\ UNCHANGED <<table, rows>>
    BY <1>3 DEF Respond
<1> HIDE DEF S
<1> QED
    BY <1>0, <1>4, OverInv DEF Respond

LEMMA FiguresInit == Init => FiguresInv
<1> SUFFICES ASSUME Init PROVE FiguresInv
    OBVIOUS
<1>1. DOMAIN got = {} /\ Len(rows) = 0
    BY DEF Init
<1>2. TypesOK
    BY <1>1 DEF Init, TypesOK, RowsOK
<1>3. Given = {}
    BY <1>1 DEF Given
<1> QED
    BY <1>1, <1>2, <1>3 DEF FiguresInv, InOrder, StaysNear, OneByOneAgree, AtOnceAgree

LEMMA FiguresNext == FiguresInv /\ [Next]_vars => FiguresInv'
<1> SUFFICES ASSUME FiguresInv, [Next]_vars PROVE FiguresInv'
    OBVIOUS
<1>0. TypesOK /\ limit \in Nat /\ RowsOK
    BY DEF FiguresInv, TypesOK
<1>1. ASSUME NEW n \in DOMAIN got, Answered(n) PROVE FiguresInv'
  <2>1. PICK x \in Answers(Asks(n)) : got' = [got EXCEPT ![n] = x]
    BY <1>1 DEF Answered, Asks
  <2>2. x \in Nat
    BY <1>0, AnswersAre
  <2> QED
    BY <1>1, <2>1, <2>2, FigureInv DEF Answered
<1>2. ASSUME NEW n \in DOMAIN got, FetchvalFails(n) PROVE FiguresInv'
    BY <1>2, FigureInv DEF FetchvalFails
<1>3. CASE RequestFails
  <2>1. known' \in 0..Len(rows)
    BY <1>0, <1>3 DEF RequestFails, TypesOK
  <2> QED
    BY <1>0, <1>3, <2>1, OverInv DEF RequestFails
<1>4. CASE UNCHANGED vars
  <2>1. came' \in Nat /\ left' \in Nat /\ Len(rows) \in Nat
    BY <1>0, <1>4, RowsAre DEF vars, TypesOK
  <2>2. \A q : Counted(q)' = Counted(q) /\ Counted(q) \in Nat
    BY <1>0, <1>4, HitsFinite DEF vars, Counted, Matching
  <2>3. RowsOK'
    BY <1>0, <1>4 DEF vars, RowsOK
  <2>4. UNCHANGED <<table, rows, request, filter, limit, got, known, came, left>>
    BY <1>4 DEF vars
  <2>5. came \in Nat /\ left \in Nat
    BY <1>0 DEF TypesOK
  <2> QED
    BY <2>1, <2>2, <2>3, <2>4, <2>5, ChangeInv DEF CountsMove
<1> QED
    BY <1>1, <1>2, <1>3, <1>4, InsertInv, AgeInv, AskInv, RespondInv DEF Next

-----------------------------------------------------------------------------
(* The figures that agree.                                                 *)

\* Two figures of one request, in the order of their queries.
LEMMA OneByOne ==
    ASSUME FiguresInv, NEW a, NEW b, Has(request, a, b), request \notin Concurrent,
           Place(request, a) < Place(request, b)
    PROVE  /\ Exact(Asks(b)) /\ Within(Asks(a), Asks(b)) =>
                 /\ NoMore(a, b, left)
                 /\ Asks(a).window = Ever => NoMore(a, b, 0)
           /\ Exact(Asks(a)) /\ Within(Asks(b), Asks(a)) => NoMore(b, a, came)
<1>1. a \in Given /\ b \in Given
    BY DEF Has, Given
<1> QED
    BY <1>1 DEF FiguresInv, OneByOneAgree

LEMMA AtOnce ==
    ASSUME FiguresInv, NEW a, NEW b, Has(request, a, b), request \in Concurrent,
           got[b] # None, Exact(Asks(b)), Within(Asks(a), Asks(b))
    PROVE  NoMore(a, b, came + left)
<1>1. a \in Given /\ b \in Given
    BY DEF Has, Given
<1> QED
    BY <1>1 DEF FiguresInv, AtOnceAgree

\* One query counts some of the rows of another.
LEMMA CountWithin ==
    ASSUME NEW n, NEW m, NEW t, NEW v \in Windows, NEW w \in Windows, v <= w, n # "list"
    PROVE  Within(Count(n, t, v), Count(m, t, w))
BY QueryFields DEF Within, Count

LEMMA MarkWithin ==
    ASSUME NEW n, NEW m, NEW t, NEW mark \in Marks(t), NEW w \in Windows, n # "list"
    PROVE  Within(Q(n, t, {mark}, w), Count(m, t, w))
BY QueryFields DEF Within, Count, Windows, M5, Ever

LEMMA WindowOrder ==
    /\ H1 \in Windows /\ H24 \in Windows /\ D7 \in Windows /\ Ever \in Windows
    /\ H1 <= H1 /\ H24 <= H24 /\ H1 <= H24 /\ H24 <= Ever /\ D7 <= Ever /\ Ever <= Ever
BY DEF Windows, M5, H1, H24, D7, Ever

LEMMA LogStatsAgree ==
    ASSUME FiguresInv
    PROVE  /\ Has("log_stats", "total", "by_level") =>
                 NoMore("total", "by_level", left) /\ NoMore("by_level", "total", came)
           /\ Has("log_stats", "by_level", "by_service") => NoMore("by_service", "by_level", came)
           /\ Has("log_stats", "total", "error_rate") => NoMore("error_rate", "total", came)
<1> SUFFICES ASSUME request = "log_stats"
             PROVE  /\ Has(request, "total", "by_level") =>
                          NoMore("total", "by_level", left) /\ NoMore("by_level", "total", came)
                    /\ Has(request, "by_level", "by_service") =>
                          NoMore("by_service", "by_level", came)
                    /\ Has(request, "total", "error_rate") => NoMore("error_rate", "total", came)
    BY DEF Has
<1>1. /\ Place(request, "total") < Place(request, "by_level")
      /\ Place(request, "by_level") < Place(request, "by_service")
      /\ Place(request, "total") < Place(request, "error_rate")
    BY LogStatsPlaces
<1>2. /\ Asks("total") = Count("total", Logs, H24)
      /\ Asks("by_level") = Count("by_level", Logs, H24)
      /\ Asks("by_service") = Count("by_service", Logs, H24)
      /\ Asks("error_rate") = Count("error_rate", Logs, H1)
    BY LogStatsPlaces DEF Asks
<1>3. Exact(Asks("total")) /\ Exact(Asks("by_level"))
    BY <1>2, QueryFields DEF Exact, Count
<1>4. /\ Within(Asks("total"), Asks("by_level")) /\ Within(Asks("by_level"), Asks("total"))
      /\ Within(Asks("by_service"), Asks("by_level")) /\ Within(Asks("error_rate"), Asks("total"))
    BY <1>2, CountWithin, WindowOrder
<1>5. request \notin Concurrent
    BY DEF Concurrent
<1> QED
    BY <1>1, <1>3, <1>4, <1>5, OneByOne

LEMMA AnomalySummaryAgrees ==
    ASSUME FiguresInv
    PROVE  /\ Has("anomaly_summary", "total", "by_severity") =>
                 NoMore("total", "by_severity", 0) /\ NoMore("by_severity", "total", came)
           /\ \A n \in {"last_24h", "top_services"} :
                 Has("anomaly_summary", "by_severity", n) => NoMore(n, "by_severity", came)
<1> SUFFICES ASSUME request = "anomaly_summary"
             PROVE  /\ Has(request, "total", "by_severity") =>
                          NoMore("total", "by_severity", 0) /\ NoMore("by_severity", "total", came)
                    /\ \A n \in {"last_24h", "top_services"} :
                          Has(request, "by_severity", n) => NoMore(n, "by_severity", came)
    BY DEF Has
<1>1. /\ Place(request, "total") < Place(request, "by_severity")
      /\ Place(request, "by_severity") < Place(request, "last_24h")
      /\ Place(request, "by_severity") < Place(request, "top_services")
    BY AnomalySummaryPlaces
<1>2. /\ Asks("total") = Count("total", Analyses, Ever)
      /\ Asks("by_severity") = Count("by_severity", Analyses, Ever)
      /\ Asks("last_24h") = Count("last_24h", Analyses, H24)
      /\ Asks("top_services") = Count("top_services", Analyses, D7)
    BY AnomalySummaryPlaces DEF Asks
<1>3. Exact(Asks("total")) /\ Exact(Asks("by_severity")) /\ Asks("total").window = Ever
    BY <1>2, QueryFields DEF Exact, Count
<1>4. /\ Within(Asks("total"), Asks("by_severity")) /\ Within(Asks("by_severity"), Asks("total"))
      /\ Within(Asks("last_24h"), Asks("by_severity"))
      /\ Within(Asks("top_services"), Asks("by_severity"))
    BY <1>2, CountWithin, WindowOrder
<1>5. request \notin Concurrent
    BY DEF Concurrent
<1> QED
    BY <1>1, <1>3, <1>4, <1>5, OneByOne

LEMMA ConfidenceAgrees ==
    ASSUME FiguresInv
    PROVE  /\ Has("confidence_distribution", "distribution", "total") =>
                 NoMore("distribution", "total", 0) /\ NoMore("total", "distribution", came)
           /\ Has("confidence_distribution", "distribution", "average") =>
                 NoMore("distribution", "average", 0)
           /\ Has("confidence_distribution", "average", "total") => NoMore("average", "total", 0)
<1> SUFFICES ASSUME request = "confidence_distribution"
             PROVE  /\ Has(request, "distribution", "total") =>
                          /\ NoMore("distribution", "total", 0)
                          /\ NoMore("total", "distribution", came)
                    /\ Has(request, "distribution", "average") =>
                          NoMore("distribution", "average", 0)
                    /\ Has(request, "average", "total") => NoMore("average", "total", 0)
    BY DEF Has
<1>1. /\ Place(request, "distribution") < Place(request, "total")
      /\ Place(request, "distribution") < Place(request, "average")
      /\ Place(request, "average") < Place(request, "total")
    BY ConfidencePlaces
<1>2. /\ Asks("distribution") = Count("distribution", Analyses, Ever)
      /\ Asks("average") = Count("average", Analyses, Ever)
      /\ Asks("total") = Count("total", Analyses, Ever)
    BY ConfidencePlaces DEF Asks
<1>3. /\ Exact(Asks("distribution")) /\ Asks("distribution").window = Ever
      /\ Exact(Asks("average")) /\ Asks("average").window = Ever
      /\ Exact(Asks("total"))
    BY <1>2, QueryFields DEF Exact, Count
<1>4. /\ Within(Asks("distribution"), Asks("total")) /\ Within(Asks("total"), Asks("distribution"))
      /\ Within(Asks("distribution"), Asks("average")) /\ Within(Asks("average"), Asks("total"))
    BY <1>2, CountWithin, WindowOrder
<1>5. request \notin Concurrent
    BY DEF Concurrent
<1> QED
    BY <1>1, <1>3, <1>4, <1>5, OneByOne

LEMMA AlertStatsAgree ==
    ASSUME FiguresInv
    PROVE  /\ Has("alert_stats", "total", "by_severity") => NoMore("total", "by_severity", 0)
           /\ Has("alert_stats", "total", "sent") => Suppressed >= - came
<1> SUFFICES ASSUME request = "alert_stats"
             PROVE  /\ Has(request, "total", "by_severity") => NoMore("total", "by_severity", 0)
                    /\ Has(request, "total", "sent") => Suppressed >= - came
    BY DEF Has
<1>1. /\ Place(request, "total") < Place(request, "by_severity")
      /\ Place(request, "total") < Place(request, "sent")
    BY AlertStatsPlaces
<1>2. /\ Asks("total") = Count("total", Alerts, Ever)
      /\ Asks("sent") = Q("sent", Alerts, {"sent"}, Ever)
      /\ Asks("by_severity") = Count("by_severity", Alerts, Ever)
    BY AlertStatsPlaces DEF Asks
<1>3. Exact(Asks("total")) /\ Exact(Asks("by_severity")) /\ Asks("total").window = Ever
    BY <1>2, QueryFields DEF Exact, Count
<1>4. "sent" \in Marks(Alerts)
    BY DEF Marks, Alerts, Logs, Analyses
<1>5. Within(Asks("total"), Asks("by_severity")) /\ Within(Asks("sent"), Asks("total"))
    BY <1>2, <1>4, CountWithin, MarkWithin, WindowOrder
<1>6. request \notin Concurrent
    BY DEF Concurrent
<1>7. Has(request, "total", "sent") => NoMore("sent", "total", came)
    BY <1>1, <1>3, <1>5, <1>6, OneByOne
<1>8. ASSUME Has(request, "total", "sent") PROVE Suppressed >= - came
  <2>1. Shown("total") \in Nat /\ Shown("sent") \in Nat /\ came \in Nat
    BY <1>8 DEF Has, Unasked, Shown, FiguresInv, TypesOK
  <2> QED
    BY <1>7, <1>8, <2>1 DEF NoMore, Suppressed
<1> QED
    BY <1>1, <1>3, <1>5, <1>6, <1>8, OneByOne

LEMMA SystemSummaryAgrees ==
    ASSUME FiguresInv
    PROVE  /\ Has("system_summary", "logs_1h", "logs_24h") /\ got["logs_24h"] # None =>
                 NoMore("logs_1h", "logs_24h", came + left)
           /\ Has("system_summary", "critical", "anomalies_24h") /\ got["anomalies_24h"] # None =>
                 NoMore("critical", "anomalies_24h", came + left)
<1> SUFFICES ASSUME request = "system_summary"
             PROVE  /\ Has(request, "logs_1h", "logs_24h") /\ got["logs_24h"] # None =>
                          NoMore("logs_1h", "logs_24h", came + left)
                    /\ Has(request, "critical", "anomalies_24h") /\ got["anomalies_24h"] # None =>
                          NoMore("critical", "anomalies_24h", came + left)
    BY DEF Has
<1>2. /\ Asks("logs_1h") = Count("logs_1h", Logs, H1)
      /\ Asks("logs_24h") = Count("logs_24h", Logs, H24)
      /\ Asks("anomalies_24h") = Count("anomalies_24h", Analyses, H24)
      /\ Asks("critical") = Q("critical", Analyses, {"critical"}, H24)
    BY SystemSummaryPlaces DEF Asks
<1>3. Exact(Asks("logs_24h")) /\ Exact(Asks("anomalies_24h"))
    BY <1>2, QueryFields DEF Exact, Count
<1>4. "critical" \in Marks(Analyses)
    BY DEF Marks, Analyses, Logs, Alerts
<1>5. Within(Asks("logs_1h"), Asks("logs_24h")) /\ Within(Asks("critical"), Asks("anomalies_24h"))
    BY <1>2, <1>4, CountWithin, MarkWithin, WindowOrder
<1>6. request \in Concurrent
    BY DEF Concurrent
<1> QED
    BY <1>3, <1>5, <1>6, AtOnce

\* The figures of one answer agree, up to what changed while it was put together.
THEOREM AnswersAgree == Spec => []FiguresAgree
<1>1. FiguresInv => FiguresAgree
    BY LogStatsAgree, AnomalySummaryAgrees, ConfidenceAgrees, AlertStatsAgree,
       SystemSummaryAgrees DEF FiguresAgree
<1> QED
    BY <1>1, FiguresInit, FiguresNext, PTL DEF Spec

-----------------------------------------------------------------------------
(* The polls.                                                              *)

\* The figures that count all rows of the table ask for all of them.
LEMMA TotalsAskAll ==
    ASSUME TypesOK, NEW n \in Totals
    PROVE  /\ n \in DOMAIN got
           /\ Asks(n).window = Ever /\ Asks(n).marks = Marks(table)
           /\ IF request \in Lists THEN Asks(n).name = "list" /\ filter = Marks(table)
                                   ELSE Exact(Asks(n))
<1>1. /\ request \in DOMAIN TotalsOf /\ n \in DOMAIN got /\ n \in TotalsOf[request]
      /\ request \in Lists => filter = Marks(table)
    BY DEF Totals
<1>2. n \in Names(request)
    BY <1>1, FollowedQuery
<1>3. PICK i \in DOMAIN Queries[request] : Queries[request][i].table = table
    BY <1>2 DEF Names
<1> USE QueryFields DEF Count
<1>4. CASE request = "anomaly_summary"
  <2>1. n \in {"total", "by_severity"}
    BY <1>1, <1>4 DEF TotalsOf
  <2>2. table = Analyses
    BY <1>3, <1>4, QueriesAre DEF AnomalySummary
  <2>3. Asks(n) = Count(n, Analyses, Ever)
    BY <1>4, <2>1, AnomalySummaryPlaces DEF Asks
  <2> QED
    BY <1>1, <1>4, <2>1, <2>2, <2>3 DEF Exact, Lists
<1>5. CASE request = "confidence_distribution"
  <2>1. n \in {"distribution", "average", "total"}
    BY <1>1, <1>5 DEF TotalsOf
  <2>2. table = Analyses
    BY <1>3, <1>5, QueriesAre DEF ConfidenceDistribution
  <2>3. Asks(n) = Count(n, Analyses, Ever)
    BY <1>5, <2>1, ConfidencePlaces DEF Asks
  <2> QED
    BY <1>1, <1>5, <2>1, <2>2, <2>3 DEF Exact, Lists
<1>6. CASE request = "alert_stats"
  <2>1. n \in {"total", "by_severity"}
    BY <1>1, <1>6 DEF TotalsOf
  <2>2. table = Alerts
    BY <1>3, <1>6, QueriesAre DEF AlertStats
  <2>3. Asks(n) = Count(n, Alerts, Ever)
    BY <1>6, <2>1, AlertStatsPlaces DEF Asks
  <2> QED
    BY <1>1, <1>6, <2>1, <2>2, <2>3 DEF Exact, Lists
<1>7. ASSUME NEW t, request \in Lists, Queries[request] = List(t)
      PROVE  Asks(n) = Count("list", table, Ever)
  <2>1. n = "list"
    BY <1>1, <1>7 DEF TotalsOf, Lists
  <2>2. table = t
    BY <1>3, <1>7 DEF List
  <2> QED
    BY <1>7, <2>1, <2>2, ListPlaces DEF Asks
<1>8. CASE request \in Lists
  <2>1. \E t : Queries[request] = List(t)
    BY <1>8, QueriesAre DEF Lists
  <2>2. Asks(n) = Count("list", table, Ever)
    BY <1>7, <1>8, <2>1
  <2> QED
    BY <1>1, <1>8, <2>2
<1>9. request \in Lists \cup {"anomaly_summary", "confidence_distribution", "alert_stats"}
    BY <1>1 DEF TotalsOf, Lists
<1> QED
    BY <1>4, <1>5, <1>6, <1>8, <1>9

\* An answer that counts all rows shows all that an earlier one could have.
LEMMA TotalShowsAll ==
    ASSUME TypesOK, NEW n \in Totals, NEW x \in Answers(Asks(n))
    PROVE  x >= IF request \in Lists THEN Min({limit, known}) ELSE known
<1>1. RowsOK /\ limit \in Nat /\ known \in 0..Len(rows) /\ Len(rows) \in Nat
    BY RowsAre DEF TypesOK
<1>2. Matching(Asks(n), Marks(table)) = Len(rows)
    BY <1>1, TotalsAskAll, MatchingAll
<1>3. CASE request \in Lists
  <2>1. x = Min({limit, Len(rows)})
    BY <1>1, <1>2, <1>3, TotalsAskAll, AnswersAre
  <2>2. /\ Min({limit, Len(rows)}) = IF limit <= Len(rows) THEN limit ELSE Len(rows)
        /\ Min({limit, known}) = IF limit <= known THEN limit ELSE known
    BY <1>1, MinOfTwo
  <2> QED
    BY <1>1, <1>3, <2>1, <2>2
<1>4. CASE request \notin Lists
  <2>1. x = Len(rows)
    BY <1>1, <1>2, <1>4, TotalsAskAll, AnswersAre DEF Counted
  <2> QED
    BY <1>1, <1>4, <2>1
<1> QED
    BY <1>3, <1>4

LEMMA PollsNext == TypesOK /\ PollsAdvance /\ [Next]_vars => PollsAdvance'
<1> SUFFICES ASSUME TypesOK, PollsAdvance, [Next]_vars PROVE PollsAdvance'
    OBVIOUS
<1>1. ASSUME NEW n \in DOMAIN got, Answered(n) PROVE PollsAdvance'
  <2>1. PICK x \in Answers(Asks(n)) : got' = [got EXCEPT ![n] = x]
    BY <1>1 DEF Answered, Asks
  <2>2. x \in Nat /\ n \in Unasked
    BY <1>1, AnswersAre DEF TypesOK, Answered, Turn
  <2>3. /\ Unasked' = Unasked \ {n} /\ DOMAIN got' = DOMAIN got /\ got'[n] = x
        /\ \A m \in Given : got'[m] = got[m]
    BY <1>1, <2>1, <2>2, FigureSteps DEF Answered
  <2>4. UNCHANGED <<table, request, filter, limit, known>> /\ Totals' = Totals
    BY <1>1, <2>3 DEF Answered, Totals
  <2>5. ASSUME NEW m \in Totals \ (Unasked \ {n})
        PROVE  got'[m] >= IF request \in Lists THEN Min({limit, known}) ELSE known
    <3>1. CASE m = n
      BY <2>1, <2>3, <3>1, TotalShowsAll
    <3>2. CASE m # n
      <4>1. m \in Given /\ m \in Totals \ Unasked
        BY <3>2 DEF Given, Totals
      <4> QED
        BY <2>3, <4>1 DEF PollsAdvance
    <3> QED
      BY <3>1, <3>2
  <2> QED
    BY <2>3, <2>4, <2>5 DEF PollsAdvance
<1>2. ASSUME NEW n \in DOMAIN got, FetchvalFails(n) PROVE PollsAdvance'
  <2>1. Totals' = {}
    BY <1>2 DEF FetchvalFails, Totals, TotalsOf, Concurrent
  <2> QED
    BY <2>1 DEF PollsAdvance
<1>3. ASSUME NEW status, Over(status) PROVE PollsAdvance'
  <2>1. Totals' = {}
    BY <1>3 DEF Over, Totals, TotalsOf
  <2> QED
    BY <2>1 DEF PollsAdvance
<1>4. ASSUME NEW r \in Requests, Ask(r) PROVE PollsAdvance'
  <2>1. Totals' \ Unasked' = {}
    BY <1>4 DEF Ask, Totals, Unasked
  <2> QED
    BY <2>1 DEF PollsAdvance
<1>5. ASSUME UNCHANGED <<table, request, filter, limit, got, known>> PROVE PollsAdvance'
    BY <1>5 DEF PollsAdvance, Totals, Unasked
<1> QED
    BY <1>1, <1>2, <1>3, <1>4, <1>5 DEF Next, Insert, Age, RequestFails, Respond, vars

\* What counts all rows never shows fewer than an earlier answer did.
THEOREM AnswersAdvance == Spec => []PollsAdvance
<1>1. Init => PollsAdvance
    BY DEF Init, PollsAdvance, Totals, TotalsOf
<1>2. FiguresInv => TypesOK
    BY DEF FiguresInv
<1> QED
    BY <1>1, <1>2, FiguresInit, FiguresNext, PollsNext, PTL DEF Spec
================================================================================
