------------------------------- MODULE Dashboard -------------------------------
(***************************************************************************)
(* src/src/dashboard/routers: the read-only endpoints of the dashboard,    *)
(* against tables that the other processes write and that time moves.      *)
(*                                                                         *)
(* An endpoint sends its queries one by one on one connection, without a   *)
(* transaction: each of them sees the tables as they are when it runs.     *)
(* The two endpoints of metrics.py send all of theirs at once, each on a   *)
(* connection of its own.  Between two queries rows are inserted, and rows *)
(* get too old for a window.                                               *)
(*                                                                         *)
(* A breakdown (GROUP BY) is the number of rows in it, an average the      *)
(* number of rows it is taken over.  The queries of a request do not       *)
(* disturb each other, and tables say nothing about one another: so a      *)
(* behaviour follows one table, any, and at most two figures of each       *)
(* answer, any two.                                                        *)
(*                                                                         *)
(* An operator Bad... is a plausible mistake in the one it is named after; *)
(* no action uses it.                                                      *)
(***************************************************************************)
EXTENDS Integers, Sequences, FiniteSets, FiniteSetsExt

CONSTANTS
    MaxRows,     \* bound: rows of the table
    MaxChanges,  \* bound: changes of the table during a request
    MaxLimit     \* bound: the largest ?limit= of a list

ASSUME DashboardAssumption ==
    MaxRows \in Nat /\ MaxChanges \in Nat /\ MaxLimit \in Nat \ {0}

VARIABLES
    table,     \* the table that the behaviour follows
    rows,      \* its rows, in the order of their insertion
    request,   \* the endpoint that is being answered, or "none"
    filter,    \* a list: the rows its parameters select
    limit,     \* a list: its ?limit=
    got,       \* the followed figures, as far as their queries were answered
    code,      \* the HTTP status of the last answer, 0 while there is none
    \* history, read by no action
    came,      \* rows inserted since the request began
    left,      \* rows that grew older since the request began
    known      \* the most rows of the table that an answer has shown yet

vars == <<table, rows, request, filter, limit, got, code, came, left, known>>

\* The windows of the queries: 5 minutes, 1 hour, 24 hours, 7 days, no window.
M5 == 0
H1 == 1
H24 == 2
D7 == 3
Ever == 4
Windows == M5..Ever

Logs     == "raw_logs"
Analyses == "analysis_results"
Alerts   == "alerts"
Tables   == {Logs, Analyses, Alerts}

\* What the WHERE clauses tell apart: the level, the severity, the status.
Marks(t) ==
    CASE t = Logs     -> {"error", "other"}
      [] t = Analyses -> {"critical", "other"}
      [] t = Alerts   -> {"sent", "suppressed", "failed"}

\* A row is as old as the narrowest window that still has it.
Row(t) == [mark : Marks(t), age : Windows]

-----------------------------------------------------------------------------
(* The queries of the endpoints, in their order.                           *)

Q(name, t, marks, window) ==
    [name |-> name, table |-> t, marks |-> marks, window |-> window]
Count(name, t, window) == Q(name, t, Marks(t), window)

\* GET /api/logs/stats
LogStats == <<
    Count("total", Logs, H24), Count("by_level", Logs, H24),
    Count("by_service", Logs, H24), Count("error_rate", Logs, H1)>>

\* GET /api/anomalies/summary
BadAnomalySummary == <<
    Count("total", Analyses, H24), Count("by_severity", Analyses, H24),
    Count("last_24h", Analyses, H24), Count("top_services", Analyses, D7)>>
AnomalySummary == <<
    Count("total", Analyses, Ever), Count("by_severity", Analyses, Ever),
    Count("last_24h", Analyses, H24), Count("top_services", Analyses, D7)>>

\* GET /api/analysis/confidence
ConfidenceDistribution == <<
    Count("distribution", Analyses, Ever), Count("average", Analyses, Ever),
    Count("total", Analyses, Ever)>>

\* GET /api/alerts/stats
BadAlertStats == <<
    Q("sent", Alerts, {"sent"}, Ever), Count("by_severity", Alerts, Ever),
    Count("total", Alerts, Ever)>>
AlertStats == <<
    Count("total", Alerts, Ever), Q("sent", Alerts, {"sent"}, Ever),
    Count("by_severity", Alerts, Ever)>>

\* GET /api/metrics/summary
SystemSummary == <<
    Count("logs_1h", Logs, H1), Count("logs_24h", Logs, H24),
    Count("error_rate", Logs, H1), Count("anomalies_24h", Analyses, H24),
    Q("critical", Analyses, {"critical"}, H24), Count("avg_confidence", Analyses, H24),
    Q("sent", Alerts, {"sent"}, H24), Q("suppressed", Alerts, {"suppressed"}, H24),
    Count("avg_analysis_ms", Analyses, H24)>>

\* GET /api/metrics/pipeline/health
PipelineHealth == <<Count("logs_5m", Logs, M5), Count("analyses_1h", Analyses, H1)>>

\* The endpoints that send one query: the lists of the three tables (those of
\* /api/anomalies and /api/analysis are the same), /api/logs/services, the trend
\* of a service over its last hours, and one row by its id.
Services == <<Count("services", Logs, D7)>>
Trend    == <<Count("points", Analyses, D7)>>
List(t)  == <<Count("list", t, Ever)>>
ById(t)  == <<Count("row", t, Ever)>>

Queries == [
    log_stats |-> LogStats, anomaly_summary |-> AnomalySummary,
    confidence_distribution |-> ConfidenceDistribution,
    alert_stats |-> AlertStats, system_summary |-> SystemSummary,
    pipeline_health |-> PipelineHealth, list_services |-> Services,
    service_trend |-> Trend, list_logs |-> List(Logs), list_analyses |-> List(Analyses),
    list_alerts |-> List(Alerts), get_log |-> ById(Logs),
    get_analysis |-> ById(Analyses), get_alert |-> ById(Alerts)]

Requests   == DOMAIN Queries
\* asyncio.gather over _fetchval.
Concurrent == {"system_summary", "pipeline_health"}
Lists      == {"list_logs", "list_analyses", "list_alerts"}
Details    == {"get_log", "get_analysis", "get_alert"}

\* A figure that was not asked for yet, and the None of a failed _fetchval.
NotYet == -2
None   == -1

\* The figures of a request that come from the table.
Names(r) == {Queries[r][i].name : i \in {j \in DOMAIN Queries[r] : Queries[r][j].table = table}}
Place(r, name) == CHOOSE i \in DOMAIN Queries[r] : Queries[r][i].name = name
QueryOf(r, name) == Queries[r][Place(r, name)]

-----------------------------------------------------------------------------
(* The database.                                                           *)

Matching(q, marks) ==
    Cardinality({i \in DOMAIN rows : rows[i].mark \in marks /\ rows[i].age <= q.window})

\* What a query may answer.  A LIMIT of groups leaves out some of the rows, but
\* never all; the rows may belong to other services than the one of a trend, and
\* none of them may have the id that is asked for.
Answers(q) ==
    LET n == Matching(q, q.marks) IN
    CASE q.name \in {"by_service", "top_services", "services"} -> Min({1, n})..n
      [] q.name = "points" -> 0..n
      [] q.name = "row" -> 0..Min({1, n})
      [] q.name = "list" -> {Min({limit, Matching(q, filter)})}
      [] OTHER -> {n}

Busy == request # "none"
MayChange == Busy => came + left < MaxChanges

\* A process inserts a row: a log with the timestamp of its client, an analysis
\* or an alert with that of the moment.  No row is ever removed or rewritten:
\* save_alert is called once for an alert.
Insert(r) ==
    /\ MayChange /\ Len(rows) < MaxRows
    /\ table # Logs => r.age = M5
    /\ rows' = Append(rows, r)
    /\ came' = IF Busy THEN came + 1 ELSE 0
    /\ UNCHANGED <<table, request, filter, limit, got, code, left, known>>

\* A row leaves a window.
Age(i) ==
    /\ MayChange /\ rows[i].age < Ever
    /\ rows' = [rows EXCEPT ![i].age = @ + 1]
    /\ left' = IF Busy THEN left + 1 ELSE 0
    /\ UNCHANGED <<table, request, filter, limit, got, code, came, known>>

-----------------------------------------------------------------------------
(* A request.                                                              *)

Init ==
    /\ table \in Tables /\ rows = << >>
    /\ request = "none" /\ code = 0
    /\ filter = {} /\ limit = 0 /\ got = << >>
    /\ came = 0 /\ left = 0
    /\ known = 0

\* A list has optional filters and a limit.
Ask(r) ==
    /\ ~ Busy /\ Names(r) # {}
    /\ request' = r /\ code' = 0
    /\ \E followed \in SUBSET Names(r) :
          /\ Cardinality(followed) = Min({2, Cardinality(Names(r))})
          /\ got' = [n \in followed |-> NotYet]
    /\ IF r \in Lists
       THEN /\ filter' \in SUBSET Marks(table)
            /\ limit' \in 1..MaxLimit
       ELSE filter' = {} /\ limit' = 0
    /\ UNCHANGED <<table, rows, came, left, known>>

\* The next query, or any of those that run concurrently.
Unasked == {n \in DOMAIN got : got[n] = NotYet}
Turn(name) ==
    /\ name \in Unasked
    /\ request \notin Concurrent =>
          \A n \in Unasked : Place(request, name) <= Place(request, n)

Answered(name) ==
    /\ Busy /\ Turn(name)
    /\ \E n \in Answers(QueryOf(request, name)) : got' = [got EXCEPT ![name] = n]
    /\ UNCHANGED <<table, rows, request, filter, limit, code, came, left, known>>

\* The request is over.
Over(status) ==
    /\ code' = status
    /\ request' = "none" /\ got' = << >>
    /\ filter' = {} /\ limit' = 0 /\ came' = 0 /\ left' = 0

\* A query of _fetchval fails: None, which is shown as 0.
FetchvalFails(name) ==
    /\ request \in Concurrent /\ Turn(name)
    /\ got' = [got EXCEPT ![name] = None]
    /\ UNCHANGED <<table, rows, request, filter, limit, code, came, left, known>>

\* Another query fails, or a pool cannot be had: 500.
RequestFails ==
    /\ Busy
    /\ request \in Concurrent => Unasked = DOMAIN got
    /\ Over(500)
    /\ UNCHANGED <<table, rows, known>>

\* A figure as it is shown.
Shown(name) == IF got[name] = None THEN 0 ELSE got[name]
Suppressed == Shown("total") - Shown("sent")

NotFound ==
    /\ request \in Details \cup {"service_trend"}
    /\ \E n \in DOMAIN got : got[n] = 0

\* The figures of the answer that count all rows of the table.
TotalsOf == [
    anomaly_summary |-> {"total", "by_severity"},
    confidence_distribution |-> {"distribution", "average", "total"},
    alert_stats |-> {"total", "by_severity"},
    list_logs |-> {"list"}, list_analyses |-> {"list"}, list_alerts |-> {"list"}]
Totals ==
    IF request \in DOMAIN TotalsOf /\ (request \in Lists => filter = Marks(table))
    THEN DOMAIN got \cap TotalsOf[request] ELSE {}

Respond ==
    /\ Busy /\ Unasked = {}
    /\ Over(IF NotFound THEN 404 ELSE 200)
    /\ known' = Max({known} \cup {Shown(n) : n \in Totals})
    /\ UNCHANGED <<table, rows>>

Next ==
    \/ \E r \in Row(table) : Insert(r)
    \/ \E i \in DOMAIN rows : Age(i)
    \/ \E r \in Requests : Ask(r)
    \/ \E n \in DOMAIN got : Answered(n) \/ FetchvalFails(n)
    \/ RequestFails \/ Respond

Spec == Init /\ [][Next]_vars

-----------------------------------------------------------------------------
(* Properties.                                                             *)

Has(r, a, b) == request = r /\ {a, b} \subseteq DOMAIN got /\ {a, b} \cap Unasked = {}
NoMore(a, b, slack) == Shown(a) <= Shown(b) + slack

\* The figures of one answer agree up to what happened while it was put
\* together, and figures that count rows which never go away agree in the
\* direction of their queries, whatever is inserted between them.
FiguresAgree ==
    /\ Has("log_stats", "total", "by_level") =>
          NoMore("total", "by_level", left) /\ NoMore("by_level", "total", came)
    /\ Has("log_stats", "by_level", "by_service") => NoMore("by_service", "by_level", came)
    /\ Has("log_stats", "total", "error_rate") => NoMore("error_rate", "total", came)
    /\ Has("anomaly_summary", "total", "by_severity") =>
          NoMore("total", "by_severity", 0) /\ NoMore("by_severity", "total", came)
    /\ \A n \in {"last_24h", "top_services"} :
          Has("anomaly_summary", "by_severity", n) => NoMore(n, "by_severity", came)
    /\ Has("confidence_distribution", "distribution", "total") =>
          NoMore("distribution", "total", 0) /\ NoMore("total", "distribution", came)
    /\ Has("confidence_distribution", "distribution", "average") =>
          NoMore("distribution", "average", 0)
    /\ Has("confidence_distribution", "average", "total") => NoMore("average", "total", 0)
    /\ Has("alert_stats", "total", "by_severity") => NoMore("total", "by_severity", 0)
    /\ Has("alert_stats", "total", "sent") => Suppressed >= - came
    /\ Has("system_summary", "logs_1h", "logs_24h") /\ got["logs_24h"] # None =>
          NoMore("logs_1h", "logs_24h", came + left)
    /\ Has("system_summary", "critical", "anomalies_24h") /\ got["anomalies_24h"] # None =>
          NoMore("critical", "anomalies_24h", came + left)

\* What counts all rows of a table never shows fewer than an earlier answer did,
\* of the same endpoint or of another one.
PollsAdvance ==
    \A n \in Totals \ Unasked :
        got[n] >= IF request \in Lists THEN Min({limit, known}) ELSE known
===============================================================================
