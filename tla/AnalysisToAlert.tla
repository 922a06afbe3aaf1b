---------------------------- MODULE AnalysisToAlert ----------------------------
(***************************************************************************)
(* AnalysisGraph and AlertEngine composed: the results that process() gets *)
(* are those that the graph makes of requests and replies.  The docstring  *)
(* of engine.py names the analysis worker as the caller of process().      *)
(***************************************************************************)
EXTENDS AlertEngine, AnalysisGraph

CONSTANTS
    Request,  \* Request[r]: the anomaly that r is the analysis of
    Reply     \* Reply[r]: what the LLM replied

Produced(r) == AnalysisResult(Request[r], Reply[r])

ASSUME GraphAssumption ==
    \A r \in Results : Produced(r).analysis =
        [confidence |-> ConfidenceOf[r], severity |-> SeverityOf[r]]

-----------------------------------------------------------------------------
\* While the LLM fails, the anomalies that reach the workers (medium and worse)
\* alert nobody: the fallback has no confidence, so that the confidence gate
\* holds every one of them back.  It does so before the cooldown is touched: a
\* failed analysis does not hold back a good one, and its row says so.
FailedAnalysesStaySilent ==
    \A r \in Results : ~ Produced(r).success =>
        /\ \A ch \in Channels : <<r, ch>> \notin notified
        /\ pc[r] \notin {"get", "setex", "deliver"} /\ r \notin cooled
        /\ r \in DOMAIN alerts => alerts[r] = "suppressed"
===============================================================================
