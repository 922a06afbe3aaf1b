----------------------------- MODULE AnalysisGraph -----------------------------
(***************************************************************************)
(* src/src/analysis/agent.py and models.py: what the analysis graph makes  *)
(* of a request and of the reply of the LLM.  Pure.                        *)
(*                                                                         *)
(* A reply is an answer with its fields, or a failure: the call raises,    *)
(* what comes is no JSON, or RootCauseAnalysis rejects it.  Of its fields, *)
(* and of the request's, only those that the alert router reads are here;  *)
(* the context of the tools is in none of them.  Confidences are           *)
(* hundredths.                                                             *)
(*                                                                         *)
(* An operator Bad... is a plausible mistake in the one it is named after; *)
(* nothing uses it.                                                        *)
(***************************************************************************)
EXTENDS Integers, FiniteSetsExt

Levels == {"low", "medium", "high", "critical"}

\* The validators of RootCauseAnalysis.
Clamp(confidence) == Max({0, Min({100, confidence})})
Lower(severity) == IF severity = "Critical" THEN "critical" ELSE severity
ValidSeverity(severity) ==
    IF Lower(severity) \in Levels THEN Lower(severity) ELSE "medium"
RootCauseAnalysis(fields) ==
    [confidence |-> Clamp(fields.confidence), severity |-> ValidSeverity(fields.severity)]

\* _fallback_analysis: the anomaly's own severity, and no confidence.
BadFallback(request) == RootCauseAnalysis([confidence |-> 50, severity |-> request.severity])
Fallback(request)    == RootCauseAnalysis([confidence |-> 0, severity |-> request.severity])

\* llm_analyze: whatever fails is replaced by the fallback.
LlmAnalyze(request, reply) ==
    CASE reply.kind = "answer"  -> [analysis |-> RootCauseAnalysis(reply.fields), error |-> FALSE]
      [] reply.kind = "failure" -> [analysis |-> Fallback(request), error |-> TRUE]

\* format_result.
AnalysisResult(request, reply) ==
    LET state == LlmAnalyze(request, reply) IN
    [analysis |-> state.analysis, success |-> ~ state.error]
===============================================================================
