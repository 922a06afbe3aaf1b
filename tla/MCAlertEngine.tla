---------------------------- MODULE MCAlertEngine ----------------------------
(* AnalysisToAlert with the default rules (router.py:33) for critical and  *)
(* low, and seven analyses of one service: three confident criticals, one  *)
(* below the confidence gate, one that the LLM calls low, one of a         *)
(* severity that the LLM invents and no rule names, one that failed.       *)
EXTENDS AnalysisToAlert, TLC

CONSTANTS r1, r2, r3, r4, r5, r6, r7

MCResults    == {r1, r2, r3, r4, r5, r6, r7}
MCChannels   == {"pagerduty", "slack"}
MCSeverities == {"critical", "low", "medium"}
MCServices   == {"auth"}
MCServiceOf  == [r \in MCResults |-> "auth"]

MCRequest == [r \in MCResults |-> [severity |-> "critical"]]
Answer(confidence, severity) ==
    [kind |-> "answer", fields |-> [confidence |-> confidence, severity |-> severity]]
MCReply == [r \in MCResults |->
    CASE r = r4 -> Answer(49, "critical")
      [] r = r5 -> Answer(9500, "low")
      [] r = r6 -> Answer(90, "catastrophic")
      [] r = r7 -> [kind |-> "failure"]
      [] OTHER  -> Answer(50, "Critical")]

MCSeverityOf   == [r \in MCResults |-> AnalysisResult(MCRequest[r], MCReply[r]).analysis.severity]
MCConfidenceOf == [r \in MCResults |-> AnalysisResult(MCRequest[r], MCReply[r]).analysis.confidence]

MCRules ==
    [s \in {"critical", "low"} |->
        IF s = "critical"
          THEN [channels |-> <<"pagerduty", "slack">>, require_confidence_above |-> 50]
          ELSE [channels |-> << >>, require_confidence_above |-> 0]]

Interchangeable == Permutations({r1, r2, r3})
=============================================================================
