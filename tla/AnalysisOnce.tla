----------------------------- MODULE AnalysisOnce -----------------------------
(***************************************************************************)
(* What the analysis workers promise of the anomalies, whatever their      *)
(* number, the failures and the order of their steps: an anomaly of the    *)
(* queue is taken once, by one worker, and a taken anomaly gets at most    *)
(* one row of analysis_results.  It is an at-most-once service: what is    *)
(* taken and not stored never comes back.                                  *)
(***************************************************************************)
CONSTANTS Anomalies

VARIABLES
    waiting,  \* the anomalies of the queue
    taken,    \* the anomalies a worker has under way
    stored,   \* the anomalies that have a row
    dropped   \* the anomalies that left the queue and get no (more) row

vars == <<waiting, taken, stored, dropped>>

Init == waiting = {} /\ taken = {} /\ stored = {} /\ dropped = {}

Arrive(a) ==
    /\ a \notin waiting \cup taken \cup stored \cup dropped
    /\ waiting' = waiting \cup {a}
    /\ UNCHANGED <<taken, stored, dropped>>

Take(a) ==
    /\ a \in waiting
    /\ waiting' = waiting \ {a}
    /\ taken' = taken \cup {a}
    /\ UNCHANGED <<stored, dropped>>

\* The work on some anomalies ends: several at once when a worker dies, then
\* perhaps with one more that had just left the queue for it.
Finish ==
    \E done \in SUBSET taken : \E rows \in SUBSET done :
    \E popped \in {{}} \cup {{a} : a \in waiting} :
        /\ waiting' = waiting \ popped
        /\ taken' = taken \ done
        /\ stored' = stored \cup rows
        /\ dropped' = dropped \cup (done \ rows) \cup popped

Next == (\E a \in Anomalies : Arrive(a) \/ Take(a)) \/ Finish

Spec == Init /\ [][Next]_vars
===============================================================================
