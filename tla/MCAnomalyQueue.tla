---------------------------- MODULE MCAnomalyQueue ----------------------------
(* AnomalyQueue with five anomalies: four of one (service, severity), one  *)
(* of which is unreadable, and one of low severity.                        *)
EXTENDS AnomalyQueue, TLC

CONSTANTS e1, e2, e3, e4, e5, k1, k2

MCEvents == {e1, e2, e3, e4, e5}
MCKeys   == {k1, k2}
MCKeyOf  == [e \in MCEvents |-> IF e = e4 THEN k2 ELSE k1]
MCMinor  == {e4}
MCUnreadable == {e3}

Interchangeable == Permutations(Pushers) \cup Permutations({e1, e2, e5})
=============================================================================
