------------------------------- MODULE LogStore -------------------------------
(***************************************************************************)
(* What the ingestion consumers promise, whatever their number, the        *)
(* rebalances, the crashes and the order of their steps: records only      *)
(* accumulate, rows only accumulate, and the group's offset moves forward, *)
(* over records that are stored, undecodable or given up.                  *)
(***************************************************************************)
EXTENDS Integers, Sequences

CONSTANTS Partitions, Entries, Garbage

VARIABLES
    topic,      \* the records of each partition
    committed,  \* the group's offset in each partition
    raw_logs,   \* the rows
    lost        \* the records a failed insert gave up

vars == <<topic, committed, raw_logs, lost>>

Record(p, i) == topic[p][i]
Present == UNION {{<<p, i>> : i \in 1 .. Len(topic[p])} : p \in Partitions}

Settled(p, i) ==
    Record(p, i) \in Garbage \cup raw_logs \/ <<p, i>> \in lost

Init ==
    /\ topic = [p \in Partitions |-> << >>]
    /\ committed = [p \in Partitions |-> 0]
    /\ raw_logs = {} /\ lost = {}

AppendRecord(p) ==
    /\ \E r \in Entries \cup Garbage : topic' = [topic EXCEPT ![p] = Append(@, r)]
    /\ UNCHANGED <<committed, raw_logs, lost>>

\* A batch is inserted, or its insert raises (applied or not).
Process ==
    /\ lost \subseteq lost' /\ lost' \subseteq Present
    /\ raw_logs \subseteq raw_logs'
    /\ raw_logs' \subseteq Entries \cap (raw_logs \cup {Record(m[1], m[2]) : m \in Present})
    /\ UNCHANGED <<topic, committed>>

Advance ==
    /\ \A p \in Partitions :
          /\ committed'[p] \in committed[p] .. Len(topic[p])
          /\ \A i \in committed[p] + 1 .. committed'[p] : Settled(p, i)
    /\ committed' \in [Partitions -> Nat]
    /\ UNCHANGED <<topic, raw_logs, lost>>

Next == (\E p \in Partitions : AppendRecord(p)) \/ Process \/ Advance

Spec == Init /\ [][Next]_vars
=============================================================================
