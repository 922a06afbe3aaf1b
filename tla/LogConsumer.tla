----------------------------- MODULE LogConsumer -----------------------------
(***************************************************************************)
(* src/src/ingestion/kafka_consumer.py: the consumer of the log topic.     *)
(*                                                                         *)
(* Each consumer process loops: poll a micro-batch, deserialise it, insert *)
(* the entries into raw_logs, hand them to the optional on_batch callback, *)
(* commit the offsets.  Auto-commit is off, so commit(asynchronous=False), *)
(* which takes no arguments, commits for every assigned partition whatever *)
(* POSITION the client has reached: it does not know which batch the code  *)
(* believes it is committing.                                              *)
(*                                                                         *)
(* The broker (topics, offsets, group membership) is external and is       *)
(* modelled from the settings and calls of kafka_consumer.py.  With no     *)
(* rebalance callback registered, the client library adopts a new          *)
(* assignment by itself, between any two steps of the loop, and resets its *)
(* positions to the committed offsets.                                     *)
(*                                                                         *)
(* A Kafka message is a member of Entries (a decodable LogEntry, named by  *)
(* its id) or of Garbage (anything _deserialise rejects).  A position or a *)
(* committed offset n means "the first n records of the partition".        *)
(*                                                                         *)
(* An operator Bad... is a plausible mistake in the one it is named after; *)
(* no action uses it.                                                      *)
(***************************************************************************)
EXTENDS Integers, Sequences, FiniteSets

CONSTANTS
    Consumers,   \* consumer processes of the group log-consumer-group
    Partitions,  \* partitions of the topic
    Entries,     \* log entry ids
    Garbage,     \* undecodable payloads
    NoOne,       \* "no consumer": the owner of an unassigned partition
    BatchSize,   \* BATCH_SIZE
    OnBatch,     \* whether LogConsumer was given an on_batch callback
    Codecs,      \* the values of codec to consider; {FALSE} is db.py as it is
    MaxRecords,  \* bound: records ever produced to one partition
    MaxFaults,   \* bound: failures, stops and evictions in a behaviour
    MaxStarts    \* bound: process starts in a behaviour

ASSUME SizesAssumption ==
    /\ BatchSize \in Nat \ {0}
    /\ MaxRecords \in Nat
    /\ MaxFaults \in Nat
    /\ MaxStarts \in Nat
    /\ OnBatch \in BOOLEAN
    /\ Codecs \subseteq BOOLEAN
ASSUME NamesAssumption ==
    /\ NoOne \notin Consumers
    /\ Entries \cap Garbage = {}

VARIABLES
    \* the broker
    topic,      \* topic[p]: the log of partition p
    committed,  \* committed[p]: the group's committed offset
    owner,      \* owner[p]: the member that the current generation gives p to
    members,    \* the members of the current generation
    joined,     \* the live consumers that adopted the current generation
    \* PostgreSQL and its client
    raw_logs,   \* ids of the rows of raw_logs
    codec,      \* whether the pool has a codec that makes JSON of a dict
    \* each consumer process
    pc,         \* where its start() loop is
    running,    \* _running
    assigned,   \* the partitions its client believes it owns
    position,   \* its client's position, which is also the stored offset
    batch,      \* raw_messages: a sequence of <<partition, index>>
    processed,  \* _processed
    errors,     \* _errors
    \* history, read by no action
    failed,     \* messages whose insert raised
    offered,    \* messages the on_batch callback was called with
    \* bounds
    faults, starts

broker  == <<topic, committed, owner, members, joined>>
client  == <<assigned, position, batch>>
counts  == <<processed, errors>>
history == <<failed, offered>>
bounds  == <<faults, starts>>
vars    == <<broker, raw_logs, pc, running, client, counts, history, bounds,
             codec>>

-----------------------------------------------------------------------------
PCs == {"down", "poll", "insert", "callback", "commit", "closing"}

Records  == Entries \cup Garbage
Messages == Partitions \X (Nat \ {0})
Payload(m) == topic[m[1]][m[2]]

MessagesIn(b) == {b[k] : k \in DOMAIN b}

\* _deserialise returned a LogEntry: the indices of raw_messages that count.
Decoded(b) == {k \in DOMAIN b : Payload(b[k]) \in Entries}

EntryMessages(b) == {b[k] : k \in Decoded(b)}
EntryIds(b)      == {Payload(b[k]) : k \in Decoded(b)}

Live == {c \in Consumers : pc[c] # "down"}

CanFail == faults < MaxFaults
Fault   == CanFail /\ faults' = faults + 1

Init ==
    /\ topic = [p \in Partitions |-> << >>]
    /\ committed = [p \in Partitions |-> 0]
    /\ owner = [p \in Partitions |-> NoOne]
    /\ members = {} /\ joined = {}
    /\ raw_logs = {} /\ codec \in Codecs
    /\ pc = [c \in Consumers |-> "down"]
    /\ running = [c \in Consumers |-> FALSE]
    /\ assigned = [c \in Consumers |-> {}]
    /\ position = [c \in Consumers |-> [p \in Partitions |-> 0]]
    /\ batch = [c \in Consumers |-> << >>]
    /\ processed = [c \in Consumers |-> 0]
    /\ errors = [c \in Consumers |-> 0]
    /\ failed = {} /\ offered = {}
    /\ faults = 0 /\ starts = 0

-----------------------------------------------------------------------------
(* The broker and the client library.                                      *)

\* LogProducer (or any other producer) appends a record.  Nothing prevents a
\* retried send from appending the same entry twice.
Produce(p, r) ==
    /\ Len(topic[p]) < MaxRecords
    /\ topic' = [topic EXCEPT ![p] = Append(@, r)]
    /\ UNCHANGED <<committed, owner, members, joined, raw_logs, pc, running,
                   client, counts, history, bounds, codec>>

\* A process came, left or was lost (one that died and came back left its old
\* member id behind): the coordinator forms a new generation of the live
\* consumers, in which each partition has one owner.
Rebalance ==
    /\ Live # {}
    /\ members # Live \/ \E p \in Partitions : owner[p] \notin members
    /\ members' = Live /\ joined' = {}
    /\ owner' \in [Partitions -> Live]
    /\ UNCHANGED <<topic, committed, raw_logs, pc, running, client, counts,
                   history, bounds, codec>>

\* session.timeout.ms or max.poll.interval.ms expires for a consumer that is
\* alive but slow: the others go on without it.
Evict(c) ==
    /\ Fault
    /\ c \in members
    /\ members' = members \ {c} /\ joined' = {}
    /\ owner' \in [Partitions -> IF members' = {} THEN {NoOne} ELSE members']
    /\ UNCHANGED <<topic, committed, raw_logs, pc, running, client, counts,
                   history, starts, codec>>

\* Where a client starts to read a newly assigned partition: the committed
\* offset, or the beginning (auto.offset.reset = earliest).
BadResumeAt(p) == Len(topic[p])
ResumeAt(p) == committed[p]

\* The client library adopts the current generation's assignment, whatever
\* the loop is doing: the batch in hand stays in hand.
JoinGroup(c) ==
    /\ c \in members \ joined /\ pc[c] \notin {"down", "closing"}
    /\ joined' = joined \cup {c}
    /\ assigned' = [assigned EXCEPT ![c] = {p \in Partitions : owner[p] = c}]
    /\ position' = [position EXCEPT ![c] = [p \in Partitions |-> ResumeAt(p)]]
    /\ UNCHANGED <<topic, committed, owner, members, raw_logs, pc, running,
                   batch, counts, history, bounds, codec>>

-----------------------------------------------------------------------------
(* start(): the loop.                                                      *)

\* A fresh process: a new LogConsumer, subscribed under a new member id.
Start(c) ==
    /\ pc[c] = "down" /\ starts < MaxStarts
    /\ starts' = starts + 1
    /\ pc' = [pc EXCEPT ![c] = "poll"]
    /\ running' = [running EXCEPT ![c] = TRUE]
    /\ members' = members \ {c}
    /\ processed' = [processed EXCEPT ![c] = 0]
    /\ errors' = [errors EXCEPT ![c] = 0]
    /\ UNCHANGED <<topic, committed, owner, joined, raw_logs, client, history,
                   faults, codec>>

\* The `while self._running` test.
LoopHead(c) ==
    pc' = [pc EXCEPT ![c] = IF running[c] THEN "poll" ELSE "closing"]

\* One poll() of _poll_batch returns the next record of a partition the
\* client believes it owns; a client that has not heard of a rebalance yet
\* still delivers what it fetched before.
PollRecord(c, p) ==
    /\ pc[c] = "poll" /\ Len(batch[c]) < BatchSize
    /\ p \in assigned[c] /\ position[c][p] < Len(topic[p])
    /\ batch' = [batch EXCEPT ![c] = Append(@, <<p, position[c][p] + 1>>)]
    /\ position' = [position EXCEPT ![c][p] = @ + 1]
    /\ UNCHANGED <<broker, raw_logs, pc, running, assigned, counts, history,
                   bounds, codec>>

\* poll() returns an error event other than _PARTITION_EOF.
PollError(c) ==
    /\ Fault
    /\ pc[c] = "poll"
    /\ errors' = [errors EXCEPT ![c] = @ + 1]
    /\ UNCHANGED <<broker, raw_logs, pc, running, client, processed, history,
                   starts, codec>>

\* What follows _poll_batch: an empty batch, or one with nothing decodable,
\* goes back to the loop with no commit.
EndPoll(c) ==
    /\ pc[c] = "poll"
    /\ errors' = [errors EXCEPT ![c] =
                    @ + Len(batch[c]) - Cardinality(Decoded(batch[c]))]
    /\ \/ /\ Decoded(batch[c]) = {}
          /\ batch' = [batch EXCEPT ![c] = << >>]
          /\ LoopHead(c)
       \/ /\ Decoded(batch[c]) # {}
          /\ pc' = [pc EXCEPT ![c] = "insert"]
          /\ UNCHANGED batch
    /\ UNCHANGED <<broker, raw_logs, running, assigned, position, processed,
                   history, bounds, codec>>

BadAfterInsert == "commit"
AfterInsert == IF OnBatch THEN "callback" ELSE "commit"

\* insert_logs_bulk: one atomic executemany with ON CONFLICT DO NOTHING.  Each
\* row has attributes, a dict, for a JSONB column.  asyncpg takes text there:
\* without a codec, which get_pool does not set, it refuses the first row
\* before it sends any.
BadStored(c) == IF codec /\ EntryIds(batch[c]) \cap raw_logs = {}
                THEN raw_logs \cup EntryIds(batch[c]) ELSE raw_logs
Stored(c) == IF codec THEN raw_logs \cup EntryIds(batch[c]) ELSE raw_logs

\* It returns the number of rows it was given.
InsertedCount(c) == Cardinality(Decoded(batch[c]))

InsertRows(c) ==
    /\ pc[c] = "insert" /\ codec
    /\ raw_logs' = Stored(c)
    /\ processed' = [processed EXCEPT ![c] = @ + InsertedCount(c)]
    /\ pc' = [pc EXCEPT ![c] = AfterInsert]
    /\ UNCHANGED <<broker, running, client, errors, history, bounds, codec>>

\* insert_logs_bulk raises: always without a codec, with one for want of a
\* connection or by a timeout (the server may have applied it all the same).
\* The batch is dropped, the position stays.
InsertFails(c) ==
    /\ pc[c] = "insert"
    /\ IF codec THEN Fault ELSE UNCHANGED faults
    /\ raw_logs' \in {raw_logs, Stored(c)}
    /\ errors' = [errors EXCEPT ![c] = @ + Cardinality(Decoded(batch[c]))]
    /\ failed' = failed \cup EntryMessages(batch[c])
    /\ batch' = [batch EXCEPT ![c] = << >>]
    /\ LoopHead(c)
    /\ UNCHANGED <<broker, running, assigned, position, processed, offered,
                   starts, codec>>

\* Whether the callback returns or raises: an exception of it is logged and
\* swallowed.
Callback(c) ==
    /\ pc[c] = "callback"
    /\ offered' = offered \cup EntryMessages(batch[c])
    /\ pc' = [pc EXCEPT ![c] = "commit"]
    /\ UNCHANGED <<broker, raw_logs, running, client, counts, failed, bounds,
                   codec>>

\* The broker accepts a commit from a member of the current generation only.
BadFenced(c) == c \in Consumers
Fenced(c) == c \in joined

\* The partitions for which the client has something to commit.
ToCommit(c) == {p \in assigned[c] : position[c][p] # committed[p]}
CommitOffsets(c) ==
    committed' = [p \in Partitions |->
                    IF p \in ToCommit(c) THEN position[c][p] ELSE committed[p]]

Commit(c) ==
    /\ pc[c] = "commit"
    /\ Fenced(c) /\ ToCommit(c) # {}
    /\ CommitOffsets(c)
    /\ batch' = [batch EXCEPT ![c] = << >>]
    /\ LoopHead(c)
    /\ UNCHANGED <<topic, owner, members, joined, raw_logs, running, assigned,
                   position, counts, history, bounds, codec>>

\* commit() raises: the generation is stale, or there is no offset to commit
\* (the positions were reset under the batch), or the broker fails (a commit
\* it fails to acknowledge may have been applied).  Nothing catches the
\* KafkaException: start() closes the consumer and the process ends.
CommitRaises(c) ==
    /\ pc[c] = "commit"
    /\ \/ /\ ~ (Fenced(c) /\ ToCommit(c) # {})
          /\ UNCHANGED <<committed, faults>>
       \/ /\ Fault
          /\ UNCHANGED committed
       \/ /\ Fault
          /\ Fenced(c) /\ CommitOffsets(c)
    /\ pc' = [pc EXCEPT ![c] = "closing"]
    /\ UNCHANGED <<topic, owner, members, joined, raw_logs, running, client,
                   counts, history, starts, codec>>

-----------------------------------------------------------------------------
(* The ends of a process.                                                  *)

\* stop() runs at an await of the loop; commit() blocks the event loop.
RequestStop(c) ==
    /\ Fault
    /\ pc[c] \in {"poll", "insert", "callback"} /\ running[c]
    /\ running' = [running EXCEPT ![c] = FALSE]
    /\ UNCHANGED <<broker, raw_logs, pc, client, counts, history, starts, codec>>

\* The task is cancelled at an await: CancelledError skips the commit.  An
\* insert that was under way may have been applied.
Cancel(c) ==
    /\ Fault
    /\ pc[c] \in {"poll", "insert", "callback"}
    /\ \/ UNCHANGED raw_logs
       \/ pc[c] = "insert" /\ raw_logs' = Stored(c)
    /\ pc' = [pc EXCEPT ![c] = "closing"]
    /\ UNCHANGED <<broker, running, client, counts, history, starts, codec>>

\* The process no longer holds an assignment or a batch.
Gone(c) ==
    /\ pc' = [pc EXCEPT ![c] = "down"]
    /\ running' = [running EXCEPT ![c] = FALSE]
    /\ joined' = joined \ {c}
    /\ assigned' = [assigned EXCEPT ![c] = {}]
    /\ batch' = [batch EXCEPT ![c] = << >>]
    /\ UNCHANGED <<topic, committed, owner, members, position, counts, history,
                   starts, codec>>

\* The finally clause: close() leaves the group without a commit.
Close(c) ==
    /\ pc[c] = "closing"
    /\ Gone(c)
    /\ UNCHANGED <<raw_logs, faults>>

\* The process dies anywhere, with an insert possibly applied.
Crash(c) ==
    /\ Fault
    /\ pc[c] # "down"
    /\ \/ UNCHANGED raw_logs
       \/ pc[c] = "insert" /\ raw_logs' = Stored(c)
    /\ Gone(c)

-----------------------------------------------------------------------------
Loop(c) ==
    \/ \E p \in Partitions : PollRecord(c, p)
    \/ EndPoll(c) \/ InsertRows(c) \/ Callback(c) \/ Commit(c)
    \/ CommitRaises(c) \/ Close(c)

Disturbance(c) ==
    \/ Evict(c) \/ PollError(c) \/ InsertFails(c)
    \/ RequestStop(c) \/ Cancel(c) \/ Crash(c)

Next ==
    \/ \E p \in Partitions, r \in Records : Produce(p, r)
    \/ Rebalance
    \/ \E c \in Consumers :
          JoinGroup(c) \/ Start(c) \/ Loop(c) \/ Disturbance(c)

Spec == Init /\ [][Next]_vars

\* The event loop runs a consumer that can run; the broker keeps forming
\* generations and answering.  _poll_batch waits BATCH_TIMEOUT_SEC for a
\* record and each of its poll() calls returns one as soon as it is there, so
\* it does not give up for ever before a partition that has records (SF).
\* Nothing restarts a process that ended (docker-compose.yml sets no restart
\* policy), so Start has no fairness.
Fairness ==
    /\ WF_vars(Rebalance)
    /\ \A c \in Consumers :
          /\ WF_vars(JoinGroup(c))
          /\ WF_vars(EndPoll(c)) /\ WF_vars(InsertRows(c))
          /\ WF_vars(~ codec /\ InsertFails(c))
          /\ WF_vars(Callback(c)) /\ WF_vars(Commit(c))
          /\ WF_vars(CommitRaises(c)) /\ WF_vars(Close(c))
          /\ \A p \in Partitions : SF_vars(PollRecord(c, p))

FairSpec == Spec /\ Fairness

-----------------------------------------------------------------------------
(* Properties.                                                             *)

TypeOK ==
    /\ topic \in [Partitions -> Seq(Records)]
    /\ committed \in [Partitions -> Nat]
    /\ owner \in [Partitions -> Consumers \cup {NoOne}]
    /\ members \in SUBSET Consumers
    /\ joined \in SUBSET Consumers
    /\ raw_logs \in SUBSET Entries
    /\ codec \in BOOLEAN
    /\ pc \in [Consumers -> PCs]
    /\ running \in [Consumers -> BOOLEAN]
    /\ assigned \in [Consumers -> SUBSET Partitions]
    /\ position \in [Consumers -> [Partitions -> Nat]]
    /\ batch \in [Consumers -> Seq(Messages)]
    /\ processed \in [Consumers -> Nat]
    /\ errors \in [Consumers -> Nat]
    /\ failed \in SUBSET Messages
    /\ offered \in SUBSET Messages
    /\ faults \in Nat
    /\ starts \in Nat

Offsets(p, n) == {<<p, i>> : i \in 1 .. n}
CommittedMessages == UNION {Offsets(p, committed[p]) : p \in Partitions}

Settled(m) == Payload(m) \in Garbage \/ Payload(m) \in raw_logs \/ m \in failed

\* Settled, and offered to the callback if there is one.
Handled(m) ==
    \/ Payload(m) \in Garbage
    \/ Payload(m) \in raw_logs /\ (OnBatch => m \in offered)
    \/ m \in failed

\* No crash, rebalance, zombie consumer, failed commit or cancellation loses
\* a log: the group's offset passes a record only when the record is
\* undecodable, is a row of raw_logs, or was in a batch whose insert raised.
\* (kafka_consumer.py gives up on such a batch; see EntriesGetStored.)
CommitCoversOnlySettled == \A m \in CommittedMessages : Settled(m)

\* Downstream never sees an entry that is not in the database: persist comes
\* before the callback, also when the batch is redelivered to another process.
OfferedAreStored == \A m \in offered : Payload(m) \in raw_logs

\* With a callback, the offset passes a stored record only after some process
\* offered it to the callback: a crash between insert and callback makes the
\* record come back rather than miss detection.
CommitCoversOffered ==
    OnBatch => \A m \in CommittedMessages :
        Payload(m) \in Entries => m \in offered \cup failed

\* The inductive invariant behind the three properties above.
Exists(m) == m[1] \in Partitions /\ m[2] \in 1 .. Len(topic[m[1]])

\* Offsets, positions, batches and history speak of records that were produced.
OnlyProduced ==
    /\ \A p \in Partitions : committed[p] <= Len(topic[p])
    /\ \A c \in Consumers, p \in Partitions : position[c][p] <= Len(topic[p])
    /\ \A c \in Consumers : \A k \in DOMAIN batch[c] : Exists(batch[c][k])
    /\ \A m \in failed \cup offered : Exists(m)

\* A consumer of the current generation owns what it reads, and is nowhere
\* behind the group's offset.
FencedByGeneration ==
    \A c \in joined :
        /\ pc[c] # "down"
        /\ assigned[c] = {p \in Partitions : owner[p] = c}
        /\ \A p \in assigned[c] : committed[p] <= position[c][p]

\* What such a consumer has read is dealt with, or is in its hands.
ReadIsHandledOrHeld ==
    \A c \in joined : \A p \in assigned[c] : \A i \in 1 .. position[c][p] :
        Handled(<<p, i>>) \/ <<p, i>> \in MessagesIn(batch[c])

\* What any consumer, evicted or not, holds on its way to the commit.
HeldIsStored ==
    \A c \in Consumers : \A k \in DOMAIN batch[c] :
        /\ pc[c] = "callback" => Payload(batch[c][k]) \in Garbage \cup raw_logs
        /\ pc[c] = "commit" => Handled(batch[c][k])

CommittedIsHandled ==
    \A p \in Partitions : \A i \in 1 .. committed[p] : Handled(<<p, i>>)

IndInv ==
    /\ TypeOK /\ OnlyProduced /\ FencedByGeneration /\ ReadIsHandledOrHeld
    /\ HeldIsStored /\ CommittedIsHandled /\ OfferedAreStored

\* The group's offset never goes back: a process that was evicted, and holds
\* positions of an old generation, cannot overwrite what its successor
\* committed.
CommittedNeverRewinds ==
    [][\A p \in Partitions : committed'[p] >= committed[p]]_vars

\* The consumers together implement the at-least-once store of LogStore.
Promise == INSTANCE LogStore WITH lost <- failed
ImplementsLogStore == Promise!Spec

\* Every decodable record is read, and then committed or given up by an insert
\* that raised, unless every consumer process has ended: nothing makes the group
\* pass over a record or wait before it.  Without a codec every record is given
\* up (EntriesGetStored).
RecordsAreWorkedOff ==
    \A p \in Partitions : \A i \in 1 .. MaxRecords :
        (Len(topic[p]) >= i /\ Payload(<<p, i>>) \in Entries)
            ~> (committed[p] >= i \/ <<p, i>> \in failed \/ Live = {})

\* kafka_consumer.py:5, "persists to PostgreSQL in bulk": an entry of the topic
\* becomes a row of raw_logs, unless every consumer process has ended.
EntriesGetStored ==
    \A p \in Partitions, i \in 1 .. MaxRecords, e \in Entries :
        (Len(topic[p]) >= i /\ topic[p][i] = e) ~> (e \in raw_logs \/ Live = {})
=============================================================================
