----------------------------- MODULE LogProducer -----------------------------
(***************************************************************************)
(* src/src/ingestion/http_endpoint.py and kafka_producer.py: the logs that *)
(* the endpoint answered with 202, on their way to Kafka.                  *)
(*                                                                         *)
(* A request becomes a background task; a batch sends its entries          *)
(* concurrently.  send() calls produce() in a thread pool, again after a   *)
(* KafkaException, and takes the entry for sent once it is in the client's *)
(* buffer, which the client delivers later, by itself.  How that ended it  *)
(* reports to the poll(0) that follows a produce(), the only poll there is.*)
(* The client and the broker are external: what they do is read from the   *)
(* settings (acks=all, retries, no idempotence) and from the exceptions    *)
(* produce() has.                                                          *)
(*                                                                         *)
(* An operator Bad... is a plausible mistake in the one it is named after; *)
(* no action uses it.                                                      *)
(***************************************************************************)
EXTENDS Integers, Sequences, FiniteSets, Normaliser

CONSTANTS
    Entries,      \* the logs that clients post
    Raw,          \* Raw[e]: what is posted for e
    MaxRetries,   \* MAX_RETRIES
    MaxBatch,     \* entries of one request (500 in the code)
    BufferLimit,  \* what the client's buffer holds
    MaxRepeats    \* bound: acknowledgements lost in a behaviour

ASSUME ProducerAssumption ==
    /\ Raw \in [Entries -> RawLogs]
    /\ MaxRetries \in Nat \ {0} /\ BufferLimit \in Nat \ {0}
    /\ MaxBatch \in Nat /\ MaxRepeats \in Nat

VARIABLES
    up,          \* the process runs
    state,       \* state[e]: where its send() is, or how it ended
    attempt,     \* attempt[e]: the attempts of a send() under way that raised
    sent,        \* _sent
    failed,      \* _failed
    buffer,      \* what the client has to deliver, oldest first
    reports,     \* entries it is done with, whose report waits for a poll()
    topic,       \* what the broker has, in order
    dlq,         \* the lines of the dead-letter file
    \* history, read by no action
    unwritten,   \* failed entries that the dead-letter file did not take
    refused,     \* entries that the client gave up
    undelivered, \* those that _delivery_report was called for, with the error
    purged,      \* accepted entries that ended with the process
    repeats      \* acknowledgements lost

client  == <<buffer, reports, topic>>
counts  == <<sent, failed>>
history == <<unwritten, refused, undelivered, purged, repeats>>
vars    == <<up, state, attempt, counts, client, dlq, history>>

States == {"new", "producing", "backoff", "polling", "sent", "failed", "raised"}
Under(s) == {e \in Entries : state[e] \in s}
In(q) == {q[i] : i \in DOMAIN q}

Init ==
    /\ up = TRUE
    /\ state = [e \in Entries |-> "new"]
    /\ attempt = [e \in Entries |-> 0]
    /\ sent = 0 /\ failed = 0
    /\ buffer = << >> /\ reports = {} /\ topic = << >> /\ dlq = << >>
    /\ unwritten = {} /\ refused = {} /\ undelivered = {} /\ purged = {} /\ repeats = 0

-----------------------------------------------------------------------------
(* The endpoint and send().                                                *)

\* The client gets its 202, then the background task starts a send() for every
\* entry of the request.  A request that is too long, or has one log that does
\* not normalise, is rejected as a whole: 422, and nothing changes.
Accept(request) ==
    /\ up /\ request # {} /\ Cardinality(request) <= MaxBatch
    /\ request \subseteq Under({"new"})
    /\ \A e \in request : Normalise(Raw[e]) # {}
    /\ state' = [e \in Entries |-> IF e \in request THEN "producing" ELSE state[e]]
    /\ UNCHANGED <<up, attempt, counts, client, dlq, history>>

\* An entry holds its place in the client until its report is served.
Full == Len(buffer) + Cardinality(reports) >= BufferLimit
MoveTo(e, s) == state' = [state EXCEPT ![e] = s]
Ends(e, s)   == MoveTo(e, s) /\ attempt' = [attempt EXCEPT ![e] = 0]

\* produce() takes the entry.
Produce(e) ==
    /\ up /\ state[e] = "producing" /\ ~ Full
    /\ buffer' = Append(buffer, e)
    /\ MoveTo(e, "polling")
    /\ UNCHANGED <<up, attempt, counts, reports, topic, dlq, history>>

\* send() returns True.
BadReturnTrue(e) == MoveTo(e, "producing") /\ sent' = sent + 1 /\ UNCHANGED attempt
ReturnTrue(e)    == Ends(e, "sent") /\ sent' = sent + 1

\* poll(0), in the same thread: the reports that wait are served, mostly those of
\* other entries; _delivery_report logs the errors.
Poll(e) ==
    /\ up /\ state[e] = "polling"
    /\ reports' = {}
    /\ undelivered' = undelivered \cup (reports \cap refused)
    /\ ReturnTrue(e)
    /\ UNCHANGED <<up, failed, buffer, topic, dlq, unwritten, refused, purged, repeats>>

\* A full buffer raises BufferError, which is no KafkaException: send() ends
\* with it, without poll(), a retry, a count or a dead letter.  The first one of
\* a batch ends send_batch(), while the other sends go on; gather() drops what
\* they raise.
BadBufferError(e) ==
    /\ up /\ state[e] = "producing" /\ Full
    /\ Ends(e, "raised")
    /\ reports' = {}
    /\ undelivered' = undelivered \cup (reports \cap refused)
    /\ UNCHANGED <<up, counts, buffer, topic, dlq, unwritten, refused, purged, repeats>>
BufferError(e) ==
    /\ up /\ state[e] = "producing" /\ Full
    /\ Ends(e, "raised")
    /\ UNCHANGED <<up, counts, client, dlq, history>>

\* send() returns False after _write_dlq, whose failure is swallowed.
BadNoDeadLetter(e) ==
    /\ Ends(e, "failed")
    /\ failed' = failed + 1
    /\ UNCHANGED <<dlq, unwritten>>
ReturnFalse(e) ==
    /\ Ends(e, "failed")
    /\ failed' = failed + 1
    /\ \/ dlq' = Append(dlq, e) /\ UNCHANGED unwritten
       \/ unwritten' = unwritten \cup {e} /\ UNCHANGED dlq

\* One more attempt, after a sleep.
BadRetry(e) ==
    /\ MoveTo(e, "backoff")
    /\ attempt' = [attempt EXCEPT ![e] = @ + 1]
    /\ dlq' = Append(dlq, e)
    /\ UNCHANGED <<failed, unwritten>>
Retry(e) ==
    /\ MoveTo(e, "backoff")
    /\ attempt' = [attempt EXCEPT ![e] = @ + 1]
    /\ UNCHANGED <<failed, dlq, unwritten>>

\* `attempt < retries`: the loop goes round again.
BadAgain(n) == n <= MaxRetries
Again(n)    == n < MaxRetries

\* produce() raises a KafkaException (the entry is too large, a local error).
ProduceRaises(e) ==
    /\ up /\ state[e] = "producing"
    /\ \/ Again(attempt[e] + 1) /\ Retry(e)
       \/ ~ Again(attempt[e] + 1) /\ ReturnFalse(e)
    /\ UNCHANGED <<up, sent, client, refused, undelivered, purged, repeats>>

BadBackoff(e) ==
    /\ up /\ state[e] = "backoff"
    /\ MoveTo(e, "producing")
    /\ attempt' = [attempt EXCEPT ![e] = 0]
    /\ UNCHANGED <<up, counts, client, dlq, history>>
Backoff(e) ==
    /\ up /\ state[e] = "backoff"
    /\ MoveTo(e, "producing")
    /\ UNCHANGED <<up, attempt, counts, client, dlq, history>>

-----------------------------------------------------------------------------
(* The client library and the broker.                                      *)

\* The buffer without its entry at i.
Without(i) ==
    [j \in 1 .. Len(buffer) - 1 |-> IF j < i THEN buffer[j] ELSE buffer[j + 1]]

\* The broker appends an entry of the buffer.  Several requests are in flight
\* and may overtake one another.  Either the client gets the acknowledgement and
\* has a report to make, or that is lost, and the client sends the entry again.
Deliver(i) ==
    /\ up /\ i \in DOMAIN buffer
    /\ topic' = Append(topic, buffer[i])
    /\ \/ /\ buffer' = Without(i) /\ reports' = reports \cup {buffer[i]}
          /\ UNCHANGED repeats
       \/ /\ repeats < MaxRepeats /\ repeats' = repeats + 1
          /\ UNCHANGED <<buffer, reports>>
    /\ UNCHANGED <<up, state, attempt, counts, dlq, unwritten, refused, undelivered, purged>>

\* The client gives an entry up (its retries, message.timeout.ms), and has that
\* to report.
DeliveryFails(i) ==
    /\ up /\ i \in DOMAIN buffer
    /\ buffer' = Without(i) /\ reports' = reports \cup {buffer[i]}
    /\ refused' = refused \cup {buffer[i]}
    /\ UNCHANGED <<up, state, attempt, counts, topic, dlq, unwritten, undelivered, purged, repeats>>

\* The process ends.  Nothing calls flush(): the buffer and the reports end with
\* it, also when the server waited for the requests under way.
Shutdown ==
    /\ up
    /\ up' = FALSE
    /\ purged' = In(buffer) \cup Under({"producing", "backoff"}) \cup (reports \cap refused)
    /\ buffer' = << >> /\ reports' = {}
    /\ UNCHANGED <<state, attempt, counts, topic, dlq, unwritten, refused, undelivered, repeats>>

Step(e) == Produce(e) \/ Poll(e) \/ BufferError(e) \/ ProduceRaises(e) \/ Backoff(e)

Next ==
    \/ \E request \in SUBSET Entries : Accept(request)
    \/ \E e \in Entries : Step(e)
    \/ \E i \in DOMAIN buffer : Deliver(i) \/ DeliveryFails(i)
    \/ Shutdown

Spec == Init /\ [][Next]_vars

\* The event loop and the thread pool run the sends, and the client's own thread
\* works on the buffer, where no entry outlives message.timeout.ms.  That a report
\* is ever served is not assumed: it takes another send.
Fairness ==
    /\ \A e \in Entries : WF_vars(Step(e))
    /\ WF_vars(\E i \in DOMAIN buffer : Deliver(i) \/ DeliveryFails(i))

FairSpec == Spec /\ Fairness

-----------------------------------------------------------------------------
(* Properties.                                                             *)

\* Type invariant.
TypeOK ==
    /\ up \in BOOLEAN
    /\ state \in [Entries -> States]
    /\ attempt \in [Entries -> 0 .. MaxRetries - 1]
    /\ sent \in Nat /\ failed \in Nat
    /\ buffer \in Seq(Entries) /\ reports \in SUBSET Entries
    /\ Len(buffer) + Cardinality(reports) <= BufferLimit
    /\ topic \in Seq(Entries) /\ dlq \in Seq(Entries)
    /\ unwritten \in SUBSET Entries /\ refused \in SUBSET Entries
    /\ undelivered \in SUBSET Entries /\ purged \in SUBSET Entries
    /\ repeats \in Nat

\* A dead letter may be replayed without a duplicate: an entry is in the file
\* once, and then no attempt of its send() got it into Kafka, nor ever will.
DeadLettersAreNotInKafka ==
    /\ \A i, j \in DOMAIN dlq : dlq[i] = dlq[j] => i = j
    /\ \A e \in In(dlq) : e \notin In(buffer) \cup In(topic) \cup reports \cup refused

\* send() makes no duplicates: in buffer and topic together an entry is once,
\* but for the acknowledgements that were lost.
NoDuplicatesBySend ==
    Len(topic) + Len(buffer) <= Cardinality(In(topic) \cup In(buffer)) + repeats

\* What the client took (produce() returned) and has neither in the topic nor in
\* a logged error.
Taken == Under({"polling", "sent"})
Unknown == Taken \ (In(topic) \cup undelivered)

\* What send() calls sent is in Kafka, still with the client, given up by it, or
\* ended with the process; what it calls failed is in the dead-letter file, or
\* the error that kept it out is in the log.  What is lost without a trace is
\* bounded: a send() raises BufferError only once the client took as many
\* entries as it holds, and never more than those are given up unreported, or
\* end with the process.
EveryEntryIsAccountedFor ==
    /\ Taken \subseteq In(topic) \cup In(buffer) \cup refused \cup purged
    /\ Under({"failed"}) \subseteq In(dlq) \cup unwritten
    /\ Under({"raised"}) # {} => Cardinality(Taken) >= BufferLimit
    /\ Cardinality(Unknown) <= BufferLimit

\* Once the client is full and no send() is on its way to poll(), it is full for
\* as long as the process runs, whatever the broker acknowledges: every send()
\* from then on raises BufferError, and none gets to poll().
Stuck == up /\ Full /\ Under({"polling"}) = {}
FullForGood == [][Stuck => Stuck' \/ ~ up']_vars

\* The topic has nothing that the consumer cannot read, and what any client may
\* post is rejected for a blank field only.
TopicIsReadable ==
    /\ \A e \in In(topic) : \E entry \in Normalise(Raw[e]) : Deserialise(entry) = {entry}
    /\ AcceptedIsReadable

\* Every send() ends, and what it calls sent reaches the topic or is given up by
\* the client, unless the process ends first.
SendEnds ==
    <>[](up => \A e \in Entries :
        \/ state[e] \in {"new", "failed", "raised"}
        \/ state[e] = "sent" /\ e \in In(topic) \cup refused)

\* kafka_producer.py:5, "Failed messages are written to a dead-letter JSON
\* file": what the client failed to deliver is in the file.
FailedDeliveriesAreDeadLetters == undelivered \subseteq In(dlq) \cup In(topic)
=============================================================================
