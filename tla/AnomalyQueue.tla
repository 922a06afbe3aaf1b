---------------------------- MODULE AnomalyQueue ----------------------------
(***************************************************************************)
(* src/src/detection/anomaly_queue.py: the Redis list between detection    *)
(* and analysis, and the batches DetectionPipeline.process_batch           *)
(* (src/src/detection/pipeline.py) pushes to it.                           *)
(*                                                                         *)
(* push() is four Redis commands, each an await: EXISTS on the dedup key,  *)
(* LLEN, LPUSH, SETEX.  Between two of them other pipelines push, analysis *)
(* workers pop, locks expire, and this pipeline may fail.                  *)
(*                                                                         *)
(* An anomaly is an event e with a dedup key KeyOf[e], its (service,       *)
(* severity).  Events of Minor have severity normal or low.  The payload   *)
(* of an event of Unreadable does not survive model_dump_json and the      *)
(* parse of pop() (a NaN feature is written as null, which AnomalyResult   *)
(* rejects).                                                               *)
(*                                                                         *)
(* An operator Bad... is a plausible mistake in the one it is named after; *)
(* no action uses it.                                                      *)
(***************************************************************************)
EXTENDS Integers, Sequences, FiniteSets

CONSTANTS
    Pushers,      \* detection pipelines sharing the Redis queue
    Events,       \* the anomalies that detection ever reports
    Keys,         \* (service, severity) pairs
    KeyOf,        \* KeyOf[e]: the dedup key of e
    Minor,        \* the events of severity normal or low
    Unreadable,   \* the events whose payload pop() cannot parse
    MaxQueueSize, \* MAX_QUEUE_SIZE
    MaxBatch,     \* bound: anomalies of one batch
    MaxFaults     \* bound: interrupted operations in a behaviour

ASSUME QueueAssumption ==
    /\ IsFiniteSet(Pushers) /\ Pushers # {}
    /\ KeyOf \in [Events -> Keys]
    /\ Minor \subseteq Events /\ Unreadable \subseteq Events
    /\ MaxQueueSize \in Nat \ {0}
    /\ MaxBatch \in Nat /\ MaxFaults \in Nat

VARIABLES
    queue,       \* anomaly:queue, oldest first (LPUSH and BRPOP use the two ends)
    locks,       \* the anomaly:dedup:* keys that have not expired
    pc,          \* the Redis command the pusher is about to issue
    todo,        \* what is left of its batch, the event in hand first
    pushed,      \* push_batch: pushed
    deduped,     \* push_batch: deduped
    found,       \* DetectionPipeline._anomalies_found
    fresh,       \* the events detection has not reported yet
    \* history, read by no action
    enqueued,    \* events that were in the queue
    suppressed,  \* events refused because of a lock
    refused,     \* events refused because the queue was full
    taken,       \* events pop() returned
    gone,        \* events that left the queue and reached nobody
    window,      \* window[k]: events of k enqueued since a lock of k expired
    faults

pushing == <<pc, todo, pushed, deduped, found>>
history == <<enqueued, suppressed, refused, taken, gone, window>>
vars    == <<queue, locks, pushing, fresh, history, faults>>

PCs == {"idle", "exists", "llen", "lpush", "setex"}

Init ==
    /\ queue = << >> /\ locks = {}
    /\ pc = [p \in Pushers |-> "idle"]
    /\ todo = [p \in Pushers |-> << >>]
    /\ pushed = [p \in Pushers |-> 0]
    /\ deduped = [p \in Pushers |-> 0]
    /\ found = [p \in Pushers |-> 0]
    /\ fresh = Events
    /\ enqueued = {} /\ suppressed = {} /\ refused = {}
    /\ taken = {} /\ gone = {}
    /\ window = [k \in Keys |-> 0]
    /\ faults = 0

InHand(p) == Head(todo[p])
Lock(p)   == KeyOf[InHand(p)]

-----------------------------------------------------------------------------
(* Detection.                                                              *)

\* process_batch found anomalies and calls push_batch.
PushBatch(p) ==
    /\ pc[p] = "idle"
    /\ \E n \in 1 .. MaxBatch : \E b \in [1 .. n -> fresh] :
          /\ \A i, j \in 1 .. n : b[i] = b[j] => i = j
          /\ todo' = [todo EXCEPT ![p] = b]
          /\ fresh' = fresh \ {b[i] : i \in 1 .. n}
    /\ pushed' = [pushed EXCEPT ![p] = 0]
    /\ deduped' = [deduped EXCEPT ![p] = 0]
    /\ pc' = [pc EXCEPT ![p] = "exists"]
    /\ UNCHANGED <<queue, locks, found, history, faults>>

\* push() returned: push_batch goes on to its next event, or returns the
\* counts and process_batch adds the pushed ones.
Returned(p, ok) ==
    /\ todo' = [todo EXCEPT ![p] = Tail(@)]
    /\ pushed' = [pushed EXCEPT ![p] = IF ok THEN @ + 1 ELSE @]
    /\ deduped' = [deduped EXCEPT ![p] = IF ok THEN @ ELSE @ + 1]
    /\ pc' = [pc EXCEPT ![p] = IF Len(todo[p]) > 1 THEN "exists" ELSE "idle"]
    /\ found' = [found EXCEPT ![p] =
                    IF Len(todo[p]) > 1 THEN @ ELSE @ + pushed'[p]]

\* The lock taken with the check (SET NX) rather than after the push.
BadCheckLock(p) ==
    /\ pc[p] = "exists"
    /\ IF InHand(p) \in Minor \/ Lock(p) \in locks
         THEN /\ Returned(p, FALSE)
              /\ suppressed' = suppressed \cup ({InHand(p)} \ Minor)
              /\ UNCHANGED locks
         ELSE /\ pc' = [pc EXCEPT ![p] = "llen"]
              /\ locks' = locks \cup {Lock(p)}
              /\ UNCHANGED <<todo, pushed, deduped, found, suppressed>>
    /\ UNCHANGED <<queue, fresh, enqueued, refused, taken, gone, window, faults>>

\* The severity gate and EXISTS.
CheckLock(p) ==
    /\ pc[p] = "exists"
    /\ \/ /\ InHand(p) \in Minor
          /\ Returned(p, FALSE)
          /\ UNCHANGED suppressed
       \/ /\ InHand(p) \notin Minor /\ Lock(p) \in locks
          /\ Returned(p, FALSE)
          /\ suppressed' = suppressed \cup {InHand(p)}
       \/ /\ InHand(p) \notin Minor /\ Lock(p) \notin locks
          /\ pc' = [pc EXCEPT ![p] = "llen"]
          /\ UNCHANGED <<todo, pushed, deduped, found, suppressed>>
    /\ UNCHANGED <<queue, locks, fresh, enqueued, refused, taken, gone, window,
                   faults>>

\* LLEN and the queue size guard.
BadFull == Len(queue) > MaxQueueSize
Full == Len(queue) >= MaxQueueSize

\* A full queue ends the batch rather than the push.
BadCheckSize(p) ==
    /\ pc[p] = "llen"
    /\ IF Full
         THEN /\ pc' = [pc EXCEPT ![p] = "idle"]
              /\ todo' = [todo EXCEPT ![p] = << >>]
              /\ refused' = refused \cup {InHand(p)}
         ELSE pc' = [pc EXCEPT ![p] = "lpush"] /\ UNCHANGED <<todo, refused>>
    /\ UNCHANGED <<queue, locks, pushed, deduped, found, fresh, enqueued,
                   suppressed, taken, gone, window, faults>>

CheckSize(p) ==
    /\ pc[p] = "llen"
    /\ \/ /\ Full
          /\ Returned(p, FALSE)
          /\ refused' = refused \cup {InHand(p)}
       \/ /\ ~ Full
          /\ pc' = [pc EXCEPT ![p] = "lpush"]
          /\ UNCHANGED <<todo, pushed, deduped, found, refused>>
    /\ UNCHANGED <<queue, locks, fresh, enqueued, suppressed, taken, gone,
                   window, faults>>

Enqueue(p) ==
    /\ queue' = Append(queue, InHand(p))
    /\ enqueued' = enqueued \cup {InHand(p)}
    /\ window' = [window EXCEPT ![Lock(p)] = @ + 1]

LPush(p) ==
    /\ pc[p] = "lpush"
    /\ Enqueue(p)
    /\ pc' = [pc EXCEPT ![p] = "setex"]
    /\ UNCHANGED <<locks, todo, pushed, deduped, found, fresh, suppressed,
                   refused, taken, gone, faults>>

\* No lock after a push.
BadSetEx(p) ==
    /\ pc[p] = "setex"
    /\ Returned(p, TRUE)
    /\ UNCHANGED <<queue, locks, fresh, history, faults>>

SetEx(p) ==
    /\ pc[p] = "setex"
    /\ locks' = locks \cup {Lock(p)}
    /\ Returned(p, TRUE)
    /\ UNCHANGED <<queue, fresh, history, faults>>

\* A Redis command raises (the server may have applied it), or the process
\* ends.  Nothing in push, push_batch or process_batch catches it: the rest of
\* the batch, and the counts, are lost.
Interrupted(p) ==
    /\ faults < MaxFaults /\ faults' = faults + 1
    /\ pc[p] # "idle"
    /\ \/ UNCHANGED <<queue, enqueued, window, locks>>
       \/ /\ pc[p] = "lpush"
          /\ Enqueue(p)
          /\ UNCHANGED locks
       \/ /\ pc[p] = "setex"
          /\ locks' = locks \cup {Lock(p)}
          /\ UNCHANGED <<queue, enqueued, window>>
    /\ pc' = [pc EXCEPT ![p] = "idle"]
    /\ todo' = [todo EXCEPT ![p] = << >>]
    /\ UNCHANGED <<pushed, deduped, found, fresh, suppressed, refused, taken, gone>>

-----------------------------------------------------------------------------
(* Redis and analysis.                                                     *)

\* TTL_SECONDS have passed since the last SETEX of k.
Expire(k) ==
    /\ k \in locks
    /\ locks' = locks \ {k}
    /\ window' = [window EXCEPT ![k] = 0]
    /\ UNCHANGED <<queue, pushing, fresh, enqueued, suppressed, refused, taken,
                   gone, faults>>

\* pop() takes the oldest event; what it cannot parse is logged and dropped.
Pop ==
    /\ queue # << >>
    /\ queue' = Tail(queue)
    /\ IF Head(queue) \in Unreadable
         THEN gone' = gone \cup {Head(queue)} /\ UNCHANGED taken
         ELSE taken' = taken \cup {Head(queue)} /\ UNCHANGED gone
    /\ UNCHANGED <<locks, pushing, fresh, enqueued, suppressed, refused, window,
                   faults>>

\* Redis has removed the event and its reply is lost, or the worker dies.
PopLost ==
    /\ faults < MaxFaults /\ faults' = faults + 1
    /\ queue # << >>
    /\ queue' = Tail(queue)
    /\ gone' = gone \cup {Head(queue)}
    /\ UNCHANGED <<locks, pushing, fresh, enqueued, suppressed, refused, taken,
                   window>>

Step(p) == CheckLock(p) \/ CheckSize(p) \/ LPush(p) \/ SetEx(p)

Next ==
    \/ \E p \in Pushers : PushBatch(p) \/ Step(p) \/ Interrupted(p)
    \/ \E k \in Keys : Expire(k)
    \/ Pop \/ PopLost

Spec == Init /\ [][Next]_vars

-----------------------------------------------------------------------------
(* Properties.                                                             *)

TypeOK ==
    /\ queue \in Seq(Events)
    /\ locks \in SUBSET Keys
    /\ pc \in [Pushers -> PCs]
    /\ todo \in [Pushers -> Seq(Events)]
    /\ \A p \in Pushers : pc[p] # "idle" => todo[p] # << >>
    /\ pushed \in [Pushers -> Nat] /\ deduped \in [Pushers -> Nat]
    /\ found \in [Pushers -> Nat]
    /\ fresh \in SUBSET Events
    /\ enqueued \in SUBSET Events /\ suppressed \in SUBSET Events
    /\ refused \in SUBSET Events
    /\ taken \in SUBSET Events /\ gone \in SUBSET Events
    /\ window \in [Keys -> Nat]
    /\ faults \in Nat

At(label) == {p \in Pushers : pc[p] = label}

\* LLEN and LPUSH are two commands, so the guard does not keep the queue at
\* MAX_QUEUE_SIZE: but each pipeline can overshoot by one event only, and one
\* pipeline alone never does.
QueueBound == Len(queue) <= MaxQueueSize + Cardinality(Pushers) - 1

\* Its inductive form: the pipelines that are past the guard count.
QueueBoundInductive ==
    Len(queue) + Cardinality(At("lpush")) <= MaxQueueSize + Cardinality(Pushers) - 1

\* Deduplication hides no incident: an event is suppressed only if another
\* event of its service and severity made it into the queue, whatever fails
\* between the commands (the lock is set after the push, never before).
SuppressedOnlyBehindQueued ==
    \A e \in suppressed : \E f \in enqueued \ {e} : KeyOf[f] = KeyOf[e]

\* EXISTS and SETEX are two commands as well: within one lock's life a key
\* is queued at most once per pipeline, plus once per interrupted push.
DuplicatesBounded == \A k \in Keys : window[k] <= Cardinality(Pushers) + faults

\* Unless something failed, every anomaly detection reported is queued, held
\* back for a reason, or still in the hands of its pipeline.
EveryEventHasAnOutcome ==
    faults = 0 =>
        \A e \in Events \ fresh :
            \/ e \in enqueued \cup suppressed \cup refused \cup Minor
            \/ \E p \in Pushers : \E i \in DOMAIN todo[p] : todo[p][i] = e
=============================================================================
