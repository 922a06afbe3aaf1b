---------------------------- MODULE AnalysisWorker ----------------------------
(***************************************************************************)
(* src/src/analysis/worker.py: the processes that pop anomalies from the   *)
(* Redis queue, run the analysis graph (src/src/analysis/agent.py) and     *)
(* store its result.                                                       *)
(*                                                                         *)
(* A worker is one event loop: its start() coroutine, which pops, creates  *)
(* a task per anomaly and waits when there are many, and the tasks, which  *)
(* share a FIFO semaphore.  They interleave at their awaits.  An anomaly   *)
(* is pushed once; its place in the order of the pushes is its name and    *)
(* the name of its task, so that the tasks of a worker queue up for the    *)
(* semaphore in the order of their names.                                  *)
(*                                                                         *)
(* An operator Bad... is a plausible mistake in the one it is named after; *)
(* no action uses it.                                                      *)
(***************************************************************************)
EXTENDS Integers, Sequences, FiniteSets

CONSTANTS
    Workers,        \* worker processes
    Concurrency,    \* WORKER_CONCURRENCY
    MaxPushes,      \* bound: anomalies that detection pushes in a behaviour
    MaxUnreadable,  \* bound: those of them that pop() cannot parse
    MaxFaults,      \* bound: failures, cancellations and crashes in a behaviour
    MaxStarts       \* bound: process starts in a behaviour

ASSUME WorkerAssumption ==
    /\ MaxPushes \in Nat /\ MaxUnreadable \in Nat
    /\ Concurrency \in Nat \ {0}
    /\ MaxFaults \in Nat /\ MaxStarts \in Nat

VARIABLES
    pushed,     \* how many anomalies detection has pushed
    unreadable, \* those of them that pop() cannot parse
    queue,      \* anomaly:queue, oldest first
    \* each worker process
    pc,         \* where its start() is
    running,    \* _running
    tasks,      \* the set `tasks`: created and not yet discarded
    gathered,   \* the tasks the loop waits for
    processed,  \* _processed
    failed,     \* _failed
    \* each task
    phase,      \* where _process is
    \* PostgreSQL
    rows,       \* rows[a]: rows of analysis_results with anomaly a
    \* history, read by no action
    mine,       \* the tasks that this process ever created
    aborted,    \* tasks that were cancelled or died with their process
    lost,       \* popped, and no task was created
    stopping,   \* whether stop() was called on this process
    \* bounds
    faults, starts

pushes  == <<pushed, unreadable>>
redis   == <<pushes, queue>>
counts  == <<processed, failed>>
loop    == <<pc, running, gathered>>
history == <<mine, aborted, lost, stopping>>
bounds  == <<faults, starts>>
vars    == <<redis, loop, tasks, phase, counts, rows, history, bounds>>

Anomalies == 1..MaxPushes

PCs    == {"down", "starting", "pop", "gather", "finally"}
\* "early": only while the process was starting.
Stops  == {"no", "early", "heard"}
Phases == {"none", "waiting", "analysing", "saving", "ended"}

Active(w)  == {a \in tasks[w] : phase[a] # "ended"}
Holding(w) == {a \in tasks[w] : phase[a] \in {"analysing", "saving"}}

Fault == faults < MaxFaults /\ faults' = faults + 1

Init ==
    /\ pushed = 0 /\ unreadable = {} /\ queue = << >>
    /\ pc = [w \in Workers |-> "down"]
    /\ running = [w \in Workers |-> FALSE]
    /\ tasks = [w \in Workers |-> {}]
    /\ gathered = [w \in Workers |-> {}]
    /\ processed = [w \in Workers |-> 0]
    /\ failed = [w \in Workers |-> 0]
    /\ phase = [a \in Anomalies |-> "none"]
    /\ rows = [a \in Anomalies |-> 0]
    /\ mine = [w \in Workers |-> {}]
    /\ aborted = {} /\ lost = {}
    /\ stopping = [w \in Workers |-> "no"]
    /\ faults = 0 /\ starts = 0

-----------------------------------------------------------------------------
(* The start and the loop of a worker.                                     *)

\* Detection pushes an anomaly (AnomalyQueue describes push()), which pop() may
\* be unable to parse.
Push ==
    /\ pushed < MaxPushes
    /\ pushed' = pushed + 1
    /\ \/ UNCHANGED unreadable
       \/ /\ Cardinality(unreadable) < MaxUnreadable
          /\ unreadable' = unreadable \cup {pushed'}
    /\ queue' = Append(queue, pushed')
    /\ UNCHANGED <<loop, tasks, phase, counts, rows, history, bounds>>

\* A new process connects to Redis and warms the database pool.
Start(w) ==
    /\ pc[w] = "down" /\ starts < MaxStarts
    /\ starts' = starts + 1
    /\ pc' = [pc EXCEPT ![w] = "starting"]
    /\ processed' = [processed EXCEPT ![w] = 0]
    /\ failed' = [failed EXCEPT ![w] = 0]
    /\ mine' = [mine EXCEPT ![w] = {}]
    /\ stopping' = [stopping EXCEPT ![w] = "no"]
    /\ UNCHANGED <<redis, running, gathered, tasks, phase, rows, aborted, lost, faults>>

\* Connected: the loop begins, whatever stop() did to _running before.
Started(w) ==
    /\ pc[w] = "starting"
    /\ running' = [running EXCEPT ![w] = TRUE]
    /\ pc' = [pc EXCEPT ![w] = "pop"]
    /\ UNCHANGED <<redis, gathered, tasks, phase, counts, rows, history, bounds>>

\* The `while self._running` test.
BadLoopHead(w) == pc' = [pc EXCEPT ![w] = "pop"]
LoopHead(w) == pc' = [pc EXCEPT ![w] = IF running[w] THEN "pop" ELSE "finally"]

\* BRPOP times out.
Timeout(w) ==
    /\ pc[w] = "pop" /\ queue = << >>
    /\ LoopHead(w)
    /\ UNCHANGED <<redis, running, gathered, tasks, phase, counts, rows, history,
                   bounds>>

\* BRPOP removes the oldest anomaly.
BadTakeOldest == UNCHANGED queue
BadKeepUnreadable ==
    queue' = IF Head(queue) \in unreadable THEN queue ELSE Tail(queue)
TakeOldest == queue' = Tail(queue)

\* "Prevent unbounded task growth".
TooMany(n) == n >= Concurrency * 2

\* An anomaly that parses becomes a task; with too many tasks the loop waits
\* for Concurrency of them, in the arbitrary order of a Python set.
Pop(w) ==
    /\ pc[w] = "pop" /\ queue # << >>
    /\ TakeOldest
    /\ \/ /\ Head(queue) \in unreadable
          /\ lost' = lost \cup {Head(queue)}
          /\ LoopHead(w)
          /\ UNCHANGED <<gathered, tasks, phase, mine>>
       \/ /\ Head(queue) \notin unreadable
          /\ tasks' = [tasks EXCEPT ![w] = @ \cup {Head(queue)}]
          /\ mine' = [mine EXCEPT ![w] = @ \cup {Head(queue)}]
          /\ phase' = [phase EXCEPT ![Head(queue)] = "waiting"]
          /\ \/ /\ TooMany(Cardinality(tasks'[w]))
                /\ \E s \in SUBSET tasks'[w] :
                      Cardinality(s) = Concurrency /\ gathered' = [gathered EXCEPT ![w] = s]
                /\ pc' = [pc EXCEPT ![w] = "gather"]
             \/ /\ ~ TooMany(Cardinality(tasks'[w]))
                /\ LoopHead(w)
                /\ UNCHANGED gathered
          /\ UNCHANGED lost
    /\ UNCHANGED <<pushes, running, counts, rows, aborted, stopping, bounds>>

\* The tasks it waited for have ended (and their done-callbacks have run).
Gathered(w) ==
    /\ pc[w] = "gather" /\ gathered[w] \cap tasks[w] = {}
    /\ gathered' = [gathered EXCEPT ![w] = {}]
    /\ LoopHead(w)
    /\ UNCHANGED <<redis, running, tasks, phase, counts, rows, history, bounds>>

\* The finally clause waits for every task; the process ends.
BadExit(w) ==
    /\ pc[w] = "finally"
    /\ pc' = [pc EXCEPT ![w] = "down"]
    /\ running' = [running EXCEPT ![w] = FALSE]
    /\ tasks' = [tasks EXCEPT ![w] = {}]
    /\ UNCHANGED <<redis, gathered, phase, counts, rows, history, bounds>>
Exit(w) ==
    /\ pc[w] = "finally" /\ tasks[w] = {}
    /\ pc' = [pc EXCEPT ![w] = "down"]
    /\ running' = [running EXCEPT ![w] = FALSE]
    /\ UNCHANGED <<redis, gathered, tasks, phase, counts, rows, history, bounds>>

-----------------------------------------------------------------------------
(* A task: _process.                                                       *)

Waiting(w) == {a \in tasks[w] : phase[a] = "waiting"}

\* The semaphore lets the first waiter in.
Enter(w) ==
    /\ \E a \in Waiting(w) :
          /\ \A b \in Waiting(w) : a <= b
          /\ phase' = [phase EXCEPT ![a] = "analysing"]
    /\ UNCHANGED <<redis, loop, tasks, counts, rows, history, bounds>>
BadAcquire(w) == Enter(w)
Acquire(w) == Cardinality(Holding(w)) < Concurrency /\ Enter(w)

\* The graph ends with a result, also when tools raise (fetch_context replaces
\* what they return by defaults) and when the LLM fails or its answer does not
\* parse (llm_analyze returns _fallback_analysis).
Analyse(w, a) ==
    /\ a \in tasks[w] /\ phase[a] = "analysing"
    /\ phase' = [phase EXCEPT ![a] = "saving"]
    /\ UNCHANGED <<redis, loop, tasks, counts, rows, history, bounds>>

\* The task is over, and out of the semaphore.
BadEnded(a) == phase' = [phase EXCEPT ![a] = "failed"]
Ended(a) == phase' = [phase EXCEPT ![a] = "ended"]

\* save_result: a new row under a new id.
Store(a) == rows' = [rows EXCEPT ![a] = @ + 1]

Save(w, a) ==
    /\ a \in tasks[w] /\ phase[a] = "saving"
    /\ Store(a)
    /\ processed' = [processed EXCEPT ![w] = @ + 1]
    /\ Ended(a)
    /\ UNCHANGED <<redis, loop, tasks, failed, history, bounds>>

\* _to_request, the graph or save_result raises (the row may have been
\* written): the failure is counted and the anomaly is skipped.
BadTaskFails(w, a) ==
    /\ Fault
    /\ a \in tasks[w] /\ phase[a] \in {"analysing", "saving"}
    /\ \/ UNCHANGED rows
       \/ phase[a] = "saving" /\ Store(a)
    /\ Ended(a)
    /\ UNCHANGED <<redis, loop, tasks, counts, history, starts>>
TaskFails(w, a) ==
    /\ Fault
    /\ a \in tasks[w] /\ phase[a] \in {"analysing", "saving"}
    /\ \/ UNCHANGED rows
       \/ phase[a] = "saving" /\ Store(a)
    /\ failed' = [failed EXCEPT ![w] = @ + 1]
    /\ Ended(a)
    /\ UNCHANGED <<redis, loop, tasks, processed, history, starts>>

\* The done-callback, a turn of the event loop later.
Discard(w, a) ==
    /\ a \in tasks[w] /\ phase[a] = "ended"
    /\ tasks' = [tasks EXCEPT ![w] = @ \ {a}]
    /\ UNCHANGED <<redis, loop, phase, counts, rows, history, bounds>>

-----------------------------------------------------------------------------
(* The ends of a worker.                                                   *)

\* SIGTERM or SIGINT: stop().
RequestStop(w) ==
    /\ pc[w] # "down" /\ stopping[w] # "heard"
    /\ running' = [running EXCEPT ![w] = FALSE]
    /\ stopping' = [stopping EXCEPT ![w] =
                       IF pc[w] = "starting" THEN "early" ELSE "heard"]
    /\ UNCHANGED <<redis, pc, gathered, tasks, phase, counts, rows, mine, aborted,
                   lost, bounds>>

\* The loop is interrupted at BRPOP, by a Redis error or a cancellation; Redis
\* may have removed an anomaly whose answer nobody gets.
PopInterrupted(w) ==
    /\ Fault
    /\ pc[w] = "pop"
    /\ \/ UNCHANGED <<queue, lost>>
       \/ queue # << >> /\ TakeOldest /\ lost' = lost \cup {Head(queue)}
    /\ pc' = [pc EXCEPT ![w] = "finally"]
    /\ UNCHANGED <<pushes, running, gathered, tasks, phase, counts, rows, mine,
                   aborted, stopping, starts>>

\* The tasks of s stop where they are; a row being written may be.
Abort(s) ==
    /\ \E written \in SUBSET {a \in s : phase[a] = "saving"} :
          rows' = [a \in Anomalies |-> IF a \in written THEN rows[a] + 1 ELSE rows[a]]
    /\ aborted' = aborted \cup {a \in s : phase[a] # "ended"}
    /\ phase' = [a \in Anomalies |-> IF a \in s THEN "ended" ELSE phase[a]]

\* A cancellation reaches a gather, and gather passes it to the tasks it waits
\* for; they count as neither processed nor failed.
CancelGather(w) ==
    /\ Fault
    /\ \/ /\ pc[w] = "gather"
          /\ Abort(gathered[w] \cap tasks[w])
          /\ pc' = [pc EXCEPT ![w] = "finally"]
          /\ UNCHANGED <<running, tasks>>
       \/ /\ pc[w] = "finally"
          /\ Abort(tasks[w])
          /\ pc' = [pc EXCEPT ![w] = "down"]
          /\ running' = [running EXCEPT ![w] = FALSE]
          /\ tasks' = [tasks EXCEPT ![w] = {}]
    /\ gathered' = [gathered EXCEPT ![w] = {}]
    /\ UNCHANGED <<redis, counts, mine, lost, stopping, starts>>

\* The connections fail, or the process dies anywhere.
Crash(w) ==
    /\ Fault
    /\ pc[w] # "down"
    /\ Abort(tasks[w])
    /\ pc' = [pc EXCEPT ![w] = "down"]
    /\ running' = [running EXCEPT ![w] = FALSE]
    /\ gathered' = [gathered EXCEPT ![w] = {}]
    /\ tasks' = [tasks EXCEPT ![w] = {}]
    /\ \/ UNCHANGED <<queue, lost>>
       \/ /\ pc[w] = "pop" /\ queue # << >>
          /\ TakeOldest /\ lost' = lost \cup {Head(queue)}
    /\ UNCHANGED <<pushes, counts, mine, stopping, starts>>

-----------------------------------------------------------------------------
Loop(w) == Started(w) \/ Timeout(w) \/ Pop(w) \/ Gathered(w) \/ Exit(w)
Task(w, a) == Analyse(w, a) \/ Save(w, a) \/ TaskFails(w, a) \/ Discard(w, a)
End(w) == RequestStop(w) \/ PopInterrupted(w) \/ CancelGather(w) \/ Crash(w)

Next ==
    \/ Push
    \/ \E w \in Workers :
          \/ Start(w) \/ Loop(w) \/ Acquire(w) \/ End(w)
          \/ \E a \in Anomalies : Task(w, a)

Spec == Init /\ [][Next]_vars

\* The event loop runs what can run, BRPOP answers or times out, the LLM
\* client has a timeout and the database answers.  Nothing restarts a worker.
Fairness ==
    \A w \in Workers :
        /\ WF_vars(Started(w)) /\ WF_vars(Pop(w) \/ Timeout(w))
        /\ WF_vars(Gathered(w)) /\ WF_vars(Exit(w)) /\ WF_vars(Acquire(w))
        /\ \A a \in Anomalies :
              /\ WF_vars(Analyse(w, a)) /\ WF_vars(Save(w, a))
              /\ WF_vars(Discard(w, a))

FairSpec == Spec /\ Fairness

-----------------------------------------------------------------------------
(* Properties.                                                             *)

\* Type invariant.
TypeOK ==
    /\ pushed \in 0..MaxPushes /\ unreadable \subseteq 1..pushed
    /\ queue \in Seq(Anomalies)
    /\ pc \in [Workers -> PCs] /\ running \in [Workers -> BOOLEAN]
    /\ tasks \in [Workers -> SUBSET Anomalies]
    /\ gathered \in [Workers -> SUBSET Anomalies]
    /\ processed \in [Workers -> Nat] /\ failed \in [Workers -> Nat]
    /\ phase \in [Anomalies -> Phases]
    /\ rows \in [Anomalies -> Nat]
    /\ mine \in [Workers -> SUBSET Anomalies]
    /\ aborted \in SUBSET Anomalies /\ lost \in SUBSET Anomalies
    /\ stopping \in [Workers -> Stops]
    /\ faults \in Nat /\ starts \in Nat

\* A worker keeps at most twice Concurrency tasks, whatever the loop and the
\* tasks do, and at most Concurrency of them are past the semaphore.
TasksBounded ==
    \A w \in Workers :
        /\ Cardinality(tasks[w]) <= 2 * Concurrency
        /\ Cardinality(Holding(w)) <= Concurrency

\* An anomaly that was pushed is in the queue, in a task, stored, or given up
\* for a reason (it does not parse, its task raised, was cancelled or died, its
\* pop was interrupted), and a reason takes a fault.
Dropped == {a \in Anomalies : phase[a] = "ended" /\ rows[a] = 0} \cup lost
InQueue == {queue[i] : i \in DOMAIN queue}
InTasks == UNION {Active(w) : w \in Workers}
NothingVanishes ==
    /\ \A a \in 1..pushed : a \in InQueue \cup InTasks \cup Dropped \/ rows[a] > 0
    /\ faults = 0 => Dropped \subseteq unreadable

\* The counters of a process account for every task that it created, except
\* those that a cancelled gather took with it; and it counts as processed only
\* what is stored.
StatsAddUp ==
    \A w \in Workers : pc[w] # "down" =>
        /\ processed[w] + failed[w] =
              Cardinality({a \in mine[w] : phase[a] = "ended"} \ aborted)
        /\ processed[w] <= Cardinality({a \in mine[w] : rows[a] = 1})

\* Nothing disappears quietly: neither from the system nor from the counters,
\* whatever fails at whatever await.
EveryAnomalyIsAccountedFor == NothingVanishes /\ StatsAddUp

\* The workers together implement the at-most-once service of AnalysisOnce.
Promise == INSTANCE AnalysisOnce WITH
    waiting <- InQueue,
    taken   <- InTasks,
    stored  <- {a \in Anomalies : rows[a] = 1 /\ phase[a] = "ended"},
    dropped <- Dropped
ImplementsAnalysisOnce == Promise!Spec

\* An anomaly in the queue is eventually stored or dropped, unless every worker
\* has ended.
QueueIsWorkedOff ==
    \A a \in Anomalies :
        a \in InQueue ~> (rows[a] > 0 \/ a \in Dropped
                            \/ \A w \in Workers : pc[w] = "down")

\* A worker that was told to stop once its loop had begun, or that left the loop
\* by itself, finishes what it has and ends.  A stop() that comes while start()
\* connects is not covered: worker.py:51 overwrites it.
StopTerminates ==
    \A w \in Workers : (stopping[w] = "heard" \/ pc[w] = "finally") ~> pc[w] = "down"
===============================================================================
