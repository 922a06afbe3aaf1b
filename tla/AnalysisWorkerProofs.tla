------------------------ MODULE AnalysisWorkerProofs ------------------------
(***************************************************************************)
(* Proofs about AnalysisWorker, for any workers, concurrency and bounds:   *)
(* the types, the bound on the tasks, what becomes of an anomaly, the      *)
(* counters, and that the workers implement AnalysisOnce.                  *)
(*                                                                         *)
(* All of them need to know that an anomaly is either in the queue, once   *)
(* (QueueInv), or a task of one process (TaskInv), so that a step of one   *)
(* worker touches nothing of another.                                      *)
(***************************************************************************)
EXTENDS AnalysisWorker, FiniteSetTheorems, TLAPS

LEMMA AnomalySets ==
    ASSUME NEW S \in SUBSET Anomalies
    PROVE  IsFiniteSet(S) /\ Cardinality(S) \in Nat
<1>1. IsFiniteSet(Anomalies)
    BY WorkerAssumption, FS_Interval DEF Anomalies
<1> QED
    BY <1>1, FS_Subset, FS_CardinalityType

-----------------------------------------------------------------------------
(* Types.                                                                  *)

LEMMA TypeInit == Init => TypeOK
BY WorkerAssumption DEF Init, TypeOK, PCs, Phases, Stops

\* What BRPOP returns, and what it leaves.
LEMMA Oldest ==
    ASSUME TypeOK, queue # << >>
    PROVE  /\ Head(queue) \in Anomalies /\ Tail(queue) \in Seq(Anomalies)
           /\ Head(queue) = queue[1] /\ 1 \in DOMAIN queue
BY DEF TypeOK

LEMMA AbortType ==
    ASSUME TypeOK, NEW s, Abort(s)
    PROVE  /\ phase' \in [Anomalies -> Phases] /\ rows' \in [Anomalies -> Nat]
           /\ aborted' \in SUBSET Anomalies \/ ~ (s \subseteq Anomalies)
BY DEF Abort, TypeOK, Phases

LEMMA LoopType ==
    ASSUME TypeOK, NEW w \in Workers, Loop(w) PROVE TypeOK'
<1> USE DEF redis, pushes, loop, counts, history, bounds
<1>1. CASE Started(w)
    BY <1>1 DEF Started, TypeOK, PCs
<1>2. CASE Timeout(w)
    BY <1>2 DEF Timeout, LoopHead, TypeOK, PCs
<1>3. CASE Pop(w)
  <2>1. Head(queue) \in Anomalies /\ queue' \in Seq(Anomalies)
    BY <1>3, Oldest DEF Pop, TakeOldest
  <2>2. CASE UNCHANGED <<gathered, tasks, phase, mine>>
    BY <1>3, <2>1, <2>2 DEF Pop, LoopHead, TypeOK, PCs
  <2>3. CASE /\ tasks' = [tasks EXCEPT ![w] = @ \cup {Head(queue)}]
             /\ mine' = [mine EXCEPT ![w] = @ \cup {Head(queue)}]
             /\ phase' = [phase EXCEPT ![Head(queue)] = "waiting"]
             /\ lost' = lost
    <3>1. /\ tasks' \in [Workers -> SUBSET Anomalies] /\ mine' \in [Workers -> SUBSET Anomalies]
          /\ phase' \in [Anomalies -> Phases]
      BY <2>1, <2>3 DEF TypeOK, Phases
    <3>2. pc' \in [Workers -> PCs]
      <4>1. pc' = [pc EXCEPT ![w] = "gather"] \/ LoopHead(w)
        BY <1>3 DEF Pop
      <4> QED
        BY <4>1 DEF LoopHead, TypeOK, PCs
    <3>3. gathered' \in [Workers -> SUBSET Anomalies]
      <4>1. tasks'[w] \in SUBSET Anomalies
        BY <3>1
      <4>2. gathered' = gathered \/ \E s \in SUBSET tasks'[w] : gathered' = [gathered EXCEPT ![w] = s]
        BY <1>3 DEF Pop
      <4> QED
        BY <4>1, <4>2 DEF TypeOK
    <3> QED
      BY <1>3, <2>1, <2>3, <3>1, <3>2, <3>3 DEF Pop, TypeOK
  <2> QED
    BY <1>3, <2>2, <2>3 DEF Pop
<1>4. CASE Gathered(w)
    BY <1>4 DEF Gathered, LoopHead, TypeOK, PCs
<1>5. CASE Exit(w)
    BY <1>5 DEF Exit, TypeOK, PCs
<1> QED
    BY <1>1, <1>2, <1>3, <1>4, <1>5 DEF Loop

LEMMA TaskType ==
    ASSUME TypeOK, NEW w \in Workers, NEW a \in Anomalies, Task(w, a) PROVE TypeOK'
<1> USE DEF redis, pushes, loop, counts, history, bounds
<1>1. CASE Analyse(w, a)
    BY <1>1 DEF Analyse, TypeOK, Phases
<1>2. CASE Save(w, a)
    BY <1>2 DEF Save, Store, Ended, TypeOK, Phases
<1>3. CASE TaskFails(w, a)
  <2>1. rows' \in [Anomalies -> Nat]
    <3>1. CASE UNCHANGED rows
      BY <3>1 DEF TypeOK
    <3>2. CASE Store(a)
      BY <3>2 DEF Store, TypeOK
    <3> QED
      BY <1>3, <3>1, <3>2 DEF TaskFails
  <2>2. phase' \in [Anomalies -> Phases] /\ failed' \in [Workers -> Nat]
    BY <1>3 DEF TaskFails, Ended, TypeOK, Phases
  <2> QED
    BY <1>3, <2>1, <2>2 DEF TaskFails, Fault, TypeOK
<1>4. CASE Discard(w, a)
    BY <1>4 DEF Discard, TypeOK
<1> QED
    BY <1>1, <1>2, <1>3, <1>4 DEF Task

LEMMA EndType ==
    ASSUME TypeOK, NEW w \in Workers, End(w) PROVE TypeOK'
<1> USE DEF redis, pushes, loop, counts, history, bounds
<1>1. CASE RequestStop(w)
    BY <1>1 DEF RequestStop, TypeOK, Stops
<1>2. CASE PopInterrupted(w)
  <2>1. queue' \in Seq(Anomalies) /\ lost' \in SUBSET Anomalies
    BY <1>2, Oldest DEF PopInterrupted, TakeOldest, TypeOK
  <2> QED
    BY <1>2, <2>1 DEF PopInterrupted, Fault, TypeOK, PCs
<1>3. CASE CancelGather(w)
  <2>1. PICK s \in SUBSET Anomalies : Abort(s)
    BY <1>3 DEF CancelGather, TypeOK
  <2>2. /\ phase' \in [Anomalies -> Phases] /\ rows' \in [Anomalies -> Nat]
        /\ aborted' \in SUBSET Anomalies
    BY <2>1, AbortType
  <2>3. /\ pc' \in [Workers -> PCs] /\ running' \in [Workers -> BOOLEAN]
        /\ tasks' \in [Workers -> SUBSET Anomalies]
    BY <1>3 DEF CancelGather, TypeOK, PCs
  <2> QED
    BY <1>3, <2>2, <2>3 DEF CancelGather, Fault, TypeOK
<1>4. CASE Crash(w)
  <2>1. tasks[w] \in SUBSET Anomalies /\ Abort(tasks[w])
    BY <1>4 DEF Crash, TypeOK
  <2>2. /\ phase' \in [Anomalies -> Phases] /\ rows' \in [Anomalies -> Nat]
        /\ aborted' \in SUBSET Anomalies
    BY <2>1, AbortType
  <2>3. queue' \in Seq(Anomalies) /\ lost' \in SUBSET Anomalies
    BY <1>4, Oldest DEF Crash, TakeOldest, TypeOK
  <2> QED
    BY <1>4, <2>2, <2>3 DEF Crash, Fault, TypeOK, PCs
<1> QED
    BY <1>1, <1>2, <1>3, <1>4 DEF End

LEMMA TypeNext == TypeOK /\ [Next]_vars => TypeOK'
<1> SUFFICES ASSUME TypeOK, [Next]_vars PROVE TypeOK'
    OBVIOUS
<1> USE DEF redis, pushes, loop, counts, history, bounds
<1>1. CASE Push
  <2>1. pushed' \in 1..MaxPushes
    BY <1>1, WorkerAssumption DEF Push, TypeOK
  <2>2. unreadable' \subseteq 1..pushed'
    <3>1. pushed' = pushed + 1 /\ pushed \in Nat
      BY <1>1 DEF Push, TypeOK
    <3>2. CASE unreadable' = unreadable
      BY <3>1, <3>2 DEF TypeOK
    <3>3. CASE unreadable' = unreadable \cup {pushed'}
      BY <3>1, <3>3 DEF TypeOK
    <3> QED
      BY <1>1, <3>2, <3>3 DEF Push
  <2>3. queue' \in Seq(Anomalies)
    BY <1>1, <2>1 DEF Push, TypeOK, Anomalies
  <2> QED
    BY <1>1, <2>1, <2>2, <2>3 DEF Push, TypeOK
<1>2. ASSUME NEW w \in Workers, Start(w) PROVE TypeOK'
    BY <1>2 DEF Start, TypeOK, PCs, Stops
<1>3. ASSUME NEW w \in Workers, Acquire(w) PROVE TypeOK'
    BY <1>3 DEF Acquire, Enter, Waiting, TypeOK, Phases
<1>4. CASE UNCHANGED vars
    BY <1>4 DEF vars, TypeOK
<1> QED
    BY <1>1, <1>2, <1>3, <1>4, LoopType, TaskType, EndType DEF Next

\* The variables of the workers keep their types.
THEOREM TypeCorrect == Spec => []TypeOK
BY TypeInit, TypeNext, PTL DEF Spec

-----------------------------------------------------------------------------
(* The inductive invariant.                                                *)

\* An anomaly nobody made a task of is yet to be pushed, once in the queue, or
\* lost.
QueueInv ==
    /\ \A i \in DOMAIN queue :
          queue[i] \in 1..pushed /\ phase[queue[i]] = "none" /\ queue[i] \notin lost
    /\ \A i, j \in DOMAIN queue : queue[i] = queue[j] => i = j
    /\ \A a \in Anomalies : phase[a] = "none" => a \in InQueue \cup lost \/ a > pushed
    /\ \A a \in Anomalies : a > pushed => phase[a] = "none" /\ a \notin lost
    /\ \A a \in lost : phase[a] = "none"

\* A task belongs to the one process that created it, until it has ended.
TaskInv ==
    /\ \A w \in Workers : tasks[w] \subseteq mine[w]
    /\ \A v, w \in Workers : \A a \in Anomalies :
          a \in tasks[v] /\ a \in mine[w] => v = w
    /\ \A w \in Workers : \A a \in mine[w] : phase[a] # "none"
    /\ \A a \in Anomalies : phase[a] \in {"waiting", "analysing", "saving"} =>
          \E w \in Workers : a \in tasks[w]
    /\ \A w \in Workers : pc[w] \in {"down", "starting"} => tasks[w] = {}

\* A task writes its row when it ends, and none only after a fault.
RowInv ==
    /\ \A a \in Anomalies : phase[a] # "ended" => rows[a] = 0
    /\ \A a \in Anomalies : rows[a] \in {0, 1}
    /\ \A a \in aborted : phase[a] = "ended"
    /\ faults = 0 => lost \subseteq unreadable
    /\ faults = 0 => \A a \in Anomalies : phase[a] = "ended" => rows[a] = 1

\* The loop creates a task only while there is room for one more.
LoopBound(w) ==
    /\ pc[w] = "pop" => Cardinality(tasks[w]) < 2 * Concurrency
    /\ pc[w] = "gather" => /\ Cardinality(tasks[w] \cup gathered[w]) <= 2 * Concurrency
                           /\ Cardinality(gathered[w]) = Concurrency
    /\ Cardinality(tasks[w]) <= 2 * Concurrency
    /\ Cardinality(Holding(w)) <= Concurrency
LoopInv == \A w \in Workers : LoopBound(w)

-----------------------------------------------------------------------------
(* The queue.                                                              *)

\* What BRPOP leaves of the queue.
LEMMA Popped ==
    ASSUME TypeOK, queue # << >>, TakeOldest
    PROVE  /\ \A i \in DOMAIN queue' : i + 1 \in DOMAIN queue /\ queue'[i] = queue[i + 1]
                                       /\ i # 0
           /\ InQueue \subseteq InQueue' \cup {Head(queue)}
<1>1. queue \in Seq(Anomalies) /\ queue' = Tail(queue)
    BY DEF TypeOK, TakeOldest
<1>2. \A i \in DOMAIN queue' : i + 1 \in DOMAIN queue /\ queue'[i] = queue[i + 1] /\ i # 0
    BY <1>1
<1>3. ASSUME NEW i \in DOMAIN queue PROVE queue[i] \in InQueue' \cup {Head(queue)}
  <2>1. CASE i = 1
    BY <1>1, <2>1
  <2>2. CASE i # 1
    <3>1. i - 1 \in DOMAIN queue' /\ queue'[i - 1] = queue[i]
      BY <1>1, <2>2
    <3> QED
      BY <3>1 DEF InQueue
  <2> QED
    BY <2>1, <2>2
<1> QED
    BY <1>2, <1>3 DEF InQueue

LEMMA QueueKept ==
    ASSUME QueueInv, UNCHANGED <<queue, lost, pushed>>,
           \A a \in Anomalies : phase'[a] = "none" <=> phase[a] = "none",
           TypeOK
    PROVE  QueueInv'
<1>1. lost \subseteq Anomalies /\ \A i \in DOMAIN queue : queue[i] \in Anomalies
    BY DEF TypeOK
<1> QED
    BY <1>1 DEF QueueInv, InQueue

LEMMA QueueTook ==
    ASSUME TypeOK, QueueInv, queue # << >>, TakeOldest, pushed' = pushed,
           \A a \in Anomalies \ {Head(queue)} : phase'[a] = "none" <=> phase[a] = "none",
           \/ lost' = lost \cup {Head(queue)} /\ phase'[Head(queue)] = "none"
           \/ lost' = lost /\ phase'[Head(queue)] # "none"
    PROVE  QueueInv'
<1>0. /\ Head(queue) = queue[1] /\ 1 \in DOMAIN queue /\ Head(queue) \in Anomalies
      /\ lost \subseteq Anomalies /\ \A i \in DOMAIN queue : queue[i] \in Anomalies /\ i \in Nat
    BY Oldest DEF TypeOK
<1>1. ASSUME NEW i \in DOMAIN queue'
      PROVE  /\ queue'[i] \in Anomalies \ {Head(queue)}
             /\ i + 1 \in DOMAIN queue /\ queue'[i] = queue[i + 1] /\ i \in Nat
  <2>1. i + 1 \in DOMAIN queue /\ queue'[i] = queue[i + 1] /\ i # 0
    BY Popped
  <2>2. i \in Nat
    BY DEF TypeOK, TakeOldest
  <2> QED
    BY <1>0, <2>1, <2>2 DEF QueueInv
<1>2. \A i \in DOMAIN queue' :
          queue'[i] \in 1..pushed' /\ phase'[queue'[i]] = "none" /\ queue'[i] \notin lost'
    BY <1>1 DEF QueueInv
<1>3. \A i, j \in DOMAIN queue' : queue'[i] = queue'[j] => i = j
    BY <1>1 DEF QueueInv
<1>4. \A a \in Anomalies : phase'[a] = "none" => a \in InQueue' \cup lost' \/ a > pushed'
    BY Popped DEF QueueInv
<1>5. /\ \A a \in Anomalies : a > pushed' => phase'[a] = "none" /\ a \notin lost'
      /\ \A a \in lost' : phase'[a] = "none"
  <2>1. Head(queue) \in 1..pushed
    BY <1>0 DEF QueueInv
  <2>2. ~ (Head(queue) > pushed)
    BY <2>1 DEF TypeOK
  <2>3. Head(queue) \notin lost
    BY <1>0 DEF QueueInv
  <2> QED
    BY <1>0, <2>2, <2>3 DEF QueueInv
<1> QED
    BY <1>2, <1>3, <1>4, <1>5 DEF QueueInv

\* Aborting tasks of w changes the phase of no anomaly that never was a task.
LEMMA AbortPhase ==
    ASSUME TypeOK, TaskInv, NEW w \in Workers, NEW s \in SUBSET tasks[w], Abort(s)
    PROVE  /\ \A a \in Anomalies : phase'[a] = "none" <=> phase[a] = "none"
           /\ \A a \in Anomalies : phase'[a] = IF a \in s THEN "ended" ELSE phase[a]
<1>1. \A a \in s : phase[a] # "none"
    BY DEF TaskInv, TypeOK
<1> QED
    BY <1>1 DEF Abort

LEMMA QueueNext == TypeOK /\ TaskInv /\ QueueInv /\ [Next]_vars => QueueInv'
<1> SUFFICES ASSUME TypeOK, TaskInv, QueueInv, [Next]_vars PROVE QueueInv'
    OBVIOUS
<1> USE DEF redis, pushes, history
<1>0. pushed \in Nat /\ phase \in [Anomalies -> Phases]
    BY DEF TypeOK
<1>1. CASE Push
  <2>1. /\ pushed' = pushed + 1 /\ pushed' \in Anomalies
        /\ phase' = phase /\ lost' = lost
    BY <1>1, WorkerAssumption DEF Push, TypeOK, Anomalies
  <2>2. /\ Len(queue') = Len(queue) + 1 /\ queue'[Len(queue) + 1] = pushed'
        /\ Len(queue) \in Nat /\ DOMAIN queue = 1..Len(queue)
        /\ DOMAIN queue' = 1..(Len(queue) + 1)
        /\ \A i \in DOMAIN queue : queue'[i] = queue[i]
    BY <1>1, <2>1 DEF Push, TypeOK
  <2>3. InQueue' = InQueue \cup {pushed'}
    BY <2>2 DEF InQueue
  <2>4. \A i \in DOMAIN queue' :
            queue'[i] \in 1..pushed' /\ phase'[queue'[i]] = "none" /\ queue'[i] \notin lost'
    BY <1>0, <2>1, <2>2 DEF QueueInv
  <2>5. \A i, j \in DOMAIN queue' : queue'[i] = queue'[j] => i = j
    <3>1. \A i \in DOMAIN queue : queue'[i] # pushed'
      BY <1>0, <2>1, <2>2 DEF QueueInv
    <3> QED
      BY <2>2, <3>1 DEF QueueInv
  <2>6. \A a \in Anomalies : phase'[a] = "none" => a \in InQueue' \cup lost' \/ a > pushed'
    BY <1>0, <2>1, <2>3 DEF QueueInv, Anomalies
  <2>7. \A a \in Anomalies : a > pushed' => phase'[a] = "none" /\ a \notin lost'
    BY <1>0, <2>1 DEF QueueInv, Anomalies
  <2> QED
    BY <2>1, <2>4, <2>5, <2>6, <2>7 DEF QueueInv
<1>2. ASSUME NEW w \in Workers, Start(w) \/ Started(w) \/ Timeout(w) \/ Gathered(w)
                                \/ Exit(w) \/ RequestStop(w)
      PROVE  QueueInv'
    BY <1>2, QueueKept DEF Start, Started, Timeout, Gathered, Exit, RequestStop, bounds
<1>3. ASSUME NEW w \in Workers, Pop(w) PROVE QueueInv'
  <2>1. queue # << >> /\ TakeOldest /\ pushed' = pushed
    BY <1>3 DEF Pop
  <2>2. Head(queue) \in Anomalies /\ phase[Head(queue)] = "none"
    BY <2>1, Oldest DEF QueueInv
  <2>3. CASE lost' = lost \cup {Head(queue)} /\ phase' = phase
    BY <2>1, <2>2, <2>3, QueueTook
  <2>4. CASE lost' = lost /\ phase' = [phase EXCEPT ![Head(queue)] = "waiting"]
    BY <1>0, <2>1, <2>2, <2>4, QueueTook
  <2> QED
    BY <1>3, <2>3, <2>4 DEF Pop
<1>4. ASSUME NEW w \in Workers, Acquire(w) PROVE QueueInv'
  <2>1. PICK a \in Waiting(w) : phase' = [phase EXCEPT ![a] = "analysing"]
    BY <1>4 DEF Acquire, Enter
  <2> QED
    BY <1>0, <1>4, <2>1, QueueKept DEF Acquire, Enter, Waiting
<1>5. ASSUME NEW w \in Workers, NEW a \in Anomalies, Task(w, a) PROVE QueueInv'
  <2>1. /\ UNCHANGED <<queue, lost, pushed>>
        /\ \/ phase' = phase
           \/ phase[a] # "none" /\ phase' = [phase EXCEPT ![a] = "saving"]
           \/ phase[a] # "none" /\ phase' = [phase EXCEPT ![a] = "ended"]
    BY <1>5 DEF Task, Analyse, Save, TaskFails, Ended, Discard
  <2> QED
    BY <1>0, <2>1, QueueKept
<1>6. ASSUME NEW w \in Workers, PopInterrupted(w) PROVE QueueInv'
  <2>1. phase' = phase /\ pushed' = pushed
    BY <1>6 DEF PopInterrupted
  <2>2. CASE UNCHANGED <<queue, lost>>
    BY <2>1, <2>2, QueueKept
  <2>3. CASE queue # << >> /\ TakeOldest /\ lost' = lost \cup {Head(queue)}
    <3>1. phase[Head(queue)] = "none"
      BY <2>3, Oldest DEF QueueInv
    <3> QED
      BY <2>1, <2>3, <3>1, QueueTook
  <2> QED
    BY <1>6, <2>2, <2>3 DEF PopInterrupted
<1>7. ASSUME NEW w \in Workers, CancelGather(w) PROVE QueueInv'
  <2>1. PICK s \in SUBSET tasks[w] : Abort(s)
    BY <1>7 DEF CancelGather
  <2>2. \A a \in Anomalies : phase'[a] = "none" <=> phase[a] = "none"
    BY <2>1, AbortPhase
  <2>3. UNCHANGED <<queue, lost, pushed>>
    BY <1>7 DEF CancelGather
  <2> QED
    BY <2>2, <2>3, QueueKept
<1>8. ASSUME NEW w \in Workers, Crash(w) PROVE QueueInv'
  <2>1. pushed' = pushed /\ Abort(tasks[w])
    BY <1>8 DEF Crash
  <2>2. \A a \in Anomalies : phase'[a] = "none" <=> phase[a] = "none"
    BY <2>1, AbortPhase
  <2>3. CASE UNCHANGED <<queue, lost>>
    BY <2>1, <2>2, <2>3, QueueKept
  <2>4. CASE queue # << >> /\ TakeOldest /\ lost' = lost \cup {Head(queue)}
    <3>1. phase[Head(queue)] = "none" /\ Head(queue) \in Anomalies
      BY <2>4, Oldest DEF QueueInv
    <3> QED
      BY <2>1, <2>2, <2>4, <3>1, QueueTook
  <2> QED
    BY <1>8, <2>3, <2>4 DEF Crash
<1>9. CASE UNCHANGED vars
    BY <1>9, QueueKept DEF vars
<1> QED
    BY <1>1, <1>2, <1>3, <1>4, <1>5, <1>6, <1>7, <1>8, <1>9 DEF Next, Loop, End

-----------------------------------------------------------------------------
(* The tasks and their rows.                                               *)

\* No process gains a task, and the tasks only go on.
LEMMA TasksKept ==
    ASSUME TypeOK, TaskInv, TypeOK',
           \A w \in Workers : tasks'[w] \subseteq tasks[w],
           \A w \in Workers : mine'[w] = mine[w] \/ (mine'[w] = {} /\ tasks[w] = {}),
           \A w \in Workers : pc'[w] \in {"down", "starting"} =>
                                 tasks'[w] = {} \/ pc[w] \in {"down", "starting"},
           \A a \in Anomalies : phase'[a] = "none" <=> phase[a] = "none",
           \A a \in Anomalies : \A w \in Workers :
               a \in tasks[w] /\ phase'[a] # "ended" => a \in tasks'[w],
           \A a \in Anomalies : phase[a] = "ended" => phase'[a] = "ended"
    PROVE  TaskInv'
<1>0. /\ \A w \in Workers : tasks[w] \subseteq Anomalies /\ mine[w] \subseteq Anomalies
      /\ \A a \in Anomalies : phase[a] \in Phases /\ phase'[a] \in Phases
    BY DEF TypeOK
<1>1. \A w \in Workers : tasks'[w] \subseteq mine'[w]
    BY DEF TaskInv
<1>2. \A v, w \in Workers : \A a \in Anomalies :
          a \in tasks'[v] /\ a \in mine'[w] => v = w
    BY DEF TaskInv
<1>3. \A w \in Workers : \A a \in mine'[w] : phase'[a] # "none"
    BY <1>0 DEF TaskInv
<1>4. \A a \in Anomalies : phase'[a] \in {"waiting", "analysing", "saving"} =>
          \E w \in Workers : a \in tasks'[w]
    BY <1>0 DEF TaskInv, Phases
<1>5. \A w \in Workers : pc'[w] \in {"down", "starting"} => tasks'[w] = {}
    BY DEF TaskInv
<1> QED
    BY <1>1, <1>2, <1>3, <1>4, <1>5 DEF TaskInv

LEMMA TaskNext == TypeOK /\ TypeOK' /\ QueueInv /\ TaskInv /\ [Next]_vars => TaskInv'
<1> SUFFICES ASSUME TypeOK, TypeOK', QueueInv, TaskInv, [Next]_vars PROVE TaskInv'
    OBVIOUS
<1> USE DEF redis, pushes, history, loop
<1>0. /\ phase \in [Anomalies -> Phases] /\ pc \in [Workers -> PCs]
      /\ tasks \in [Workers -> SUBSET Anomalies] /\ mine \in [Workers -> SUBSET Anomalies]
    BY DEF TypeOK
<1>1. CASE Push \/ UNCHANGED vars
    BY <1>1, TasksKept DEF Push, vars
<1>2. ASSUME NEW w \in Workers, Start(w) PROVE TaskInv'
  <2>1. /\ pc[w] = "down" /\ tasks' = tasks /\ phase' = phase
        /\ mine' = [mine EXCEPT ![w] = {}] /\ pc' = [pc EXCEPT ![w] = "starting"]
    BY <1>2 DEF Start
  <2>2. tasks[w] = {}
    BY <2>1 DEF TaskInv
  <2> QED
    BY <1>0, <2>1, <2>2, TasksKept
<1>3. ASSUME NEW w \in Workers,
             Started(w) \/ Timeout(w) \/ Gathered(w) \/ Exit(w) \/ RequestStop(w)
                \/ PopInterrupted(w)
      PROVE  TaskInv'
  <2>1. UNCHANGED <<tasks, phase, mine>>
    BY <1>3 DEF Started, Timeout, Gathered, Exit, RequestStop, PopInterrupted
  <2>2. \/ pc' = pc
        \/ pc' = [pc EXCEPT ![w] = "pop"]
        \/ pc' = [pc EXCEPT ![w] = "finally"]
        \/ pc' = [pc EXCEPT ![w] = "down"] /\ tasks[w] = {}
    BY <1>3 DEF Started, Timeout, Gathered, Exit, RequestStop, PopInterrupted, LoopHead
  <2>3. \A v \in Workers : pc'[v] \in {"down", "starting"} =>
                                 tasks'[v] = {} \/ pc[v] \in {"down", "starting"}
    BY <1>0, <2>1, <2>2
  <2> QED
    BY <2>1, <2>3, TasksKept
<1>4. ASSUME NEW w \in Workers, Pop(w) PROVE TaskInv'
  <2>1. /\ queue # << >> /\ Head(queue) \in Anomalies /\ phase[Head(queue)] = "none"
        /\ pc[w] = "pop"
    BY <1>4, Oldest DEF Pop, QueueInv
  <2>2. pc' = [pc EXCEPT ![w] = "gather"] \/ LoopHead(w)
    BY <1>4 DEF Pop
  <2>3. \A v \in Workers : pc'[v] \in {"down", "starting"} => pc'[v] = pc[v] /\ v # w
    BY <1>0, <2>2 DEF LoopHead
  <2>4. CASE UNCHANGED <<tasks, phase, mine>>
    BY <2>3, <2>4, TasksKept
  <2>5. CASE /\ tasks' = [tasks EXCEPT ![w] = @ \cup {Head(queue)}]
             /\ mine' = [mine EXCEPT ![w] = @ \cup {Head(queue)}]
             /\ phase' = [phase EXCEPT ![Head(queue)] = "waiting"]
    <3>1. \A v \in Workers : Head(queue) \notin mine[v] /\ Head(queue) \notin tasks[v]
      BY <2>1 DEF TaskInv
    <3> DEFINE h == Head(queue)
    <3>2. /\ \A v \in Workers \ {w} : tasks'[v] = tasks[v] /\ mine'[v] = mine[v]
          /\ tasks'[w] = tasks[w] \cup {h} /\ mine'[w] = mine[w] \cup {h}
          /\ \A a \in Anomalies \ {h} : phase'[a] = phase[a]
          /\ phase'[h] = "waiting" /\ h \in Anomalies
          /\ \A v \in Workers : h \notin mine[v] /\ h \notin tasks[v]
      BY <1>0, <2>1, <2>5, <3>1
    <3> HIDE DEF h
    <3>3. \A v \in Workers : tasks'[v] \subseteq mine'[v]
      BY <3>2 DEF TaskInv
    <3>4. \A u, v \in Workers : \A a \in Anomalies :
              a \in tasks'[u] /\ a \in mine'[v] => u = v
      BY <3>2 DEF TaskInv
    <3>5. \A v \in Workers : \A a \in mine'[v] : phase'[a] # "none"
      BY <1>0, <3>2 DEF TaskInv
    <3>6. \A a \in Anomalies : phase'[a] \in {"waiting", "analysing", "saving"} =>
              \E v \in Workers : a \in tasks'[v]
      BY <3>2 DEF TaskInv
    <3>7. \A v \in Workers : pc'[v] \in {"down", "starting"} => tasks'[v] = {}
      BY <2>3, <3>2 DEF TaskInv
    <3> QED
      BY <3>3, <3>4, <3>5, <3>6, <3>7 DEF TaskInv
  <2> QED
    BY <1>4, <2>4, <2>5 DEF Pop
<1>5. ASSUME NEW w \in Workers, Acquire(w) PROVE TaskInv'
  <2>1. PICK a \in Waiting(w) : phase' = [phase EXCEPT ![a] = "analysing"]
    BY <1>5 DEF Acquire, Enter
  <2>2. phase[a] = "waiting" /\ UNCHANGED <<tasks, mine, pc>>
    BY <1>5, <2>1 DEF Acquire, Enter, Waiting
  <2> QED
    BY <1>0, <2>1, <2>2, TasksKept
<1>6. ASSUME NEW w \in Workers, NEW a \in Anomalies, Task(w, a) PROVE TaskInv'
  <2>1. UNCHANGED <<mine, pc>>
    BY <1>6 DEF Task, Analyse, Save, TaskFails, Discard
  <2>2. CASE Discard(w, a)
    BY <1>0, <2>1, <2>2, TasksKept DEF Discard
  <2>3. CASE Analyse(w, a) \/ Save(w, a) \/ TaskFails(w, a)
    <3>1. /\ tasks' = tasks /\ phase[a] \in {"analysing", "saving"}
          /\ \/ phase' = [phase EXCEPT ![a] = "saving"]
             \/ phase' = [phase EXCEPT ![a] = "ended"]
      BY <2>3 DEF Analyse, Save, TaskFails, Ended
    <3> QED
      BY <1>0, <2>1, <3>1, TasksKept
  <2> QED
    BY <1>6, <2>2, <2>3 DEF Task
<1>7. ASSUME NEW w \in Workers, CancelGather(w) \/ Crash(w) PROVE TaskInv'
  <2>1. mine' = mine
    BY <1>7 DEF CancelGather, Crash
  <2>2. PICK s \in SUBSET tasks[w] :
            /\ Abort(s)
            /\ \/ tasks' = tasks /\ pc' = [pc EXCEPT ![w] = "finally"]
               \/ /\ tasks' = [tasks EXCEPT ![w] = {}] /\ pc' = [pc EXCEPT ![w] = "down"]
                  /\ s = tasks[w]
    BY <1>7 DEF CancelGather, Crash
  <2>3. /\ \A a \in Anomalies : phase'[a] = "none" <=> phase[a] = "none"
        /\ \A a \in Anomalies : phase'[a] = IF a \in s THEN "ended" ELSE phase[a]
    BY <2>2, AbortPhase
  <2>4. /\ \A v \in Workers : tasks'[v] \subseteq tasks[v]
        /\ \A v \in Workers : pc'[v] \in {"down", "starting"} =>
                                 tasks'[v] = {} \/ pc[v] \in {"down", "starting"}
    BY <1>0, <2>2
  <2>5. \A b \in Anomalies : \A v \in Workers :
               b \in tasks[v] /\ phase'[b] # "ended" => b \in tasks'[v]
    BY <1>0, <2>2, <2>3
  <2> QED
    BY <2>1, <2>3, <2>4, <2>5, TasksKept
<1> QED
    BY <1>1, <1>2, <1>3, <1>4, <1>5, <1>6, <1>7 DEF Next, Loop, End

\* Rows are written by tasks that end, and every task that ends without a row,
\* or an anomaly that is lost although it parses, takes a fault.
LEMMA RowsNext == TypeOK /\ QueueInv /\ TaskInv /\ RowInv /\ [Next]_vars => RowInv'
<1> SUFFICES ASSUME TypeOK, QueueInv, TaskInv, RowInv, [Next]_vars PROVE RowInv'
    OBVIOUS
<1> USE DEF redis, pushes, history, bounds
<1>0. /\ phase \in [Anomalies -> Phases] /\ rows \in [Anomalies -> Nat]
      /\ aborted \subseteq Anomalies /\ faults \in Nat
      /\ \A w \in Workers : tasks[w] \subseteq Anomalies
    BY DEF TypeOK
<1>1. CASE Push
  <2>1. UNCHANGED <<phase, rows, aborted, lost, faults>> /\ unreadable \subseteq unreadable'
    BY <1>1 DEF Push
  <2> QED
    BY <2>1 DEF RowInv
<1>2. ASSUME NEW w \in Workers,
             Start(w) \/ Started(w) \/ Timeout(w) \/ Gathered(w) \/ Exit(w)
                \/ RequestStop(w) \/ \E a \in Anomalies : Discard(w, a)
      PROVE  RowInv'
  <2>1. UNCHANGED <<phase, rows, aborted, lost, faults, unreadable>>
    BY <1>2 DEF Start, Started, Timeout, Gathered, Exit, RequestStop, Discard
  <2> QED
    BY <2>1 DEF RowInv
<1>3. ASSUME NEW w \in Workers, Pop(w) PROVE RowInv'
  <2>1. UNCHANGED <<rows, aborted, faults, unreadable>>
    BY <1>3 DEF Pop
  <2>2. Head(queue) \in Anomalies /\ phase[Head(queue)] = "none"
    BY <1>3, Oldest DEF Pop, QueueInv
  <2>3. CASE phase' = phase /\ lost' = lost \cup {Head(queue)} /\ Head(queue) \in unreadable
    BY <2>1, <2>3 DEF RowInv
  <2>4. CASE phase' = [phase EXCEPT ![Head(queue)] = "waiting"] /\ lost' = lost
    BY <1>0, <2>1, <2>2, <2>4 DEF RowInv
  <2> QED
    BY <1>3, <2>3, <2>4 DEF Pop
<1>4. ASSUME NEW w \in Workers, Acquire(w) PROVE RowInv'
  <2>1. PICK a \in Waiting(w) : phase' = [phase EXCEPT ![a] = "analysing"]
    BY <1>4 DEF Acquire, Enter
  <2>2. phase[a] = "waiting" /\ UNCHANGED <<rows, aborted, lost, faults, unreadable>>
    BY <1>4, <2>1 DEF Acquire, Enter, Waiting
  <2> QED
    BY <1>0, <2>1, <2>2 DEF RowInv
<1>5. ASSUME NEW w \in Workers, NEW a \in Anomalies, Task(w, a) PROVE RowInv'
  <2>1. UNCHANGED <<aborted, lost, unreadable>>
    BY <1>5 DEF Task, Analyse, Save, TaskFails, Discard
  <2>2. CASE Analyse(w, a)
    BY <1>0, <2>1, <2>2 DEF RowInv, Analyse
  <2>3. CASE Save(w, a)
    <3>1. /\ phase' = [phase EXCEPT ![a] = "ended"] /\ rows' = [rows EXCEPT ![a] = @ + 1]
          /\ phase[a] = "saving" /\ faults' = faults
      BY <2>3 DEF Save, Ended, Store
    <3>2. rows[a] = 0 /\ rows'[a] = 1
      BY <1>0, <3>1 DEF RowInv
    <3> QED
      BY <1>0, <2>1, <3>1, <3>2 DEF RowInv
  <2>4. CASE TaskFails(w, a)
    <3>1. /\ phase' = [phase EXCEPT ![a] = "ended"] /\ phase[a] # "ended"
          /\ rows' = rows \/ rows' = [rows EXCEPT ![a] = @ + 1]
          /\ faults' = faults + 1
      BY <2>4 DEF TaskFails, Ended, Store, Fault
    <3>2. rows[a] = 0 /\ rows'[a] \in {0, 1} /\ faults' # 0
      BY <1>0, <3>1 DEF RowInv
    <3> QED
      BY <1>0, <2>1, <3>1, <3>2 DEF RowInv
  <2> QED
    BY <1>2, <1>5, <2>2, <2>3, <2>4 DEF Task
<1>6. ASSUME NEW w \in Workers, PopInterrupted(w) PROVE RowInv'
  <2>1. UNCHANGED <<phase, rows, aborted>> /\ faults' # 0
    BY <1>0, <1>6 DEF PopInterrupted, Fault
  <2> QED
    BY <2>1 DEF RowInv
<1>7. ASSUME NEW w \in Workers, CancelGather(w) \/ Crash(w) PROVE RowInv'
  <2>1. faults' # 0
    BY <1>0, <1>7 DEF CancelGather, Crash, Fault
  <2>2. PICK s \in SUBSET tasks[w] : Abort(s)
    BY <1>7 DEF CancelGather, Crash
  <2>3. PICK written \in SUBSET {a \in s : phase[a] = "saving"} :
            rows' = [a \in Anomalies |-> IF a \in written THEN rows[a] + 1 ELSE rows[a]]
    BY <2>2 DEF Abort
  <2>4. /\ aborted' = aborted \cup {a \in s : phase[a] # "ended"}
        /\ phase' = [a \in Anomalies |-> IF a \in s THEN "ended" ELSE phase[a]]
    BY <2>2 DEF Abort
  <2>5. \A a \in Anomalies : rows'[a] \in {0, 1} /\ (phase'[a] # "ended" => rows'[a] = 0)
    BY <1>0, <2>3, <2>4 DEF RowInv
  <2>6. \A a \in aborted' : phase'[a] = "ended"
    BY <1>0, <2>4 DEF RowInv
  <2> QED
    BY <2>1, <2>5, <2>6 DEF RowInv
<1>8. CASE UNCHANGED vars
    BY <1>8 DEF vars, RowInv
<1> QED
    BY <1>1, <1>2, <1>3, <1>4, <1>5, <1>6, <1>7, <1>8 DEF Next, Loop, End

-----------------------------------------------------------------------------
(* The bound on the tasks.                                                 *)

LEMMA Smaller ==
    ASSUME NEW S \in SUBSET Anomalies, NEW T \in SUBSET S
    PROVE  Cardinality(T) <= Cardinality(S) /\ Cardinality(T) \in Nat /\ Cardinality(S) \in Nat
BY AnomalySets, FS_Subset

LEMMA OneMore ==
    ASSUME NEW S \in SUBSET Anomalies, NEW a \in Anomalies
    PROVE  /\ Cardinality(S) \in Nat /\ Cardinality(S \cup {a}) \in Nat
           /\ Cardinality(S \cup {a}) <= Cardinality(S) + 1
           /\ a \notin S => Cardinality(S \cup {a}) = Cardinality(S) + 1
BY AnomalySets, FS_AddElement

\* A process that gets no task, none of whose tasks passes the semaphore, and
\* whose loop stays where it is or leaves.
LEMMA BoundKept ==
    ASSUME TypeOK, NEW w \in Workers, LoopBound(w), tasks'[w] \subseteq tasks[w],
           \A a \in tasks[w] : phase'[a] \in {"analysing", "saving"} =>
                                   phase[a] \in {"analysing", "saving"},
           \/ pc'[w] = pc[w] /\ gathered'[w] = gathered[w]
           \/ pc'[w] \notin {"pop", "gather"}
    PROVE  LoopBound(w)'
<1>1. /\ tasks[w] \in SUBSET Anomalies /\ gathered[w] \in SUBSET Anomalies
      /\ Concurrency \in Nat
    BY WorkerAssumption DEF TypeOK
<1>2. Holding(w) \in SUBSET Anomalies /\ Holding(w)' \in SUBSET Holding(w)
    BY <1>1 DEF Holding
<1>3. /\ Cardinality(tasks'[w]) <= Cardinality(tasks[w])
      /\ Cardinality(tasks'[w]) \in Nat /\ Cardinality(tasks[w]) \in Nat
    BY <1>1, Smaller
<1>4. /\ Cardinality(Holding(w)') <= Cardinality(Holding(w))
      /\ Cardinality(Holding(w)') \in Nat /\ Cardinality(Holding(w)) \in Nat
    BY <1>2, Smaller
<1>5. CASE pc'[w] = pc[w] /\ gathered'[w] = gathered[w]
  <2>1. /\ tasks[w] \cup gathered[w] \in SUBSET Anomalies
        /\ (tasks[w] \cup gathered[w])' \in SUBSET (tasks[w] \cup gathered[w])
    BY <1>1, <1>5
  <2>2. /\ Cardinality((tasks[w] \cup gathered[w])') <= Cardinality(tasks[w] \cup gathered[w])
        /\ Cardinality((tasks[w] \cup gathered[w])') \in Nat
        /\ Cardinality(tasks[w] \cup gathered[w]) \in Nat
    BY <2>1, Smaller
  <2> HIDE DEF Holding
  <2> QED
    BY <1>1, <1>3, <1>4, <1>5, <2>2 DEF LoopBound
<1>6. CASE pc'[w] \notin {"pop", "gather"}
  <2> HIDE DEF Holding
  <2> QED
    BY <1>1, <1>3, <1>4, <1>6 DEF LoopBound
<1> QED
    BY <1>5, <1>6

\* A new task: below the bound the loop goes on, at the bound it waits.
LEMMA PopBound ==
    ASSUME TypeOK, TypeOK', QueueInv, TaskInv, NEW w \in Workers, LoopBound(w), Pop(w)
    PROVE  LoopBound(w)'
<1> DEFINE h == Head(queue)
<1>0. /\ h \in Anomalies /\ phase[h] = "none" /\ pc[w] = "pop"
      /\ tasks[w] \in SUBSET Anomalies /\ Concurrency \in Nat
    BY Oldest, WorkerAssumption DEF Pop, QueueInv, TypeOK
<1>1. CASE UNCHANGED <<gathered, tasks, phase, mine>> /\ LoopHead(w)
  <2>1. pc'[w] = pc[w] \/ pc'[w] = "finally"
    BY <1>0, <1>1 DEF LoopHead, TypeOK
  <2> QED
    BY <1>1, <2>1, BoundKept
<1>2. CASE /\ tasks' = [tasks EXCEPT ![w] = @ \cup {h}]
           /\ phase' = [phase EXCEPT ![h] = "waiting"]
           /\ \/ /\ TooMany(Cardinality(tasks'[w])) /\ pc' = [pc EXCEPT ![w] = "gather"]
                 /\ \E s \in SUBSET tasks'[w] :
                      Cardinality(s) = Concurrency /\ gathered' = [gathered EXCEPT ![w] = s]
              \/ ~ TooMany(Cardinality(tasks'[w])) /\ LoopHead(w)
  <2>1. h \notin tasks[w] /\ tasks'[w] = tasks[w] \cup {h}
    BY <1>0, <1>2 DEF TaskInv, TypeOK
  <2>2. /\ Cardinality(tasks'[w]) = Cardinality(tasks[w]) + 1
        /\ Cardinality(tasks'[w]) \in Nat /\ Cardinality(tasks[w]) \in Nat
    BY <1>0, <2>1, OneMore
  <2>3. Holding(w)' = Holding(w)
    BY <1>0, <1>2, <2>1 DEF Holding, TypeOK
  <2>4. Cardinality(tasks'[w]) <= 2 * Concurrency
    BY <1>0, <2>2 DEF LoopBound
  <2>5. CASE TooMany(Cardinality(tasks'[w])) /\ pc' = [pc EXCEPT ![w] = "gather"]
    <3>1. PICK s \in SUBSET tasks'[w] :
              Cardinality(s) = Concurrency /\ gathered' = [gathered EXCEPT ![w] = s]
      BY <1>2, <2>5 DEF TooMany
    <3>2. gathered'[w] = s /\ tasks'[w] \cup gathered'[w] = tasks'[w] /\ pc'[w] = "gather"
      BY <2>5, <3>1 DEF TypeOK
    <3> QED
      BY <2>3, <2>4, <3>1, <3>2 DEF LoopBound
  <2>6. CASE ~ TooMany(Cardinality(tasks'[w])) /\ LoopHead(w)
    <3>1. pc'[w] # "gather"
      BY <2>6 DEF LoopHead, TypeOK
    <3>2. Cardinality(tasks'[w]) < 2 * Concurrency
      BY <1>0, <2>2, <2>6 DEF TooMany
    <3> QED
      BY <2>3, <2>4, <3>1, <3>2 DEF LoopBound
  <2> QED
    BY <1>2, <2>5, <2>6
<1> QED
    BY <1>1, <1>2 DEF Pop

LEMMA LoopInvNext ==
    TypeOK /\ TypeOK' /\ QueueInv /\ TaskInv /\ LoopInv /\ [Next]_vars => LoopInv'
<1> SUFFICES ASSUME TypeOK, TypeOK', QueueInv, TaskInv, LoopInv, [Next]_vars,
                    NEW v \in Workers
             PROVE  LoopBound(v)'
    BY DEF LoopInv
<1> USE DEF redis, pushes, history, loop
<1>0. /\ phase \in [Anomalies -> Phases] /\ pc \in [Workers -> PCs]
      /\ tasks \in [Workers -> SUBSET Anomalies] /\ gathered \in [Workers -> SUBSET Anomalies]
      /\ LoopBound(v) /\ Concurrency \in Nat \ {0}
    BY WorkerAssumption DEF TypeOK, LoopInv
<1>1. CASE Push \/ UNCHANGED vars
    BY <1>0, <1>1, BoundKept DEF Push, vars
<1>2. ASSUME NEW w \in Workers,
             Start(w) \/ Timeout(w) \/ Exit(w) \/ RequestStop(w) \/ PopInterrupted(w)
      PROVE  LoopBound(v)'
  <2>1. UNCHANGED <<tasks, phase, gathered>>
    BY <1>2 DEF Start, Timeout, Exit, RequestStop, PopInterrupted
  <2>2. \/ pc' = pc
        \/ pc[w] = "pop" /\ pc' = [pc EXCEPT ![w] = "pop"]
        \/ \E l \in {"starting", "finally", "down"} : pc' = [pc EXCEPT ![w] = l]
    BY <1>2 DEF Start, Timeout, Exit, RequestStop, PopInterrupted, LoopHead
  <2>3. pc'[v] = pc[v] \/ pc'[v] \notin {"pop", "gather"}
    BY <1>0, <2>2
  <2> QED
    BY <1>0, <2>1, <2>3, BoundKept
<1>3. ASSUME NEW w \in Workers, Started(w) PROVE LoopBound(v)'
  <2>1. /\ UNCHANGED <<tasks, phase, gathered>> /\ pc[w] = "starting"
        /\ pc' = [pc EXCEPT ![w] = "pop"]
    BY <1>3 DEF Started
  <2>2. CASE v # w
    BY <1>0, <2>1, <2>2, BoundKept
  <2>3. CASE v = w
    <3>1. tasks'[v] = {} /\ Holding(v)' = {} /\ pc'[v] = "pop"
      BY <1>0, <2>1, <2>3 DEF TaskInv, Holding
    <3>2. Cardinality({}) = 0
      BY FS_EmptySet
    <3> QED
      BY <1>0, <3>1, <3>2 DEF LoopBound
  <2> QED
    BY <2>2, <2>3
<1>4. ASSUME NEW w \in Workers, Pop(w) PROVE LoopBound(v)'
  <2>1. CASE v = w
    BY <1>0, <1>4, <2>1, PopBound
  <2>2. CASE v # w
    <3>1. pc' = [pc EXCEPT ![w] = "gather"] \/ LoopHead(w)
      BY <1>4 DEF Pop
    <3>2. pc'[v] = pc[v]
      BY <1>0, <2>2, <3>1 DEF LoopHead
    <3>3. gathered' = gathered \/ \E s \in SUBSET tasks'[w] : gathered' = [gathered EXCEPT ![w] = s]
      BY <1>4 DEF Pop
    <3>4. gathered'[v] = gathered[v]
      BY <1>0, <2>2, <3>3
    <3>5. Head(queue) \in Anomalies
      BY <1>4, Oldest DEF Pop
    <3>6. \/ UNCHANGED <<tasks, phase>>
          \/ /\ tasks' = [tasks EXCEPT ![w] = @ \cup {Head(queue)}]
             /\ phase' = [phase EXCEPT ![Head(queue)] = "waiting"]
      BY <1>4 DEF Pop
    <3>7. /\ tasks'[v] = tasks[v]
          /\ \A a \in Anomalies : phase'[a] = phase[a] \/ phase'[a] = "waiting"
      BY <1>0, <2>2, <3>5, <3>6
    <3> QED
      BY <1>0, <3>2, <3>4, <3>7, BoundKept
  <2> QED
    BY <2>1, <2>2
<1>5. ASSUME NEW w \in Workers, Gathered(w) PROVE LoopBound(v)'
  <2>1. UNCHANGED <<tasks, phase>> /\ gathered' = [gathered EXCEPT ![w] = {}] /\ LoopHead(w)
        /\ pc[w] = "gather" /\ gathered[w] \cap tasks[w] = {}
    BY <1>5 DEF Gathered
  <2>2. CASE v # w
    <3>1. pc'[v] = pc[v] /\ gathered'[v] = gathered[v]
      BY <1>0, <2>1, <2>2 DEF LoopHead
    <3> QED
      BY <1>0, <2>1, <3>1, BoundKept
  <2>3. CASE v = w
    <3>1. /\ Cardinality(tasks[v] \cup gathered[v]) <= 2 * Concurrency
          /\ Cardinality(gathered[v]) = Concurrency
          /\ Cardinality(Holding(v)) <= Concurrency
      BY <1>0, <2>1, <2>3 DEF LoopBound
    <3>2. /\ IsFiniteSet(tasks[v]) /\ IsFiniteSet(gathered[v])
          /\ Cardinality(tasks[v]) \in Nat
      BY <1>0, AnomalySets
    <3>3. /\ Cardinality(tasks[v] \cup gathered[v])
               = Cardinality(tasks[v]) + Cardinality(gathered[v]) - Cardinality({})
          /\ Cardinality({}) = 0
      <4>1. tasks[v] \cap gathered[v] = {}
        BY <2>1, <2>3
      <4> QED
        BY <3>2, <4>1, FS_Union, FS_EmptySet
    <3>4. Cardinality(tasks[v]) < 2 * Concurrency
      BY <1>0, <3>1, <3>2, <3>3
    <3>5. Holding(v)' = Holding(v) /\ tasks' = tasks /\ pc'[v] # "gather"
      BY <1>0, <2>1, <2>3 DEF Holding, LoopHead
    <3> QED
      BY <1>0, <3>1, <3>2, <3>4, <3>5 DEF LoopBound
  <2> QED
    BY <2>2, <2>3
<1>6. ASSUME NEW w \in Workers, Acquire(w) PROVE LoopBound(v)'
  <2>1. PICK a \in Waiting(w) : phase' = [phase EXCEPT ![a] = "analysing"]
    BY <1>6 DEF Acquire, Enter
  <2>2. /\ a \in tasks[w] /\ a \in Anomalies /\ UNCHANGED <<tasks, pc, gathered>>
        /\ Cardinality(Holding(w)) < Concurrency
    BY <1>0, <1>6, <2>1 DEF Acquire, Enter, Waiting
  <2>3. CASE v # w
    <3>1. a \notin tasks[v]
      BY <2>2, <2>3 DEF TaskInv
    <3> QED
      BY <1>0, <2>1, <2>2, <3>1, BoundKept
  <2>4. CASE v = w
    <3>1. Holding(v) \in SUBSET Anomalies /\ Holding(v)' = Holding(v) \cup {a}
      BY <1>0, <2>1, <2>2, <2>4 DEF Holding
    <3>2. Cardinality(Holding(v)') <= Concurrency
      BY <1>0, <2>2, <2>4, <3>1, OneMore
    <3> QED
      BY <1>0, <2>2, <3>2 DEF LoopBound
  <2> QED
    BY <2>3, <2>4
<1>7. ASSUME NEW w \in Workers, NEW a \in Anomalies, Task(w, a) PROVE LoopBound(v)'
  <2>1. UNCHANGED <<gathered, pc>> /\ tasks'[v] \subseteq tasks[v]
    BY <1>0, <1>7 DEF Task, Analyse, Save, TaskFails, Discard
  <2>2. \/ phase' = phase
        \/ phase[a] = "analysing" /\ phase' = [phase EXCEPT ![a] = "saving"]
        \/ phase' = [phase EXCEPT ![a] = "ended"]
    BY <1>7 DEF Task, Analyse, Save, TaskFails, Discard, Ended
  <2>3. \A b \in tasks[v] : phase'[b] \in {"analysing", "saving"} =>
                                phase[b] \in {"analysing", "saving"}
    BY <1>0, <2>2
  <2> QED
    BY <1>0, <2>1, <2>3, BoundKept
<1>8. ASSUME NEW w \in Workers, CancelGather(w) \/ Crash(w) PROVE LoopBound(v)'
  <2>1. PICK s \in SUBSET tasks[w] : Abort(s)
    BY <1>8 DEF CancelGather, Crash
  <2>2. \A a \in Anomalies : phase'[a] = IF a \in s THEN "ended" ELSE phase[a]
    BY <2>1, AbortPhase
  <2>3. /\ tasks' = tasks \/ tasks' = [tasks EXCEPT ![w] = {}]
        /\ \E l \in {"finally", "down"} : pc' = [pc EXCEPT ![w] = l]
        /\ gathered' = [gathered EXCEPT ![w] = {}]
    BY <1>8 DEF CancelGather, Crash
  <2>4. /\ tasks'[v] \subseteq tasks[v]
        /\ \/ pc'[v] = pc[v] /\ gathered'[v] = gathered[v]
           \/ pc'[v] \notin {"pop", "gather"}
    BY <1>0, <2>3
  <2>5. \A a \in tasks[v] : phase'[a] \in {"analysing", "saving"} =>
                                phase[a] \in {"analysing", "saving"}
    BY <1>0, <2>2
  <2> QED
    BY <1>0, <2>4, <2>5, BoundKept
<1> QED
    BY <1>1, <1>2, <1>3, <1>4, <1>5, <1>6, <1>7, <1>8 DEF Next, Loop, End

-----------------------------------------------------------------------------
(* The counters.                                                           *)

\* The tasks that ended by themselves, and those that have a row.
Done(w)   == {a \in mine[w] : phase[a] = "ended"} \ aborted
Stored(w) == {a \in mine[w] : rows[a] = 1}

StatsOK(w) ==
    pc[w] # "down" => /\ processed[w] + failed[w] = Cardinality(Done(w))
                      /\ processed[w] <= Cardinality(Stored(w))

LEMMA StatsKept ==
    ASSUME TypeOK, TypeOK', NEW w \in Workers, StatsOK(w),
           processed'[w] = processed[w], failed'[w] = failed[w],
           pc'[w] # "down" => pc[w] # "down",
           Done(w)' = Done(w), Stored(w) \subseteq Stored(w)'
    PROVE  StatsOK(w)'
<1>1. Stored(w)' \in SUBSET Anomalies /\ Stored(w) \in SUBSET Stored(w)'
    BY DEF Stored, TypeOK
<1>2. /\ Cardinality(Stored(w)) <= Cardinality(Stored(w)')
      /\ Cardinality(Stored(w)) \in Nat /\ Cardinality(Stored(w)') \in Nat
    BY <1>1, Smaller
<1>3. processed[w] \in Nat
    BY DEF TypeOK
<1> HIDE DEF Done, Stored
<1> QED
    BY <1>2, <1>3 DEF StatsOK

\* Done and Stored when no task ends by itself.
LEMMA NobodyEnds ==
    ASSUME TypeOK, TypeOK', NEW w \in Workers, NEW s \in SUBSET Anomalies,
           mine[w] \subseteq mine'[w],
           \A a \in mine'[w] \ mine[w] : phase'[a] # "ended",
           \A a \in Anomalies : a \in s => phase'[a] = "ended",
           \A a \in Anomalies \ s : phase'[a] = "ended" <=> phase[a] = "ended",
           \A a \in Anomalies :
               a \in aborted' <=> a \in aborted \/ (a \in s /\ phase[a] # "ended"),
           \A a \in Anomalies : rows[a] = 1 => rows'[a] = 1
    PROVE  Done(w)' = Done(w) /\ Stored(w) \subseteq Stored(w)'
<1>1. mine[w] \subseteq Anomalies /\ mine'[w] \subseteq Anomalies
    BY DEF TypeOK
<1>2. ASSUME NEW a \in Anomalies PROVE a \in Done(w)' <=> a \in Done(w)
  <2>1. CASE a \in s
    BY <2>1, <1>1 DEF Done
  <2>2. CASE a \notin s
    BY <2>2, <1>1 DEF Done
  <2> QED
    BY <2>1, <2>2
<1>3. Done(w) \subseteq Anomalies /\ Done(w)' \subseteq Anomalies
    BY <1>1 DEF Done
<1> QED
    BY <1>1, <1>2, <1>3 DEF Stored

\* A task of w ends by itself, with a row or without.
LEMMA OneEnds ==
    ASSUME TypeOK, TypeOK', TaskInv, RowInv, NEW w \in Workers, NEW a \in tasks[w],
           phase[a] # "ended", phase' = [phase EXCEPT ![a] = "ended"],
           rows' = rows \/ rows' = [rows EXCEPT ![a] = @ + 1],
           UNCHANGED <<mine, aborted>>, NEW v \in Workers
    PROVE  /\ v # w => Done(v)' = Done(v)
           /\ v = w => Cardinality(Done(v)') = Cardinality(Done(v)) + 1
           /\ Stored(v) \subseteq Stored(v)'
           /\ v = w /\ rows' # rows => Cardinality(Stored(v)') = Cardinality(Stored(v)) + 1
<1>0. /\ a \in Anomalies /\ a \in mine[w] /\ a \notin aborted /\ rows[a] = 0
      /\ phase \in [Anomalies -> Phases] /\ rows \in [Anomalies -> Nat]
      /\ mine[v] \in SUBSET Anomalies
    BY DEF TypeOK, TaskInv, RowInv
<1>1. v # w => a \notin mine[v]
    BY <1>0 DEF TaskInv
<1>2. v # w => Done(v)' = Done(v)
    BY <1>0, <1>1 DEF Done
<1>3. v = w => Cardinality(Done(v)') = Cardinality(Done(v)) + 1
  <2> SUFFICES ASSUME v = w PROVE Cardinality(Done(v)') = Cardinality(Done(v)) + 1
      OBVIOUS
  <2>1. Done(v)' = Done(v) \cup {a} /\ a \notin Done(v) /\ Done(v) \in SUBSET Anomalies
      BY <1>0 DEF Done
  <2> QED
      BY <1>0, <2>1, OneMore
<1>4. Stored(v) \subseteq Stored(v)'
    BY <1>0 DEF Stored
<1>5. v = w /\ rows' # rows => Cardinality(Stored(v)') = Cardinality(Stored(v)) + 1
  <2> SUFFICES ASSUME v = w, rows' = [rows EXCEPT ![a] = @ + 1]
               PROVE  Cardinality(Stored(v)') = Cardinality(Stored(v)) + 1
      OBVIOUS
  <2>1. Stored(v)' = Stored(v) \cup {a} /\ a \notin Stored(v) /\ Stored(v) \in SUBSET Anomalies
      BY <1>0 DEF Stored
  <2> QED
      BY <1>0, <2>1, OneMore
<1> QED
    BY <1>2, <1>3, <1>4, <1>5

LEMMA StatsNext ==
    TypeOK /\ TypeOK' /\ QueueInv /\ TaskInv /\ RowInv /\ RowInv' /\ StatsAddUp
       /\ [Next]_vars => StatsAddUp'
<1> SUFFICES ASSUME TypeOK, TypeOK', QueueInv, TaskInv, RowInv, RowInv', StatsAddUp,
                    [Next]_vars, NEW v \in Workers
             PROVE  StatsOK(v)'
    BY DEF StatsAddUp, StatsOK, Done, Stored
<1> USE DEF redis, pushes, history, loop, counts, bounds
<1>0. /\ phase \in [Anomalies -> Phases] /\ pc \in [Workers -> PCs]
      /\ mine \in [Workers -> SUBSET Anomalies] /\ rows \in [Anomalies -> Nat]
      /\ processed \in [Workers -> Nat] /\ failed \in [Workers -> Nat]
      /\ \A w \in Workers : tasks[w] \subseteq Anomalies
      /\ StatsOK(v)
    BY DEF TypeOK, StatsAddUp, StatsOK, Done, Stored
\* What leaves the counters and the ends of tasks alone.
<1>1. ASSUME UNCHANGED <<phase, rows, mine, aborted, processed, failed>>,
             pc'[v] # "down" => pc[v] # "down"
      PROVE  StatsOK(v)'
  <2>1. Done(v)' = Done(v) /\ Stored(v)' = Stored(v)
    BY <1>1 DEF Done, Stored
  <2> QED
    BY <1>0, <1>1, <2>1, StatsKept
<1>2. CASE Push \/ UNCHANGED vars
    BY <1>1, <1>2 DEF Push, vars
<1>3. ASSUME NEW w \in Workers, Start(w) PROVE StatsOK(v)'
  <2>1. /\ UNCHANGED <<phase, rows, aborted>> /\ mine' = [mine EXCEPT ![w] = {}]
        /\ processed' = [processed EXCEPT ![w] = 0] /\ failed' = [failed EXCEPT ![w] = 0]
        /\ pc' = [pc EXCEPT ![w] = "starting"]
    BY <1>3 DEF Start
  <2>2. CASE v # w
    <3>1. Done(v)' = Done(v) /\ Stored(v)' = Stored(v)
      BY <1>0, <2>1, <2>2 DEF Done, Stored
    <3> QED
      BY <1>0, <2>1, <2>2, <3>1, StatsKept
  <2>3. CASE v = w
    <3>1. Done(v)' = {} /\ Stored(v)' = {} /\ processed'[v] = 0 /\ failed'[v] = 0
      BY <1>0, <2>1, <2>3 DEF Done, Stored
    <3>2. Cardinality({}) = 0
      BY FS_EmptySet
    <3> QED
      BY <3>1, <3>2 DEF StatsOK
  <2> QED
    BY <2>2, <2>3
<1>4. ASSUME NEW w \in Workers,
             Started(w) \/ Timeout(w) \/ Gathered(w) \/ Exit(w) \/ RequestStop(w)
                \/ PopInterrupted(w)
      PROVE  StatsOK(v)'
  <2>1. UNCHANGED <<phase, rows, mine, aborted, processed, failed>>
    BY <1>4 DEF Started, Timeout, Gathered, Exit, RequestStop, PopInterrupted
  <2>2. \/ pc' = pc
        \/ pc[w] # "down" /\ \E l \in PCs : pc' = [pc EXCEPT ![w] = l]
    BY <1>4 DEF Started, Timeout, Gathered, Exit, RequestStop, PopInterrupted, LoopHead, PCs
  <2>3. pc'[v] # "down" => pc[v] # "down"
    BY <1>0, <2>2
  <2> QED
    BY <1>1, <2>1, <2>3
<1>5. ASSUME NEW w \in Workers, Pop(w) PROVE StatsOK(v)'
  <2>1. UNCHANGED <<rows, aborted, processed, failed>> /\ pc[w] = "pop"
    BY <1>5 DEF Pop
  <2>2. Head(queue) \in Anomalies /\ phase[Head(queue)] = "none"
    BY <1>5, Oldest DEF Pop, QueueInv
  <2>3. pc'[v] # "down" => pc[v] # "down"
    <3>1. pc' = [pc EXCEPT ![w] = "gather"] \/ LoopHead(w)
      BY <1>5 DEF Pop
    <3> QED
      BY <1>0, <2>1, <3>1 DEF LoopHead
  <2>4. CASE UNCHANGED <<phase, mine>>
    BY <1>1, <2>1, <2>3, <2>4
  <2>5. CASE /\ mine' = [mine EXCEPT ![w] = @ \cup {Head(queue)}]
             /\ phase' = [phase EXCEPT ![Head(queue)] = "waiting"]
    <3>1. /\ mine[v] \subseteq mine'[v]
          /\ \A a \in mine'[v] \ mine[v] : phase'[a] # "ended"
          /\ \A a \in Anomalies : phase'[a] = "ended" <=> phase[a] = "ended"
      BY <1>0, <2>2, <2>5
    <3>2. PICK s \in SUBSET Anomalies : s = {}
      OBVIOUS
    <3>3. Done(v)' = Done(v) /\ Stored(v) \subseteq Stored(v)'
      <4>1. /\ \A a \in Anomalies :
                    a \in aborted' <=> a \in aborted \/ (a \in s /\ phase[a] # "ended")
            /\ \A a \in Anomalies : a \in s => phase'[a] = "ended"
            /\ \A a \in Anomalies \ s : phase'[a] = "ended" <=> phase[a] = "ended"
        BY <2>1, <3>1, <3>2
      <4> QED
        BY <2>1, <3>1, <4>1, NobodyEnds
    <3> QED
      BY <1>0, <2>1, <2>3, <3>3, StatsKept
  <2> QED
    BY <1>5, <2>4, <2>5 DEF Pop
\* Tasks that go on.
<1>6. ASSUME NEW a \in Anomalies, NEW l \in {"analysing", "saving"}, phase[a] # "ended",
             phase' = [phase EXCEPT ![a] = l],
             UNCHANGED <<rows, mine, aborted, processed, failed, pc>>
      PROVE  StatsOK(v)'
  <2>1. Done(v)' = Done(v) /\ Stored(v)' = Stored(v)
    BY <1>0, <1>6 DEF Done, Stored
  <2> QED
    BY <1>0, <1>6, <2>1, StatsKept
<1>7. ASSUME NEW w \in Workers, Acquire(w) PROVE StatsOK(v)'
  <2>1. PICK a \in Waiting(w) : phase' = [phase EXCEPT ![a] = "analysing"]
    BY <1>7 DEF Acquire, Enter
  <2>2. /\ a \in Anomalies /\ phase[a] # "ended"
        /\ UNCHANGED <<rows, mine, aborted, processed, failed, pc>>
    BY <1>0, <1>7, <2>1 DEF Acquire, Enter, Waiting
  <2> QED
    BY <1>6, <2>1, <2>2
<1>8. ASSUME NEW w \in Workers, NEW a \in Anomalies, Task(w, a) PROVE StatsOK(v)'
  <2>0. UNCHANGED <<mine, aborted, pc>>
    BY <1>8 DEF Task, Analyse, Save, TaskFails, Discard
  <2>1. CASE Discard(w, a)
    BY <1>1, <2>0, <2>1 DEF Discard
  <2>2. CASE Analyse(w, a)
    BY <1>6, <2>0, <2>2 DEF Analyse
  <2>3. CASE Save(w, a)
    <3>1. /\ a \in tasks[w] /\ phase[a] # "ended" /\ phase' = [phase EXCEPT ![a] = "ended"]
          /\ rows' = [rows EXCEPT ![a] = @ + 1] /\ rows' # rows
          /\ processed' = [processed EXCEPT ![w] = @ + 1] /\ failed' = failed
      BY <1>0, <2>3 DEF Save, Ended, Store
    <3>2. /\ v # w => Done(v)' = Done(v)
          /\ v = w => Cardinality(Done(v)') = Cardinality(Done(v)) + 1
          /\ Stored(v) \subseteq Stored(v)'
          /\ v = w => Cardinality(Stored(v)') = Cardinality(Stored(v)) + 1
      BY <2>0, <3>1, OneEnds
    <3>3. CASE v # w
      BY <1>0, <2>0, <3>1, <3>2, <3>3, StatsKept
    <3>4. CASE v = w
      <4>1. /\ Cardinality(Done(v)') = Cardinality(Done(v)) + 1
            /\ Cardinality(Stored(v)') = Cardinality(Stored(v)) + 1
            /\ processed'[v] = processed[v] + 1 /\ failed'[v] = failed[v]
            /\ processed[v] \in Nat /\ failed[v] \in Nat /\ pc'[v] = pc[v]
        BY <1>0, <2>0, <3>1, <3>2, <3>4
      <4>2. /\ Done(v) \in SUBSET Anomalies /\ Stored(v) \in SUBSET Anomalies
        BY <1>0 DEF Done, Stored
      <4>3. Cardinality(Done(v)) \in Nat /\ Cardinality(Stored(v)) \in Nat
        BY <4>2, AnomalySets
      <4> HIDE DEF Done, Stored
      <4> QED
        BY <1>0, <4>1, <4>3 DEF StatsOK
    <3> QED
      BY <3>3, <3>4
  <2>4. CASE TaskFails(w, a)
    <3>1. /\ a \in tasks[w] /\ phase[a] # "ended" /\ phase' = [phase EXCEPT ![a] = "ended"]
          /\ rows' = rows \/ rows' = [rows EXCEPT ![a] = @ + 1]
          /\ failed' = [failed EXCEPT ![w] = @ + 1] /\ processed' = processed
      BY <1>0, <2>4 DEF TaskFails, Ended, Store
    <3>2. /\ v # w => Done(v)' = Done(v)
          /\ v = w => Cardinality(Done(v)') = Cardinality(Done(v)) + 1
          /\ Stored(v) \subseteq Stored(v)'
      BY <2>0, <3>1, OneEnds
    <3>3. CASE v # w
      BY <1>0, <2>0, <3>1, <3>2, <3>3, StatsKept
    <3>4. CASE v = w
      <4>1. /\ Cardinality(Done(v)') = Cardinality(Done(v)) + 1
            /\ processed'[v] = processed[v] /\ failed'[v] = failed[v] + 1
            /\ processed[v] \in Nat /\ failed[v] \in Nat /\ pc'[v] = pc[v]
        BY <1>0, <2>0, <3>1, <3>2, <3>4
      <4>2. /\ Done(v) \in SUBSET Anomalies /\ Stored(v)' \in SUBSET Anomalies
            /\ Stored(v) \in SUBSET Stored(v)'
        BY <1>0, <3>2 DEF Done, Stored, TypeOK
      <4>3. /\ Cardinality(Done(v)) \in Nat /\ Cardinality(Stored(v)) \in Nat
            /\ Cardinality(Stored(v)') \in Nat
            /\ Cardinality(Stored(v)) <= Cardinality(Stored(v)')
        BY <4>2, AnomalySets, Smaller
      <4> HIDE DEF Done, Stored
      <4> QED
        BY <1>0, <4>1, <4>3 DEF StatsOK
    <3> QED
      BY <3>3, <3>4
  <2> QED
    BY <1>8, <2>1, <2>2, <2>3, <2>4 DEF Task
<1>9. ASSUME NEW w \in Workers, CancelGather(w) \/ Crash(w) PROVE StatsOK(v)'
  <2>1. PICK s \in SUBSET tasks[w] : Abort(s)
    BY <1>9 DEF CancelGather, Crash
  <2>2. \A a \in Anomalies : phase'[a] = IF a \in s THEN "ended" ELSE phase[a]
    BY <2>1, AbortPhase
  <2>3. aborted' = aborted \cup {a \in s : phase[a] # "ended"}
    BY <2>1 DEF Abort
  <2>4. \A a \in Anomalies : rows[a] = 1 => rows'[a] = 1
    <3>1. PICK written \in SUBSET {a \in s : phase[a] = "saving"} :
              rows' = [a \in Anomalies |-> IF a \in written THEN rows[a] + 1 ELSE rows[a]]
      BY <2>1 DEF Abort
    <3> QED
      BY <1>0, <3>1 DEF RowInv
  <2>5. UNCHANGED <<mine, processed, failed>>
    BY <1>9 DEF CancelGather, Crash
  <2>6. s \in SUBSET Anomalies
    BY <1>0, <2>1
  <2>7. Done(v)' = Done(v) /\ Stored(v) \subseteq Stored(v)'
    <3>1. /\ mine[v] \subseteq mine'[v] /\ mine'[v] \ mine[v] = {}
          /\ \A a \in Anomalies : a \in s => phase'[a] = "ended"
          /\ \A a \in Anomalies \ s : phase'[a] = "ended" <=> phase[a] = "ended"
      BY <2>2, <2>5
    <3>2. \A a \in Anomalies :
              a \in aborted' <=> a \in aborted \/ (a \in s /\ phase[a] # "ended")
      BY <2>3
    <3> QED
      BY <2>4, <2>6, <3>1, <3>2, NobodyEnds
  <2>8. pc[w] # "down" /\ \E l \in {"finally", "down"} : pc' = [pc EXCEPT ![w] = l]
    BY <1>9 DEF CancelGather, Crash
  <2>9. pc'[v] # "down" => pc[v] # "down"
    BY <1>0, <2>8
  <2> QED
    BY <1>0, <2>5, <2>7, <2>9, StatsKept
<1> QED
    BY <1>2, <1>3, <1>4, <1>5, <1>7, <1>8, <1>9 DEF Next, Loop, End

-----------------------------------------------------------------------------
(* The theorems.                                                           *)

IInv == TypeOK /\ QueueInv /\ TaskInv /\ RowInv /\ LoopInv /\ StatsAddUp

LEMMA IInvInit == Init => IInv
<1> SUFFICES ASSUME Init PROVE IInv
    OBVIOUS
<1>1. TypeOK
    BY TypeInit
<1>2. QueueInv /\ TaskInv /\ RowInv
    BY DEF Init, QueueInv, TaskInv, RowInv, InQueue, Anomalies
<1>3. Cardinality({}) = 0
    BY FS_EmptySet
<1>4. LoopInv
  <2>1. ASSUME NEW w \in Workers
        PROVE  Holding(w) = {} /\ tasks[w] = {} /\ pc[w] = "down"
    BY DEF Init, Holding
  <2>2. ASSUME NEW w \in Workers PROVE LoopBound(w)
    <3>1. Cardinality(Holding(w)) = 0 /\ Cardinality(tasks[w]) = 0
      BY <1>3, <2>1
    <3> QED
      BY <2>1, <3>1, WorkerAssumption DEF LoopBound
  <2> QED
    BY <2>2 DEF LoopInv
<1>5. StatsAddUp
    BY DEF Init, StatsAddUp
<1> QED
    BY <1>1, <1>2, <1>4, <1>5 DEF IInv

LEMMA IInvNext == IInv /\ [Next]_vars => IInv'
<1> SUFFICES ASSUME IInv, [Next]_vars PROVE IInv'
    OBVIOUS
<1>1. TypeOK'
    BY TypeNext DEF IInv
<1>2. QueueInv' /\ TaskInv' /\ RowInv'
    BY <1>1, QueueNext, TaskNext, RowsNext DEF IInv
<1>3. LoopInv' /\ StatsAddUp'
    BY <1>1, <1>2, LoopInvNext, StatsNext DEF IInv
<1> QED
    BY <1>1, <1>2, <1>3 DEF IInv

THEOREM InvCorrect == Spec => []IInv
BY IInvInit, IInvNext, PTL DEF Spec

\* A worker keeps at most twice Concurrency tasks and runs at most Concurrency
\* of them, whatever fails (AnalysisWorker.start, "prevent unbounded task
\* growth", and the semaphore of _process).
THEOREM TasksAreBounded == Spec => []TasksBounded
<1>1. IInv => TasksBounded
    BY DEF IInv, LoopInv, LoopBound, TasksBounded
<1> QED
    BY <1>1, InvCorrect, PTL

\* The mapped variables of AnalysisOnce, anomaly by anomaly.
InRows == {a \in Anomalies : rows[a] = 1 /\ phase[a] = "ended"}
Located ==
    /\ \A a \in Anomalies :
          /\ a \in InQueue <=> phase[a] = "none" /\ a <= pushed /\ a \notin lost
          /\ a \in InTasks <=> phase[a] \in {"waiting", "analysing", "saving"}
          /\ a \in Dropped <=> (phase[a] = "ended" /\ rows[a] = 0) \/ a \in lost
          /\ a \in InRows <=> rows[a] = 1 /\ phase[a] = "ended"
    /\ InQueue \subseteq Anomalies /\ InTasks \subseteq Anomalies
    /\ InRows \subseteq Anomalies /\ Dropped \subseteq Anomalies

LEMMA AllLocated == IInv => Located
<1> SUFFICES ASSUME IInv PROVE Located
    OBVIOUS
<1>1. InQueue \subseteq Anomalies
    BY DEF IInv, InQueue, TypeOK
<1>2. InTasks \subseteq Anomalies
    BY DEF IInv, InTasks, Active, TypeOK
<1>3. InRows \subseteq Anomalies /\ Dropped \subseteq Anomalies
    BY DEF IInv, InRows, Dropped, TypeOK
<1>4. ASSUME NEW a \in Anomalies
      PROVE  /\ a \in InQueue <=> phase[a] = "none" /\ a <= pushed /\ a \notin lost
             /\ a \in InTasks <=> phase[a] \in {"waiting", "analysing", "saving"}
  <2>0. pushed \in Nat /\ a \in Nat /\ phase[a] \in Phases
    <3>1. pushed \in Nat /\ phase[a] \in Phases
      BY DEF IInv, TypeOK
    <3>2. a \in Nat
      BY DEF Anomalies
    <3> QED
      BY <3>1, <3>2
  <2>1. a \in InQueue => phase[a] = "none" /\ a <= pushed /\ a \notin lost
    BY <2>0 DEF IInv, QueueInv, InQueue
  <2>2. phase[a] = "none" /\ a <= pushed /\ a \notin lost => a \in InQueue
    BY <2>0 DEF IInv, QueueInv
  <2>3. a \in InTasks <=> phase[a] # "ended" /\ \E w \in Workers : a \in tasks[w]
    BY DEF InTasks, Active
  <2>4. \A w \in Workers : a \in tasks[w] => phase[a] # "none"
    BY DEF IInv, TaskInv
  <2>5. phase[a] \in {"waiting", "analysing", "saving"} => \E w \in Workers : a \in tasks[w]
    BY DEF IInv, TaskInv
  <2>6. a \in InTasks <=> phase[a] \in {"waiting", "analysing", "saving"}
    BY <2>0, <2>3, <2>4, <2>5 DEF Phases
  <2> QED
    BY <2>1, <2>2, <2>6
<1> QED
    BY <1>1, <1>2, <1>3, <1>4 DEF Located, Dropped, InRows

LEMMA LocatedNext == IInv' => Located'
BY AllLocated, PTL

\* Nothing disappears quietly: an anomaly is in the queue, in a task, stored or
\* given up for a reason, a reason takes a fault, and the counters agree.
THEOREM Accounted == Spec => []EveryAnomalyIsAccountedFor
<1>1. ASSUME IInv, NEW a \in 1..pushed
      PROVE  a \in InQueue \cup InTasks \cup Dropped \/ rows[a] > 0
  <2>1. a \in Anomalies /\ a <= pushed /\ phase[a] \in Phases /\ rows[a] \in {0, 1}
    <3>1. pushed \in 0..MaxPushes /\ MaxPushes \in Nat
      BY <1>1, WorkerAssumption DEF IInv, TypeOK
    <3>2. a \in Anomalies /\ a <= pushed
      BY <3>1 DEF Anomalies
    <3> QED
      BY <1>1, <3>2 DEF IInv, TypeOK, RowInv
  <2> QED
    BY <1>1, <2>1, AllLocated DEF Located, Phases
<1>2. ASSUME IInv, faults = 0 PROVE Dropped \subseteq unreadable
    BY <1>2 DEF IInv, RowInv, Dropped
<1>3. IInv => EveryAnomalyIsAccountedFor
    BY <1>1, <1>2 DEF EveryAnomalyIsAccountedFor, NothingVanishes, IInv
<1> QED
    BY <1>3, InvCorrect, PTL

-----------------------------------------------------------------------------
(* The refinement.                                                         *)

\* The phases of anomalies change within the work, or not at all.
LEMMA Stutter ==
    ASSUME Located, Located', UNCHANGED <<pushed, lost, rows>>,
           \A a \in Anomalies :
              \/ phase'[a] = phase[a]
              \/ /\ phase[a] \in {"waiting", "analysing", "saving"}
                 /\ phase'[a] \in {"waiting", "analysing", "saving"}
    PROVE  UNCHANGED <<InQueue, InTasks, InRows, Dropped>>
<1>1. ASSUME NEW a \in Anomalies
      PROVE  /\ a \in InQueue' <=> a \in InQueue
             /\ a \in InTasks' <=> a \in InTasks
             /\ a \in InRows' <=> a \in InRows
             /\ a \in Dropped' <=> a \in Dropped
  <2>1. \/ phase'[a] = phase[a]
        \/ /\ phase[a] \in {"waiting", "analysing", "saving"}
           /\ phase'[a] \in {"waiting", "analysing", "saving"}
    OBVIOUS
  <2> QED
    BY <2>1 DEF Located
<1> QED
    BY <1>1 DEF Located

\* The work on the anomalies of done ends, and that of popped before it began.
LEMMA FinishStep ==
    ASSUME Located, Located', pushed' = pushed,
           NEW done \in SUBSET InTasks, NEW written \in SUBSET done,
           NEW popped, popped = {} \/ \E a \in InQueue : popped = {a},
           \A a \in Anomalies :
              phase'[a] = IF a \in done THEN "ended" ELSE phase[a],
           \A a \in Anomalies : a \in done => rows[a] = 0,
           \A a \in Anomalies : rows'[a] = IF a \in written THEN 1 ELSE rows[a],
           \A a \in Anomalies : a \in lost' <=> a \in lost \/ a \in popped
    PROVE  Promise!Finish
<1>1. ASSUME NEW a \in Anomalies
      PROVE  /\ a \in InQueue' <=> a \in InQueue /\ a \notin popped
             /\ a \in InTasks' <=> a \in InTasks /\ a \notin done
             /\ a \in InRows' <=> a \in InRows \/ a \in written
             /\ a \in Dropped' <=> a \in Dropped \/ (a \in done /\ a \notin written)
                                     \/ a \in popped
  <2>1. a \in done => phase[a] \in {"waiting", "analysing", "saving"}
    BY DEF Located
  <2>2. a \in popped => phase[a] = "none" /\ a \notin lost
    BY DEF Located
  <2>3. a \in written => a \in done
    OBVIOUS
  <2> QED
    BY <2>1, <2>2, <2>3 DEF Located
<1>2. /\ InQueue' = InQueue \ popped /\ InTasks' = InTasks \ done
      /\ InRows' = InRows \cup written /\ Dropped' = Dropped \cup (done \ written) \cup popped
    BY <1>1 DEF Located
<1>3. popped \in {{}} \cup {{a} : a \in InQueue}
    OBVIOUS
<1> QED
    BY <1>2, <1>3 DEF Promise!Finish, InRows

LEMMA TakeStep ==
    ASSUME Located, Located', UNCHANGED <<pushed, rows, lost>>,
           NEW h \in InQueue, phase'[h] = "waiting",
           \A a \in Anomalies \ {h} : phase'[a] = phase[a]
    PROVE  Promise!Take(h) /\ h \in Anomalies
<1>1. ASSUME NEW a \in Anomalies
      PROVE  /\ a \in InQueue' <=> a \in InQueue /\ a # h
             /\ a \in InTasks' <=> a \in InTasks \/ a = h
             /\ a \in InRows' <=> a \in InRows
             /\ a \in Dropped' <=> a \in Dropped
  <2>1. h \in Anomalies /\ phase[h] = "none" /\ h \notin lost
    BY DEF Located
  <2>2. CASE a = h
    BY <2>1, <2>2 DEF Located
  <2>3. CASE a # h
    BY <2>3 DEF Located
  <2> QED
    BY <2>2, <2>3
<1>2. /\ InQueue' = InQueue \ {h} /\ InTasks' = InTasks \cup {h}
      /\ InRows' = InRows /\ Dropped' = Dropped
    BY <1>1 DEF Located
<1> QED
    BY <1>2 DEF Promise!Take, InRows, Located

LEMMA ArriveStep ==
    ASSUME Located, Located', IInv, pushed' = pushed + 1, pushed' \in Anomalies,
           UNCHANGED <<phase, rows, lost>>
    PROVE  Promise!Arrive(pushed')
<1>0. pushed \in Nat /\ Anomalies \subseteq Nat
    BY DEF IInv, TypeOK, Anomalies
<1>1. phase[pushed'] = "none" /\ pushed' \notin lost /\ pushed' > pushed
    BY <1>0 DEF IInv, QueueInv
<1>2. ASSUME NEW a \in Anomalies
      PROVE  /\ a \in InQueue' <=> a \in InQueue \/ a = pushed'
             /\ a \in InTasks' <=> a \in InTasks
             /\ a \in InRows' <=> a \in InRows
             /\ a \in Dropped' <=> a \in Dropped
  <2>1. a <= pushed' <=> a <= pushed \/ a = pushed'
    BY <1>0
  <2> QED
    BY <1>1, <2>1 DEF Located
<1>3. /\ InQueue' = InQueue \cup {pushed'} /\ InTasks' = InTasks
      /\ InRows' = InRows /\ Dropped' = Dropped
    BY <1>2 DEF Located
<1>4. /\ pushed' \notin InQueue /\ pushed' \notin InTasks
      /\ pushed' \notin InRows /\ pushed' \notin Dropped
    BY <1>0, <1>1 DEF Located
<1> QED
    BY <1>3, <1>4 DEF Promise!Arrive, InRows
\* BRPOP removes the oldest anomaly and nobody gets it, while tasks end.
LEMMA LostStep ==
    ASSUME Located, Located', IInv, pushed' = pushed,
           NEW done \in SUBSET InTasks, NEW written \in SUBSET done,
           \A a \in Anomalies :
              phase'[a] = IF a \in done THEN "ended" ELSE phase[a],
           \A a \in Anomalies : a \in done => rows[a] = 0,
           \A a \in Anomalies : rows'[a] = IF a \in written THEN 1 ELSE rows[a],
           lost' = lost \/ (queue # << >> /\ lost' = lost \cup {Head(queue)})
    PROVE  Promise!Finish
<1>1. CASE lost' = lost
  <2>1. PICK popped : popped = {}
    OBVIOUS
  <2>2. \A a \in Anomalies : a \in lost' <=> a \in lost \/ a \in popped
    BY <1>1, <2>1
  <2> QED
    BY <2>1, <2>2, FinishStep
<1>2. CASE queue # << >> /\ lost' = lost \cup {Head(queue)}
  <2>1. Head(queue) \in InQueue
    BY <1>2, Oldest DEF IInv, InQueue
  <2>2. PICK popped : popped = {Head(queue)}
    OBVIOUS
  <2>3. \A a \in Anomalies : a \in lost' <=> a \in lost \/ a \in popped
    BY <1>2, <2>2
  <2> QED
    BY <2>1, <2>2, <2>3, FinishStep
<1> QED
    BY <1>1, <1>2

LEMMA RefinementNext == IInv /\ IInv' /\ [Next]_vars => [Promise!Next]_(Promise!vars)
<1> SUFFICES ASSUME IInv, IInv', [Next]_vars
             PROVE  Promise!Next \/ UNCHANGED <<InQueue, InTasks, InRows, Dropped>>
    BY DEF Promise!vars, InRows
<1> USE DEF redis, pushes, history, loop, bounds
<1>0. /\ Located /\ Located'
      /\ phase \in [Anomalies -> Phases] /\ rows \in [Anomalies -> Nat]
      /\ \A w \in Workers : tasks[w] \subseteq Anomalies
      /\ \A w \in Workers : \A a \in tasks[w] : phase[a] # "ended" => a \in InTasks
      /\ \A a \in Anomalies : phase[a] # "ended" => rows[a] = 0
    BY AllLocated, LocatedNext DEF IInv, TypeOK, InTasks, Active, RowInv
<1>1. CASE Push
  <2>1. /\ pushed' = pushed + 1 /\ pushed' \in Anomalies
        /\ UNCHANGED <<phase, rows, lost>>
    BY <1>1, WorkerAssumption DEF Push, IInv, TypeOK, Anomalies
  <2>2. Promise!Arrive(pushed')
    BY <1>0, <2>1, ArriveStep
  <2> QED
    BY <2>1, <2>2 DEF Promise!Next
<1>2. ASSUME UNCHANGED <<pushed, lost, rows, phase>>
      PROVE  UNCHANGED <<InQueue, InTasks, InRows, Dropped>>
    BY <1>0, <1>2, Stutter
<1>3. ASSUME NEW w \in Workers,
             Start(w) \/ Started(w) \/ Timeout(w) \/ Gathered(w) \/ Exit(w)
                \/ RequestStop(w) \/ \E a \in Anomalies : Discard(w, a)
      PROVE  UNCHANGED <<InQueue, InTasks, InRows, Dropped>>
  <2>1. UNCHANGED <<pushed, lost, rows, phase>>
    BY <1>3 DEF Start, Started, Timeout, Gathered, Exit, RequestStop, Discard
  <2> QED
    BY <1>2, <2>1
<1>4. ASSUME NEW w \in Workers, Pop(w) PROVE Promise!Next
  <2>1. queue # << >> /\ UNCHANGED <<pushed, rows>>
    BY <1>4 DEF Pop
  <2>2. Head(queue) \in InQueue /\ Head(queue) \in Anomalies
    BY <2>1, Oldest DEF IInv, InQueue
  <2>3. CASE phase' = phase /\ lost' = lost \cup {Head(queue)}
    <3>1. PICK done \in SUBSET InTasks : done = {}
      OBVIOUS
    <3>2. PICK written \in SUBSET done : written = {}
      OBVIOUS
    <3>3. /\ \A a \in Anomalies : phase'[a] = IF a \in done THEN "ended" ELSE phase[a]
          /\ \A a \in Anomalies : a \in done => rows[a] = 0
          /\ \A a \in Anomalies : rows'[a] = IF a \in written THEN 1 ELSE rows[a]
      BY <2>1, <2>3, <3>1, <3>2
    <3>4. Promise!Finish
      BY <1>0, <2>1, <2>3, <3>3, LostStep
    <3> QED
      BY <3>4 DEF Promise!Next
  <2>4. CASE phase' = [phase EXCEPT ![Head(queue)] = "waiting"] /\ lost' = lost
    <3>1. /\ phase'[Head(queue)] = "waiting"
          /\ \A a \in Anomalies \ {Head(queue)} : phase'[a] = phase[a]
      BY <1>0, <2>2, <2>4
    <3>2. Promise!Take(Head(queue))
      BY <1>0, <2>1, <2>2, <2>4, <3>1, TakeStep
    <3> QED
      BY <2>2, <3>2 DEF Promise!Next
  <2> QED
    BY <1>4, <2>3, <2>4 DEF Pop
<1>5. ASSUME NEW w \in Workers, NEW a \in tasks[w], NEW l \in {"analysing", "saving"},
             phase[a] \in {"waiting", "analysing"}, phase' = [phase EXCEPT ![a] = l],
             UNCHANGED <<pushed, lost, rows>>
      PROVE  UNCHANGED <<InQueue, InTasks, InRows, Dropped>>
  <2>1. \A b \in Anomalies :
              \/ phase'[b] = phase[b]
              \/ /\ phase[b] \in {"waiting", "analysing", "saving"}
                 /\ phase'[b] \in {"waiting", "analysing", "saving"}
    BY <1>0, <1>5
  <2> QED
    BY <1>0, <1>5, <2>1, Stutter
<1>6. ASSUME NEW w \in Workers, Acquire(w)
      PROVE  UNCHANGED <<InQueue, InTasks, InRows, Dropped>>
  <2>1. PICK a \in Waiting(w) : phase' = [phase EXCEPT ![a] = "analysing"]
    BY <1>6 DEF Acquire, Enter
  <2>2. a \in tasks[w] /\ phase[a] = "waiting" /\ UNCHANGED <<pushed, lost, rows>>
    BY <1>6, <2>1 DEF Acquire, Enter, Waiting
  <2> QED
    BY <1>5, <2>1, <2>2
<1>7. ASSUME NEW w \in Workers, NEW a \in Anomalies, Save(w, a) \/ TaskFails(w, a)
      PROVE  Promise!Next
  <2>1. /\ a \in tasks[w] /\ phase[a] # "ended" /\ phase' = [phase EXCEPT ![a] = "ended"]
        /\ rows' = rows \/ rows' = [rows EXCEPT ![a] = @ + 1]
        /\ UNCHANGED <<pushed, lost>>
    BY <1>7 DEF Save, TaskFails, Ended, Store
  <2>2. PICK done \in SUBSET InTasks : done = {a}
    BY <1>0, <2>1
  <2>3. PICK written \in SUBSET done :
            \A b \in Anomalies : rows'[b] = IF b \in written THEN 1 ELSE rows[b]
    <3>1. CASE rows' = rows
      <4>1. PICK none \in SUBSET done : none = {}
        OBVIOUS
      <4>2. \A b \in Anomalies : rows'[b] = IF b \in none THEN 1 ELSE rows[b]
        BY <3>1, <4>1
      <4> QED
        BY <4>2
    <3>2. CASE rows' = [rows EXCEPT ![a] = @ + 1]
      <4>1. \A b \in Anomalies : rows'[b] = IF b \in done THEN 1 ELSE rows[b]
        BY <1>0, <2>1, <2>2, <3>2
      <4> QED
        BY <4>1
    <3> QED
      BY <2>1, <3>1, <3>2
  <2>4. /\ \A b \in Anomalies : phase'[b] = IF b \in done THEN "ended" ELSE phase[b]
        /\ \A b \in Anomalies : b \in done => rows[b] = 0
    BY <1>0, <2>1, <2>2
  <2>5. Promise!Finish
    BY <1>0, <2>1, <2>3, <2>4, LostStep
  <2> QED
    BY <2>5 DEF Promise!Next
<1>8. ASSUME NEW w \in Workers, NEW a \in Anomalies, Task(w, a)
      PROVE  Promise!Next \/ UNCHANGED <<InQueue, InTasks, InRows, Dropped>>
  <2>1. CASE Analyse(w, a)
    <3>1. /\ a \in tasks[w] /\ phase[a] = "analysing"
          /\ phase' = [phase EXCEPT ![a] = "saving"] /\ UNCHANGED <<pushed, lost, rows>>
      BY <2>1 DEF Analyse
    <3> QED
      BY <1>5, <3>1
  <2> QED
    BY <1>3, <1>7, <1>8, <2>1 DEF Task
<1>9. ASSUME NEW w \in Workers, PopInterrupted(w) PROVE Promise!Next
  <2>1. /\ UNCHANGED <<pushed, phase, rows>>
        /\ lost' = lost \/ (queue # << >> /\ lost' = lost \cup {Head(queue)})
    BY <1>9 DEF PopInterrupted
  <2>2. PICK done \in SUBSET InTasks : done = {}
    OBVIOUS
  <2>3. PICK written \in SUBSET done : written = {}
    OBVIOUS
  <2>4. /\ \A a \in Anomalies : phase'[a] = IF a \in done THEN "ended" ELSE phase[a]
        /\ \A a \in Anomalies : a \in done => rows[a] = 0
        /\ \A a \in Anomalies : rows'[a] = IF a \in written THEN 1 ELSE rows[a]
    BY <2>1, <2>2, <2>3
  <2>5. Promise!Finish
    BY <1>0, <2>1, <2>4, LostStep
  <2> QED
    BY <2>5 DEF Promise!Next
<1>10. ASSUME NEW w \in Workers, CancelGather(w) \/ Crash(w) PROVE Promise!Next
  <2>1. /\ pushed' = pushed
        /\ lost' = lost \/ (queue # << >> /\ lost' = lost \cup {Head(queue)})
    BY <1>10 DEF CancelGather, Crash
  <2>2. PICK s \in SUBSET tasks[w] : Abort(s)
    BY <1>10 DEF CancelGather, Crash
  <2>3. PICK written \in SUBSET {a \in s : phase[a] = "saving"} :
            rows' = [a \in Anomalies |-> IF a \in written THEN rows[a] + 1 ELSE rows[a]]
    BY <2>2 DEF Abort
  <2>4. \A a \in Anomalies : phase'[a] = IF a \in s THEN "ended" ELSE phase[a]
    BY <2>2, AbortPhase DEF IInv
  <2>5. PICK done \in SUBSET InTasks : done = {a \in s : phase[a] # "ended"}
    BY <1>0, <2>2
  <2>6. /\ written \in SUBSET done
        /\ \A a \in Anomalies : phase'[a] = IF a \in done THEN "ended" ELSE phase[a]
        /\ \A a \in Anomalies : a \in done => rows[a] = 0
        /\ \A a \in Anomalies : rows'[a] = IF a \in written THEN 1 ELSE rows[a]
    BY <1>0, <2>2, <2>3, <2>4, <2>5
  <2>7. Promise!Finish
    BY <1>0, <2>1, <2>6, LostStep
  <2> QED
    BY <2>7 DEF Promise!Next
<1>11. CASE UNCHANGED vars
    BY <1>2, <1>11 DEF vars
<1> QED
    BY <1>1, <1>3, <1>4, <1>6, <1>8, <1>9, <1>10, <1>11 DEF Next, Loop, End

\* The workers implement the at-most-once service: an anomaly is taken by one
\* worker, once, and gets at most one row of analysis_results.
THEOREM Implements == Spec => ImplementsAnalysisOnce
<1>1. Init => Promise!Init
    BY DEF Init, Promise!Init, InQueue, InTasks, Active, Dropped
<1> QED
    BY <1>1, RefinementNext, InvCorrect, PTL
       DEF Spec, ImplementsAnalysisOnce, Promise!Spec
=============================================================================
