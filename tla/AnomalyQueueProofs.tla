------------------------- MODULE AnomalyQueueProofs -------------------------
(***************************************************************************)
(* Proofs about AnomalyQueue, for any pipelines, events and keys: the      *)
(* types, the bound on the queue, that suppression hides nothing, that     *)
(* every event has an outcome, and the bound on the duplicates of a lock.  *)
(*                                                                         *)
(* Each rests on a stronger invariant that says where the pipelines are    *)
(* between two Redis commands: QueueBoundInductive counts those past the   *)
(* size guard, OwnEvents says that what a pipeline still has in hand is    *)
(* its own, FewDuplicates counts those past EXISTS and those before SETEX. *)
(***************************************************************************)
EXTENDS AnomalyQueue, FiniteSetTheorems, TLAPS

LEMMA NonEmpty == ASSUME NEW s \in Seq(Events), Len(s) > 0 PROVE s # << >>
<1> SUFFICES ASSUME s = << >> PROVE FALSE
    OBVIOUS
<1>1. Len(s) = 0
    OBVIOUS
<1> QED
    BY <1>1

LEMMA Empty == ASSUME NEW s \in Seq(Events), Len(s) = 0 PROVE s = << >>
OBVIOUS

LEMMA TailOfOne ==
    ASSUME NEW s \in Seq(Events), s # << >>, ~ (Len(s) > 1) PROVE Tail(s) = << >>
<1>1. Len(s) \in Nat /\ Len(s) # 0
    BY Empty
<1>2. Tail(s) \in Seq(Events) /\ Len(Tail(s)) = Len(s) - 1
    OBVIOUS
<1>3. Len(Tail(s)) = 0
    BY <1>1, <1>2
<1> QED
    BY <1>2, <1>3, Empty

LEMMA ReturnedType ==
    ASSUME TypeOK, NEW p \in Pushers, NEW ok \in BOOLEAN, pc[p] # "idle",
           Returned(p, ok)
    PROVE  /\ pc' \in [Pushers -> PCs]
           /\ todo' \in [Pushers -> Seq(Events)]
           /\ \A q \in Pushers : pc'[q] # "idle" => todo'[q] # << >>
           /\ pushed' \in [Pushers -> Nat] /\ deduped' \in [Pushers -> Nat]
           /\ found' \in [Pushers -> Nat]
<1>1. todo[p] \in Seq(Events) /\ todo[p] # << >> /\ Len(todo[p]) \in Nat
    BY DEF TypeOK
<1>2. Tail(todo[p]) \in Seq(Events) /\ Len(Tail(todo[p])) = Len(todo[p]) - 1
    BY <1>1
<1>3. Len(todo[p]) > 1 => Tail(todo[p]) # << >>
  <2> SUFFICES ASSUME Len(todo[p]) > 1 PROVE Tail(todo[p]) # << >>
    OBVIOUS
  <2>1. Len(Tail(todo[p])) > 0
    BY <1>1, <1>2
  <2> QED
    BY <1>2, <2>1, NonEmpty
<1>4. pushed' \in [Pushers -> Nat] /\ deduped' \in [Pushers -> Nat]
    BY DEF Returned, TypeOK
<1>5. found' \in [Pushers -> Nat]
    BY <1>4 DEF Returned, TypeOK
<1>6. todo' \in [Pushers -> Seq(Events)] /\ pc' \in [Pushers -> PCs]
    BY <1>2 DEF Returned, TypeOK, PCs
<1>7. \A q \in Pushers : pc'[q] # "idle" => todo'[q] # << >>
    BY <1>3 DEF Returned, TypeOK
<1> QED
    BY <1>4, <1>5, <1>6, <1>7

LEMMA InHandType ==
    ASSUME TypeOK, NEW p \in Pushers, pc[p] # "idle"
    PROVE  InHand(p) \in Events /\ Lock(p) \in Keys
<1>1. todo[p] \in Seq(Events) /\ todo[p] # << >>
    BY DEF TypeOK
<1>2. InHand(p) \in Events
    BY <1>1 DEF InHand
<1> QED
    BY <1>2, QueueAssumption DEF Lock

LEMMA TypeInit == Init => TypeOK
BY DEF Init, TypeOK, PCs

LEMMA TypeNext == TypeOK /\ [Next]_vars => TypeOK'
<1> SUFFICES ASSUME TypeOK, [Next]_vars PROVE TypeOK'
    OBVIOUS
<1> USE DEF pushing, history
<1>1. ASSUME NEW p \in Pushers, PushBatch(p) PROVE TypeOK'
  <2>0. PICK n \in 1 .. MaxBatch : \E b \in [1 .. n -> fresh] :
           /\ todo' = [todo EXCEPT ![p] = b]
           /\ fresh' = fresh \ {b[i] : i \in 1 .. n}
    BY <1>1 DEF PushBatch
  <2>1. PICK b \in [1 .. n -> fresh] :
           /\ todo' = [todo EXCEPT ![p] = b]
           /\ fresh' = fresh \ {b[i] : i \in 1 .. n}
    BY <2>0
  <2>2. n \in Nat /\ n >= 1 /\ fresh \subseteq Events
    BY QueueAssumption DEF TypeOK
  <2>3. b \in Seq(Events) /\ Len(b) = n
    BY <2>2
  <2>4. b # << >>
    BY <2>2, <2>3
  <2>5. /\ todo' \in [Pushers -> Seq(Events)]
        /\ \A q \in Pushers : pc'[q] # "idle" => todo'[q] # << >>
    BY <1>1, <2>1, <2>3, <2>4 DEF PushBatch, TypeOK
  <2> QED
    BY <1>1, <2>1, <2>5 DEF PushBatch, TypeOK, PCs
<1>2. ASSUME NEW p \in Pushers, CheckLock(p) PROVE TypeOK'
  <2>1. CASE Returned(p, FALSE)
    <3>1. suppressed' \in {suppressed, suppressed \cup {InHand(p)}} /\ pc[p] = "exists"
      BY <1>2 DEF CheckLock
    <3>2. suppressed' \subseteq Events
      BY <3>1, InHandType DEF TypeOK
    <3> QED
      BY <1>2, <2>1, <3>2, ReturnedType DEF CheckLock, TypeOK
  <2>2. CASE /\ pc' = [pc EXCEPT ![p] = "llen"]
             /\ UNCHANGED <<todo, pushed, deduped, found, suppressed>>
    BY <1>2, <2>2 DEF CheckLock, TypeOK, PCs
  <2> QED
    BY <1>2, <2>1, <2>2 DEF CheckLock
<1>3. ASSUME NEW p \in Pushers, CheckSize(p) PROVE TypeOK'
  <2>1. CASE Returned(p, FALSE) /\ refused' = refused \cup {InHand(p)}
    <3>1. refused' \subseteq Events
      BY <1>3, <2>1, InHandType DEF CheckSize, TypeOK
    <3> QED
      BY <1>3, <2>1, <3>1, ReturnedType DEF CheckSize, TypeOK
  <2>2. CASE /\ pc' = [pc EXCEPT ![p] = "lpush"]
             /\ UNCHANGED <<todo, pushed, deduped, found, refused>>
    BY <1>3, <2>2 DEF CheckSize, TypeOK, PCs
  <2> QED
    BY <1>3, <2>1, <2>2 DEF CheckSize
<1>4. ASSUME NEW p \in Pushers, pc[p] # "idle", Enqueue(p)
      PROVE  /\ queue' \in Seq(Events) /\ enqueued' \in SUBSET Events
             /\ window' \in [Keys -> Nat]
    BY <1>4, InHandType DEF Enqueue, TypeOK
<1>5. ASSUME NEW p \in Pushers, LPush(p) PROVE TypeOK'
    BY <1>4, <1>5 DEF LPush, TypeOK, PCs
<1>6. ASSUME NEW p \in Pushers, SetEx(p) PROVE TypeOK'
    BY <1>6, InHandType, ReturnedType DEF SetEx, TypeOK
<1>7. ASSUME NEW p \in Pushers, Interrupted(p) PROVE TypeOK'
  <2>1. queue' \in Seq(Events) /\ enqueued' \in SUBSET Events
        /\ window' \in [Keys -> Nat] /\ locks' \in SUBSET Keys
    BY <1>4, <1>7, InHandType DEF Interrupted, TypeOK
  <2> QED
    BY <1>7, <2>1 DEF Interrupted, TypeOK, PCs
<1>8. ASSUME NEW k \in Keys, Expire(k) PROVE TypeOK'
    BY <1>8 DEF Expire, TypeOK
<1>9. CASE Pop
    BY <1>9 DEF Pop, TypeOK
<1>10. CASE PopLost
    BY <1>10 DEF PopLost, TypeOK
<1>11. CASE UNCHANGED vars
    BY <1>11 DEF vars, TypeOK
<1> QED
    BY <1>1, <1>2, <1>3, <1>5, <1>6, <1>7, <1>8, <1>9, <1>10, <1>11
       DEF Next, Step

\* Every variable keeps its type, and no pipeline is in the middle of a push
\* with nothing in hand.
THEOREM TypeCorrect == Spec => []TypeOK
<1> QED
    BY TypeInit, TypeNext, PTL DEF Spec

-----------------------------------------------------------------------------
(* The bound of the queue.                                                 *)

LEMMA AtCount ==
    ASSUME NEW S \in SUBSET Pushers
    PROVE  /\ IsFiniteSet(S) /\ Cardinality(S) \in Nat
           /\ Cardinality(S) <= Cardinality(Pushers)
           /\ Cardinality(Pushers) \in Nat
BY QueueAssumption, FS_Subset, FS_CardinalityType

\* A step that neither lengthens the queue nor passes the guard.
LEMMA NoPassing ==
    ASSUME TypeOK, TypeOK', QueueBoundInductive,
           Len(queue') <= Len(queue), At("lpush")' \subseteq At("lpush")
    PROVE  QueueBoundInductive'
<1> DEFINE S == At("lpush")  T == At("lpush")'
<1>1. S \subseteq Pushers /\ T \subseteq S
    BY DEF At
<1>2. Cardinality(T) <= Cardinality(S)
    BY <1>1, AtCount, FS_Subset
<1>3. Cardinality(S) \in Nat /\ Cardinality(T) \in Nat /\ Cardinality(Pushers) \in Nat
    BY <1>1, AtCount
<1>4. Len(queue) \in Nat /\ Len(queue') \in Nat
    BY DEF TypeOK
<1>5. Cardinality(At("lpush"))' = Cardinality(T)
    OBVIOUS
<1> QED
    BY <1>2, <1>3, <1>4, <1>5, QueueAssumption DEF QueueBoundInductive

\* The push of a pipeline that was past the guard.
LEMMA Passed ==
    ASSUME TypeOK, TypeOK', QueueBoundInductive, NEW p \in Pushers,
           pc[p] = "lpush", pc'[p] # "lpush",
           \A q \in Pushers \ {p} : pc'[q] = pc[q], Enqueue(p)
    PROVE  QueueBoundInductive'
<1> DEFINE S == At("lpush")  T == At("lpush")'
<1>1. S \subseteq Pushers /\ p \in S /\ T = S \ {p}
    BY DEF At
<1>2. Cardinality(T) = Cardinality(S) - 1
    BY <1>1, AtCount, FS_RemoveElement
<1>3. Cardinality(S) \in Nat /\ Cardinality(Pushers) \in Nat
    BY <1>1, AtCount
<1>4. Len(queue) \in Nat /\ Len(queue') = Len(queue) + 1
    BY InHandType DEF Enqueue, TypeOK
<1>5. Cardinality(At("lpush"))' = Cardinality(T)
    OBVIOUS
<1> QED
    BY <1>2, <1>3, <1>4, <1>5, QueueAssumption DEF QueueBoundInductive

LEMMA BoundInit == Init => QueueBoundInductive
<1> SUFFICES ASSUME Init PROVE QueueBoundInductive
    OBVIOUS
<1>1. At("lpush") = {}
    BY DEF Init, At
<1>2. Cardinality(At("lpush")) = 0
    BY <1>1, FS_EmptySet
<1>3. Cardinality(Pushers) \in Nat
    BY AtCount
<1> QED
    BY <1>2, <1>3, QueueAssumption DEF Init, QueueBoundInductive

LEMMA BoundNext ==
    TypeOK /\ TypeOK' /\ QueueBoundInductive /\ [Next]_vars => QueueBoundInductive'
<1> SUFFICES ASSUME TypeOK, TypeOK', QueueBoundInductive, [Next]_vars
             PROVE  QueueBoundInductive'
    OBVIOUS
<1> USE DEF pushing, history
<1>1. ASSUME NEW p \in Pushers, PushBatch(p) PROVE QueueBoundInductive'
  <2>1. queue' = queue /\ pc' = [pc EXCEPT ![p] = "exists"]
    BY <1>1 DEF PushBatch
  <2>2. At("lpush")' \subseteq At("lpush")
    BY <2>1 DEF At, TypeOK
  <2>3. Len(queue') <= Len(queue)
    BY <2>1 DEF TypeOK
  <2> QED
    BY <2>2, <2>3, NoPassing
<1>2. ASSUME NEW p \in Pushers, CheckLock(p) PROVE QueueBoundInductive'
  <2>1. queue' = queue
    BY <1>2 DEF CheckLock
  <2>2. \/ pc' = [pc EXCEPT ![p] = "exists"] \/ pc' = [pc EXCEPT ![p] = "idle"]
        \/ pc' = [pc EXCEPT ![p] = "llen"]
    BY <1>2 DEF CheckLock, Returned
  <2>3. At("lpush")' \subseteq At("lpush")
    BY <2>2 DEF At, TypeOK
  <2>4. Len(queue') <= Len(queue)
    BY <2>1 DEF TypeOK
  <2> QED
    BY <2>3, <2>4, NoPassing
<1>3. ASSUME NEW p \in Pushers, CheckSize(p) PROVE QueueBoundInductive'
  <2>1. CASE Full
    <3>1. At("lpush")' \subseteq At("lpush")
      BY <1>3, <2>1 DEF CheckSize, Returned, At, TypeOK
    <3>2. Len(queue') <= Len(queue)
      BY <1>3, <2>1 DEF CheckSize, TypeOK
    <3> QED
      BY <3>1, <3>2, NoPassing
  <2>2. CASE ~ Full
    <3>1. queue' = queue /\ Len(queue) \in Nat /\ Len(queue) <= MaxQueueSize - 1
      BY <1>3, <2>2, QueueAssumption DEF CheckSize, Full, TypeOK
    <3>2. At("lpush")' \subseteq Pushers
      BY DEF At
    <3>3. /\ Cardinality(At("lpush")') \in Nat
          /\ Cardinality(At("lpush")') <= Cardinality(Pushers)
          /\ Cardinality(Pushers) \in Nat
      BY <3>2, AtCount
    <3> QED
      BY <3>1, <3>3, QueueAssumption DEF QueueBoundInductive
  <2> QED
    BY <2>1, <2>2
<1>4. ASSUME NEW p \in Pushers, LPush(p) PROVE QueueBoundInductive'
  <2>1. pc[p] = "lpush" /\ Enqueue(p) /\ pc' = [pc EXCEPT ![p] = "setex"]
    BY <1>4 DEF LPush
  <2>2. pc'[p] # "lpush" /\ \A q \in Pushers \ {p} : pc'[q] = pc[q]
    BY <2>1 DEF TypeOK
  <2> QED
    BY <2>1, <2>2, Passed
<1>5. ASSUME NEW p \in Pushers, SetEx(p) PROVE QueueBoundInductive'
  <2>1. queue' = queue
    BY <1>5 DEF SetEx
  <2>2. \/ pc' = [pc EXCEPT ![p] = "exists"] \/ pc' = [pc EXCEPT ![p] = "idle"]
    BY <1>5 DEF SetEx, Returned
  <2>3. At("lpush")' \subseteq At("lpush")
    BY <2>2 DEF At, TypeOK
  <2>4. Len(queue') <= Len(queue)
    BY <2>1 DEF TypeOK
  <2> QED
    BY <2>3, <2>4, NoPassing
<1>6. ASSUME NEW p \in Pushers, Interrupted(p) PROVE QueueBoundInductive'
  <2>1. CASE queue' = queue
    <3>1. At("lpush")' \subseteq At("lpush")
      BY <1>6 DEF Interrupted, At, TypeOK
    <3>2. Len(queue') <= Len(queue)
      BY <2>1 DEF TypeOK
    <3> QED
      BY <3>1, <3>2, NoPassing
  <2>2. CASE pc[p] = "lpush" /\ Enqueue(p)
    BY <1>6, <2>2, Passed DEF Interrupted, TypeOK
  <2> QED
    BY <1>6, <2>1, <2>2 DEF Interrupted
<1>7. ASSUME NEW k \in Keys, Expire(k) PROVE QueueBoundInductive'
  <2>1. queue' = queue /\ pc' = pc
    BY <1>7 DEF Expire
  <2>2. At("lpush")' \subseteq At("lpush") /\ Len(queue') <= Len(queue)
    BY <2>1 DEF At, TypeOK
  <2> QED
    BY <2>2, NoPassing
<1>8. CASE Pop \/ PopLost
  <2>1. Len(queue') <= Len(queue)
    BY <1>8 DEF Pop, PopLost, TypeOK
  <2> QED
    BY <1>8, <2>1, NoPassing DEF Pop, PopLost, At
<1>9. CASE UNCHANGED vars
  <2>1. queue' = queue /\ pc' = pc
    BY <1>9 DEF vars
  <2>2. At("lpush")' \subseteq At("lpush") /\ Len(queue') <= Len(queue)
    BY <2>1 DEF At, TypeOK
  <2> QED
    BY <2>2, NoPassing
<1> QED
    BY <1>1, <1>2, <1>3, <1>4, <1>5, <1>6, <1>7, <1>8, <1>9 DEF Next, Step

\* However many pipelines push, the queue never holds more than MAX_QUEUE_SIZE
\* plus one event for each pipeline but the first.
THEOREM QueueIsBounded == Spec => []QueueBound
<1>1. TypeOK /\ QueueBoundInductive => QueueBound
  <2> SUFFICES ASSUME TypeOK, QueueBoundInductive PROVE QueueBound
    OBVIOUS
  <2>1. At("lpush") \subseteq Pushers
    BY DEF At
  <2>2. Cardinality(At("lpush")) \in Nat /\ Cardinality(Pushers) \in Nat
    BY <2>1, AtCount
  <2> QED
    BY <2>2, QueueAssumption DEF QueueBound, QueueBoundInductive, TypeOK
<1> QED
    BY <1>1, TypeInit, TypeNext, BoundInit, BoundNext, PTL DEF Spec

-----------------------------------------------------------------------------
(* The events in the hands of the pipelines.                               *)

\* A pipeline holds events of its own, each once, that are not fresh any more;
\* an event it holds was pushed only if the pipeline is between LPUSH and SETEX.
OwnEvents ==
    /\ \A e \in enqueued : e \notin fresh
    /\ \A p \in Pushers : pc[p] = "setex" => InHand(p) \in enqueued
    /\ \A p \in Pushers : pc[p] = "idle" => todo[p] = << >>
    /\ \A p \in Pushers : \A i \in DOMAIN todo[p] :
          /\ todo[p][i] \notin fresh
          /\ todo[p][i] \in enqueued => i = 1 /\ pc[p] = "setex"
          /\ \A q \in Pushers : \A j \in DOMAIN todo[q] :
                todo[p][i] = todo[q][j] => p = q /\ i = j

LEMMA HeadOfTodo ==
    ASSUME TypeOK, NEW p \in Pushers, pc[p] # "idle"
    PROVE  /\ 1 \in DOMAIN todo[p] /\ InHand(p) = todo[p][1]
           /\ todo[p] \in Seq(Events) /\ todo[p] # << >>
<1>1. todo[p] \in Seq(Events) /\ todo[p] # << >>
    BY DEF TypeOK
<1> QED
    BY <1>1 DEF InHand

\* push() returns.
LEMMA OwnReturned ==
    ASSUME TypeOK, OwnEvents, NEW p \in Pushers, NEW ok \in BOOLEAN,
           pc[p] # "idle", Returned(p, ok), UNCHANGED <<enqueued, fresh>>
    PROVE  OwnEvents'
<1>1. todo[p] \in Seq(Events) /\ todo[p] # << >>
    BY HeadOfTodo
<1>2. /\ pc'[p] # "setex" /\ todo'[p] = Tail(todo[p])
      /\ \A q \in Pushers \ {p} : todo'[q] = todo[q] /\ pc'[q] = pc[q]
    BY DEF Returned, TypeOK
<1>3. \A i \in DOMAIN todo'[p] : i + 1 \in DOMAIN todo[p] /\ todo'[p][i] = todo[p][i + 1]
                                   /\ i \in Nat /\ i >= 1
    BY <1>1, <1>2
\* Where an event that is still in hand was.
<1> DEFINE Old(q, i) == IF q = p THEN i + 1 ELSE i
<1>4. ASSUME NEW q \in Pushers, NEW i \in DOMAIN todo'[q]
      PROVE  /\ Old(q, i) \in DOMAIN todo[q] /\ todo'[q][i] = todo[q][Old(q, i)]
             /\ q = p => Old(q, i) # 1
  <2>1. CASE q = p
    BY <1>3, <1>4, <2>1
  <2>2. CASE q # p
    BY <1>2, <1>4, <2>2
  <2> QED
    BY <2>1, <2>2
<1>5. ASSUME NEW q \in Pushers, NEW i \in DOMAIN todo'[q], NEW j \in DOMAIN todo'[q],
             Old(q, i) = Old(q, j)
      PROVE  i = j
  <2>1. CASE q = p
    <3>1. i \in Nat /\ j \in Nat /\ i + 1 = j + 1
      BY <1>3, <1>5, <2>1
    <3> QED
      BY <3>1
  <2>2. CASE q # p
    BY <1>5, <2>2
  <2> QED
    BY <2>1, <2>2
<1> HIDE DEF Old
<1>6. ASSUME NEW q \in Pushers, NEW i \in DOMAIN todo'[q]
      PROVE  /\ todo'[q][i] \notin fresh'
             /\ todo'[q][i] \in enqueued' => i = 1 /\ pc'[q] = "setex"
  <2>1. todo'[q][i] \notin fresh /\ (todo'[q][i] \in enqueued => Old(q, i) = 1 /\ pc[q] = "setex")
    BY <1>4, <1>6 DEF OwnEvents
  <2>2. q # p => Old(q, i) = i
    BY DEF Old
  <2> QED
    BY <1>2, <1>4, <2>1, <2>2
<1>7. ASSUME NEW q \in Pushers, NEW i \in DOMAIN todo'[q],
             NEW r \in Pushers, NEW j \in DOMAIN todo'[r], todo'[q][i] = todo'[r][j]
      PROVE  q = r /\ i = j
  <2>1. q = r /\ Old(q, i) = Old(r, j)
    BY <1>4, <1>7 DEF OwnEvents
  <2> QED
    BY <1>5, <1>7, <2>1
<1>8. \A q \in Pushers : pc'[q] = "setex" => InHand(q)' \in enqueued'
    BY <1>2 DEF OwnEvents, InHand
<1>9. ASSUME NEW q \in Pushers, pc'[q] = "idle" PROVE todo'[q] = << >>
  <2>1. CASE q = p
    <3>1. ~ (Len(todo[p]) > 1)
      BY <1>9, <2>1 DEF Returned, TypeOK
    <3> QED
      BY <1>1, <1>2, <2>1, <3>1, TailOfOne
  <2>2. CASE q # p
    BY <1>2, <1>9, <2>2 DEF OwnEvents
  <2> QED
    BY <2>1, <2>2
<1> QED
    BY <1>6, <1>7, <1>8, <1>9 DEF OwnEvents

\* LPUSH, of a pipeline that stays or of one that breaks off.
LEMMA OwnEnqueue ==
    ASSUME TypeOK, OwnEvents, NEW p \in Pushers, pc[p] = "lpush",
           enqueued' = enqueued \cup {InHand(p)}, UNCHANGED fresh,
           \A q \in Pushers \ {p} : todo'[q] = todo[q] /\ pc'[q] = pc[q],
           \/ todo'[p] = todo[p] /\ pc'[p] = "setex"
           \/ todo'[p] = << >> /\ pc'[p] = "idle"
    PROVE  OwnEvents'
<1>1. 1 \in DOMAIN todo[p] /\ InHand(p) = todo[p][1]
    BY HeadOfTodo
<1>2. ASSUME NEW q \in Pushers, NEW i \in DOMAIN todo'[q]
      PROVE  i \in DOMAIN todo[q] /\ todo'[q][i] = todo[q][i]
    BY <1>2
<1>3. ASSUME NEW q \in Pushers, NEW i \in DOMAIN todo'[q], todo'[q][i] \in enqueued'
      PROVE  i = 1 /\ pc'[q] = "setex"
  <2>1. CASE todo[q][i] = todo[p][1]
    <3>1. q = p /\ i = 1
      BY <1>1, <1>2, <2>1 DEF OwnEvents
    <3> QED
      BY <1>3, <3>1
  <2>2. CASE todo[q][i] # todo[p][1]
    <3>1. todo[q][i] \in enqueued
      BY <1>1, <1>2, <1>3, <2>2
    <3>2. i = 1 /\ pc[q] = "setex"
      BY <1>2, <3>1 DEF OwnEvents
    <3> QED
      BY <3>2
  <2> QED
    BY <2>1, <2>2
<1>4. todo[p][1] \notin fresh
    BY <1>1 DEF OwnEvents
<1>5. \A q \in Pushers : pc'[q] = "setex" => InHand(q)' \in enqueued'
    BY DEF OwnEvents, InHand
<1>6. \A e \in enqueued' : e \notin fresh'
    BY <1>1, <1>4 DEF OwnEvents
<1> QED
    BY <1>2, <1>3, <1>5, <1>6 DEF OwnEvents

\* A pipeline goes on to another command, or breaks off.
LEMMA OwnMoves ==
    ASSUME TypeOK, OwnEvents, NEW p \in Pushers, pc'[p] # "setex",
           UNCHANGED <<enqueued, fresh>>,
           \A q \in Pushers \ {p} : todo'[q] = todo[q] /\ pc'[q] = pc[q],
           \/ todo'[p] = << >>
           \/ todo'[p] = todo[p] /\ pc[p] # "setex" /\ pc'[p] # "idle"
    PROVE  OwnEvents'
<1>1. ASSUME NEW q \in Pushers, NEW i \in DOMAIN todo'[q]
      PROVE  /\ i \in DOMAIN todo[q] /\ todo'[q][i] = todo[q][i]
             /\ todo'[q][i] \in enqueued' => i = 1 /\ pc'[q] = "setex"
    BY <1>1 DEF OwnEvents
<1>2. \A q \in Pushers : pc'[q] = "setex" => InHand(q)' \in enqueued'
    BY DEF OwnEvents, InHand
<1> QED
    BY <1>1, <1>2 DEF OwnEvents

\* A new batch.
LEMMA OwnBatch ==
    ASSUME TypeOK, OwnEvents, NEW p \in Pushers, PushBatch(p)
    PROVE  OwnEvents'
<1>1. PICK n \in 1 .. MaxBatch : \E b \in [1 .. n -> fresh] :
          /\ \A i, j \in 1 .. n : b[i] = b[j] => i = j
          /\ todo' = [todo EXCEPT ![p] = b]
          /\ fresh' = fresh \ {b[i] : i \in 1 .. n}
    BY DEF PushBatch
<1>2. PICK b \in [1 .. n -> fresh] :
          /\ \A i, j \in 1 .. n : b[i] = b[j] => i = j
          /\ todo' = [todo EXCEPT ![p] = b]
          /\ fresh' = fresh \ {b[i] : i \in 1 .. n}
    BY <1>1
<1>3. /\ todo'[p] = b /\ pc'[p] # "setex" /\ enqueued' = enqueued
      /\ \A q \in Pushers \ {p} : todo'[q] = todo[q] /\ pc'[q] = pc[q]
    BY <1>2 DEF PushBatch, TypeOK, history
<1>4. \A i \in DOMAIN b : b[i] \in fresh /\ b[i] \notin fresh' /\ b[i] \notin enqueued
    BY <1>2 DEF OwnEvents
<1>5. ASSUME NEW q \in Pushers, NEW i \in DOMAIN todo'[q]
      PROVE  /\ todo'[q][i] \notin fresh'
             /\ todo'[q][i] \in enqueued' => i = 1 /\ pc'[q] = "setex"
    BY <1>2, <1>3, <1>4, <1>5 DEF OwnEvents
<1>6. ASSUME NEW q \in Pushers, NEW i \in DOMAIN todo'[q],
             NEW r \in Pushers, NEW j \in DOMAIN todo'[r], todo'[q][i] = todo'[r][j]
      PROVE  q = r /\ i = j
  <2>1. CASE q = p /\ r = p
    BY <1>2, <1>3, <1>6, <2>1
  <2>2. CASE q # p /\ r # p
    BY <1>3, <1>6, <2>2 DEF OwnEvents
  <2>3. CASE q = p /\ r # p
    BY <1>3, <1>4, <1>6, <2>3 DEF OwnEvents
  <2>4. CASE q # p /\ r = p
    BY <1>3, <1>4, <1>6, <2>4 DEF OwnEvents
  <2> QED
    BY <2>1, <2>2, <2>3, <2>4
<1>7. \A q \in Pushers : /\ pc'[q] = "setex" => InHand(q)' \in enqueued'
                         /\ pc'[q] = "idle" => todo'[q] = << >>
    BY <1>3 DEF OwnEvents, InHand, PushBatch, TypeOK
<1>8. \A e \in enqueued' : e \notin fresh'
    BY <1>2, <1>3 DEF OwnEvents
<1> QED
    BY <1>5, <1>6, <1>7, <1>8 DEF OwnEvents

LEMMA OwnInit == Init => OwnEvents
BY DEF Init, OwnEvents

LEMMA OwnNext == TypeOK /\ OwnEvents /\ [Next]_vars => OwnEvents'
<1> SUFFICES ASSUME TypeOK, OwnEvents, [Next]_vars PROVE OwnEvents'
    OBVIOUS
<1> USE DEF pushing, history
<1>1. ASSUME NEW p \in Pushers, CheckLock(p) PROVE OwnEvents'
  <2>1. CASE Returned(p, FALSE)
    BY <1>1, <2>1, OwnReturned DEF CheckLock
  <2>2. CASE pc' = [pc EXCEPT ![p] = "llen"] /\ UNCHANGED todo
    BY <1>1, <2>2, OwnMoves DEF CheckLock, TypeOK
  <2> QED
    BY <1>1, <2>1, <2>2 DEF CheckLock
<1>2. ASSUME NEW p \in Pushers, CheckSize(p) PROVE OwnEvents'
  <2>1. CASE Returned(p, FALSE)
    BY <1>2, <2>1, OwnReturned DEF CheckSize
  <2>2. CASE pc' = [pc EXCEPT ![p] = "lpush"] /\ UNCHANGED todo
    BY <1>2, <2>2, OwnMoves DEF CheckSize, TypeOK
  <2> QED
    BY <1>2, <2>1, <2>2 DEF CheckSize
<1>3. ASSUME NEW p \in Pushers, LPush(p) PROVE OwnEvents'
    BY <1>3, OwnEnqueue DEF LPush, Enqueue, TypeOK
<1>4. ASSUME NEW p \in Pushers, SetEx(p) PROVE OwnEvents'
    BY <1>4, OwnReturned DEF SetEx
<1>5. ASSUME NEW p \in Pushers, Interrupted(p) PROVE OwnEvents'
  <2>1. CASE UNCHANGED enqueued
    BY <1>5, <2>1, OwnMoves DEF Interrupted, TypeOK
  <2>2. CASE pc[p] = "lpush" /\ Enqueue(p)
    BY <1>5, <2>2, OwnEnqueue DEF Interrupted, Enqueue, TypeOK
  <2> QED
    BY <1>5, <2>1, <2>2 DEF Interrupted
<1>6. CASE UNCHANGED <<pc, todo, enqueued, fresh>>
    BY <1>6 DEF OwnEvents, InHand
<1>7. (\E k \in Keys : Expire(k)) \/ Pop \/ PopLost \/ UNCHANGED vars
        => UNCHANGED <<pc, todo, enqueued, fresh>>
    BY DEF Expire, Pop, PopLost, vars
<1> QED
    BY <1>1, <1>2, <1>3, <1>4, <1>5, <1>6, <1>7, OwnBatch DEF Next, Step

-----------------------------------------------------------------------------
(* Suppression.                                                            *)

\* A lock is set after the push only, so that there is an event behind it.
LocksHaveEvents ==
    /\ \A k \in locks : \E f \in enqueued : KeyOf[f] = k
    /\ SuppressedOnlyBehindQueued

LEMMA LocksNext ==
    TypeOK /\ OwnEvents /\ LocksHaveEvents /\ [Next]_vars => LocksHaveEvents'
<1> SUFFICES ASSUME TypeOK, OwnEvents, LocksHaveEvents, [Next]_vars
             PROVE  LocksHaveEvents'
    OBVIOUS
<1> USE DEF pushing, history
\* Locks and suppressions stay justified while events are added.
<1>1. ASSUME enqueued \subseteq enqueued',
             \A k \in locks' \ locks : \E f \in enqueued' : KeyOf[f] = k,
             \A e \in suppressed' \ suppressed : \E f \in enqueued' \ {e} : KeyOf[f] = KeyOf[e]
      PROVE  LocksHaveEvents'
    BY <1>1 DEF LocksHaveEvents, SuppressedOnlyBehindQueued
<1>2. ASSUME NEW p \in Pushers, CheckLock(p) PROVE LocksHaveEvents'
  <2>1. /\ pc[p] = "exists" /\ UNCHANGED <<locks, enqueued>>
        /\ \/ suppressed' = suppressed
           \/ suppressed' = suppressed \cup {InHand(p)} /\ Lock(p) \in locks
    BY <1>2 DEF CheckLock
  <2>2. InHand(p) \notin enqueued
    BY <2>1, HeadOfTodo DEF OwnEvents
  <2>3. Lock(p) \in locks => \E f \in enqueued \ {InHand(p)} : KeyOf[f] = KeyOf[InHand(p)]
    BY <2>2 DEF LocksHaveEvents, Lock
  <2> QED
    BY <1>1, <2>1, <2>3
<1>3. ASSUME NEW p \in Pushers, pc[p] = "setex"
      PROVE  \E f \in enqueued : KeyOf[f] = Lock(p)
    BY <1>3 DEF OwnEvents, Lock
<1>4. ASSUME NEW p \in Pushers, SetEx(p) PROVE LocksHaveEvents'
    BY <1>1, <1>3, <1>4 DEF SetEx
<1>5. ASSUME NEW p \in Pushers, Interrupted(p) PROVE LocksHaveEvents'
  <2>1. /\ suppressed' = suppressed /\ enqueued \subseteq enqueued'
        /\ locks' = locks \/ (pc[p] = "setex" /\ locks' = locks \cup {Lock(p)})
    BY <1>5 DEF Interrupted, Enqueue
  <2> QED
    BY <1>1, <1>3, <2>1
<1>6. ASSUME NEW k \in Keys, Expire(k) PROVE LocksHaveEvents'
    BY <1>1, <1>6 DEF Expire
<1>7. ASSUME NEW p \in Pushers, PushBatch(p) \/ CheckSize(p) \/ LPush(p)
      PROVE  LocksHaveEvents'
    BY <1>1, <1>7 DEF PushBatch, CheckSize, LPush, Enqueue
<1>8. CASE Pop \/ PopLost \/ UNCHANGED vars
    BY <1>1, <1>8 DEF Pop, PopLost, vars
<1> QED
    BY <1>2, <1>4, <1>5, <1>6, <1>7, <1>8 DEF Next, Step

\* Deduplication hides no incident: behind a suppressed event there is another
\* one of its service and severity that was pushed.
THEOREM NothingIsHidden == Spec => []SuppressedOnlyBehindQueued
<1>1. Init => LocksHaveEvents
    BY DEF Init, LocksHaveEvents, SuppressedOnlyBehindQueued
<1>2. LocksHaveEvents => SuppressedOnlyBehindQueued
    BY DEF LocksHaveEvents
<1> QED
    BY <1>1, <1>2, TypeInit, TypeNext, OwnInit, OwnNext, LocksNext, PTL DEF Spec

-----------------------------------------------------------------------------
(* Outcomes.                                                               *)

\* What a step may do with an event that detection has reported.
LEMMA OutcomeNext ==
    TypeOK /\ OwnEvents /\ EveryEventHasAnOutcome /\ [Next]_vars => EveryEventHasAnOutcome'
<1> SUFFICES ASSUME TypeOK, OwnEvents, EveryEventHasAnOutcome, [Next]_vars,
                    faults' = 0, NEW e \in Events, e \notin fresh'
             PROVE  \/ e \in enqueued' \cup suppressed' \cup refused' \cup Minor
                    \/ \E p \in Pushers : \E i \in DOMAIN todo'[p] : todo'[p][i] = e
    BY DEF EveryEventHasAnOutcome
<1> USE DEF pushing, history
<1> DEFINE Settled == e \in enqueued \cup suppressed \cup refused \cup Minor
           Held == \E p \in Pushers : \E i \in DOMAIN todo[p] : todo[p][i] = e
<1>0. e \in fresh \/ faults # 0 \/ Settled \/ Held
    BY DEF EveryEventHasAnOutcome
<1>1. ASSUME NEW p \in Pushers, PushBatch(p)
      PROVE  Settled \/ \E q \in Pushers : \E i \in DOMAIN todo'[q] : todo'[q][i] = e
  <2>1. PICK n \in 1 .. MaxBatch : \E b \in [1 .. n -> fresh] :
            todo' = [todo EXCEPT ![p] = b] /\ fresh' = fresh \ {b[i] : i \in 1 .. n}
    BY <1>1 DEF PushBatch
  <2>2. PICK b \in [1 .. n -> fresh] :
            todo' = [todo EXCEPT ![p] = b] /\ fresh' = fresh \ {b[i] : i \in 1 .. n}
    BY <2>1
  <2>3. todo'[p] = b /\ \A q \in Pushers \ {p} : todo'[q] = todo[q]
    BY <2>2 DEF TypeOK
  <2>4. CASE e \in fresh
    BY <2>2, <2>3, <2>4
  <2>5. CASE Held
    <3>1. todo[p] = << >>
      BY <1>1 DEF PushBatch, OwnEvents
    <3> QED
      BY <2>3, <2>5, <3>1
  <2>6. faults' = faults
    BY <1>1 DEF PushBatch
  <2> QED
    BY <1>0, <2>4, <2>5, <2>6
<1>2. ASSUME NEW p \in Pushers, NEW ok \in BOOLEAN, Returned(p, ok), pc[p] # "idle",
             InHand(p) = e => e \in enqueued' \cup suppressed' \cup refused' \cup Minor
      PROVE  Held => \/ e \in enqueued' \cup suppressed' \cup refused' \cup Minor
                     \/ \E q \in Pushers : \E i \in DOMAIN todo'[q] : todo'[q][i] = e
  <2>1. todo[p] \in Seq(Events) /\ InHand(p) = todo[p][1] /\ todo[p] # << >>
    BY <1>2, HeadOfTodo
  <2>2. todo'[p] = Tail(todo[p]) /\ \A q \in Pushers \ {p} : todo'[q] = todo[q]
    BY <1>2 DEF Returned, TypeOK
  <2>3. ASSUME NEW i \in DOMAIN todo[p], todo[p][i] = e, i # 1
        PROVE  \E j \in DOMAIN todo'[p] : todo'[p][j] = e
    <3>1. i - 1 \in DOMAIN todo'[p] /\ todo'[p][i - 1] = e
      BY <2>1, <2>2, <2>3
    <3> QED
      BY <3>1
  <2> QED
    BY <1>2, <2>1, <2>2, <2>3
<1>3. ASSUME NEW p \in Pushers, CheckLock(p)
      PROVE  \/ e \in enqueued' \cup suppressed' \cup refused' \cup Minor
             \/ \E q \in Pushers : \E i \in DOMAIN todo'[q] : todo'[q][i] = e
  <2>1. CASE Returned(p, FALSE) /\ (InHand(p) \in Minor \/ InHand(p) \in suppressed')
    BY <1>0, <1>2, <1>3, <2>1 DEF CheckLock
  <2>2. CASE UNCHANGED <<todo, suppressed>>
    BY <1>0, <1>3, <2>2 DEF CheckLock
  <2> QED
    BY <1>3, <2>1, <2>2 DEF CheckLock
<1>4. ASSUME NEW p \in Pushers, CheckSize(p)
      PROVE  \/ e \in enqueued' \cup suppressed' \cup refused' \cup Minor
             \/ \E q \in Pushers : \E i \in DOMAIN todo'[q] : todo'[q][i] = e
  <2>1. CASE Returned(p, FALSE) /\ refused' = refused \cup {InHand(p)}
    BY <1>0, <1>2, <1>4, <2>1 DEF CheckSize
  <2>2. CASE UNCHANGED <<todo, refused>>
    BY <1>0, <1>4, <2>2 DEF CheckSize
  <2> QED
    BY <1>4, <2>1, <2>2 DEF CheckSize
<1>5. ASSUME NEW p \in Pushers, LPush(p)
      PROVE  \/ e \in enqueued' \cup suppressed' \cup refused' \cup Minor
             \/ \E q \in Pushers : \E i \in DOMAIN todo'[q] : todo'[q][i] = e
    BY <1>0, <1>5 DEF LPush, Enqueue
<1>6. ASSUME NEW p \in Pushers, SetEx(p)
      PROVE  \/ e \in enqueued' \cup suppressed' \cup refused' \cup Minor
             \/ \E q \in Pushers : \E i \in DOMAIN todo'[q] : todo'[q][i] = e
  <2>1. pc[p] = "setex" /\ Returned(p, TRUE) /\ UNCHANGED <<fresh, history, faults>>
    BY <1>6 DEF SetEx
  <2>2. InHand(p) \in enqueued'
    BY <2>1 DEF OwnEvents
  <2>3. e \notin fresh /\ faults = 0 /\ Settled' = Settled
    BY <2>1
  <2>4. CASE Settled
    BY <2>3, <2>4
  <2>5. CASE Held
    BY <1>2, <2>1, <2>2, <2>5
  <2> QED
    BY <1>0, <2>3, <2>4, <2>5
<1>7. \A p \in Pushers : ~ Interrupted(p)
    BY DEF Interrupted, TypeOK
<1>8. CASE (\E k \in Keys : Expire(k)) \/ Pop \/ PopLost \/ UNCHANGED vars
  <2>1. faults \in Nat
    BY DEF TypeOK
  <2>2. UNCHANGED <<todo, fresh, enqueued, suppressed, refused, faults>>
    BY <1>8, <2>1 DEF Expire, Pop, PopLost, vars
  <2> QED
    BY <1>0, <2>2
<1> QED
    BY <1>1, <1>3, <1>4, <1>5, <1>6, <1>7, <1>8 DEF Next, Step, PushBatch

\* Without failures every anomaly that detection reported was queued, held back
\* for a reason, or is in the hands of its pipeline.
THEOREM OutcomesAreKnown == Spec => []EveryEventHasAnOutcome
<1>1. Init => EveryEventHasAnOutcome
    BY DEF Init, EveryEventHasAnOutcome
<1> QED
    BY <1>1, TypeInit, TypeNext, OwnInit, OwnNext, OutcomeNext, PTL DEF Spec

-----------------------------------------------------------------------------
(* Duplicates.                                                             *)

\* The pipelines that found no lock of k and will push, and those that pushed
\* and will set the lock.
Past(k)   == {p \in Pushers : pc[p] \in {"llen", "lpush"} /\ Lock(p) = k}
Behind(k) == {p \in Pushers : pc[p] = "setex" /\ Lock(p) = k}

\* Without a lock, what was pushed is about to get one or was interrupted; and
\* only who found no lock still adds to it.
FewDuplicates(k) ==
    /\ k \notin locks => window[k] <= Cardinality(Behind(k)) + faults
    /\ window[k] + Cardinality(Past(k)) <= Cardinality(Pushers) + faults
DuplicatesInv == \A k \in Keys : FewDuplicates(k)

\* One pipeline joins a set, or leaves it.
LEMMA CountStep ==
    ASSUME NEW S \in SUBSET Pushers, NEW T \in SUBSET Pushers, NEW p \in Pushers,
           \A q \in Pushers \ {p} : q \in S <=> q \in T
    PROVE  Cardinality(T) = IF p \in S
                            THEN IF p \in T THEN Cardinality(S) ELSE Cardinality(S) - 1
                            ELSE IF p \in T THEN Cardinality(S) + 1 ELSE Cardinality(S)
<1>0. IsFiniteSet(S) /\ Cardinality(S) \in Nat
    BY AtCount
<1>1. CASE p \in S <=> p \in T
  <2>1. S = T
    BY <1>1
  <2> QED
    BY <1>1, <2>1
<1>2. CASE p \in S /\ p \notin T
  <2>1. T = S \ {p}
    BY <1>2
  <2> QED
    BY <1>0, <1>2, <2>1, FS_RemoveElement
<1>3. CASE p \notin S /\ p \in T
  <2>1. T = S \cup {p}
    BY <1>3
  <2> QED
    BY <1>0, <1>3, <2>1, FS_AddElement
<1> QED
    BY <1>1, <1>2, <1>3

\* The two sets are apart, so that together they are pipelines at most.
LEMMA PastOrBehind ==
    ASSUME NEW S \in SUBSET Pushers, NEW T \in SUBSET Pushers, S \cap T = {}
    PROVE  /\ Cardinality(S) + Cardinality(T) <= Cardinality(Pushers)
           /\ Cardinality(S) \in Nat /\ Cardinality(T) \in Nat
           /\ Cardinality(Pushers) \in Nat
<1>1. /\ IsFiniteSet(S) /\ IsFiniteSet(T)
      /\ Cardinality(S) \in Nat /\ Cardinality(T) \in Nat
    BY AtCount
<1>2. Cardinality(S \cup T) = Cardinality(S) + Cardinality(T) - Cardinality({})
    BY <1>1, FS_Union
<1>3. Cardinality({}) = 0
    BY FS_EmptySet
<1>4. S \cup T \in SUBSET Pushers
    OBVIOUS
<1>5. Cardinality(S \cup T) <= Cardinality(Pushers) /\ Cardinality(Pushers) \in Nat
    BY <1>4, AtCount
<1> QED
    BY <1>1, <1>2, <1>3, <1>5

\* A step of the pipeline p, seen by the key k.
LEMMA OneMoves ==
    ASSUME TypeOK, TypeOK', NEW p \in Pushers, NEW k \in Keys, FewDuplicates(k),
           \A q \in Pushers \ {p} : pc'[q] = pc[q] /\ todo'[q] = todo[q],
           faults' >= faults,
           \/ /\ window'[k] = window[k]
              /\ k \in locks => k \in locks'
              /\ p \in Past(k)' =>
                    p \in Past(k) \/ (k \notin locks /\ p \notin Behind(k))
              /\ p \in Behind(k) =>
                    p \in Behind(k)' \/ k \in locks' \/ faults' = faults + 1
           \/ /\ window'[k] = window[k] + 1 /\ locks' = locks
              /\ p \in Past(k) /\ p \notin Past(k)' /\ p \notin Behind(k)
              /\ p \in Behind(k)' \/ faults' = faults + 1
    PROVE  FewDuplicates(k)'
<1> DEFINE A == Past(k)  B == Behind(k)  A1 == Past(k)'  B1 == Behind(k)'
<1>1. /\ A \in SUBSET Pushers /\ B \in SUBSET Pushers
      /\ A1 \in SUBSET Pushers /\ B1 \in SUBSET Pushers
      /\ A \cap B = {} /\ A1 \cap B1 = {}
    BY DEF Past, Behind
<1>2. \A q \in Pushers \ {p} : (q \in A <=> q \in A1) /\ (q \in B <=> q \in B1)
    BY DEF Past, Behind, Lock, InHand
<1>3. Cardinality(A1) = IF p \in A
                        THEN IF p \in A1 THEN Cardinality(A) ELSE Cardinality(A) - 1
                        ELSE IF p \in A1 THEN Cardinality(A) + 1 ELSE Cardinality(A)
    BY <1>1, <1>2, CountStep
<1>4. Cardinality(B1) = IF p \in B
                        THEN IF p \in B1 THEN Cardinality(B) ELSE Cardinality(B) - 1
                        ELSE IF p \in B1 THEN Cardinality(B) + 1 ELSE Cardinality(B)
    BY <1>1, <1>2, CountStep
<1>5. /\ Cardinality(A1) + Cardinality(B1) <= Cardinality(Pushers)
      /\ Cardinality(A1) \in Nat /\ Cardinality(B1) \in Nat /\ Cardinality(Pushers) \in Nat
    BY <1>1, PastOrBehind
<1>6. Cardinality(A) \in Nat /\ Cardinality(B) \in Nat
    BY <1>1, PastOrBehind
<1>7. window[k] \in Nat /\ window'[k] \in Nat /\ faults \in Nat /\ faults' \in Nat
    BY DEF TypeOK
<1>8. /\ k \notin locks => window[k] <= Cardinality(B) + faults
      /\ window[k] + Cardinality(A) <= Cardinality(Pushers) + faults
    BY DEF FewDuplicates
<1>9. ASSUME /\ k \notin locks' => window'[k] <= Cardinality(B1) + faults'
             /\ window'[k] + Cardinality(A1) <= Cardinality(Pushers) + faults'
      PROVE  FewDuplicates(k)'
    BY <1>9 DEF FewDuplicates
<1> HIDE DEF A, B, A1, B1
<1>10. CASE /\ window'[k] = window[k] /\ (k \in locks => k \in locks')
            /\ p \in A1 => p \in A \/ (k \notin locks /\ p \notin B)
            /\ p \in B => p \in B1 \/ k \in locks' \/ faults' = faults + 1
    BY <1>3, <1>4, <1>5, <1>6, <1>7, <1>8, <1>9, <1>10
<1>11. CASE /\ window'[k] = window[k] + 1 /\ locks' = locks
            /\ p \in A /\ p \notin A1 /\ p \notin B
            /\ p \in B1 \/ faults' = faults + 1
    BY <1>3, <1>4, <1>5, <1>6, <1>7, <1>8, <1>9, <1>11
<1> QED
    BY <1>10, <1>11 DEF A, B, A1, B1

LEMMA DuplicatesInit == Init => DuplicatesInv
<1> SUFFICES ASSUME Init, NEW k \in Keys PROVE FewDuplicates(k)
    BY DEF DuplicatesInv
<1>1. Past(k) = {} /\ Behind(k) = {}
    BY DEF Init, Past, Behind
<1>2. Cardinality({}) = 0
    BY FS_EmptySet
<1>3. Cardinality(Pushers) \in Nat
    BY AtCount
<1>4. window[k] = 0 /\ faults = 0
    BY DEF Init
<1> QED
    BY <1>1, <1>2, <1>3, <1>4 DEF FewDuplicates

\* A step that leaves the pipelines, the locks and the counts of k alone.
LEMMA NobodyMoves ==
    ASSUME TypeOK, TypeOK', NEW k \in Keys, FewDuplicates(k),
           pc' = pc, todo' = todo, k \in locks' <=> k \in locks,
           window'[k] = window[k], faults' >= faults
    PROVE  FewDuplicates(k)'
<1>1. Past(k)' = Past(k) /\ Behind(k)' = Behind(k)
    BY DEF Past, Behind, Lock, InHand
<1>2. Past(k) \in SUBSET Pushers /\ Behind(k) \in SUBSET Pushers
    BY DEF Past, Behind
<1>3. /\ Cardinality(Past(k)) \in Nat /\ Cardinality(Behind(k)) \in Nat
      /\ Cardinality(Pushers) \in Nat
    BY <1>2, AtCount
<1>4. window[k] \in Nat /\ faults \in Nat /\ faults' \in Nat
    BY DEF TypeOK
<1> QED
    BY <1>1, <1>3, <1>4 DEF FewDuplicates

LEMMA DuplicatesNext ==
    TypeOK /\ TypeOK' /\ DuplicatesInv /\ [Next]_vars => DuplicatesInv'
<1> SUFFICES ASSUME TypeOK, TypeOK', DuplicatesInv, [Next]_vars, NEW k \in Keys
             PROVE  FewDuplicates(k)'
    BY DEF DuplicatesInv
<1>0. FewDuplicates(k) /\ faults \in Nat
    BY DEF DuplicatesInv, TypeOK
<1>1. ASSUME NEW p \in Pushers, PushBatch(p) PROVE FewDuplicates(k)'
  <2>1. /\ pc[p] = "idle" /\ pc'[p] = "exists"
        /\ \A q \in Pushers \ {p} : pc'[q] = pc[q] /\ todo'[q] = todo[q]
    BY <1>1 DEF PushBatch, TypeOK
  <2>2. locks' = locks /\ window' = window /\ faults' = faults
    BY <1>1 DEF PushBatch, history
  <2>3. p \notin Past(k)' /\ p \notin Behind(k)
    BY <2>1 DEF Past, Behind
  <2> QED
    BY <1>0, <2>1, <2>2, <2>3, OneMoves
<1>2. ASSUME NEW p \in Pushers, CheckLock(p) PROVE FewDuplicates(k)'
  <2>1. /\ pc[p] = "exists"
        /\ \A q \in Pushers \ {p} : pc'[q] = pc[q] /\ todo'[q] = todo[q]
    BY <1>2 DEF CheckLock, Returned, TypeOK
  <2>2. \/ pc'[p] \in {"exists", "idle"}
        \/ pc'[p] = "llen" /\ todo' = todo /\ Lock(p) \notin locks
    BY <1>2 DEF CheckLock, Returned, TypeOK
  <2>3. locks' = locks /\ window' = window /\ faults' = faults
    BY <1>2 DEF CheckLock
  <2>4. p \in Past(k)' => k \notin locks
    BY <2>2 DEF Past, Lock, InHand
  <2>5. p \notin Behind(k)
    BY <2>1 DEF Behind
  <2> QED
    BY <1>0, <2>1, <2>3, <2>4, <2>5, OneMoves
<1>3. ASSUME NEW p \in Pushers, CheckSize(p) PROVE FewDuplicates(k)'
  <2>1. /\ pc[p] = "llen"
        /\ \A q \in Pushers \ {p} : pc'[q] = pc[q] /\ todo'[q] = todo[q]
    BY <1>3 DEF CheckSize, Returned, TypeOK
  <2>2. \/ pc'[p] \in {"exists", "idle"}
        \/ pc'[p] = "lpush" /\ todo' = todo
    BY <1>3 DEF CheckSize, Returned, TypeOK
  <2>3. locks' = locks /\ window' = window /\ faults' = faults
    BY <1>3 DEF CheckSize
  <2>4. p \in Past(k)' => p \in Past(k)
    BY <2>1, <2>2 DEF Past, Lock, InHand
  <2>5. p \notin Behind(k)
    BY <2>1 DEF Behind
  <2> QED
    BY <1>0, <2>1, <2>3, <2>4, <2>5, OneMoves
<1>4. ASSUME NEW p \in Pushers, pc[p] = "lpush", Enqueue(p), locks' = locks,
             \A q \in Pushers \ {p} : pc'[q] = pc[q] /\ todo'[q] = todo[q],
             \/ pc'[p] = "setex" /\ todo' = todo /\ faults' = faults
             \/ pc'[p] = "idle" /\ faults' = faults + 1
      PROVE  FewDuplicates(k)'
  <2>1. p \notin Past(k)' /\ p \notin Behind(k) /\ faults' >= faults
    BY <1>0, <1>4 DEF Past, Behind
  <2>2. CASE Lock(p) = k
    <3>1. window'[k] = window[k] + 1
      BY <1>4, <2>2 DEF Enqueue, TypeOK
    <3>2. p \in Past(k)
      BY <1>4, <2>2 DEF Past
    <3>3. p \in Behind(k)' \/ faults' = faults + 1
      BY <1>4, <2>2 DEF Behind, Lock, InHand
    <3> QED
      BY <1>0, <1>4, <2>1, <3>1, <3>2, <3>3, OneMoves
  <2>3. CASE Lock(p) # k
    <3>1. window'[k] = window[k]
      BY <1>4, <2>3 DEF Enqueue, TypeOK
    <3> QED
      BY <1>0, <1>4, <2>1, <3>1, OneMoves
  <2> QED
    BY <2>2, <2>3
<1>5. ASSUME NEW p \in Pushers, LPush(p) PROVE FewDuplicates(k)'
  <2>1. /\ pc[p] = "lpush" /\ Enqueue(p) /\ locks' = locks
        /\ pc'[p] = "setex" /\ todo' = todo /\ faults' = faults
        /\ \A q \in Pushers \ {p} : pc'[q] = pc[q] /\ todo'[q] = todo[q]
    BY <1>5 DEF LPush, TypeOK
  <2> QED
    BY <1>4, <2>1
<1>6. ASSUME NEW p \in Pushers, SetEx(p) PROVE FewDuplicates(k)'
  <2>1. /\ pc[p] = "setex" /\ pc'[p] \in {"exists", "idle"}
        /\ \A q \in Pushers \ {p} : pc'[q] = pc[q] /\ todo'[q] = todo[q]
    BY <1>6 DEF SetEx, Returned, TypeOK
  <2>2. locks' = locks \cup {Lock(p)} /\ window' = window /\ faults' = faults
    BY <1>6 DEF SetEx, history
  <2>3. p \notin Past(k)' /\ (p \in Behind(k) => k \in locks')
    BY <2>1, <2>2 DEF Past, Behind
  <2> QED
    BY <1>0, <2>1, <2>2, <2>3, OneMoves
<1>7. ASSUME NEW p \in Pushers, Interrupted(p) PROVE FewDuplicates(k)'
  <2>1. /\ pc'[p] = "idle" /\ faults' = faults + 1
        /\ \A q \in Pushers \ {p} : pc'[q] = pc[q] /\ todo'[q] = todo[q]
    BY <1>7 DEF Interrupted, TypeOK
  <2>2. p \notin Past(k)' /\ faults' >= faults
    BY <1>0, <2>1 DEF Past
  <2>3. CASE window' = window /\ locks \subseteq locks'
    BY <1>0, <2>1, <2>2, <2>3, OneMoves
  <2>4. CASE pc[p] = "lpush" /\ Enqueue(p) /\ locks' = locks
    BY <1>4, <2>1, <2>4
  <2>5. \/ window' = window /\ locks \subseteq locks'
        \/ pc[p] = "lpush" /\ Enqueue(p) /\ locks' = locks
    BY <1>7 DEF Interrupted
  <2> QED
    BY <2>3, <2>4, <2>5
<1>8. ASSUME NEW j \in Keys, Expire(j) PROVE FewDuplicates(k)'
  <2>1. pc' = pc /\ todo' = todo /\ faults' = faults
    BY <1>8 DEF Expire, pushing
  <2>2. CASE j = k
    <3>1. window'[k] = 0
      BY <1>8, <2>2 DEF Expire, TypeOK
    <3>2. /\ Past(k)' \in SUBSET Pushers /\ Behind(k)' \in SUBSET Pushers
          /\ (Past(k) \cap Behind(k))' = {}
      BY DEF Past, Behind
    <3>3. /\ Cardinality(Past(k)') + Cardinality(Behind(k)') <= Cardinality(Pushers)
          /\ Cardinality(Past(k)') \in Nat /\ Cardinality(Behind(k)') \in Nat
          /\ Cardinality(Pushers) \in Nat
      BY <3>2, PastOrBehind
    <3> HIDE DEF Past, Behind
    <3> QED
      BY <1>0, <2>1, <3>1, <3>3 DEF FewDuplicates
  <2>3. CASE j # k
    <3>1. window'[k] = window[k] /\ (k \in locks' <=> k \in locks)
      BY <1>8, <2>3 DEF Expire, TypeOK
    <3> QED
      BY <1>0, <2>1, <3>1, NobodyMoves
  <2> QED
    BY <2>2, <2>3
<1>9. CASE Pop \/ PopLost \/ UNCHANGED vars
  <2>1. pc' = pc /\ todo' = todo /\ locks' = locks /\ window' = window
    BY <1>9 DEF Pop, PopLost, vars, pushing, history
  <2>2. faults' \in {faults, faults + 1}
    BY <1>9 DEF Pop, PopLost, vars
  <2> QED
    BY <1>0, <2>1, <2>2, NobodyMoves
<1> QED
    BY <1>1, <1>2, <1>3, <1>5, <1>6, <1>7, <1>8, <1>9 DEF Next, Step

\* Within one lock's life a key is queued at most once per pipeline, plus once
\* per interrupted push (AnomalyQueue.push checks and sets the lock in two
\* commands).
THEOREM DuplicatesAreFew == Spec => []DuplicatesBounded
<1>1. TypeOK /\ DuplicatesInv => DuplicatesBounded
  <2> SUFFICES ASSUME TypeOK, DuplicatesInv, NEW k \in Keys
               PROVE  window[k] <= Cardinality(Pushers) + faults
      BY DEF DuplicatesBounded
  <2>1. Past(k) \in SUBSET Pushers
      BY DEF Past
  <2>2. Cardinality(Past(k)) \in Nat /\ Cardinality(Pushers) \in Nat
      BY <2>1, AtCount
  <2>3. window[k] \in Nat /\ faults \in Nat
      BY DEF TypeOK
  <2>4. window[k] + Cardinality(Past(k)) <= Cardinality(Pushers) + faults
      BY DEF DuplicatesInv, FewDuplicates
  <2> QED
      BY <2>2, <2>3, <2>4
<1> QED
    BY <1>1, TypeCorrect, DuplicatesInit, DuplicatesNext, PTL DEF Spec
=============================================================================
