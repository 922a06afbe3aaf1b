------------------------ MODULE IngestionServiceProofs ------------------------
(***************************************************************************)
(* Proofs about IngestionService, and so about LogProducer and Normaliser. *)
(*                                                                         *)
(* Two invariants go together.  PInv is about the producer: the state of a *)
(* send() says where its entry may be, so that what failed is nowhere in   *)
(* Kafka, and every place in the client is an entry's own, so that a full  *)
(* client took as many; it holds of Next, which every step implies.  SInv  *)
(* is about the pool: a create_pool() under way while another pool exists  *)
(* has an overlap of its own, and tables that are missing have a caller    *)
(* that makes them.                                                        *)
(***************************************************************************)
EXTENDS IngestionService, FiniteSetTheorems, TLAPS

-----------------------------------------------------------------------------
(* Sequences and what is in them.                                          *)

LEMMA InType == ASSUME NEW q \in Seq(Entries) PROVE In(q) \subseteq Entries
BY DEF In

LEMMA InAppend ==
    ASSUME NEW q \in Seq(Entries), NEW e \in Entries
    PROVE  /\ In(Append(q, e)) = In(q) \cup {e}
           /\ Len(Append(q, e)) = Len(q) + 1 /\ Append(q, e) \in Seq(Entries)
<1>1. /\ Append(q, e) \in Seq(Entries) /\ Len(Append(q, e)) = Len(q) + 1
      /\ DOMAIN Append(q, e) = 1..(Len(q) + 1) /\ DOMAIN q = 1..Len(q) /\ Len(q) \in Nat
      /\ Append(q, e)[Len(q) + 1] = e
      /\ \A i \in 1..Len(q) : Append(q, e)[i] = q[i]
    OBVIOUS
<1> QED
    BY <1>1 DEF In

LEMMA InWithout ==
    ASSUME buffer \in Seq(Entries), NEW i \in DOMAIN buffer
    PROVE  /\ Without(i) \in Seq(Entries) /\ Len(Without(i)) = Len(buffer) - 1
           /\ In(Without(i)) \subseteq In(buffer)
           /\ In(buffer) \subseteq In(Without(i)) \cup {buffer[i]}
           /\ buffer[i] \in In(buffer) /\ buffer[i] \in Entries
<1>1. DOMAIN buffer = 1..Len(buffer) /\ Len(buffer) \in Nat /\ i \in 1..Len(buffer)
    OBVIOUS
<1>2. \A j \in 1..Len(buffer) : buffer[j] \in Entries
    BY <1>1
<1>3. /\ DOMAIN Without(i) = 1..(Len(buffer) - 1)
      /\ \A j \in 1..(Len(buffer) - 1) :
             Without(i)[j] = IF j < i THEN buffer[j] ELSE buffer[j + 1]
    BY DEF Without
<1>4. \A j \in 1..(Len(buffer) - 1) : Without(i)[j] \in Entries
    BY <1>1, <1>2, <1>3
<1>5. Len(buffer) - 1 \in Nat
    BY <1>1
<1>6. Without(i) \in Seq(Entries) /\ Len(Without(i)) = Len(buffer) - 1
    BY <1>3, <1>4, <1>5 DEF Without
<1>7. In(Without(i)) \subseteq In(buffer)
    BY <1>1, <1>3 DEF In
<1>8. ASSUME NEW j \in DOMAIN buffer PROVE buffer[j] \in In(Without(i)) \cup {buffer[i]}
  <2>1. CASE j < i
    <3>1. j \in 1..(Len(buffer) - 1) /\ Without(i)[j] = buffer[j]
      BY <1>1, <1>3, <2>1
    <3> QED
      BY <1>3, <3>1 DEF In
  <2>2. CASE j > i
    <3>1. j - 1 \in 1..(Len(buffer) - 1) /\ Without(i)[j - 1] = buffer[j]
      BY <1>1, <1>3, <2>2
    <3> QED
      BY <1>3, <3>1 DEF In
  <2> QED
    BY <1>1, <2>1, <2>2
<1> QED
    BY <1>2, <1>6, <1>7, <1>8 DEF In

LEMMA InFinite ==
    ASSUME NEW q \in Seq(Entries)
    PROVE  IsFiniteSet(In(q)) /\ Cardinality(In(q)) \in Nat /\ Cardinality(In(q)) <= Len(q)
<1>0. Len(q) \in Nat
    OBVIOUS
<1>1. /\ IsFiniteSet(1..Len(q)) /\ Cardinality(1..Len(q)) = Len(q)
    BY <1>0, FS_Interval
<1>2. q \in Surjection(DOMAIN q, In(q))
    BY DEF Surjection, In
<1>3. DOMAIN q = 1..Len(q)
    OBVIOUS
<1> QED
    BY <1>1, <1>2, <1>3, FS_Surjection, FS_CardinalityType

\* A sequence has at least as many members as the set of what is in it; where it
\* and a set beside it have no more than both have together, they share nothing.
LEMMA Places ==
    ASSUME NEW q \in Seq(Entries), NEW R, IsFiniteSet(R)
    PROVE  LET both == In(q) \cup R
           IN  /\ IsFiniteSet(both) /\ Cardinality(both) \in Nat /\ Cardinality(R) \in Nat
               /\ Len(q) \in Nat
               /\ Cardinality(both) <= Len(q) + Cardinality(R)
               /\ Len(q) + Cardinality(R) <= Cardinality(both) =>
                      Len(q) <= Cardinality(In(q)) /\ In(q) \cap R = {}
<1> DEFINE I == In(q)
           J == I \cap R
<1>1. /\ IsFiniteSet(I) /\ Cardinality(I) \in Nat /\ Cardinality(I) <= Len(q) /\ Len(q) \in Nat
      /\ Cardinality(R) \in Nat
    BY InFinite, FS_CardinalityType
<1>2. /\ IsFiniteSet(I \cup R) /\ Cardinality(I \cup R) \in Nat
      /\ Cardinality(I \cup R) = Cardinality(I) + Cardinality(R) - Cardinality(J)
    BY <1>1, FS_Union, FS_CardinalityType
<1>3. IsFiniteSet(J) /\ Cardinality(J) \in Nat /\ (Cardinality(J) = 0 <=> J = {})
  <2>1. J \in SUBSET I
    OBVIOUS
  <2> QED
    BY <1>1, <2>1, FS_Subset, FS_CardinalityType, FS_EmptySet
<1> HIDE DEF I
<1>4. Cardinality(I \cup R) <= Len(q) + Cardinality(R)
    BY <1>1, <1>2, <1>3
<1>5. Len(q) + Cardinality(R) <= Cardinality(I \cup R) =>
          Len(q) <= Cardinality(I) /\ Cardinality(J) = 0
    BY <1>1, <1>2, <1>3
<1> QED
    BY <1>1, <1>2, <1>3, <1>4, <1>5 DEF I

-----------------------------------------------------------------------------
(* The producer.                                                           *)

\* What holds a place in the client.
Placed == In(buffer) \cup reports

\* How a send() ended says where its entry may be.
SendInv ==
    /\ Placed \cup In(topic) \cup refused \subseteq Taken
    /\ Taken \subseteq In(topic) \cup In(buffer) \cup refused \cup purged
    /\ undelivered \subseteq refused
    /\ In(dlq) \subseteq Under({"failed"})
    /\ Under({"failed"}) \subseteq In(dlq) \cup unwritten
    /\ \A i, j \in DOMAIN dlq : dlq[i] = dlq[j] => i = j
    /\ \A e \in Entries : state[e] # "new" => Normalise(Raw[e]) # {}
    /\ up => purged = {}

\* Every place is an entry's own, and only what holds one is unknown.
PlaceInv ==
    /\ IsFiniteSet(Taken)
    /\ Len(buffer) + Cardinality(reports) <= Cardinality(Placed)
    /\ Under({"raised"}) # {} => Cardinality(Taken) >= BufferLimit
    /\ up => Unknown \subseteq Placed
    /\ ~ up => Cardinality(Unknown) <= BufferLimit

PInv == TypeOK /\ SendInv /\ PlaceInv /\ NoDuplicatesBySend

LEMMA ProducerInit == Init => PInv
<1> SUFFICES ASSUME Init PROVE PInv
    OBVIOUS
<1>1. In(<< >>) = {} /\ Len(<< >>) = 0 /\ << >> \in Seq(Entries) /\ DOMAIN << >> = {}
    BY DEF In
<1>2. Cardinality({}) = 0 /\ IsFiniteSet({})
    BY FS_EmptySet
<1>3. Taken = {} /\ Unknown = {} /\ Under({"failed"}) = {} /\ Under({"raised"}) = {}
    BY DEF Init, Taken, Unknown, Under
<1>4. TypeOK
    BY <1>1, <1>2, ProducerAssumption DEF Init, TypeOK, States
<1>5. SendInv
    BY <1>1, <1>3 DEF Init, SendInv, Placed
<1>6. PlaceInv
  <2>1. Placed = {} /\ Len(buffer) = 0 /\ reports = {} /\ up
    BY <1>1 DEF Init, Placed
  <2> QED
    BY <1>2, <1>3, <2>1 DEF PlaceInv
<1>7. NoDuplicatesBySend
  <2>1. /\ In(topic) \cup In(buffer) = {} /\ Len(topic) = 0 /\ Len(buffer) = 0
        /\ repeats = 0
    BY <1>1 DEF Init
  <2>2. Cardinality(In(topic) \cup In(buffer)) = 0
    BY <2>1, FS_EmptySet
  <2> QED
    BY <2>1, <2>2 DEF NoDuplicatesBySend
<1> QED
    BY <1>4, <1>5, <1>6, <1>7 DEF PInv

\* What the invariant says of types and sizes, in the form the steps use.
LEMMA Facts ==
    ASSUME PInv
    PROVE  /\ state \in [Entries -> States] /\ attempt \in [Entries -> 0 .. MaxRetries - 1]
           /\ buffer \in Seq(Entries) /\ topic \in Seq(Entries) /\ dlq \in Seq(Entries)
           /\ In(buffer) \cup In(topic) \cup In(dlq) \subseteq Entries
           /\ reports \subseteq Entries /\ refused \subseteq Entries
           /\ IsFiniteSet(reports) /\ IsFiniteSet(Placed)
           /\ Len(buffer) \in Nat /\ Cardinality(reports) \in Nat /\ Cardinality(Placed) \in Nat
           /\ Len(topic) \in Nat /\ repeats \in Nat /\ BufferLimit \in Nat /\ MaxRetries \in Nat
           /\ Len(buffer) + Cardinality(reports) <= BufferLimit
           /\ Cardinality(Placed) <= Len(buffer) + Cardinality(reports)
           /\ Len(buffer) <= Cardinality(In(buffer)) /\ In(buffer) \cap reports = {}
<1>1. TypeOK /\ SendInv /\ PlaceInv
    BY DEF PInv
<1>2. /\ buffer \in Seq(Entries) /\ topic \in Seq(Entries) /\ dlq \in Seq(Entries)
      /\ Len(buffer) + Cardinality(reports) <= BufferLimit
    BY <1>1 DEF TypeOK
<1>3. IsFiniteSet(reports)
  <2>1. reports \in SUBSET Taken /\ IsFiniteSet(Taken)
    BY <1>1 DEF SendInv, PlaceInv, Placed
  <2> QED
    BY <2>1, FS_Subset
<1>4. /\ IsFiniteSet(Placed) /\ Cardinality(Placed) \in Nat /\ Cardinality(reports) \in Nat
      /\ Len(buffer) \in Nat
      /\ Cardinality(Placed) <= Len(buffer) + Cardinality(reports)
      /\ Len(buffer) <= Cardinality(In(buffer)) /\ In(buffer) \cap reports = {}
    BY <1>1, <1>2, <1>3, Places DEF PlaceInv, Placed
<1>5. In(buffer) \cup In(topic) \cup In(dlq) \subseteq Entries
    BY <1>2, InType
<1> QED
    BY <1>1, <1>2, <1>3, <1>4, <1>5, ProducerAssumption DEF TypeOK

\* A step that moves no entry that the client has.
LEMMA ClientKept ==
    ASSUME PInv, TypeOK', UNCHANGED <<client, refused, undelivered, purged, repeats, up>>,
           Taken' = Taken,
           Under({"raised"})' # {} =>
               Under({"raised"}) # {} \/ Cardinality(Taken) >= BufferLimit
    PROVE  /\ NoDuplicatesBySend' /\ PlaceInv' /\ Placed' = Placed
           /\ In(buffer)' = In(buffer) /\ In(topic)' = In(topic)
<1>1. /\ In(buffer)' = In(buffer) /\ In(topic)' = In(topic) /\ Placed' = Placed
    BY DEF client, In, Placed
<1>2. Unknown' = Unknown
    BY <1>1 DEF Unknown
<1>3. PlaceInv'
    BY <1>1, <1>2 DEF PInv, PlaceInv, client
<1>4. NoDuplicatesBySend'
    BY <1>1 DEF PInv, NoDuplicatesBySend, client
<1> QED
    BY <1>1, <1>3, <1>4

\* The dead letter of a send() that gives up.
LEMMA DeadLetter ==
    ASSUME PInv, NEW e \in Entries, state[e] = "producing", ReturnFalse(e)
    PROVE  /\ dlq' \in Seq(Entries) /\ unwritten' \in SUBSET Entries
           /\ failed' \in Nat
           /\ In(dlq)' \subseteq In(dlq) \cup {e}
           /\ \A i, j \in DOMAIN dlq' : dlq'[i] = dlq'[j] => i = j
           /\ In(dlq) \subseteq In(dlq)' /\ unwritten \subseteq unwritten'
           /\ e \in In(dlq)' \cup unwritten'
<1>0. /\ dlq \in Seq(Entries) /\ unwritten \subseteq Entries /\ failed \in Nat
      /\ failed' = failed + 1
    BY DEF PInv, TypeOK, ReturnFalse
<1>1. failed' \in Nat
    BY <1>0
<1>2. \A i, j \in DOMAIN dlq : dlq[i] = dlq[j] => i = j
    BY DEF PInv, SendInv
<1>3. CASE dlq' = Append(dlq, e) /\ unwritten' = unwritten
  <2>1. In(dlq)' = In(dlq) \cup {e} /\ dlq' \in Seq(Entries)
    <3>1. In(dlq)' = In(dlq') /\ dlq' = Append(dlq, e)
      BY <1>3 DEF In
    <3> QED
      BY <1>0, <3>1, InAppend
  <2>2. e \notin In(dlq)
    BY DEF PInv, SendInv, Under
  <2>3. \A i, j \in DOMAIN dlq' : dlq'[i] = dlq'[j] => i = j
    <3>1. /\ DOMAIN dlq' = 1..(Len(dlq) + 1) /\ DOMAIN dlq = 1..Len(dlq) /\ Len(dlq) \in Nat
          /\ dlq'[Len(dlq) + 1] = e /\ \A i \in 1..Len(dlq) : dlq'[i] = dlq[i]
      BY <1>0, <1>3
    <3>2. \A i \in DOMAIN dlq : dlq[i] # e
      BY <2>2 DEF In
    <3> QED
      BY <1>2, <3>1, <3>2
  <2> QED
    BY <1>0, <1>1, <1>3, <2>1, <2>3
<1>4. CASE unwritten' = unwritten \cup {e} /\ dlq' = dlq
  <2>1. In(dlq)' = In(dlq)
    BY <1>4 DEF In
  <2> QED
    BY <1>0, <1>1, <1>2, <1>4, <2>1
<1> QED
    BY <1>3, <1>4 DEF ReturnFalse

\* produce() takes an entry: it gets a place of its own.
LEMMA ProduceStep ==
    ASSUME PInv, NEW e \in Entries, Produce(e) PROVE PInv'
<1> USE DEF client, counts, history
<1> USE Facts
<1>0. TypeOK /\ SendInv /\ PlaceInv
    BY DEF PInv
<1>1. /\ state[e] = "producing" /\ state' = [state EXCEPT ![e] = "polling"] /\ up
      /\ buffer' = Append(buffer, e) /\ Len(buffer) + Cardinality(reports) < BufferLimit
      /\ UNCHANGED <<up, attempt, counts, reports, topic, dlq, history>>
    BY DEF Produce, MoveTo, Full
<1>2. /\ In(buffer)' = In(buffer) \cup {e} /\ Len(buffer') = Len(buffer) + 1
      /\ buffer' \in Seq(Entries) /\ In(topic)' = In(topic) /\ In(dlq)' = In(dlq)
  <2>1. /\ In(buffer)' = In(buffer') /\ buffer' = Append(buffer, e)
        /\ In(topic)' = In(topic) /\ In(dlq)' = In(dlq)
    BY <1>1 DEF In
  <2> QED
    BY <2>1, InAppend
<1>3. /\ Taken' = Taken \cup {e} /\ e \notin Taken /\ Under({"failed"})' = Under({"failed"})
      /\ Under({"raised"})' = Under({"raised"})
    BY <1>1 DEF Taken, Under
<1>4. Placed' = Placed \cup {e} /\ e \notin Placed /\ e \notin In(topic) \cup In(buffer)
    BY <1>0, <1>1, <1>2, <1>3 DEF SendInv, Placed
<1>5. TypeOK'
  <2>1. state' \in [Entries -> States]
    BY <1>1 DEF States
  <2> QED
    BY <1>0, <1>1, <1>2, <2>1 DEF TypeOK
<1>6. SendInv'
    BY <1>0, <1>1, <1>2, <1>3, <1>4 DEF SendInv
<1>7. PlaceInv'
  <2>1. Cardinality(Placed') = Cardinality(Placed) + 1
    BY <1>4, FS_AddElement
  <2>2. IsFiniteSet(Taken') /\ Cardinality(Taken') = Cardinality(Taken) + 1
        /\ Cardinality(Taken) \in Nat
    BY <1>0, <1>3, FS_AddElement, FS_CardinalityType DEF PlaceInv
  <2>3. Unknown' \subseteq Placed'
    BY <1>0, <1>1, <1>2, <1>3, <1>4 DEF PlaceInv, Unknown
  <2>4. Len(buffer') + Cardinality(reports') <= Cardinality(Placed')
    BY <1>0, <1>1, <1>2, <2>1 DEF PlaceInv
  <2>5. Under({"raised"})' # {} => Cardinality(Taken') >= BufferLimit
    BY <1>0, <1>3, <2>2 DEF PlaceInv
  <2> QED
    BY <1>1, <2>2, <2>3, <2>4, <2>5 DEF PlaceInv
<1>8. NoDuplicatesBySend'
  <2> DEFINE A == In(topic) \cup In(buffer)
  <2>1. IsFiniteSet(A) /\ Cardinality(A) \in Nat
    BY InFinite, FS_Union, FS_CardinalityType
  <2>2. In(topic)' \cup In(buffer)' = A \cup {e} /\ e \notin A
    BY <1>2, <1>4
  <2>3. Cardinality(A \cup {e}) = Cardinality(A) + 1
    BY <2>1, <2>2, FS_AddElement
  <2>4. Len(topic) + Len(buffer) <= Cardinality(A) + repeats
    BY DEF PInv, NoDuplicatesBySend
  <2> HIDE DEF A
  <2>5. NoDuplicatesBySend' <=> Len(topic') + Len(buffer')
                  <= Cardinality(In(topic)' \cup In(buffer)') + repeats'
    BY DEF NoDuplicatesBySend
  <2>6. Cardinality(In(topic)' \cup In(buffer)') = Cardinality(A) + 1
    BY <2>2, <2>3
  <2> QED
    BY <1>1, <1>2, <2>1, <2>4, <2>5, <2>6
<1> QED
    BY <1>5, <1>6, <1>7, <1>8 DEF PInv

\* poll(0) frees the places of the reports: what was unknown among them is
\* logged now, or in the topic.
LEMMA PollStep ==
    ASSUME PInv, NEW e \in Entries, Poll(e) PROVE PInv'
<1> USE DEF client, counts, history
<1> USE Facts
<1>0. TypeOK /\ SendInv /\ PlaceInv
    BY DEF PInv
<1>1. /\ state[e] = "polling" /\ state' = [state EXCEPT ![e] = "sent"] /\ up /\ purged = {}
      /\ attempt' = [attempt EXCEPT ![e] = 0] /\ sent' = sent + 1
      /\ reports' = {} /\ undelivered' = undelivered \cup (reports \cap refused)
      /\ UNCHANGED <<up, failed, buffer, topic, dlq, unwritten, refused, purged, repeats>>
    BY <1>0 DEF Poll, ReturnTrue, Ends, MoveTo, SendInv
<1>2. /\ In(buffer)' = In(buffer) /\ In(topic)' = In(topic) /\ In(dlq)' = In(dlq)
      /\ Placed' = In(buffer) /\ Cardinality(reports') = 0
    BY <1>1, FS_EmptySet DEF In, Placed
<1>3. /\ Taken' = Taken /\ Under({"failed"})' = Under({"failed"})
      /\ Under({"raised"})' = Under({"raised"})
    BY <1>1 DEF Taken, Under
<1>4. TypeOK'
  <2>1. state' \in [Entries -> States] /\ attempt' \in [Entries -> 0 .. MaxRetries - 1]
    BY <1>1, ProducerAssumption DEF States
  <2>2. /\ sent' \in Nat /\ undelivered' \subseteq Entries
        /\ Len(buffer) + Cardinality(reports') <= BufferLimit
    BY <1>0, <1>1, <1>2 DEF TypeOK
  <2> QED
    BY <1>0, <1>1, <2>1, <2>2 DEF TypeOK
<1>5. SendInv'
    BY <1>0, <1>1, <1>2, <1>3 DEF SendInv, Placed
<1>6. PlaceInv'
  <2>1. Unknown' \subseteq In(buffer)
    BY <1>0, <1>1, <1>2, <1>3 DEF Unknown, SendInv, PlaceInv, Placed
  <2>2. Len(buffer') + Cardinality(reports') <= Cardinality(Placed')
    BY <1>1, <1>2
  <2> QED
    BY <1>0, <1>1, <1>2, <1>3, <2>1, <2>2 DEF PlaceInv
<1>7. NoDuplicatesBySend'
    BY <1>1, <1>2 DEF PInv, NoDuplicatesBySend
<1> QED
    BY <1>4, <1>5, <1>6, <1>7 DEF PInv

\* The other steps of send() leave the client alone.  A BufferError needs a full
\* client, and so as many entries taken.
LEMMA SendStep ==
    ASSUME PInv, NEW e \in Entries, Step(e) PROVE PInv'
<1> USE DEF client, counts, history
<1> USE Facts
<1>0. TypeOK /\ SendInv /\ PlaceInv
    BY DEF PInv
<1>1. ASSUME NEW l \in {"raised", "producing", "backoff"}, state' = [state EXCEPT ![e] = l],
             state[e] \in {"producing", "backoff"},
             attempt' \in [Entries -> 0 .. MaxRetries - 1],
             l = "raised" => Cardinality(Taken) >= BufferLimit,
             UNCHANGED <<up, counts, client, dlq, history>>
      PROVE  PInv'
  <2>1. TypeOK'
    BY <1>0, <1>1 DEF TypeOK, States
  <2>2. /\ Taken' = Taken /\ Under({"failed"})' = Under({"failed"})
        /\ l # "raised" => Under({"raised"})' \subseteq Under({"raised"})
    BY <1>1 DEF Taken, Under
  <2>3. In(dlq)' = In(dlq)
    BY <1>1 DEF In
  <2>4. /\ NoDuplicatesBySend' /\ PlaceInv' /\ Placed' = Placed
        /\ In(buffer)' = In(buffer) /\ In(topic)' = In(topic)
    BY <1>1, <2>1, <2>2, ClientKept
  <2>5. SendInv'
    BY <1>0, <1>1, <2>2, <2>3, <2>4 DEF SendInv
  <2> QED
    BY <2>1, <2>4, <2>5 DEF PInv
<1>2. CASE BufferError(e)
  <2>1. /\ state[e] = "producing" /\ state' = [state EXCEPT ![e] = "raised"] /\ Full
        /\ attempt' = [attempt EXCEPT ![e] = 0]
        /\ UNCHANGED <<up, counts, client, dlq, history>>
    BY <1>2 DEF BufferError, Ends, MoveTo
  <2>2. attempt' \in [Entries -> 0 .. MaxRetries - 1]
    BY <2>1, ProducerAssumption
  <2>3. Cardinality(Placed) <= Cardinality(Taken) /\ Cardinality(Taken) \in Nat
    <3>1. Placed \in SUBSET Taken /\ IsFiniteSet(Taken)
      BY <1>0 DEF SendInv, PlaceInv
    <3> QED
      BY <3>1, FS_Subset, FS_CardinalityType
  <2>4. Cardinality(Taken) >= BufferLimit
    BY <1>0, <2>1, <2>3 DEF Full, PlaceInv
  <2> QED
    BY <1>1, <2>1, <2>2, <2>4
<1>3. CASE Backoff(e)
    BY <1>1, <1>3 DEF Backoff, MoveTo
<1>4. CASE ProduceRaises(e)
  <2>1. /\ state[e] = "producing"
        /\ UNCHANGED <<up, sent, client, refused, undelivered, purged, repeats>>
    BY <1>4 DEF ProduceRaises
  <2>2. CASE Again(attempt[e] + 1) /\ Retry(e)
    <3>1. /\ state' = [state EXCEPT ![e] = "backoff"] /\ attempt[e] + 1 < MaxRetries
          /\ attempt' = [attempt EXCEPT ![e] = @ + 1]
          /\ UNCHANGED <<failed, dlq, unwritten>>
      BY <2>2 DEF Retry, MoveTo, Again
    <3>2. attempt' \in [Entries -> 0 .. MaxRetries - 1]
      BY <3>1
    <3> QED
      BY <1>1, <2>1, <3>1, <3>2
  <2>3. CASE ReturnFalse(e)
    <3>1. state' = [state EXCEPT ![e] = "failed"] /\ attempt' = [attempt EXCEPT ![e] = 0]
      BY <2>3 DEF ReturnFalse, Ends, MoveTo
    <3>2. /\ dlq' \in Seq(Entries) /\ unwritten' \in SUBSET Entries
          /\ failed' \in Nat
          /\ In(dlq)' \subseteq In(dlq) \cup {e}
          /\ \A i, j \in DOMAIN dlq' : dlq'[i] = dlq'[j] => i = j
          /\ In(dlq) \subseteq In(dlq)' /\ unwritten \subseteq unwritten'
          /\ e \in In(dlq)' \cup unwritten'
      BY <2>1, <2>3, DeadLetter
    <3>3. TypeOK'
      <4>1. state' \in [Entries -> States] /\ attempt' \in [Entries -> 0 .. MaxRetries - 1]
        BY <3>1, ProducerAssumption DEF States
      <4> QED
        BY <1>0, <2>1, <3>2, <4>1 DEF TypeOK
    <3>4. /\ Taken' = Taken /\ Under({"failed"})' = Under({"failed"}) \cup {e}
          /\ Under({"raised"})' = Under({"raised"})
      BY <2>1, <3>1 DEF Taken, Under
    <3>5. /\ NoDuplicatesBySend' /\ PlaceInv' /\ Placed' = Placed
          /\ In(buffer)' = In(buffer) /\ In(topic)' = In(topic)
      BY <2>1, <3>3, <3>4, ClientKept
    <3>6. SendInv'
      <4>1. In(dlq)' \subseteq Under({"failed"})' /\ Under({"failed"})' \subseteq In(dlq)' \cup unwritten'
        BY <1>0, <3>2, <3>4 DEF SendInv
      <4>2. \A f \in Entries : state'[f] # "new" => Normalise(Raw[f]) # {}
        BY <1>0, <2>1, <3>1 DEF SendInv
      <4> QED
        BY <1>0, <2>1, <3>2, <3>4, <3>5, <4>1, <4>2 DEF SendInv
    <3> QED
      BY <3>3, <3>5, <3>6 DEF PInv
  <2> QED
    BY <1>4, <2>2, <2>3 DEF ProduceRaises
<1> QED
    BY <1>2, <1>3, <1>4, ProduceStep, PollStep DEF Step

\* An entry leaves the buffer for the reports: it keeps its place.
LEMMA ToReports ==
    ASSUME PInv, NEW i \in DOMAIN buffer,
           buffer' = Without(i), reports' = reports \cup {buffer[i]}
    PROVE  /\ buffer' \in Seq(Entries) /\ reports' \subseteq Entries
           /\ Len(buffer') = Len(buffer) - 1 /\ Len(buffer') \in Nat
           /\ Cardinality(reports') = Cardinality(reports) + 1
           /\ Placed' = Placed
           /\ In(buffer)' \subseteq In(buffer) /\ In(buffer) \subseteq In(buffer)' \cup {buffer[i]}
<1> DEFINE e == buffer[i]
<1> USE Facts
<1>1. /\ Without(i) \in Seq(Entries) /\ Len(Without(i)) = Len(buffer) - 1
      /\ In(Without(i)) \subseteq In(buffer) /\ In(buffer) \subseteq In(Without(i)) \cup {e}
      /\ e \in In(buffer) /\ e \in Entries
    BY InWithout
<1>2. In(buffer)' = In(Without(i))
    BY DEF In
<1>3. Placed' = Placed
    BY <1>1, <1>2 DEF Placed
<1>4. e \notin reports
    BY <1>1
<1>5. Cardinality(reports') = Cardinality(reports) + 1
    BY <1>4, FS_AddElement
<1>6. Len(buffer) - 1 \in Nat
    BY <1>1
<1> QED
    BY <1>1, <1>2, <1>3, <1>5, <1>6

\* An entry reaches the topic, and leaves the buffer or is repeated.
LEMMA DeliverStep ==
    ASSUME PInv, NEW i \in DOMAIN buffer, Deliver(i) PROVE PInv'
<1> USE DEF client, counts, history
<1> USE Facts
<1> DEFINE e == buffer[i]
<1>0. TypeOK /\ SendInv /\ PlaceInv
    BY DEF PInv
<1>1. e \in In(buffer) /\ e \in Entries /\ up
    BY InWithout DEF Deliver
<1>2. /\ topic' = Append(topic, e)
      /\ UNCHANGED <<up, state, attempt, counts, dlq, unwritten, refused, undelivered, purged>>
    BY DEF Deliver
<1>3. /\ In(topic)' = In(topic) \cup {e} /\ Len(topic') = Len(topic) + 1
      /\ topic' \in Seq(Entries) /\ In(dlq)' = In(dlq)
  <2>1. In(topic)' = In(topic') /\ In(dlq)' = In(dlq)
    BY <1>2 DEF In
  <2> QED
    BY <1>1, <1>2, <2>1, InAppend
<1>4. /\ buffer' \in Seq(Entries) /\ reports' \subseteq Entries
      /\ Len(buffer') \in Nat /\ repeats' \in Nat
      /\ Len(buffer') + 1 + repeats = Len(buffer) + repeats'
      /\ Len(buffer') + Cardinality(reports') = Len(buffer) + Cardinality(reports)
      /\ Placed' = Placed
      /\ In(buffer)' \subseteq In(buffer) /\ In(buffer) \subseteq In(buffer)' \cup {e}
  <2>1. CASE buffer' = Without(i) /\ reports' = reports \cup {e} /\ repeats' = repeats
    <3>1. /\ buffer' \in Seq(Entries) /\ reports' \subseteq Entries
          /\ Len(buffer') = Len(buffer) - 1 /\ Len(buffer') \in Nat
          /\ Cardinality(reports') = Cardinality(reports) + 1
          /\ Placed' = Placed
          /\ In(buffer)' \subseteq In(buffer) /\ In(buffer) \subseteq In(buffer)' \cup {e}
      BY <2>1, ToReports
    <3> HIDE DEF e
    <3> QED
      BY <2>1, <3>1
  <2>2. CASE repeats' = repeats + 1 /\ buffer' = buffer /\ reports' = reports
    <3>1. In(buffer)' = In(buffer) /\ Placed' = Placed
      BY <2>2 DEF In, Placed
    <3>2. /\ Len(buffer') = Len(buffer) /\ Cardinality(reports') = Cardinality(reports)
          /\ repeats' = repeats + 1 /\ repeats \in Nat /\ Len(buffer) \in Nat
      BY <2>2
    <3>3. Len(buffer') + 1 + repeats = Len(buffer) + repeats' /\ repeats' \in Nat
      BY <3>2
    <3> QED
      BY <2>2, <3>1, <3>2, <3>3
  <2> QED
    BY <2>1, <2>2 DEF Deliver
<1> HIDE DEF e
<1>5. /\ Taken' = Taken /\ Under({"failed"})' = Under({"failed"})
      /\ Under({"raised"})' = Under({"raised"})
    BY <1>2 DEF Taken, Under
<1>6. TypeOK'
    BY <1>0, <1>2, <1>3, <1>4 DEF TypeOK
<1>7. SendInv'
    BY <1>0, <1>1, <1>2, <1>3, <1>4, <1>5 DEF SendInv, Placed
<1>8. PlaceInv'
  <2>1. Unknown' \subseteq Unknown
    BY <1>2, <1>3, <1>5 DEF Unknown
  <2> QED
    BY <1>0, <1>1, <1>2, <1>4, <1>5, <2>1 DEF PlaceInv
<1>9. NoDuplicatesBySend'
  <2>1. In(topic)' \cup In(buffer)' = In(topic) \cup In(buffer)
    BY <1>1, <1>3, <1>4
  <2>2. NoDuplicatesBySend' <=> Len(topic') + Len(buffer')
                  <= Cardinality(In(topic)' \cup In(buffer)') + repeats'
    BY DEF NoDuplicatesBySend
  <2>3. Len(topic) + Len(buffer) <= Cardinality(In(topic) \cup In(buffer)) + repeats
    BY DEF PInv, NoDuplicatesBySend
  <2>4. Cardinality(In(topic) \cup In(buffer)) \in Nat
    BY InFinite, FS_Union, FS_CardinalityType
  <2> DEFINE n == Cardinality(In(topic) \cup In(buffer))
  <2>5. NoDuplicatesBySend' <=> Len(topic') + Len(buffer') <= n + repeats'
    BY <2>1, <2>2
  <2>6. /\ Len(topic') = Len(topic) + 1
        /\ Len(buffer') + 1 + repeats = Len(buffer) + repeats'
        /\ Len(topic) \in Nat /\ Len(buffer) \in Nat /\ Len(buffer') \in Nat
        /\ repeats \in Nat /\ repeats' \in Nat
    BY <1>3, <1>4
  <2>7. Len(topic) + Len(buffer) <= n + repeats /\ n \in Nat
    BY <2>3, <2>4
  <2> HIDE Facts DEF n
  <2>8. Len(topic') + Len(buffer') <= n + repeats'
    BY <2>6, <2>7
  <2> QED
    BY <2>5, <2>8
<1> QED
    BY <1>6, <1>7, <1>8, <1>9 DEF PInv

\* An entry is given up: unknown, until its report is served.
LEMMA FailStep ==
    ASSUME PInv, NEW i \in DOMAIN buffer, DeliveryFails(i) PROVE PInv'
<1> USE DEF client, counts, history
<1> USE Facts
<1> DEFINE e == buffer[i]
<1>0. TypeOK /\ SendInv /\ PlaceInv
    BY DEF PInv
<1>1. /\ e \in In(buffer) /\ e \in Entries /\ up
      /\ buffer' = Without(i) /\ reports' = reports \cup {e} /\ refused' = refused \cup {e}
      /\ UNCHANGED <<up, state, attempt, counts, topic, dlq, unwritten, undelivered, purged, repeats>>
    BY InWithout DEF DeliveryFails
<1>2. /\ buffer' \in Seq(Entries) /\ reports' \subseteq Entries
      /\ Len(buffer') = Len(buffer) - 1 /\ Len(buffer') \in Nat
      /\ Cardinality(reports') = Cardinality(reports) + 1
      /\ Placed' = Placed
      /\ In(buffer)' \subseteq In(buffer) /\ In(buffer) \subseteq In(buffer)' \cup {e}
    BY <1>1, ToReports
<1>3. In(topic)' = In(topic) /\ In(dlq)' = In(dlq)
    BY <1>1 DEF In
<1> HIDE DEF e
<1>4. /\ Taken' = Taken /\ Under({"failed"})' = Under({"failed"})
      /\ Under({"raised"})' = Under({"raised"}) /\ Unknown' = Unknown
    BY <1>1, <1>3 DEF Taken, Under, Unknown
<1>5. TypeOK'
  <2>1. Len(buffer') + Cardinality(reports') <= BufferLimit /\ refused' \subseteq Entries
    BY <1>1, <1>2
  <2> QED
    BY <1>0, <1>1, <1>2, <2>1 DEF TypeOK
<1>6. SendInv'
    BY <1>0, <1>1, <1>2, <1>3, <1>4 DEF SendInv, Placed
<1>7. PlaceInv'
    BY <1>0, <1>1, <1>2, <1>4 DEF PlaceInv
<1>8. NoDuplicatesBySend'
  <2> DEFINE A == In(topic) \cup In(buffer)
             B == In(topic)' \cup In(buffer)'
  <2>1. IsFiniteSet(A) /\ Cardinality(A) \in Nat
    BY InFinite, FS_Union, FS_CardinalityType
  <2>2. B \in SUBSET A /\ A = B \cup (A \cap {e})
    BY <1>2, <1>3
  <2>3. IsFiniteSet(B) /\ Cardinality(B) \in Nat
    BY <2>1, <2>2, FS_Subset, FS_CardinalityType
  <2>4. Cardinality(A) <= Cardinality(B) + 1
    <3>1. A = B \/ A = B \cup {e}
      BY <2>2
    <3>2. CASE A = B \/ e \in B
      <4>1. A = B
        BY <3>1, <3>2
      <4> HIDE DEF A, B
      <4> QED
        BY <2>3, <4>1
    <3>3. CASE A = B \cup {e} /\ e \notin B
      <4>1. Cardinality(B \cup {e}) = Cardinality(B) + 1
        BY <2>3, <3>3, FS_AddElement
      <4> HIDE DEF A, B
      <4> QED
        BY <2>3, <3>3, <4>1
    <3> QED
      BY <3>1, <3>2, <3>3
  <2>5. NoDuplicatesBySend' <=> Len(topic') + Len(buffer') <= Cardinality(B) + repeats'
    BY DEF NoDuplicatesBySend
  <2>6. Len(topic) + Len(buffer) <= Cardinality(A) + repeats
    BY DEF PInv, NoDuplicatesBySend
  <2>7. /\ topic' = topic /\ repeats' = repeats /\ Len(buffer') = Len(buffer) - 1
        /\ Len(topic) \in Nat /\ Len(buffer) \in Nat /\ repeats \in Nat
    BY <1>1, <1>2
  <2> HIDE Facts DEF A, B
  <2>8. Len(topic') + Len(buffer') <= Cardinality(B) + repeats'
    BY <2>1, <2>3, <2>4, <2>6, <2>7
  <2> QED
    BY <2>5, <2>8
<1> QED
    BY <1>5, <1>6, <1>7, <1>8 DEF PInv

\* While the process runs, what is unknown holds a place.
LEMMA UnknownBounded == PInv => Cardinality(Unknown) <= BufferLimit
<1> SUFFICES ASSUME PInv, up PROVE Cardinality(Unknown) <= BufferLimit
    BY DEF PInv, PlaceInv
<1>1. Unknown \in SUBSET Placed
    BY DEF PInv, PlaceInv
<1>2. Cardinality(Unknown) <= Cardinality(Placed) /\ Cardinality(Unknown) \in Nat
    BY <1>1, Facts, FS_Subset, FS_CardinalityType
<1> QED
    BY <1>2, Facts

\* The buffer and the reports end with the process: what was unknown remains so.
LEMMA ShutdownStep ==
    ASSUME PInv, Shutdown PROVE PInv'
<1> USE DEF client, counts, history
<1> USE Facts
<1>0. TypeOK /\ SendInv /\ PlaceInv
    BY DEF PInv
<1>1. /\ buffer' = << >> /\ reports' = {} /\ up' = FALSE /\ up
      /\ purged' = In(buffer) \cup Under({"producing", "backoff"}) \cup (reports \cap refused)
      /\ UNCHANGED <<state, attempt, counts, topic, dlq, unwritten, refused, undelivered, repeats>>
      /\ purged = {}
    BY <1>0 DEF Shutdown, SendInv
<1>2. /\ In(buffer)' = {} /\ In(topic)' = In(topic) /\ In(dlq)' = In(dlq)
      /\ Len(buffer') = 0 /\ buffer' \in Seq(Entries) /\ Placed' = {}
      /\ Cardinality(reports') = 0
    BY <1>1, FS_EmptySet DEF In, Placed
<1>3. purged' \subseteq Entries
    BY <1>1 DEF Under
<1>4. /\ Taken' = Taken /\ Under({"failed"})' = Under({"failed"})
      /\ Under({"raised"})' = Under({"raised"}) /\ Unknown' = Unknown
    BY <1>1, <1>2 DEF Taken, Under, Unknown
<1>5. TypeOK'
  <2>1. Len(buffer') + Cardinality(reports') <= BufferLimit
    BY <1>2
  <2>2. up' \in BOOLEAN
    BY <1>1
  <2> QED
    BY <1>0, <1>1, <1>2, <1>3, <2>1, <2>2 DEF TypeOK
<1>6. SendInv'
    BY <1>0, <1>1, <1>2, <1>4 DEF SendInv, Placed
<1>7. PlaceInv'
  <2>1. Cardinality(Placed') = 0
    BY <1>2, FS_EmptySet
  <2>2. Cardinality(Unknown') <= BufferLimit
    BY <1>4, UnknownBounded
  <2> QED
    BY <1>0, <1>1, <1>2, <1>4, <2>1, <2>2 DEF PlaceInv
<1>8. NoDuplicatesBySend'
  <2> DEFINE T == In(topic)  B == In(buffer)
  <2>1. /\ IsFiniteSet(T) /\ Cardinality(T) \in Nat
        /\ IsFiniteSet(B) /\ Cardinality(B) \in Nat /\ Cardinality(B) <= Len(buffer)
    BY InFinite
  <2>2. Cardinality(T \cup B) <= Cardinality(T) + Cardinality(B)
    <3>1. Cardinality(T \cup B) = Cardinality(T) + Cardinality(B) - Cardinality(T \cap B)
      BY <2>1, FS_Union
    <3>2. T \cap B \in SUBSET T
      OBVIOUS
    <3>3. Cardinality(T \cap B) \in Nat
      BY <2>1, <3>2, FS_Subset, FS_CardinalityType
    <3> HIDE DEF T, B
    <3> QED
      BY <2>1, <3>1, <3>3
  <2>3. Len(topic) + Len(buffer) <= Cardinality(T \cup B) + repeats
    BY DEF PInv, NoDuplicatesBySend
  <2>4. Cardinality(T \cup B) \in Nat
    BY <2>1, FS_Union, FS_CardinalityType
  <2>5. In(topic)' \cup In(buffer)' = T
    BY <1>2
  <2>6. NoDuplicatesBySend' <=> Len(topic') + Len(buffer')
                  <= Cardinality(In(topic)' \cup In(buffer)') + repeats'
    BY DEF NoDuplicatesBySend
  <2>7. NoDuplicatesBySend' <=> Len(topic) + 0 <= Cardinality(T) + repeats
    BY <1>1, <1>2, <2>5, <2>6
  <2> HIDE DEF T, B
  <2> QED
    BY <2>1, <2>2, <2>3, <2>4, <2>7
<1> QED
    BY <1>5, <1>6, <1>7, <1>8 DEF PInv

LEMMA AcceptStep ==
    ASSUME PInv, NEW request \in SUBSET Entries, Accept(request) PROVE PInv'
<1> USE DEF client, counts, history
<1> USE Facts
<1>0. TypeOK /\ SendInv /\ PlaceInv
    BY DEF PInv
<1>1. /\ state' = [e \in Entries |-> IF e \in request THEN "producing" ELSE state[e]]
      /\ \A e \in request : state[e] = "new" /\ Normalise(Raw[e]) # {}
      /\ UNCHANGED <<up, attempt, counts, client, dlq, history>>
    BY DEF Accept, Under
<1>2. TypeOK'
  <2>1. state' \in [Entries -> States]
    BY <1>1 DEF States
  <2> QED
    BY <1>0, <1>1, <2>1 DEF TypeOK
<1>3. /\ Taken' = Taken /\ Under({"failed"})' = Under({"failed"})
      /\ Under({"raised"})' = Under({"raised"})
    BY <1>1 DEF Taken, Under
<1>4. /\ NoDuplicatesBySend' /\ PlaceInv' /\ Placed' = Placed
      /\ In(buffer)' = In(buffer) /\ In(topic)' = In(topic)
    BY <1>1, <1>2, <1>3, ClientKept
<1>5. In(dlq)' = In(dlq)
    BY <1>1 DEF In
<1>6. SendInv'
    BY <1>0, <1>1, <1>3, <1>4, <1>5 DEF SendInv
<1> QED
    BY <1>2, <1>4, <1>6 DEF PInv

LEMMA ProducerNext == PInv /\ [Next]_vars => PInv'
<1> SUFFICES ASSUME PInv, [Next]_vars PROVE PInv'
    OBVIOUS
<1>1. CASE UNCHANGED vars
  <2> USE <1>1 DEF vars, client, counts, history
  <2>1. TypeOK'
    BY DEF PInv, TypeOK
  <2>2. /\ Taken' = Taken /\ Under({"failed"})' = Under({"failed"})
        /\ Under({"raised"})' = Under({"raised"})
    BY DEF Taken, Under
  <2>3. /\ NoDuplicatesBySend' /\ PlaceInv' /\ Placed' = Placed
        /\ In(buffer)' = In(buffer) /\ In(topic)' = In(topic)
    BY <2>1, <2>2, ClientKept
  <2>4. In(dlq)' = In(dlq)
    BY DEF In
  <2>5. SendInv'
    BY <2>2, <2>3, <2>4 DEF PInv, SendInv
  <2> QED
    BY <2>1, <2>3, <2>5 DEF PInv
<1> QED
    BY <1>1, AcceptStep, SendStep, DeliverStep, FailStep, ShutdownStep DEF Next

-----------------------------------------------------------------------------
(* The normaliser.                                                         *)

LEMMA StrippedTwice == \A s : Stripped(Stripped(s)) = Stripped(s)
BY DEF Stripped

LEMMA LevelsAreKnown ==
    ASSUME NEW level \in {"", "INFO", "error", "WARN", "Fatal", "loud"}
    PROVE  ParseLevel(IF level = "" THEN "INFO" ELSE level) \in LogLevels
<1> DEFINE l == IF level = "" THEN "INFO" ELSE level
<1>1. Upper(l) \in {"INFO", "ERROR", "WARN", "FATAL", "LOUD"}
    BY DEF Upper
<1>2. DOMAIN Aliases = {"WARN", "FATAL"} /\ Aliases["WARN"] = "WARNING"
      /\ Aliases["FATAL"] = "CRITICAL"
    BY DEF Aliases
<1> HIDE DEF l
<1>3. ParseLevel(l) \in LogLevels
    BY <1>1, <1>2 DEF ParseLevel, LogLevels
<1> QED
    BY <1>3 DEF l

LEMMA SameFields ==
    ASSUME NEW s, NEW l, NEW m
    PROVE  LET f == [service_name |-> s, level |-> l, message |-> m]
           IN  [f EXCEPT !.service_name = s, !.message = m] = f
<1> DEFINE f == [service_name |-> s, level |-> l, message |-> m]
<1>1. f.service_name = s /\ f.message = m
    OBVIOUS
<1>2. f = [x \in DOMAIN f |-> f[x]]
    OBVIOUS
<1> HIDE DEF f
<1>3. [f EXCEPT !.service_name = s] = f
    BY <1>1, <1>2
<1>4. [f EXCEPT !.message = m] = f
    BY <1>1, <1>2
<1>5. [f EXCEPT !.service_name = s, !.message = m]
          = [[f EXCEPT !.service_name = s] EXCEPT !.message = m]
    BY <1>2
<1> QED
    BY <1>3, <1>4, <1>5 DEF f

\* What LogEntry's validators let through, they let through again as it is.
LEMMA CleanTwice ==
    ASSUME NEW s, NEW l, NEW m,
           NEW entry \in LogEntry([service_name |-> s, level |-> l, message |-> m])
    PROVE  LogEntry(entry) = {entry}
<1> DEFINE f == [service_name |-> s, level |-> l, message |-> m]
<1>1. /\ Stripped(s) # "" /\ Stripped(m) # "" /\ l \in LogLevels
      /\ entry = [f EXCEPT !.service_name = Stripped(@), !.message = Stripped(@)]
    BY DEF LogEntry
<1>2. entry = [service_name |-> Stripped(s), level |-> l, message |-> Stripped(m)]
    BY <1>1
<1>3. entry.service_name = Stripped(s) /\ entry.level = l /\ entry.message = Stripped(m)
    BY <1>2
<1>4. [entry EXCEPT !.service_name = Stripped(@), !.message = Stripped(@)] = entry
  <2>1. Stripped(entry.service_name) = Stripped(s) /\ Stripped(entry.message) = Stripped(m)
    BY <1>3, StrippedTwice
  <2>2. [entry EXCEPT !.service_name = Stripped(s), !.message = Stripped(m)] = entry
    BY <1>2, SameFields
  <2> QED
    BY <2>1, <2>2
<1> QED
    BY <1>1, <1>3, <1>4, StrippedTwice DEF LogEntry

\* What the normaliser accepts the consumer reads as it was sent, and a log
\* with a text is rejected for a blank service name only.
THEOREM Readable == AcceptedIsReadable
<1> SUFFICES ASSUME NEW raw \in RawLogs
             PROVE  /\ Stripped(raw.message) # "" /\ raw.service_name # " " =>
                           Normalise(raw) # {}
                    /\ \A entry \in Normalise(raw) : Deserialise(entry) = {entry}
    BY DEF AcceptedIsReadable
<1> DEFINE f == FromDict(raw)
<1>1. /\ raw.service_name \in {"", " ", " Payment ", "payment"}
      /\ raw.level \in {"", "INFO", "error", "WARN", "Fatal", "loud"}
    BY DEF RawLogs
<1>2. f.message = raw.message /\ f.level \in LogLevels
    BY <1>1, LevelsAreKnown DEF FromDict
<1>3. raw.service_name # " " => Stripped(f.service_name) # ""
    BY <1>1 DEF FromDict, Stripped
<1>4. Stripped(raw.message) # "" /\ raw.service_name # " " => Normalise(raw) # {}
    BY <1>2, <1>3 DEF Normalise, LogEntry
<1>5. \A entry \in Normalise(raw) : Deserialise(entry) = {entry}
  <2>1. \A entry \in LogEntry(f) : LogEntry(entry) = {entry}
    <3>1. ASSUME NEW entry \in LogEntry(f) PROVE LogEntry(entry) = {entry}
      <4>1. f = [service_name |-> f.service_name, level |-> f.level, message |-> f.message]
        BY DEF FromDict
      <4> HIDE DEF f
      <4>2. entry \in LogEntry([service_name |-> f.service_name, level |-> f.level,
                                message |-> f.message])
        BY <4>1
      <4> QED
        BY <4>2, CleanTwice
    <3> QED
      BY <3>1
  <2> QED
    BY <2>1 DEF Normalise, Deserialise
<1> QED
    BY <1>4, <1>5

LEMMA ReadableTopic == PInv => TopicIsReadable
<1> SUFFICES ASSUME PInv, NEW e \in In(topic)
             PROVE  \E entry \in Normalise(Raw[e]) : Deserialise(entry) = {entry}
    BY Readable DEF TopicIsReadable
<1>1. e \in Entries /\ state[e] \in {"polling", "sent"}
    BY DEF PInv, SendInv, Taken, Under
<1>2. Raw[e] \in RawLogs /\ Normalise(Raw[e]) # {}
    BY <1>1, ProducerAssumption DEF PInv, SendInv
<1> QED
    BY <1>2, Readable DEF AcceptedIsReadable

-----------------------------------------------------------------------------
(* The pool.                                                               *)

Creating(c) == IF at[c] = "creating" THEN 1 ELSE 0
InCreation  == Creating("startup") + Creating("consumer")

\* Every create_pool() under way but the first will forget a pool.
PoolInv ==
    /\ IsFiniteSet(open)
    /\ Cardinality(open \ {pool})
           + (IF pool = NoPool /\ InCreation > 0 THEN InCreation - 1 ELSE InCreation) <= overlaps

\* A pool whose tables were never made has a caller that makes them, or nobody
\* who would use it.
TableInv ==
    overlaps = 0 /\ unmade = 0 =>
        /\ missing = 0
        /\ ~ tables => \A c \in Callers : at[c] # "ready"
        /\ ~ tables /\ pool # NoPool =>
               \/ \E c \in Callers : at[c] = "tables"
               \/ consumer = "ended" /\ server # "starting"

SInv == ServiceTypeOK /\ PoolInv /\ TableInv

LEMMA ServiceStarts == ServiceInit => SInv /\ PInv
<1> SUFFICES ASSUME ServiceInit PROVE SInv /\ PInv
    OBVIOUS
<1>1. PInv
    BY ProducerInit DEF ServiceInit
<1>2. ServiceTypeOK
    BY <1>1 DEF PInv, ServiceTypeOK, ServiceInit, Callers, NoPool
<1>3. PoolInv
  <2>1. open = {} /\ open \ {pool} = {} /\ overlaps = 0 /\ InCreation = 0
    BY DEF ServiceInit, InCreation, Creating, Callers
  <2> QED
    BY <2>1, FS_EmptySet DEF PoolInv
<1>4. TableInv
    BY DEF ServiceInit, TableInv, Callers
<1> QED
    BY <1>1, <1>2, <1>3, <1>4 DEF SInv

LEMMA ServesTypes == ASSUME SInv, Serves, UNCHANGED vars PROVE ServiceTypeOK'
<1> USE DEF process, calls, db, trail, NoPool
<1>0. /\ ServiceTypeOK /\ made \in Nat /\ overlaps \in Nat /\ unmade \in Nat /\ missing \in Nat
      /\ inserts \in Nat /\ dbfaults \in Nat
    BY DEF SInv, ServiceTypeOK
<1>1. TypeOK'
    BY <1>0 DEF ServiceTypeOK, TypeOK, vars, client, counts, history
<1>2. ASSUME NEW c \in Callers, GetPool(c) PROVE ServiceTypeOK'
    BY <1>0, <1>1, <1>2 DEF ServiceTypeOK, GetPool, Calls
<1>3. ASSUME NEW c \in Callers, CreatePool(c) PROVE ServiceTypeOK'
    BY <1>0, <1>1, <1>3 DEF ServiceTypeOK, CreatePool
<1>4. ASSUME NEW c \in Callers, CreateTables(c) PROVE ServiceTypeOK'
    BY <1>0, <1>1, <1>4 DEF ServiceTypeOK, CreateTables
<1>5. ASSUME NEW c \in Callers, GetPoolRaises(c) PROVE ServiceTypeOK'
    BY <1>0, <1>1, <1>5 DEF ServiceTypeOK, GetPoolRaises, DbFault
<1>6. CASE Startup
    BY <1>0, <1>1, <1>6 DEF ServiceTypeOK, Startup
<1>7. CASE Insert
  <2>1. missing' \in Nat
    BY <1>0, <1>7 DEF Insert
  <2> QED
    BY <1>0, <1>1, <1>7, <2>1 DEF ServiceTypeOK, Insert
<1>8. CASE ConsumerStops \/ ConsumerFails
    BY <1>0, <1>1, <1>8 DEF ServiceTypeOK, ConsumerStops, ConsumerFails
<1>9. CASE ClosePool
    BY <1>0, <1>1, <1>9 DEF ServiceTypeOK, ClosePool
<1> QED
    BY <1>2, <1>3, <1>4, <1>5, <1>6, <1>7, <1>8, <1>9 DEF Serves

\* The number of callers in create_pool() once c has moved.
LEMMA InCreationMoves ==
    ASSUME SInv, NEW c \in Callers, NEW l \in {"idle", "creating", "tables", "ready"},
           at' = [at EXCEPT ![c] = l]
    PROVE  /\ InCreation \in 0..2 /\ InCreation' \in 0..2
           /\ at[c] = "creating" /\ l # "creating" => InCreation' = InCreation - 1
           /\ at[c] # "creating" /\ l # "creating" => InCreation' = InCreation
           /\ at[c] # "creating" /\ l = "creating" => InCreation' = InCreation + 1
           /\ InCreation > 0 /\ at[c] = "idle" => \E d \in Callers \ {c} : UnderWay(d)
BY DEF SInv, ServiceTypeOK, InCreation, Creating, Callers, UnderWay

LEMMA LeavesCreation ==
    ASSUME SInv, NEW c \in Callers, NEW l \in {"idle", "ready"}, at' = [at EXCEPT ![c] = l]
    PROVE  InCreation' <= InCreation /\ InCreation' \in 0..2
BY DEF SInv, ServiceTypeOK, InCreation, Creating, Callers

LEMMA ServesPool == ASSUME SInv, Serves, UNCHANGED vars PROVE PoolInv'
<1> USE DEF process, calls, db, trail
<1> DEFINE lost == Cardinality(open \ {pool})
<1>0. /\ made \in Nat /\ overlaps \in Nat /\ pool \in 0..made /\ open \subseteq 1..made
      /\ IsFiniteSet(open) /\ PoolInv /\ at \in [Callers -> {"idle", "creating", "tables", "ready"}]
    BY DEF SInv, ServiceTypeOK, PoolInv
<1>1. IsFiniteSet(open \ {pool}) /\ lost \in Nat
    BY <1>0, FS_Difference, FS_CardinalityType, FS_Singleton
<1>2. InCreation \in 0..2 /\ InCreation' \in Int
    BY <1>0 DEF InCreation, Creating
<1>3. ASSUME NEW c \in Callers, GetPool(c) PROVE PoolInv'
  <2>1. CASE NeedsPool
    <3>1. /\ InCreation' = InCreation + 1 /\ pool = NoPool
          /\ InCreation > 0 => overlaps' = overlaps + 1
          /\ overlaps' \in Nat /\ overlaps' >= overlaps /\ pool' = pool /\ open' = open
      BY <1>0, <1>3, <2>1, InCreationMoves DEF GetPool, NeedsPool
    <3>2. Cardinality(open' \ {pool'}) = lost
      BY <3>1
    <3> HIDE DEF lost
    <3>3. lost + (IF InCreation > 0 THEN InCreation - 1 ELSE InCreation) <= overlaps
      BY <1>0, <3>1 DEF PoolInv, lost
    <3>4. lost + (InCreation' - 1) <= overlaps' /\ InCreation' > 0
      BY <1>0, <1>1, <1>2, <3>1, <3>3
    <3> QED
      BY <1>0, <3>1, <3>2, <3>4 DEF PoolInv
  <2>2. CASE ~ NeedsPool
    <3>1. /\ InCreation' = InCreation /\ overlaps' >= overlaps /\ pool' = pool /\ open' = open
          /\ overlaps' \in Nat
      BY <1>0, <1>3, <2>2, InCreationMoves DEF GetPool
    <3> QED
      BY <1>0, <1>1, <1>2, <3>1 DEF PoolInv
  <2> QED
    BY <2>1, <2>2
<1>4. ASSUME NEW c \in Callers, CreatePool(c) PROVE PoolInv'
  <2>1. /\ InCreation' = InCreation - 1 /\ InCreation >= 1 /\ pool' = made + 1
        /\ open' = open \cup {pool'} /\ pool' \notin open /\ overlaps' = overlaps
        /\ pool' # NoPool
    <3>1. /\ at[c] = "creating" /\ at' = [at EXCEPT ![c] = "tables"] /\ made' = made + 1
          /\ pool' = made' /\ open' = open \cup {made'} /\ overlaps' = overlaps
      BY <1>4 DEF CreatePool
    <3>2. InCreation' = InCreation - 1 /\ InCreation' \in 0..2
      BY <3>1, InCreationMoves
    <3> QED
      BY <1>0, <1>2, <3>1, <3>2 DEF NoPool
  <2>2. open' \ {pool'} = open /\ IsFiniteSet(open')
    BY <1>0, <2>1, FS_AddElement
  <2>3. IF pool = NoPool THEN lost = Cardinality(open) ELSE Cardinality(open) <= lost + 1
    <3>1. CASE pool \in open
      <4>1. Cardinality(open \ {pool}) = Cardinality(open) - 1 /\ Cardinality(open) \in Nat
        BY <1>0, <3>1, FS_RemoveElement, FS_CardinalityType
      <4> QED
        BY <1>0, <3>1, <4>1 DEF NoPool
    <3>2. CASE pool \notin open
      <4>1. open \ {pool} = open
        BY <3>2
      <4> QED
        BY <1>1, <4>1
    <3> QED
      BY <3>1, <3>2
  <2>4. Cardinality(open) \in Nat
    BY <1>0, FS_CardinalityType
  <2>5. Cardinality(open' \ {pool'}) = Cardinality(open)
    BY <2>2
  <2> HIDE DEF lost
  <2>6. lost + (IF pool = NoPool /\ InCreation > 0 THEN InCreation - 1 ELSE InCreation) <= overlaps
    BY <1>0 DEF PoolInv, lost
  <2>7. Cardinality(open' \ {pool'}) + InCreation' <= overlaps'
    BY <1>0, <1>1, <1>2, <2>1, <2>3, <2>4, <2>5, <2>6
  <2> QED
    BY <2>1, <2>2, <2>7 DEF PoolInv
<1>5. ASSUME InCreation' <= InCreation, InCreation' \in 0..2, UNCHANGED <<open, pool, overlaps>>
      PROVE  PoolInv'
    BY <1>0, <1>1, <1>2, <1>5 DEF PoolInv
<1>6. ASSUME NEW c \in Callers, CreateTables(c) \/ GetPoolRaises(c) PROVE PoolInv'
  <2>1. \E l \in {"idle", "ready"} : at' = [at EXCEPT ![c] = l]
    BY <1>6 DEF CreateTables, GetPoolRaises
  <2>2. InCreation' <= InCreation /\ InCreation' \in 0..2
    BY <2>1, LeavesCreation
  <2> QED
    BY <1>5, <1>6, <2>2 DEF CreateTables, GetPoolRaises
<1>7. CASE Startup \/ ConsumerStops
    BY <1>2, <1>5, <1>7 DEF Startup, ConsumerStops, InCreation, Creating
<1>8. CASE Insert
  <2>1. "consumer" \in Callers
    BY DEF Callers
  <2>2. InCreation' <= InCreation /\ InCreation' \in 0..2
    BY <1>8, <2>1, LeavesCreation DEF Insert
  <2> QED
    BY <1>5, <1>8, <2>2 DEF Insert
<1>9. CASE ConsumerFails
  <2>1. "startup" \in Callers
    BY DEF Callers
  <2>2. InCreation' <= InCreation /\ InCreation' \in 0..2
    BY <1>9, <2>1, LeavesCreation DEF ConsumerFails
  <2> QED
    BY <1>5, <1>9, <2>2 DEF ConsumerFails
<1>10. CASE ClosePool
  <2>1. /\ open' = open \ {pool} /\ pool' = NoPool /\ overlaps' = overlaps
        /\ InCreation' = InCreation /\ NoPool \notin open
    BY <1>0, <1>10 DEF ClosePool, InCreation, Creating, NoPool
  <2>2. Cardinality(open' \ {pool'}) = lost /\ IsFiniteSet(open')
    <3>1. open' \ {pool'} = open \ {pool}
      BY <2>1
    <3> QED
      BY <1>1, <2>1, <3>1
  <2> HIDE DEF lost
  <2>3. lost + (IF pool = NoPool /\ InCreation > 0 THEN InCreation - 1 ELSE InCreation) <= overlaps
    BY <1>0 DEF PoolInv, lost
  <2>4. lost + (IF InCreation' > 0 THEN InCreation' - 1 ELSE InCreation') <= overlaps'
    BY <1>0, <1>1, <1>2, <2>1, <2>3
  <2> QED
    BY <2>1, <2>2, <2>4 DEF PoolInv
<1> QED
    BY <1>3, <1>4, <1>6, <1>7, <1>8, <1>9, <1>10 DEF Serves

LEMMA ServesTables == ASSUME SInv, Serves, UNCHANGED vars PROVE TableInv'
<1> USE DEF process, calls, db, trail, Callers, UnderWay
<1>0. /\ TableInv /\ at \in [Callers -> {"idle", "creating", "tables", "ready"}]
      /\ overlaps \in Nat /\ unmade \in Nat /\ made \in Nat /\ tables \in BOOLEAN
    BY DEF SInv, ServiceTypeOK
<1>1. ASSUME NEW c \in Callers, GetPool(c) PROVE TableInv'
    BY <1>0, <1>1 DEF TableInv, GetPool, Calls, NeedsPool
<1>2. ASSUME NEW c \in Callers, CreatePool(c) PROVE TableInv'
    BY <1>0, <1>2 DEF TableInv, CreatePool
<1>3. ASSUME NEW c \in Callers, CreateTables(c) PROVE TableInv'
    BY <1>0, <1>3 DEF TableInv, CreateTables
<1>4. ASSUME NEW c \in Callers, GetPoolRaises(c) PROVE TableInv'
    BY <1>0, <1>4 DEF TableInv, GetPoolRaises
<1>5. CASE Startup
    BY <1>0, <1>5 DEF TableInv, Startup
<1>6. CASE Insert
    BY <1>0, <1>6 DEF TableInv, Insert
<1>7. CASE ConsumerStops
    BY <1>0, <1>7 DEF TableInv, ConsumerStops
<1>8. CASE ConsumerFails
    BY <1>0, <1>8 DEF TableInv, ConsumerFails
<1>9. CASE ClosePool
    BY <1>0, <1>9 DEF TableInv, ClosePool
<1> QED
    BY <1>1, <1>2, <1>3, <1>4, <1>5, <1>6, <1>7, <1>8, <1>9 DEF Serves

\* The process ends, and no call or pool is left.
LEMMA EndStep == ASSUME SInv, TypeOK', ProcessEnds PROVE SInv'
<1> USE DEF process, calls, db, trail, NoPool
<1>1. /\ server' = "down" /\ consumer' = "ended" /\ at' = [c \in Callers |-> "idle"]
      /\ held' = [c \in Callers |-> 0] /\ pool' = 0 /\ open' = {}
      /\ UNCHANGED <<tables, trail>>
    BY DEF ProcessEnds
<1>2. /\ ServiceTypeOK /\ overlaps \in Nat /\ made \in Nat /\ TableInv
    BY DEF SInv, ServiceTypeOK
<1>3. ServiceTypeOK'
    BY <1>1, <1>2 DEF ServiceTypeOK
<1>4. PoolInv'
  <2>1. InCreation' = 0 /\ open' \ {pool'} = {} /\ overlaps' = overlaps
    BY <1>1 DEF InCreation, Creating, Callers
  <2> QED
    BY <1>1, <1>2, <2>1, FS_EmptySet DEF PoolInv
<1>5. TableInv'
    BY <1>1, <1>2 DEF TableInv
<1> QED
    BY <1>3, <1>4, <1>5 DEF SInv

LEMMA ServiceStep ==
    SInv /\ PInv /\ [ServiceNext]_<<vars, service>> => SInv' /\ PInv'
<1> SUFFICES ASSUME SInv, PInv, [ServiceNext]_<<vars, service>> PROVE SInv' /\ PInv'
    OBVIOUS
<1>1. [Next]_vars
    BY DEF ServiceNext, ProcessEnds, Produces, AcceptRequest, Next
<1>2. PInv'
    BY <1>1, ProducerNext
<1>3. CASE Serves /\ UNCHANGED vars
    BY <1>2, <1>3, ServesTypes, ServesPool, ServesTables DEF SInv
<1>4. CASE UNCHANGED service
  <2>1. ServiceTypeOK'
    BY <1>2, <1>4 DEF SInv, PInv, ServiceTypeOK, service, process, calls, db, trail
  <2>2. PoolInv'
    BY <1>4 DEF SInv, PoolInv, InCreation, Creating, service, process, calls, db, trail
  <2>3. TableInv'
    BY <1>4 DEF SInv, TableInv, service, process, calls, db, trail
  <2> QED
    BY <1>2, <2>1, <2>2, <2>3 DEF SInv
<1>5. CASE ProcessEnds
    BY <1>2, <1>5, EndStep DEF PInv
<1> QED
    BY <1>3, <1>4, <1>5 DEF ServiceNext

LEMMA Inductive == ServiceSpec => [](SInv /\ PInv)
BY ServiceStarts, ServiceStep, PTL DEF ServiceSpec

-----------------------------------------------------------------------------
(* The theorems.                                                           *)

\* The type invariant of the process, its producer's included.
THEOREM TypeCorrect == ServiceSpec => []ServiceTypeOK
<1>1. SInv /\ PInv => ServiceTypeOK
    BY DEF SInv
<1> QED
    BY <1>1, Inductive, PTL

\* A dead letter may be replayed: whatever the retries, the full buffers and
\* the end of the process, it is in the file once, and not in Kafka.
THEOREM DeadLetters == ServiceSpec => []DeadLettersAreNotInKafka
<1>1. SInv /\ PInv => DeadLettersAreNotInKafka
  <2> SUFFICES ASSUME SInv, PInv PROVE DeadLettersAreNotInKafka
    OBVIOUS
  <2>1. /\ In(dlq) \subseteq Under({"failed"})
        /\ In(buffer) \cup In(topic) \cup reports \cup refused \subseteq Under({"polling", "sent"})
    BY DEF PInv, SendInv, Placed, Taken
  <2>2. \A e \in In(dlq) : e \notin In(buffer) \cup In(topic) \cup reports \cup refused
    BY <2>1 DEF Under
  <2> QED
    BY <2>2 DEF PInv, SendInv, DeadLettersAreNotInKafka
<1> QED
    BY <1>1, Inductive, PTL

\* send() puts an entry into the client once.
THEOREM NoDuplicates == ServiceSpec => []NoDuplicatesBySend
<1>1. SInv /\ PInv => NoDuplicatesBySend
    BY DEF PInv
<1> QED
    BY <1>1, Inductive, PTL

\* What a send() ended with is somewhere, also after the process has ended; and
\* what is lost without a trace is at most a client's fill.
THEOREM Accounted == ServiceSpec => []EveryEntryIsAccountedFor
<1>1. SInv /\ PInv => EveryEntryIsAccountedFor
    BY UnknownBounded DEF PInv, SendInv, PlaceInv, EveryEntryIsAccountedFor
<1> QED
    BY <1>1, Inductive, PTL

\* Deliveries turn an entry of the buffer into a report, and neither frees a
\* place; a client that is full with nobody about to poll stays full.
THEOREM NeverFreed == ServiceSpec => FullForGood
<1>1. PInv /\ [ServiceNext]_<<vars, service>> => [Stuck => Stuck' \/ ~ up']_vars
  <2> SUFFICES ASSUME PInv, [ServiceNext]_<<vars, service>>, Stuck, up', vars' # vars
               PROVE  Stuck'
    OBVIOUS
  <2> USE DEF client, counts, history
  <2>1. Next
    BY DEF ServiceNext, ProcessEnds, Produces, AcceptRequest, Next, vars, service
  <2>2. up /\ Full /\ Under({"polling"}) = {}
    BY DEF Stuck
  <2>3. ASSUME UNCHANGED <<buffer, reports>>,
               \A e \in Entries : state'[e] = "polling" => state[e] = "polling"
        PROVE  Stuck'
    BY <2>2, <2>3 DEF Stuck, Full, Under
  <2>4. ASSUME NEW request \in SUBSET Entries, Accept(request) PROVE Stuck'
    BY <2>3, <2>4 DEF Accept
  <2>5. ASSUME NEW e \in Entries, Step(e) PROVE Stuck'
    <3>1. ~ Produce(e) /\ ~ Poll(e)
      BY <2>2 DEF Produce, Poll, Under
    <3>2. /\ UNCHANGED <<buffer, reports>>
          /\ \E l \in {"raised", "backoff", "failed", "producing"} : state' = [state EXCEPT ![e] = l]
      BY <2>5, <3>1 DEF Step, BufferError, Ends, ProduceRaises, Retry, ReturnFalse, Backoff, MoveTo
    <3> QED
      BY <2>3, <3>2, Facts
  <2>6. ASSUME NEW i \in DOMAIN buffer, Deliver(i) \/ DeliveryFails(i) PROVE Stuck'
    <3>1. state' = state
      BY <2>6 DEF Deliver, DeliveryFails
    <3>2. CASE UNCHANGED <<buffer, reports>>
      BY <2>3, <3>1, <3>2
    <3>3. CASE buffer' = Without(i) /\ reports' = reports \cup {buffer[i]}
      <4>1. /\ Len(buffer') = Len(buffer) - 1
            /\ Cardinality(reports') = Cardinality(reports) + 1
        BY <3>3, ToReports
      <4>2. Len(buffer) \in Nat /\ Cardinality(reports) \in Nat
        BY Facts
      <4>3. Len(buffer') + Cardinality(reports') = Len(buffer) + Cardinality(reports)
        BY <4>1, <4>2
      <4> QED
        BY <2>2, <3>1, <4>3 DEF Stuck, Full, Under
    <3> QED
      BY <2>6, <3>2, <3>3 DEF Deliver, DeliveryFails
  <2>7. ~ Shutdown
    BY DEF Shutdown
  <2> QED
    BY <2>1, <2>4, <2>5, <2>6, <2>7 DEF Next
<1> QED
    BY <1>1, Inductive, PTL DEF ServiceSpec, FullForGood

\* The endpoint's check is enough for the consumer's.
THEOREM Topic == ServiceSpec => []TopicIsReadable
<1>1. SInv /\ PInv => TopicIsReadable
    BY ReadableTopic
<1> QED
    BY <1>1, Inductive, PTL

\* Pools are forgotten, and inserts find no table, only when calls of
\* get_pool() overlapped or a CREATE TABLE failed.
THEOREM PoolTrouble == ServiceSpec => []PoolTroubleHasACause
<1>1. SInv /\ PInv => PoolTroubleHasACause
  <2> SUFFICES ASSUME SInv PROVE PoolTroubleHasACause
    OBVIOUS
  <2>1. /\ overlaps \in Nat /\ unmade \in Nat /\ InCreation \in 0..2
        /\ IsFiniteSet(open \ {pool})
    <3>1. IsFiniteSet(open)
      BY DEF SInv, PoolInv
    <3>2. open \ {pool} \in SUBSET open
      OBVIOUS
    <3> QED
      BY <3>1, <3>2, FS_Subset
         DEF SInv, ServiceTypeOK, InCreation, Creating, Callers
  <2>2. Cardinality(open \ {pool}) \in Nat
    BY <2>1, FS_CardinalityType
  <2>3. Cardinality(open \ {pool}) <= overlaps
    BY <2>1, <2>2 DEF SInv, PoolInv
  <2>4. missing > 0 => overlaps > 0 \/ unmade > 0
    BY <2>1 DEF SInv, ServiceTypeOK, TableInv
  <2> QED
    BY <2>3, <2>4 DEF PoolTroubleHasACause
<1> QED
    BY <1>1, Inductive, PTL
=============================================================================
