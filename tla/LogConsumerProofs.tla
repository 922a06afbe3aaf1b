-------------------------- MODULE LogConsumerProofs --------------------------
(***************************************************************************)
(* Theorems about LogConsumer, for any number of consumers, partitions,    *)
(* records and faults.  The argument is IndInv: a consumer that adopted    *)
(* the current generation owns its partitions alone, so what it has read   *)
(* is dealt with or still in its hands; it commits only with hands whose   *)
(* content is dealt with; everybody else's commit is refused.              *)
(***************************************************************************)
EXTENDS LogConsumer, FiniteSetTheorems, TLAPS

\* A batch has at most as many decodable records as records.
LEMMA DecodedCount ==
    ASSUME NEW b \in Seq(Messages), NEW S \in SUBSET DOMAIN b
    PROVE  Cardinality(S) \in 0 .. Len(b)
<1>1. Len(b) \in Nat /\ DOMAIN b = 1 .. Len(b)
    OBVIOUS
<1>2. IsFiniteSet(1 .. Len(b)) /\ Cardinality(1 .. Len(b)) = Len(b)
  <2>1. /\ IsFiniteSet(1 .. Len(b))
        /\ Cardinality(1 .. Len(b)) = IF 1 > Len(b) THEN 0 ELSE Len(b) - 1 + 1
    BY <1>1, 1 \in Int, Len(b) \in Int, FS_Interval, Zenon
  <2> QED
    BY <1>1, <2>1
<1>3. IsFiniteSet(S) /\ Cardinality(S) <= Len(b)
    BY <1>1, <1>2, FS_Subset
<1>4. Cardinality(S) \in Nat
    BY <1>3, FS_CardinalityType
<1> QED
    BY <1>1, <1>3, <1>4

\* What a batch contributes to the table and to the history has its type.
LEMMA DecodedType ==
    ASSUME TypeOK, NEW c \in Consumers
    PROVE  /\ EntryIds(batch[c]) \subseteq Entries
           /\ EntryMessages(batch[c]) \subseteq Messages
           /\ Stored(c) \subseteq Entries
           /\ Cardinality(Decoded(batch[c])) \in 0 .. Len(batch[c])
<1>1. batch[c] \in Seq(Messages)
    BY DEF TypeOK
<1>2. Decoded(batch[c]) \subseteq DOMAIN batch[c]
    BY DEF Decoded
<1>3. Cardinality(Decoded(batch[c])) \in 0 .. Len(batch[c])
    BY <1>1, <1>2, DecodedCount
<1>4. EntryIds(batch[c]) \subseteq Entries
    BY DEF EntryIds, Decoded
<1>5. EntryMessages(batch[c]) \subseteq Messages
    BY <1>1, <1>2 DEF EntryMessages
<1> QED
    BY <1>3, <1>4, <1>5 DEF Stored, TypeOK

LEMMA TypeInit == Init => TypeOK
BY SizesAssumption DEF Init, TypeOK, PCs, Messages

LEMMA TypeNext == TypeOK /\ [Next]_vars => TypeOK'
<1> SUFFICES ASSUME TypeOK, [Next]_vars PROVE TypeOK'
    OBVIOUS
<1> USE DEF broker, client, counts, history, bounds
<1>1. CASE \E p \in Partitions, r \in Records : Produce(p, r)
    BY <1>1 DEF Produce, TypeOK
<1>2. CASE Rebalance
  <2>1. owner' \in [Partitions -> Consumers \cup {NoOne}]
    BY <1>2 DEF Rebalance, Live
  <2> QED
    BY <1>2, <2>1 DEF Rebalance, Live, TypeOK
<1>3. ASSUME NEW c \in Consumers, Evict(c) PROVE TypeOK'
  <2>1. owner' \in [Partitions -> Consumers \cup {NoOne}]
    BY <1>3 DEF Evict, TypeOK
  <2> QED
    BY <1>3, <2>1 DEF Evict, Fault, TypeOK
<1>4. ASSUME NEW c \in Consumers, JoinGroup(c) PROVE TypeOK'
    BY <1>4 DEF JoinGroup, ResumeAt, TypeOK
<1>5. ASSUME NEW c \in Consumers, Start(c) PROVE TypeOK'
    BY <1>5 DEF Start, TypeOK, PCs
<1>6. ASSUME NEW c \in Consumers, NEW p \in Partitions, PollRecord(c, p)
      PROVE  TypeOK'
  <2>1. batch' \in [Consumers -> Seq(Messages)]
    BY <1>6 DEF PollRecord, TypeOK, Messages
  <2> QED
    BY <1>6, <2>1 DEF PollRecord, TypeOK
<1>7. ASSUME NEW c \in Consumers, PollError(c) PROVE TypeOK'
    BY <1>7 DEF PollError, Fault, TypeOK
<1>8. ASSUME NEW c \in Consumers, EndPoll(c) PROVE TypeOK'
  <2>1. errors' \in [Consumers -> Nat]
    BY <1>8, DecodedType DEF EndPoll, TypeOK
  <2>2. batch' \in [Consumers -> Seq(Messages)]
    <3>1. \/ batch' = [batch EXCEPT ![c] = << >>]
          \/ batch' = batch
      BY <1>8 DEF EndPoll
    <3>2. batch \in [Consumers -> Seq(Messages)] /\ << >> \in Seq(Messages)
      BY DEF TypeOK
    <3> QED
      BY <3>1, <3>2
  <2>3. pc' \in [Consumers -> PCs]
    <3>1. CASE Decoded(batch[c]) = {} /\ LoopHead(c)
      BY <3>1 DEF LoopHead, TypeOK, PCs
    <3>2. CASE pc' = [pc EXCEPT ![c] = "insert"]
      BY <3>2 DEF TypeOK, PCs
    <3> QED
      BY <1>8, <3>1, <3>2 DEF EndPoll
  <2> QED
    BY <1>8, <2>1, <2>2, <2>3 DEF EndPoll, TypeOK
<1>9. ASSUME NEW c \in Consumers, InsertRows(c) PROVE TypeOK'
    BY <1>9, DecodedType DEF InsertRows, InsertedCount, AfterInsert, TypeOK, PCs
<1>10. ASSUME NEW c \in Consumers, InsertFails(c) PROVE TypeOK'
    BY <1>10, DecodedType DEF InsertFails, Fault, LoopHead, TypeOK, PCs
<1>11. ASSUME NEW c \in Consumers, Callback(c) PROVE TypeOK'
    BY <1>11, DecodedType DEF Callback, TypeOK, PCs
<1>12. ASSUME NEW c \in Consumers, Commit(c) PROVE TypeOK'
    BY <1>12 DEF Commit, CommitOffsets, LoopHead, TypeOK, PCs
<1>13. ASSUME NEW c \in Consumers, CommitRaises(c) PROVE TypeOK'
    BY <1>13 DEF CommitRaises, CommitOffsets, Fault, TypeOK, PCs
<1>14. ASSUME NEW c \in Consumers, RequestStop(c) PROVE TypeOK'
    BY <1>14 DEF RequestStop, Fault, TypeOK
<1>15. ASSUME NEW c \in Consumers, Cancel(c) PROVE TypeOK'
    BY <1>15, DecodedType DEF Cancel, Fault, TypeOK, PCs
<1>16. ASSUME NEW c \in Consumers, Close(c) PROVE TypeOK'
    BY <1>16 DEF Close, Gone, TypeOK, PCs
<1>17. ASSUME NEW c \in Consumers, Crash(c) PROVE TypeOK'
    BY <1>17, DecodedType DEF Crash, Gone, Fault, TypeOK, PCs
<1>18. CASE UNCHANGED vars
    BY <1>18 DEF vars, TypeOK
<1> QED
    BY <1>1, <1>2, <1>3, <1>4, <1>5, <1>6, <1>7, <1>8, <1>9, <1>10, <1>11,
       <1>12, <1>13, <1>14, <1>15, <1>16, <1>17, <1>18
       DEF Next, Loop, Disturbance

\* Every variable of the model keeps its type in every reachable state.
THEOREM TypeCorrect == Spec => []TypeOK
<1> QED
    BY TypeInit, TypeNext, PTL DEF Spec

-----------------------------------------------------------------------------
(* IndInv is inductive.                                                    *)

\* The tables and the history only grow.
Grow ==
    /\ topic' = topic
    /\ raw_logs \subseteq raw_logs'
    /\ failed \subseteq failed'
    /\ offered \subseteq offered'

LEMMA HandledStays ==
    ASSUME Grow, NEW m, Handled(m)
    PROVE  Handled(m)'
BY DEF Grow, Handled, Payload

\* Steps that leave topic, offsets and positions alone: consumers may leave
\* the generation, change their place in the loop, drop what is handled.
LEMMA SettlingStep ==
    ASSUME IndInv, TypeOK', Grow, UNCHANGED <<committed, position>>,
           joined' \subseteq joined,
           \A c \in joined' : pc'[c] # "down" /\ assigned'[c] = assigned[c],
           joined' = {} \/ owner' = owner,
           \A c \in Consumers : batch'[c] = batch[c] \/ batch'[c] = << >>,
           \A c \in joined' : \/ batch'[c] = batch[c]
                              \/ \A m \in MessagesIn(batch[c]) : Handled(m)',
           \A m \in failed' \cup offered' : Exists(m),
           HeldIsStored', OfferedAreStored'
    PROVE  IndInv'
<1> USE DEF Grow
<1>1. OnlyProduced'
  <2>1. \A m : Exists(m)' <=> Exists(m)
    BY DEF Exists
  <2>2. ASSUME NEW c \in Consumers, NEW k \in DOMAIN batch'[c]
        PROVE  Exists(batch'[c][k])
    <3>1. batch'[c] = batch[c]
      BY DOMAIN << >> = {}
    <3> QED
      BY <3>1 DEF IndInv, OnlyProduced
  <2>3. ASSUME NEW c \in Consumers, NEW k \in DOMAIN batch'[c]
        PROVE  Exists(batch[c][k])'
    BY <2>2 DEF Exists
  <2> QED
    BY <2>1, <2>3 DEF IndInv, OnlyProduced
<1>2. FencedByGeneration'
    BY DEF IndInv, FencedByGeneration
<1>3. ReadIsHandledOrHeld'
  <2> SUFFICES ASSUME NEW c \in joined', NEW p \in assigned'[c],
                      NEW i \in 1 .. position'[c][p]
               PROVE  Handled(<<p, i>>)' \/ <<p, i>> \in MessagesIn(batch'[c])
    BY DEF ReadIsHandledOrHeld, MessagesIn
  <2>1. Handled(<<p, i>>) \/ <<p, i>> \in MessagesIn(batch[c])
    BY DEF IndInv, ReadIsHandledOrHeld
  <2>2. CASE Handled(<<p, i>>)
    BY <2>2, HandledStays
  <2>3. CASE <<p, i>> \in MessagesIn(batch[c])
    BY <2>3 DEF MessagesIn
  <2> QED
    BY <2>1, <2>2, <2>3
<1>4. CommittedIsHandled'
  <2> SUFFICES ASSUME NEW p \in Partitions, NEW i \in 1 .. committed[p]
               PROVE  Handled(<<p, i>>)'
    BY DEF CommittedIsHandled
  <2> QED
    BY HandledStays DEF IndInv, CommittedIsHandled
<1> QED
    BY <1>1, <1>2, <1>3, <1>4 DEF IndInv

\* Steps that do not bring a consumer nearer to the commit keep HeldIsStored.
LEMMA HeldStays ==
    ASSUME HeldIsStored, Grow,
           \A c \in Consumers : batch'[c] = batch[c] \/ batch'[c] = << >>,
           \A c \in Consumers : pc'[c] \in {"callback", "commit"} => pc'[c] = pc[c]
    PROVE  HeldIsStored'
<1> SUFFICES ASSUME NEW c \in Consumers, NEW k \in DOMAIN batch'[c]
             PROVE  /\ pc'[c] = "callback" =>
                         Payload(batch[c][k])' \in Garbage \cup raw_logs'
                    /\ pc'[c] = "commit" => Handled(batch[c][k])'
    BY DEF HeldIsStored
<1>1. batch'[c] = batch[c]
    BY DOMAIN << >> = {}
<1>2. CASE pc'[c] = "callback"
  <2>1. Payload(batch[c][k]) \in Garbage \cup raw_logs
    BY <1>1, <1>2 DEF HeldIsStored
  <2> QED
    BY <1>1, <1>2, <2>1 DEF Grow, Payload
<1>3. CASE pc'[c] = "commit"
  <2>1. Handled(batch[c][k])
    BY <1>1, <1>3 DEF HeldIsStored
  <2> QED
    BY <1>1, <1>3, <2>1 DEF Grow, Handled, Payload
<1> QED
    BY <1>2, <1>3

LEMMA OfferedStays ==
    ASSUME OfferedAreStored, topic' = topic, raw_logs \subseteq raw_logs',
           offered' = offered
    PROVE  OfferedAreStored'
BY DEF OfferedAreStored, Payload

LEMMA InvInit == Init => IndInv
<1> SUFFICES ASSUME Init PROVE IndInv
    OBVIOUS
<1>1. TypeOK
    BY TypeInit
<1>2. OnlyProduced /\ FencedByGeneration /\ ReadIsHandledOrHeld
      /\ HeldIsStored /\ CommittedIsHandled /\ OfferedAreStored
    BY DEF Init, OnlyProduced, FencedByGeneration, ReadIsHandledOrHeld,
           HeldIsStored, CommittedIsHandled, OfferedAreStored
<1> QED
    BY <1>1, <1>2 DEF IndInv

\* The steps of the broker and the ends of a process: nothing is read, stored
\* or committed, and at most a consumer leaves the generation.
LEMMA QuietStep ==
    ASSUME IndInv, TypeOK', topic' = topic, raw_logs \subseteq raw_logs',
           UNCHANGED <<committed, position, failed, offered>>,
           joined' \subseteq joined,
           \A c \in joined' : /\ pc'[c] # "down" /\ assigned'[c] = assigned[c]
                              /\ batch'[c] = batch[c],
           joined' = {} \/ owner' = owner,
           \A c \in Consumers : batch'[c] = batch[c] \/ batch'[c] = << >>,
           \A c \in Consumers : pc'[c] \in {"callback", "commit"} => pc'[c] = pc[c]
    PROVE  IndInv'
<1>1. Grow
    BY DEF Grow
<1>2. HeldIsStored'
    BY <1>1, HeldStays DEF IndInv
<1>3. OfferedAreStored'
    BY OfferedStays DEF IndInv
<1>4. \A m \in failed' \cup offered' : Exists(m)
    BY DEF IndInv, OnlyProduced
<1> QED
    BY <1>1, <1>2, <1>3, <1>4, SettlingStep

LEMMA RebalanceOrStutterStep ==
    ASSUME IndInv, TypeOK', Rebalance \/ UNCHANGED vars
    PROVE  IndInv'
<1> USE DEF broker, client, counts, history, bounds
<1>0. TypeOK /\ \A d \in joined : pc[d] # "down"
    BY DEF IndInv, FencedByGeneration
<1>1. CASE Rebalance
    BY <1>0, <1>1, QuietStep DEF Rebalance, TypeOK
<1>2. CASE UNCHANGED vars
    BY <1>0, <1>2, QuietStep DEF vars, TypeOK
<1> QED
    BY <1>1, <1>2

LEMMA QuietActions ==
    ASSUME IndInv, TypeOK', NEW c \in Consumers,
           \/ Evict(c) \/ Start(c) \/ PollError(c)
           \/ RequestStop(c) \/ Cancel(c) \/ Close(c) \/ Crash(c)
    PROVE  IndInv'
<1> USE DEF broker, client, counts, history, bounds
<1>0. TypeOK /\ \A d \in joined : pc[d] # "down"
    BY DEF IndInv, FencedByGeneration
<1>2. CASE Evict(c)
    BY <1>0, <1>2, QuietStep DEF Evict, TypeOK
<1>3. CASE Start(c)
    BY <1>0, <1>3, QuietStep DEF Start, TypeOK
<1>4. CASE PollError(c)
    BY <1>0, <1>4, QuietStep DEF PollError, TypeOK
<1>5. CASE RequestStop(c)
    BY <1>0, <1>5, QuietStep DEF RequestStop, TypeOK
<1>6. CASE Cancel(c)
    BY <1>0, <1>6, QuietStep DEF Cancel, Stored, TypeOK
<1>7. CASE Close(c)
    BY <1>0, <1>7, QuietStep DEF Close, Gone, TypeOK
<1>8. CASE Crash(c)
  <2>1. raw_logs \subseteq raw_logs'
    BY <1>8 DEF Crash, Stored
  <2> QED
    BY <1>0, <1>8, <2>1, QuietStep DEF Crash, Gone, TypeOK
<1> QED
    BY <1>2, <1>3, <1>4, <1>5, <1>6, <1>7, <1>8

LEMMA EndPollStep ==
    ASSUME IndInv, TypeOK', NEW c \in Consumers, EndPoll(c)
    PROVE  IndInv'
<1> USE DEF broker, client, counts, history, bounds
<1>0. TypeOK /\ \A d \in joined : pc[d] # "down"
    BY DEF IndInv, FencedByGeneration
<1>1. CASE pc' = [pc EXCEPT ![c] = "insert"] /\ UNCHANGED batch
    BY <1>0, <1>1, QuietStep DEF EndPoll, TypeOK
<1>2. CASE /\ Decoded(batch[c]) = {}
           /\ batch' = [batch EXCEPT ![c] = << >>]
           /\ LoopHead(c)
  <2>1. Grow
    BY DEF EndPoll, Grow
  <2>2. pc'[c] \in {"poll", "closing"} /\ \A d \in Consumers \ {c} : pc'[d] = pc[d]
    BY <1>0, <1>2 DEF LoopHead, TypeOK
  <2>3. batch'[c] = << >> /\ \A d \in Consumers \ {c} : batch'[d] = batch[d]
    BY <1>0, <1>2 DEF TypeOK
  <2>4. HeldIsStored'
    BY <2>1, <2>2, <2>3, HeldStays DEF IndInv
  <2>5. OfferedAreStored'
    BY OfferedStays DEF EndPoll, IndInv
  <2>6. ASSUME NEW m \in MessagesIn(batch[c]) PROVE Handled(m)'
    <3>1. PICK k \in DOMAIN batch[c] : m = batch[c][k]
      BY DEF MessagesIn
    <3>2. Payload(m) \in Records /\ Payload(m) \notin Entries
      <4>1. Exists(m)
        BY <3>1 DEF IndInv, OnlyProduced
      <4> QED
        BY <1>0, <1>2, <3>1, <4>1 DEF Decoded, Payload, Exists, TypeOK
    <3> QED
      BY <2>1, <3>2, HandledStays DEF Handled, Records
  <2> QED
    BY <1>0, <2>1, <2>2, <2>3, <2>4, <2>5, <2>6, SettlingStep
       DEF EndPoll, IndInv, OnlyProduced, TypeOK
<1> QED
    BY <1>1, <1>2 DEF EndPoll

\* What is in a batch, by whether it was decoded.
LEMMA HeldIsGarbageOrEntry ==
    ASSUME IndInv, NEW c \in Consumers, NEW k \in DOMAIN batch[c]
    PROVE  \/ Payload(batch[c][k]) \in Garbage
           \/ /\ Payload(batch[c][k]) \in EntryIds(batch[c])
              /\ batch[c][k] \in EntryMessages(batch[c])
<1>1. Exists(batch[c][k])
    BY DEF IndInv, OnlyProduced
<1>2. Payload(batch[c][k]) \in Records
    BY <1>1 DEF Exists, Payload, IndInv, TypeOK
<1>3. CASE Payload(batch[c][k]) \in Entries
    BY <1>3 DEF EntryIds, EntryMessages, Decoded
<1> QED
    BY <1>2, <1>3 DEF Records

LEMMA InsertRowsStep ==
    ASSUME IndInv, TypeOK', NEW c \in Consumers, InsertRows(c)
    PROVE  IndInv'
<1> USE DEF broker, client, counts, history, bounds
<1>0. TypeOK /\ \A d \in joined : pc[d] # "down"
    BY DEF IndInv, FencedByGeneration
<1>1. Grow
    BY DEF InsertRows, Stored, Grow
<1>2. pc'[c] \in {"callback", "commit"} /\ (pc'[c] = "commit" => ~ OnBatch)
    BY <1>0, SizesAssumption DEF InsertRows, AfterInsert, TypeOK
<1>3. \A d \in Consumers \ {c} : pc'[d] = pc[d]
    BY <1>0 DEF InsertRows, TypeOK
<1>4. HeldIsStored'
  <2> SUFFICES ASSUME NEW d \in Consumers, NEW k \in DOMAIN batch[d]
               PROVE  /\ pc'[d] = "callback" =>
                           Payload(batch[d][k]) \in Garbage \cup raw_logs'
                      /\ pc'[d] = "commit" => Handled(batch[d][k])'
    BY DEF HeldIsStored, InsertRows, Payload
  <2>1. CASE d = c
    <3>1. Payload(batch[c][k]) \in Garbage \cup raw_logs'
      BY <2>1, HeldIsGarbageOrEntry DEF InsertRows, Stored
    <3>2. ~ OnBatch => Handled(batch[c][k])'
      BY <3>1 DEF Handled, Payload, InsertRows
    <3> QED
      BY <1>2, <2>1, <3>1, <3>2
  <2>2. CASE d # c
    <3>1. /\ pc[d] = "callback" => Payload(batch[d][k]) \in Garbage \cup raw_logs
          /\ pc[d] = "commit" => Handled(batch[d][k])
      BY DEF IndInv, HeldIsStored
    <3>2. pc[d] = "commit" => Handled(batch[d][k])'
      BY <1>1, <3>1 DEF Handled, Payload, InsertRows, Grow
    <3> QED
      BY <1>1, <1>3, <2>2, <3>1, <3>2 DEF Grow
  <2> QED
    BY <2>1, <2>2
<1>5. OfferedAreStored'
    BY <1>1, OfferedStays DEF InsertRows, Grow, IndInv
<1> QED
    BY <1>0, <1>1, <1>2, <1>3, <1>4, <1>5, SettlingStep
       DEF InsertRows, IndInv, OnlyProduced

LEMMA InsertFailsStep ==
    ASSUME IndInv, TypeOK', NEW c \in Consumers, InsertFails(c)
    PROVE  IndInv'
<1> USE DEF broker, client, counts, history, bounds
<1>0. TypeOK /\ \A d \in joined : pc[d] # "down"
    BY DEF IndInv, FencedByGeneration
<1>1. Grow
    BY DEF InsertFails, Stored, Grow
<1>2. pc'[c] \in {"poll", "closing"} /\ \A d \in Consumers \ {c} : pc'[d] = pc[d]
    BY <1>0 DEF InsertFails, LoopHead, TypeOK
<1>3. batch'[c] = << >> /\ \A d \in Consumers \ {c} : batch'[d] = batch[d]
    BY <1>0 DEF InsertFails, TypeOK
<1>4. HeldIsStored'
    BY <1>1, <1>2, <1>3, HeldStays DEF IndInv
<1>5. OfferedAreStored'
    BY <1>1, OfferedStays DEF InsertFails, Grow, IndInv
<1>6. ASSUME NEW m \in MessagesIn(batch[c]) PROVE Handled(m)'
  <2>1. PICK k \in DOMAIN batch[c] : m = batch[c][k]
    BY DEF MessagesIn
  <2>2. Payload(m) \in Garbage \/ m \in failed'
    BY <2>1, HeldIsGarbageOrEntry DEF InsertFails
  <2> QED
    BY <2>2 DEF Handled, Payload, InsertFails
<1>7. ASSUME NEW m \in failed' \cup offered' PROVE Exists(m)
  <2>1. CASE m \in EntryMessages(batch[c])
    <3>1. PICK k \in DOMAIN batch[c] : m = batch[c][k]
      BY <2>1 DEF EntryMessages, Decoded
    <3> QED
      BY <3>1 DEF IndInv, OnlyProduced
  <2>2. CASE m \in failed \cup offered
    BY <2>2 DEF IndInv, OnlyProduced
  <2>3. failed' = failed \cup EntryMessages(batch[c]) /\ offered' = offered
    BY DEF InsertFails
  <2> QED
    BY <2>1, <2>2, <2>3
<1>8. \A d \in joined' : pc'[d] # "down" /\ assigned'[d] = assigned[d]
    BY <1>0, <1>2 DEF InsertFails, TypeOK
<1>9. \A d \in joined' : \/ batch'[d] = batch[d]
                         \/ \A m \in MessagesIn(batch[d]) : Handled(m)'
    BY <1>0, <1>3, <1>6 DEF InsertFails, TypeOK
<1>10. \A d \in Consumers : batch'[d] = batch[d] \/ batch'[d] = << >>
    BY <1>3
<1>11. UNCHANGED <<committed, position, owner, joined>>
    BY DEF InsertFails
<1> QED
    BY <1>1, <1>4, <1>5, <1>7, <1>8, <1>9, <1>10, <1>11, SettlingStep

LEMMA CallbackStep ==
    ASSUME IndInv, TypeOK', NEW c \in Consumers, Callback(c)
    PROVE  IndInv'
<1> USE DEF broker, client, counts, history, bounds
<1>0. TypeOK /\ \A d \in joined : pc[d] # "down"
    BY DEF IndInv, FencedByGeneration
<1>1. Grow
    BY DEF Callback, Grow
<1>2. pc'[c] = "commit" /\ \A d \in Consumers \ {c} : pc'[d] = pc[d]
    BY <1>0 DEF Callback, TypeOK
<1>3. ASSUME NEW k \in DOMAIN batch[c]
      PROVE  Payload(batch[c][k]) \in Garbage \cup raw_logs
    BY DEF Callback, IndInv, HeldIsStored
<1>4. HeldIsStored'
  <2> SUFFICES ASSUME NEW d \in Consumers, NEW k \in DOMAIN batch[d]
               PROVE  /\ pc'[d] = "callback" =>
                           Payload(batch[d][k]) \in Garbage \cup raw_logs
                      /\ pc'[d] = "commit" => Handled(batch[d][k])'
    BY DEF HeldIsStored, Callback, Payload
  <2>1. CASE d = c
    <3>1. Payload(batch[c][k]) \in Garbage \/ batch[c][k] \in offered'
      BY <2>1, HeldIsGarbageOrEntry DEF Callback
    <3> QED
      BY <1>2, <1>3, <2>1, <3>1 DEF Handled, Payload, Callback
  <2>2. CASE d # c
    <3>1. /\ pc[d] = "callback" => Payload(batch[d][k]) \in Garbage \cup raw_logs
          /\ pc[d] = "commit" => Handled(batch[d][k])
      BY DEF IndInv, HeldIsStored
    <3>2. pc[d] = "commit" => Handled(batch[d][k])'
      BY <1>1, <3>1 DEF Handled, Payload, Callback, Grow
    <3> QED
      BY <1>2, <2>2, <3>1, <3>2
  <2> QED
    BY <2>1, <2>2
<1>5. ASSUME NEW m \in EntryMessages(batch[c])
      PROVE  Payload(m) \in raw_logs /\ Exists(m)
  <2>1. PICK k \in DOMAIN batch[c] : m = batch[c][k] /\ Payload(batch[c][k]) \in Entries
    BY DEF EntryMessages, Decoded
  <2> QED
    BY <1>3, <2>1, NamesAssumption DEF IndInv, OnlyProduced
<1>6. OfferedAreStored'
    BY <1>5 DEF Callback, OfferedAreStored, IndInv, Payload
<1>7. \A m \in failed' \cup offered' : Exists(m)
    BY <1>5 DEF Callback, IndInv, OnlyProduced
<1> QED
    BY <1>0, <1>1, <1>2, <1>4, <1>6, <1>7, SettlingStep DEF Callback

\* A commit moves the offset of the partitions the consumer owns to what it
\* has read, all of which is handled: its hands hold nothing else.
LEMMA CommittingStep ==
    ASSUME IndInv, NEW c \in Consumers, pc[c] = "commit", Fenced(c),
           CommitOffsets(c)
    PROVE  /\ \A p \in Partitions : committed[p] <= committed'[p]
           /\ \A p \in Partitions : committed'[p] <= Len(topic[p])
           /\ \A p \in Partitions : \A i \in 1 .. committed'[p] : Handled(<<p, i>>)
           /\ \A d \in joined : \A p \in assigned[d] : committed'[p] <= position[d][p]
<1>1. /\ c \in joined
      /\ assigned[c] = {p \in Partitions : owner[p] = c}
      /\ \A p \in assigned[c] : committed[p] <= position[c][p]
    BY DEF Fenced, IndInv, FencedByGeneration
<1>2. TypeOK
    BY DEF IndInv
<1>3. ASSUME NEW p \in Partitions
      PROVE  \/ committed'[p] = committed[p]
             \/ p \in assigned[c] /\ committed'[p] = position[c][p]
    BY DEF CommitOffsets, ToCommit
<1>4. ASSUME NEW m \in MessagesIn(batch[c]) PROVE Handled(m)
    BY DEF MessagesIn, IndInv, HeldIsStored
<1>5. ASSUME NEW p \in assigned[c], NEW i \in 1 .. position[c][p]
      PROVE  Handled(<<p, i>>)
  <2>1. Handled(<<p, i>>) \/ <<p, i>> \in MessagesIn(batch[c])
    BY <1>1 DEF IndInv, ReadIsHandledOrHeld
  <2> QED
    BY <1>4, <2>1
<1>6. ASSUME NEW p \in Partitions PROVE committed[p] <= committed'[p]
  <2>1. committed[p] <= committed[p]
    BY <1>2 DEF TypeOK
  <2> QED
    BY <1>1, <1>3, <2>1
<1>7. \A p \in Partitions : committed'[p] <= Len(topic[p])
    BY <1>3 DEF IndInv, OnlyProduced
<1>8. \A p \in Partitions : \A i \in 1 .. committed'[p] : Handled(<<p, i>>)
    BY <1>3, <1>5 DEF IndInv, CommittedIsHandled
<1>9. ASSUME NEW d \in joined, NEW p \in assigned[d]
      PROVE  committed'[p] <= position[d][p]
  <2>1. p \in Partitions /\ owner[p] = d /\ committed[p] <= position[d][p]
    <3>1. /\ assigned[d] = {q \in Partitions : owner[q] = d}
          /\ \A q \in assigned[d] : committed[q] <= position[d][q]
      BY DEF IndInv, FencedByGeneration
    <3> QED
      BY <3>1
  <2>2. CASE d = c
    <3>1. position[c][p] <= position[c][p]
      BY <1>2, <2>1 DEF TypeOK
    <3> QED
      BY <1>3, <2>1, <2>2, <3>1
  <2>3. CASE d # c
    BY <1>1, <1>3, <2>1, <2>3
  <2> QED
    BY <2>2, <2>3
<1> QED
    BY <1>6, <1>7, <1>8, <1>9

LEMMA CommitStep ==
    ASSUME IndInv, TypeOK', NEW c \in Consumers, Commit(c)
    PROVE  IndInv'
<1> USE DEF broker, client, counts, history, bounds
<1>0. TypeOK
    BY DEF IndInv
<1>1. /\ \A p \in Partitions : committed'[p] <= Len(topic[p])
      /\ \A p \in Partitions : \A i \in 1 .. committed'[p] : Handled(<<p, i>>)
      /\ \A d \in joined : \A p \in assigned[d] : committed'[p] <= position[d][p]
    BY CommittingStep DEF Commit
<1>2. UNCHANGED <<topic, owner, joined, raw_logs, assigned, position, failed,
                  offered>>
    BY DEF Commit
<1>3. Grow
    BY <1>2 DEF Grow
<1>4. pc'[c] \in {"poll", "closing"} /\ \A d \in Consumers \ {c} : pc'[d] = pc[d]
    BY <1>0 DEF Commit, LoopHead, TypeOK
<1>5. batch'[c] = << >> /\ \A d \in Consumers \ {c} : batch'[d] = batch[d]
    BY <1>0 DEF Commit, TypeOK
<1>6. \A m : (Handled(m)' <=> Handled(m)) /\ (Exists(m)' <=> Exists(m))
    BY <1>2 DEF Handled, Payload, Exists
<1>7. OnlyProduced'
  <2>1. ASSUME NEW d \in Consumers, NEW k \in DOMAIN batch'[d]
        PROVE  Exists(batch[d][k])'
    <3>1. batch'[d] = batch[d]
      BY <1>5, DOMAIN << >> = {}
    <3> QED
      BY <1>2, <3>1 DEF IndInv, OnlyProduced, Exists
  <2> QED
    BY <1>1, <1>2, <1>6, <2>1 DEF IndInv, OnlyProduced
<1>8. FencedByGeneration'
    BY <1>0, <1>1, <1>2, <1>4 DEF IndInv, FencedByGeneration, TypeOK
<1>9. ReadIsHandledOrHeld'
  <2> SUFFICES ASSUME NEW d \in joined, NEW p \in assigned[d],
                      NEW i \in 1 .. position[d][p]
               PROVE  Handled(<<p, i>>) \/ <<p, i>> \in MessagesIn(batch'[d])
    BY <1>2, <1>6 DEF ReadIsHandledOrHeld, MessagesIn
  <2>1. Handled(<<p, i>>) \/ <<p, i>> \in MessagesIn(batch[d])
    BY DEF IndInv, ReadIsHandledOrHeld
  <2>2. CASE d = c
    BY <2>1, <2>2 DEF Commit, IndInv, HeldIsStored, MessagesIn
  <2>3. CASE d # c
    BY <1>0, <1>5, <2>1, <2>3 DEF TypeOK
  <2> QED
    BY <2>2, <2>3
<1>10. HeldIsStored'
    BY <1>3, <1>4, <1>5, HeldStays DEF IndInv
<1>11. CommittedIsHandled'
    BY <1>1, <1>6 DEF CommittedIsHandled
<1>12. OfferedAreStored'
    BY <1>2, OfferedStays DEF IndInv
<1> QED
    BY <1>7, <1>8, <1>9, <1>10, <1>11, <1>12 DEF IndInv

LEMMA CommitRaisesStep ==
    ASSUME IndInv, TypeOK', NEW c \in Consumers, CommitRaises(c)
    PROVE  IndInv'
<1> USE DEF broker, client, counts, history, bounds
<1>0. TypeOK /\ \A d \in joined : pc[d] # "down"
    BY DEF IndInv, FencedByGeneration
<1>1. UNCHANGED <<topic, owner, joined, raw_logs, assigned, position, batch,
                  failed, offered>>
    BY DEF CommitRaises
<1>2. pc'[c] = "closing" /\ \A d \in Consumers \ {c} : pc'[d] = pc[d]
    BY <1>0 DEF CommitRaises, TypeOK
<1>3. CASE UNCHANGED committed
    BY <1>0, <1>1, <1>2, <1>3, QuietStep DEF TypeOK
<1>4. CASE Fenced(c) /\ CommitOffsets(c)
  <2>1. /\ \A p \in Partitions : committed'[p] <= Len(topic[p])
        /\ \A p \in Partitions : \A i \in 1 .. committed'[p] : Handled(<<p, i>>)
        /\ \A d \in joined : \A p \in assigned[d] : committed'[p] <= position[d][p]
    BY <1>4, CommittingStep DEF CommitRaises
  <2>2. \A m : (Handled(m)' <=> Handled(m)) /\ (Exists(m)' <=> Exists(m))
    BY <1>1 DEF Handled, Payload, Exists
  <2>3. OnlyProduced'
    BY <1>1, <2>1 DEF IndInv, OnlyProduced, Exists
  <2>4. FencedByGeneration'
    BY <1>0, <1>1, <1>2, <2>1 DEF IndInv, FencedByGeneration, TypeOK
  <2>5. ReadIsHandledOrHeld'
    <3>1. \A d : MessagesIn(batch[d])' = MessagesIn(batch[d])
      BY <1>1 DEF MessagesIn
    <3> QED
      BY <1>1, <2>2, <3>1 DEF IndInv, ReadIsHandledOrHeld
  <2>6. Grow
    BY <1>1 DEF Grow
  <2>7. HeldIsStored'
    BY <1>1, <1>2, <2>6, HeldStays DEF IndInv
  <2>8. CommittedIsHandled'
    BY <2>1, <2>2 DEF CommittedIsHandled
  <2>9. OfferedAreStored'
    BY <1>1, OfferedStays DEF IndInv
  <2> QED
    BY <2>3, <2>4, <2>5, <2>7, <2>8, <2>9 DEF IndInv
<1> QED
    BY <1>3, <1>4 DEF CommitRaises

\* A new record changes no record that was there.
LEMMA ProduceStep ==
    ASSUME IndInv, TypeOK', NEW p \in Partitions, NEW r \in Records, Produce(p, r)
    PROVE  IndInv'
<1> USE DEF broker, client, counts, history, bounds
<1>0. TypeOK
    BY DEF IndInv
<1>1. UNCHANGED <<committed, owner, joined, raw_logs, pc, assigned, position,
                  batch, failed, offered>>
    BY DEF Produce
<1>2. \A q \in Partitions :
        /\ Len(topic[q]) \in Nat
        /\ Len(topic[q]) <= Len(topic'[q])
        /\ \A i \in 1 .. Len(topic[q]) : topic'[q][i] = topic[q][i]
    BY <1>0 DEF Produce, TypeOK
<1>3. ASSUME NEW m, Exists(m)
      PROVE  /\ Exists(m)' /\ Payload(m)' = Payload(m)
             /\ Handled(m) => Handled(m)'
  <2>1. m[1] \in Partitions /\ m[2] \in 1 .. Len(topic[m[1]])
    BY <1>3 DEF Exists
  <2>2. Payload(m)' = Payload(m)
    BY <1>2, <2>1 DEF Payload
  <2>3. Exists(m)'
    BY <1>0, <1>2, <2>1 DEF Exists, TypeOK, Produce
  <2> QED
    BY <1>1, <2>2, <2>3 DEF Handled
<1>4. OnlyProduced'
  <2>1. ASSUME NEW c \in Consumers, NEW k \in DOMAIN batch[c]
        PROVE  Exists(batch[c][k])'
    <3>1. Exists(batch[c][k])
      BY DEF IndInv, OnlyProduced
    <3>2. \A m : Exists(m) => Exists(m)'
      BY <1>3
    <3>3. batch' = batch
      BY <1>1
    <3> QED
      BY <3>1, <3>2, <3>3 DEF Exists
  <2>2. ASSUME NEW q \in Partitions
        PROVE  /\ committed'[q] <= Len(topic'[q])
               /\ \A c \in Consumers : position'[c][q] <= Len(topic'[q])
    <3>1. /\ committed[q] <= Len(topic[q])
          /\ \A c \in Consumers : position[c][q] <= Len(topic[q])
      BY DEF IndInv, OnlyProduced
    <3>2. Len(topic'[q]) \in Nat
      BY <1>0 DEF Produce, TypeOK
    <3> QED
      BY <1>0, <1>1, <1>2, <3>1, <3>2 DEF TypeOK
  <2>3. \A m \in failed' \cup offered' : Exists(m)'
    BY <1>1, <1>3 DEF IndInv, OnlyProduced
  <2> QED
    BY <1>1, <2>1, <2>2, <2>3 DEF OnlyProduced
<1>5. FencedByGeneration'
    BY <1>1 DEF IndInv, FencedByGeneration
<1>6. ASSUME NEW q \in Partitions, NEW n \in Nat, n <= Len(topic[q]),
             NEW i \in 1 .. n, Handled(<<q, i>>)
      PROVE  Handled(<<q, i>>)'
  <2>1. Exists(<<q, i>>)
    BY <1>2, <1>6 DEF Exists
  <2> QED
    BY <1>3, <1>6, <2>1
<1>7. ReadIsHandledOrHeld'
  <2>1. ASSUME NEW c \in joined, NEW q \in assigned[c], NEW i \in 1 .. position[c][q]
        PROVE  Handled(<<q, i>>)' \/ <<q, i>> \in MessagesIn(batch[c])
    <3>1. Handled(<<q, i>>) \/ <<q, i>> \in MessagesIn(batch[c])
      BY DEF IndInv, ReadIsHandledOrHeld
    <3>2. /\ q \in Partitions /\ position[c][q] \in Nat
          /\ position[c][q] <= Len(topic[q])
      BY <1>0 DEF IndInv, OnlyProduced, TypeOK
    <3> QED
      BY <1>6, <3>1, <3>2
  <2>2. \A d : MessagesIn(batch[d])' = MessagesIn(batch[d])
    BY <1>1 DEF MessagesIn
  <2> QED
    BY <1>1, <2>1, <2>2 DEF ReadIsHandledOrHeld
<1>8. HeldIsStored'
  <2>1. ASSUME NEW c \in Consumers, NEW k \in DOMAIN batch[c]
        PROVE  /\ pc[c] = "callback" =>
                    Payload(batch[c][k])' \in Garbage \cup raw_logs
               /\ pc[c] = "commit" => Handled(batch[c][k])'
    <3> DEFINE m == batch[c][k]
    <3>1. Exists(m)
      BY DEF IndInv, OnlyProduced
    <3>2. /\ pc[c] = "callback" => Payload(m) \in Garbage \cup raw_logs
          /\ pc[c] = "commit" => Handled(m)
      BY DEF IndInv, HeldIsStored
    <3>3. m' = m
      BY <1>1
    <3>4. Payload(m)' = Payload(m) /\ (Handled(m) => Handled(m)')
      <4>1. \A x : Exists(x) =>
               /\ topic'[x[1]][x[2]] = topic[x[1]][x[2]]
        BY <1>2 DEF Exists
      <4>2. Payload(m)' = Payload(m)
        BY <3>1, <3>3, <4>1 DEF Payload
      <4> QED
        BY <1>1, <3>3, <4>2 DEF Handled
    <3> QED
      BY <3>2, <3>4
  <2> QED
    BY <1>1, <2>1 DEF HeldIsStored
<1>9. CommittedIsHandled'
  <2>1. ASSUME NEW q \in Partitions, NEW i \in 1 .. committed[q]
        PROVE  Handled(<<q, i>>)'
    <3>1. Handled(<<q, i>>)
      BY DEF IndInv, CommittedIsHandled
    <3>2. committed[q] \in Nat /\ committed[q] <= Len(topic[q])
      BY <1>0 DEF IndInv, OnlyProduced, TypeOK
    <3> QED
      BY <1>6, <3>1, <3>2
  <2> QED
    BY <1>1, <2>1 DEF CommittedIsHandled
<1>10. OfferedAreStored'
    BY <1>1, <1>3 DEF IndInv, OnlyProduced, OfferedAreStored
<1> QED
    BY <1>4, <1>5, <1>7, <1>8, <1>9, <1>10 DEF IndInv

\* A consumer that adopts the generation starts from the group's offsets,
\* below which everything is handled.
LEMMA JoinGroupStep ==
    ASSUME IndInv, TypeOK', NEW c \in Consumers, JoinGroup(c)
    PROVE  IndInv'
<1> USE DEF broker, client, counts, history, bounds
<1>0. TypeOK
    BY DEF IndInv
<1>1. UNCHANGED <<topic, committed, owner, raw_logs, pc, batch, failed, offered>>
    BY DEF JoinGroup
<1>2. /\ joined' = joined \cup {c}
      /\ pc[c] # "down"
      /\ assigned'[c] = {p \in Partitions : owner[p] = c}
      /\ \A p \in Partitions : position'[c][p] = committed[p]
      /\ \A d \in Consumers \ {c} : /\ assigned'[d] = assigned[d]
                                    /\ position'[d] = position[d]
    BY <1>0 DEF JoinGroup, ResumeAt, TypeOK
<1>3. \A m : (Handled(m)' <=> Handled(m)) /\ (Exists(m)' <=> Exists(m))
    BY <1>1 DEF Handled, Payload, Exists
<1>4. \A d : MessagesIn(batch[d])' = MessagesIn(batch[d])
    BY <1>1 DEF MessagesIn
<1>5. OnlyProduced'
  <2>1. ASSUME NEW d \in Consumers, NEW p \in Partitions
        PROVE  position'[d][p] <= Len(topic[p])
    BY <1>2 DEF IndInv, OnlyProduced
  <2> QED
    BY <1>1, <1>3, <2>1 DEF IndInv, OnlyProduced, Exists
<1>6. FencedByGeneration'
  <2>1. ASSUME NEW d \in joined'
        PROVE  /\ pc[d] # "down"
               /\ assigned'[d] = {p \in Partitions : owner[p] = d}
               /\ \A p \in assigned'[d] : committed[p] <= position'[d][p]
    <3>1. CASE d = c
      <4>1. \A p \in Partitions : committed[p] <= committed[p]
        BY <1>0 DEF TypeOK
      <4> QED
        BY <1>2, <3>1, <4>1
    <3>2. CASE d # c
      BY <1>0, <1>2, <3>2 DEF IndInv, FencedByGeneration, TypeOK
    <3> QED
      BY <3>1, <3>2
  <2> QED
    BY <1>1, <2>1 DEF FencedByGeneration
<1>7. ReadIsHandledOrHeld'
  <2>1. ASSUME NEW d \in joined', NEW p \in assigned'[d],
               NEW i \in 1 .. position'[d][p]
        PROVE  Handled(<<p, i>>) \/ <<p, i>> \in MessagesIn(batch[d])
    <3>1. CASE d = c
      BY <1>2, <3>1 DEF IndInv, CommittedIsHandled
    <3>2. CASE d # c
      BY <1>0, <1>2, <3>2 DEF IndInv, ReadIsHandledOrHeld, TypeOK
    <3> QED
      BY <3>1, <3>2
  <2> QED
    BY <1>3, <1>4, <2>1 DEF ReadIsHandledOrHeld
<1>8. HeldIsStored' /\ OfferedAreStored'
    BY <1>1, HeldStays, OfferedStays DEF IndInv, Grow
<1>9. CommittedIsHandled'
    BY <1>1, <1>3 DEF IndInv, CommittedIsHandled
<1> QED
    BY <1>5, <1>6, <1>7, <1>8, <1>9 DEF IndInv

\* What poll() moves past goes into the consumer's hands.
LEMMA PollRecordStep ==
    ASSUME IndInv, TypeOK', NEW c \in Consumers, NEW p \in Partitions,
           PollRecord(c, p)
    PROVE  IndInv'
<1> USE DEF broker, client, counts, history, bounds
<1> DEFINE m == <<p, position[c][p] + 1>>
<1>0. TypeOK
    BY DEF IndInv
<1>1. UNCHANGED <<topic, committed, owner, joined, raw_logs, pc, assigned,
                  failed, offered>>
    BY DEF PollRecord
<1>2. pc[c] = "poll" /\ position[c][p] \in Nat /\ position[c][p] < Len(topic[p])
    BY <1>0 DEF PollRecord, TypeOK
<1>3. /\ batch[c] \in Seq(Messages) /\ m \in Messages
      /\ batch'[c] = Append(batch[c], m)
      /\ \A d \in Consumers \ {c} : batch'[d] = batch[d]
    BY <1>0, <1>2 DEF PollRecord, TypeOK, Messages
<1>4. /\ position'[c][p] = position[c][p] + 1
      /\ \A q \in Partitions \ {p} : position'[c][q] = position[c][q]
      /\ \A d \in Consumers \ {c} : position'[d] = position[d]
    BY <1>0 DEF PollRecord, TypeOK
<1>5. \A x : (Handled(x)' <=> Handled(x)) /\ (Exists(x)' <=> Exists(x))
    BY <1>1 DEF Handled, Payload, Exists
<1>6. MessagesIn(batch'[c]) = MessagesIn(batch[c]) \cup {m}
  <2>1. \A k \in DOMAIN batch[c] : k \in DOMAIN batch'[c] /\ batch'[c][k] = batch[c][k]
    BY <1>3
  <2>2. \A k \in DOMAIN batch'[c] :
          k \in DOMAIN batch[c] \/ (k = Len(batch[c]) + 1 /\ batch'[c][k] = m)
    BY <1>3
  <2>3. Len(batch[c]) + 1 \in DOMAIN batch'[c] /\ batch'[c][Len(batch[c]) + 1] = m
    BY <1>3
  <2> QED
    BY <2>1, <2>2, <2>3 DEF MessagesIn
<1>7. Exists(m)
    BY <1>0, <1>2 DEF Exists, TypeOK
<1>8. OnlyProduced'
  <2>1. ASSUME NEW d \in Consumers, NEW k \in DOMAIN batch'[d]
        PROVE  Exists(batch'[d][k])
    <3>1. batch'[d][k] \in MessagesIn(batch'[d])
      BY DEF MessagesIn
    <3>2. \A x \in MessagesIn(batch[d]) : Exists(x)
      BY DEF MessagesIn, IndInv, OnlyProduced
    <3>3. CASE d = c
      BY <1>6, <1>7, <3>1, <3>2, <3>3
    <3>4. CASE d # c
      BY <1>3, <3>1, <3>2, <3>4
    <3> QED
      BY <3>3, <3>4
  <2>2. ASSUME NEW d \in Consumers, NEW k \in DOMAIN batch'[d]
        PROVE  Exists(batch[d][k])'
    BY <1>1, <2>1 DEF Exists
  <2>3. ASSUME NEW d \in Consumers, NEW q \in Partitions
        PROVE  position'[d][q] <= Len(topic[q])
    <3>1. CASE d = c /\ q = p
      BY <1>0, <1>2, <1>4, <3>1 DEF TypeOK
    <3>2. CASE d # c \/ q # p
      BY <1>4, <3>2 DEF IndInv, OnlyProduced
    <3> QED
      BY <3>1, <3>2
  <2> QED
    BY <1>1, <1>5, <2>2, <2>3 DEF IndInv, OnlyProduced
<1>9. FencedByGeneration'
  <2>1. ASSUME NEW d \in joined, NEW q \in assigned[d]
        PROVE  committed[q] <= position'[d][q]
    <3>1. q \in Partitions /\ d \in Consumers /\ committed[q] <= position[d][q]
      BY <1>0 DEF IndInv, FencedByGeneration, TypeOK
    <3>2. CASE d = c /\ q = p
      BY <1>0, <1>2, <1>4, <3>1, <3>2 DEF TypeOK
    <3>3. CASE d # c \/ q # p
      BY <1>4, <3>1, <3>3
    <3> QED
      BY <3>2, <3>3
  <2> QED
    BY <1>1, <2>1 DEF IndInv, FencedByGeneration
<1>10. ReadIsHandledOrHeld'
  <2>1. ASSUME NEW d \in joined, NEW q \in assigned[d],
               NEW i \in 1 .. position'[d][q]
        PROVE  Handled(<<q, i>>) \/ <<q, i>> \in MessagesIn(batch'[d])
    <3>1. q \in Partitions /\ d \in Consumers /\ position[d][q] \in Nat
      BY <1>0 DEF TypeOK
    <3>2. \A j \in 1 .. position[d][q] :
             Handled(<<q, j>>) \/ <<q, j>> \in MessagesIn(batch[d])
      BY DEF IndInv, ReadIsHandledOrHeld
    <3>3. MessagesIn(batch[d]) \subseteq MessagesIn(batch'[d])
      BY <1>3, <1>6, <3>1
    <3>4. CASE d = c /\ q = p
      <4>1. i \in 1 .. position[c][p] \/ i = position[c][p] + 1
        BY <1>2, <1>4, <3>4
      <4> QED
        BY <1>6, <3>2, <3>3, <3>4, <4>1
    <3>5. CASE d # c \/ q # p
      BY <1>4, <3>1, <3>2, <3>3, <3>5
    <3> QED
      BY <3>4, <3>5
  <2>2. \A d : MessagesIn(batch[d])' = MessagesIn(batch'[d])
    BY DEF MessagesIn
  <2> QED
    BY <1>1, <1>5, <2>1, <2>2 DEF ReadIsHandledOrHeld
<1>11. HeldIsStored'
  <2>1. ASSUME NEW d \in Consumers, NEW k \in DOMAIN batch'[d]
        PROVE  /\ pc[d] = "callback" =>
                    Payload(batch[d][k])' \in Garbage \cup raw_logs
               /\ pc[d] = "commit" => Handled(batch[d][k])'
    <3>1. CASE d = c
      BY <1>2, <3>1
    <3>2. CASE d # c
      BY <1>1, <1>3, <3>2 DEF IndInv, HeldIsStored, Handled, Payload
    <3> QED
      BY <3>1, <3>2
  <2> QED
    BY <1>1, <2>1 DEF HeldIsStored
<1>12. CommittedIsHandled'
    BY <1>1, <1>5 DEF IndInv, CommittedIsHandled
<1>13. OfferedAreStored'
    BY <1>1, OfferedStays DEF IndInv
<1> QED
    BY <1>8, <1>9, <1>10, <1>11, <1>12, <1>13 DEF IndInv

LEMMA InvNext == IndInv /\ [Next]_vars => IndInv'
<1> SUFFICES ASSUME IndInv, [Next]_vars PROVE IndInv'
    OBVIOUS
<1>0. TypeOK'
    BY TypeNext DEF IndInv
<1>1. CASE \E p \in Partitions, r \in Records : Produce(p, r)
    BY <1>0, <1>1, ProduceStep
<1>2. CASE Rebalance \/ UNCHANGED vars
    BY <1>0, <1>2, RebalanceOrStutterStep
<1>3. ASSUME NEW c \in Consumers, JoinGroup(c) PROVE IndInv'
    BY <1>0, <1>3, JoinGroupStep
<1>4. ASSUME NEW c \in Consumers, Start(c) PROVE IndInv'
    BY <1>0, <1>4, QuietActions
<1>5. ASSUME NEW c \in Consumers, Loop(c) PROVE IndInv'
    BY <1>0, <1>5, PollRecordStep, EndPollStep, InsertRowsStep, CallbackStep,
       CommitStep, CommitRaisesStep, QuietActions DEF Loop
<1>6. ASSUME NEW c \in Consumers, Disturbance(c) PROVE IndInv'
    BY <1>0, <1>6, InsertFailsStep, QuietActions DEF Disturbance
<1> QED
    BY <1>1, <1>2, <1>3, <1>4, <1>5, <1>6 DEF Next

\* IndInv holds in every reachable state.
THEOREM InvCorrect == Spec => []IndInv
<1> QED
    BY InvInit, InvNext, PTL DEF Spec

\* The group's offset passes only records that are undecodable, stored, or
\* given up by a failed insert: with any number of consumers, across any
\* rebalances, crashes and failed commits.
THEOREM NothingPassedUnsettled == Spec => []CommitCoversOnlySettled
<1>1. IndInv => CommitCoversOnlySettled
    BY DEF IndInv, CommittedIsHandled, Handled, CommitCoversOnlySettled,
           CommittedMessages, Offsets, Settled
<1> QED
    BY <1>1, InvCorrect, PTL

\* With a callback, the offset passes only records the callback was called
\* with, or that a failed insert gave up.
THEOREM NothingPassedUnoffered == Spec => []CommitCoversOffered
<1>1. IndInv => CommitCoversOffered
  <2> SUFFICES ASSUME IndInv, OnBatch, NEW m \in CommittedMessages,
                      Payload(m) \in Entries
               PROVE  m \in offered \cup failed
    BY DEF CommitCoversOffered
  <2>1. Handled(m)
    BY DEF IndInv, CommittedIsHandled, CommittedMessages, Offsets
  <2> QED
    BY <2>1, NamesAssumption DEF Handled
<1> QED
    BY <1>1, InvCorrect, PTL

\* The callback sees stored entries only.
THEOREM NothingOfferedUnstored == Spec => []OfferedAreStored
<1>1. IndInv => OfferedAreStored
    BY DEF IndInv
<1> QED
    BY <1>1, InvCorrect, PTL

LEMMA OffsetsStep ==
    ASSUME IndInv, [Next]_vars
    PROVE  \A p \in Partitions : committed[p] <= committed'[p]
<1> USE DEF broker, client, counts, history, bounds
<1>1. CASE UNCHANGED committed
    BY <1>1 DEF IndInv, TypeOK
<1>2. ASSUME NEW c \in Consumers, Commit(c)
      PROVE  \A p \in Partitions : committed[p] <= committed'[p]
    BY <1>2, CommittingStep DEF Commit
<1>3. ASSUME NEW c \in Consumers, CommitRaises(c)
      PROVE  \A p \in Partitions : committed[p] <= committed'[p]
    BY <1>1, <1>3, CommittingStep DEF CommitRaises
<1>4. \/ UNCHANGED committed
      \/ \E c \in Consumers : Commit(c) \/ CommitRaises(c)
    BY DEF Next, Loop, Disturbance, Produce, Rebalance, JoinGroup, Start,
           PollRecord, EndPoll, InsertRows, Callback, Close, Evict, PollError,
           InsertFails, RequestStop, Cancel, Crash, Gone, vars
<1> QED
    BY <1>1, <1>2, <1>3, <1>4

\* No consumer, evicted ones included, ever moves the group's offset back.
THEOREM NeverRewinds == Spec => CommittedNeverRewinds
<1>1. IndInv /\ [Next]_vars => [\A p \in Partitions : committed'[p] >= committed[p]]_vars
  <2> SUFFICES ASSUME IndInv, [Next]_vars
               PROVE  \A p \in Partitions : committed'[p] >= committed[p]
    OBVIOUS
  <2>1. TypeOK /\ TypeOK'
    BY TypeNext DEF IndInv
  <2> QED
    BY <2>1, OffsetsStep DEF TypeOK
<1> QED
    BY <1>1, InvCorrect, PTL DEF Spec, CommittedNeverRewinds

-----------------------------------------------------------------------------
(* LogConsumer implements LogStore.                                        *)

\* A produced message is present in the abstract store.
LEMMA ExistsIsPresent ==
    ASSUME NEW m \in Messages, Exists(m)
    PROVE  m \in Promise!Present /\ Payload(m) = Promise!Record(m[1], m[2])
<1>1. PICK p \in Partitions, i \in Nat : m = <<p, i>>
    BY DEF Messages
<1>2. i \in 1 .. Len(topic[p])
    BY <1>1 DEF Exists
<1>3. m \in {<<p, j>> : j \in 1 .. Len(topic[p])}
    BY <1>1, <1>2
<1>4. m \in Promise!Present
    BY <1>1, <1>3 DEF Promise!Present
<1> QED
    BY <1>4 DEF Payload, Promise!Record

\* What a batch stores are entries that were produced.
LEMMA StoredIsPresent ==
    ASSUME IndInv, NEW c \in Consumers
    PROVE  /\ raw_logs \subseteq Stored(c)
           /\ Stored(c) \subseteq
                Entries \cap (raw_logs \cup
                    {Promise!Record(m[1], m[2]) : m \in Promise!Present})
           /\ EntryMessages(batch[c]) \subseteq Promise!Present
<1>1. ASSUME NEW k \in DOMAIN batch[c]
      PROVE  /\ batch[c][k] \in Promise!Present
             /\ Payload(batch[c][k]) = Promise!Record(batch[c][k][1], batch[c][k][2])
  <2>1. Exists(batch[c][k]) /\ batch[c][k] \in Messages
    BY DEF IndInv, OnlyProduced, TypeOK
  <2> QED
    BY <2>1, ExistsIsPresent
<1>2. EntryMessages(batch[c]) \subseteq Promise!Present
    BY <1>1 DEF EntryMessages, Decoded
<1>3. EntryIds(batch[c]) \subseteq
          Entries \cap {Promise!Record(m[1], m[2]) : m \in Promise!Present}
    BY <1>1 DEF EntryIds, Decoded
<1>4. raw_logs \subseteq Entries
    BY DEF IndInv, TypeOK
<1> QED
    BY <1>2, <1>3, <1>4 DEF Stored

LEMMA FailedIsPresent == IndInv => failed \subseteq Promise!Present
<1> SUFFICES ASSUME IndInv, NEW m \in failed PROVE m \in Promise!Present
    OBVIOUS
<1>1. Exists(m) /\ m \in Messages
    BY DEF IndInv, OnlyProduced, TypeOK
<1> QED
    BY <1>1, ExistsIsPresent

LEMMA ProcessRefines ==
    ASSUME IndInv, NEW c \in Consumers, UNCHANGED <<topic, committed>>,
           raw_logs' \in {raw_logs, Stored(c)},
           failed' \in {failed, failed \cup EntryMessages(batch[c])}
    PROVE  Promise!Next
<1>1. failed' \subseteq Promise!Present
    BY StoredIsPresent, FailedIsPresent
<1>2. /\ raw_logs \subseteq raw_logs'
      /\ raw_logs' \subseteq
           Entries \cap (raw_logs \cup
               {Promise!Record(m[1], m[2]) : m \in Promise!Present})
    BY StoredIsPresent DEF IndInv, TypeOK
<1>3. Promise!Process
    BY <1>1, <1>2 DEF Promise!Process
<1> QED
    BY <1>3 DEF Promise!Next

LEMMA CommitRefines ==
    ASSUME IndInv, TypeOK', NEW c \in Consumers, pc[c] = "commit", Fenced(c),
           CommitOffsets(c), UNCHANGED <<topic, raw_logs, failed>>
    PROVE  Promise!Next
<1>1. ASSUME NEW p \in Partitions
      PROVE  /\ committed'[p] \in committed[p] .. Len(topic[p])
             /\ \A i \in committed[p] + 1 .. committed'[p] : Promise!Settled(p, i)
  <2>1. /\ committed[p] \in Nat /\ committed'[p] \in Nat
        /\ committed[p] <= committed'[p] /\ committed'[p] <= Len(topic[p])
        /\ Len(topic[p]) \in Nat
    BY CommittingStep DEF IndInv, TypeOK
  <2>2. ASSUME NEW i \in committed[p] + 1 .. committed'[p]
        PROVE  Promise!Settled(p, i)
    <3>1. i \in 1 .. committed'[p]
      BY <2>1
    <3>2. Handled(<<p, i>>)
      BY <3>1, CommittingStep
    <3> QED
      BY <3>2 DEF Handled, Payload, Promise!Settled, Promise!Record
  <2> QED
    BY <2>1, <2>2
<1>2. committed' \in [Partitions -> Nat]
    BY DEF TypeOK
<1>3. Promise!Advance
    BY <1>1, <1>2 DEF Promise!Advance
<1> QED
    BY <1>3 DEF Promise!Next

LEMMA StepRefines ==
    ASSUME IndInv, TypeOK', [Next]_vars
    PROVE  [Promise!Next]_(Promise!vars)
<1> USE DEF broker, client, counts, history, bounds
<1>1. CASE UNCHANGED <<topic, committed, raw_logs, failed>>
    BY <1>1 DEF Promise!vars
<1>2. ASSUME NEW p \in Partitions, NEW r \in Records, Produce(p, r)
      PROVE  Promise!Next
  <2>1. Promise!AppendRecord(p)
    BY <1>2 DEF Produce, Records, Promise!AppendRecord
  <2> QED
    BY <2>1 DEF Promise!Next
<1>3. ASSUME NEW c \in Consumers,
             InsertRows(c) \/ InsertFails(c) \/ Cancel(c) \/ Crash(c)
      PROVE  Promise!Next
  <2>1. UNCHANGED <<topic, committed>> /\ raw_logs' \in {raw_logs, Stored(c)}
    BY <1>3 DEF InsertRows, InsertFails, Cancel, Crash, Gone
  <2>2. failed' \in {failed, failed \cup EntryMessages(batch[c])}
    BY <1>3 DEF InsertRows, InsertFails, Cancel, Crash, Gone
  <2> QED
    BY <2>1, <2>2, ProcessRefines
<1>4. ASSUME NEW c \in Consumers, Commit(c)
      PROVE  Promise!Next
    BY <1>4, CommitRefines DEF Commit
<1>5. ASSUME NEW c \in Consumers, CommitRaises(c)
      PROVE  [Promise!Next]_(Promise!vars)
  <2>1. UNCHANGED <<topic, raw_logs, failed>> /\ pc[c] = "commit"
    BY <1>5 DEF CommitRaises
  <2>2. CASE UNCHANGED committed
    BY <1>1, <2>1, <2>2
  <2>3. CASE Fenced(c) /\ CommitOffsets(c)
    BY <2>1, <2>3, CommitRefines
  <2> QED
    BY <1>5, <2>2, <2>3 DEF CommitRaises
<1>6. \/ UNCHANGED <<topic, committed, raw_logs, failed>>
      \/ \E p \in Partitions, r \in Records : Produce(p, r)
      \/ \E c \in Consumers :
            \/ InsertRows(c) \/ InsertFails(c) \/ Cancel(c) \/ Crash(c)
            \/ Commit(c) \/ CommitRaises(c)
    BY DEF Next, Loop, Disturbance, Rebalance, JoinGroup, Start, PollRecord,
           EndPoll, Callback, Close, Evict, PollError, RequestStop, Gone, vars
<1> QED
    BY <1>1, <1>2, <1>3, <1>4, <1>5, <1>6

\* Whatever the consumers do is a behaviour of the at-least-once log store.
THEOREM Implements == Spec => ImplementsLogStore
<1>1. Init => Promise!Init
    BY DEF Init, Promise!Init
<1>2. IndInv /\ [Next]_vars => [Promise!Next]_(Promise!vars)
    BY StepRefines, TypeNext DEF IndInv
<1> QED
    BY <1>1, <1>2, InvCorrect, PTL DEF Spec, ImplementsLogStore, Promise!Spec
=============================================================================
