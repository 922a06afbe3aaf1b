---------------------------- MODULE LiveFeedProofs ----------------------------
(***************************************************************************)
(* Proofs about LiveFeed, for any clients, limit and number of faults: its *)
(* type invariant, the bound on the registry, and that clients which only  *)
(* listen stay.                                                            *)
(***************************************************************************)
EXTENDS LiveFeed, FiniteSetTheorems, TLAPS

-----------------------------------------------------------------------------
(* Type correctness.                                                       *)

LEMMA TypeInit == Init => TypeOK
<1> SUFFICES ASSUME Init PROVE TypeOK
    OBVIOUS
<1>1. /\ connected \in SUBSET Clients /\ greeted \in SUBSET Clients
      /\ asked \in SUBSET Clients /\ unreached \in BOOLEAN
      /\ overlap \in Nat /\ faults \in Nat
    BY DEF Init
<1>2. /\ link \in [Clients -> Links] /\ handler \in [Clients -> Handlers]
      /\ push \in [Clients -> Pushes] /\ recv \in [Clients -> Receives]
    BY DEF Init, Links, Handlers, Pushes, Receives
<1>3. \A ws \in Clients : push[ws] = "off" /\ recv[ws] = "off"
    BY DEF Init
<1> QED
    BY <1>1, <1>2, <1>3 DEF TypeOK

LEMMA SendFailsType ==
    ASSUME TypeOK, NEW ws \in Clients, SendFails(ws) \/ UNCHANGED faults
    PROVE  faults' \in Nat
BY DEF SendFails, Fault, TypeOK

\* Accepting is finite, so that it can be counted.
LEMMA AcceptingFinite ==
    IsFiniteSet(Accepting) /\ Cardinality(Accepting) \in Nat
<1>1. Accepting \in SUBSET Clients
    BY DEF Accepting
<1> QED
    BY <1>1, FeedAssumption, FS_Subset, FS_CardinalityType

LEMMA AdmitType == ASSUME TypeOK, NEW ws \in Clients, Admit(ws) PROVE TypeOK'
<1>1. CASE Connect(ws)
  <2>1. overlap' \in Nat
    BY <1>1, AcceptingFinite DEF Connect, TypeOK
  <2> QED
    BY <1>1, <2>1 DEF Connect, TypeOK, Links, Handlers, loops
<1>2. CASE Accepted(ws)
    BY <1>2 DEF Accepted, TypeOK, Handlers, loops, history
<1>3. CASE AcceptFails(ws)
    BY <1>3 DEF AcceptFails, TypeOK, Handlers, loops, history
<1> QED
    BY <1>1, <1>2, <1>3 DEF Admit

LEMMA HandleType == ASSUME TypeOK, NEW ws \in Clients, Handle(ws) PROVE TypeOK'
<1>1. CASE FirstSent(ws)
    BY <1>1 DEF FirstSent, TypeOK, Handlers, Pushes, Receives
<1>2. CASE FirstFails(ws)
  <2>1. faults' \in Nat
    BY <1>2, SendFailsType DEF FirstFails
  <2> QED
    BY <1>2, <2>1 DEF FirstFails, Remove, TypeOK, Handlers, loops, history
<1>3. CASE Leave(ws)
    BY <1>3 DEF Leave, CancelPending, Remove, TypeOK, Handlers, Pushes, Receives, history
<1> QED
    BY <1>1, <1>2, <1>3 DEF Handle

LEMMA PushType == ASSUME TypeOK, NEW ws \in Clients, Push(ws) PROVE TypeOK'
<1>1. CASE PushWakes(ws) \/ PushSent(ws) \/ PushLags(ws)
    BY <1>1 DEF PushWakes, PushSent, PushLags, AfterLag, TypeOK, Pushes, history
<1>2. CASE PushFails(ws)
  <2>1. faults' \in Nat
    BY <1>2, SendFailsType DEF PushFails
  <2> QED
    BY <1>2, <2>1 DEF PushFails, TypeOK, Pushes, history
<1> QED
    BY <1>1, <1>2 DEF Push

LEMMA AnswerType == ASSUME TypeOK, NEW ws \in Clients, Answer(ws) PROVE TypeOK'
<1>1. CASE Receive(ws)
    BY <1>1 DEF Receive, TypeOK, Receives
<1>2. CASE ReceiveEnds(ws) \/ Answered(ws)
    BY <1>2 DEF ReceiveEnds, Answered, TypeOK, Receives, history
<1>3. CASE AnswerFails(ws)
  <2>1. faults' \in Nat
    BY <1>3, SendFailsType DEF AnswerFails
  <2> QED
    BY <1>3, <2>1 DEF AnswerFails, TypeOK, Receives, history
<1> QED
    BY <1>1, <1>2, <1>3 DEF Answer

LEMMA TypeNext == TypeOK /\ [Next]_vars => TypeOK'
<1> SUFFICES ASSUME TypeOK, [Next]_vars PROVE TypeOK'
    OBVIOUS
<1>1. ASSUME NEW ws \in Clients, Disconnect(ws) PROVE TypeOK'
    BY <1>1 DEF Disconnect, TypeOK, Links, loops, history
<1>2. CASE Broadcast
    BY <1>2 DEF Broadcast, TypeOK, loops
<1>3. CASE UNCHANGED vars
    BY <1>3 DEF vars, loops, history, TypeOK
<1> QED
    BY <1>1, <1>2, <1>3, AdmitType, HandleType, PushType, AnswerType DEF Next

\* Every variable keeps its type, and no loop outlives its handler.
THEOREM TypeCorrect == Spec => []TypeOK
BY TypeInit, TypeNext, PTL DEF Spec

-----------------------------------------------------------------------------
(* The limit.                                                              *)

\* The excess is counted in handshakes, of which overlap is the maximum.
LimitInv ==
    /\ Cardinality(Accepting) <= overlap
    /\ LimitExceededOnlyByOverlap

LEMMA RegistryFinite ==
    ASSUME TypeOK
    PROVE  IsFiniteSet(connected) /\ Cardinality(connected) \in Nat
BY FeedAssumption, FS_Subset, FS_CardinalityType DEF TypeOK

\* A step that begins no handshake and admits no one keeps the invariant.
LEMMA Shrinking ==
    ASSUME TypeOK, TypeOK', LimitInv, overlap' = overlap,
           connected' \subseteq connected, Accepting' \subseteq Accepting
    PROVE  LimitInv'
<1>1. Cardinality(connected') <= Cardinality(connected)
    BY RegistryFinite, FS_Subset
<1>2. Cardinality(Accepting') <= Cardinality(Accepting)
    BY AcceptingFinite, FS_Subset
<1>3. /\ Cardinality(connected) \in Nat /\ Cardinality(Accepting) \in Nat
      /\ Cardinality(connected') \in Nat /\ Cardinality(Accepting') \in Nat
      /\ overlap \in Nat
  <2>1. IsFiniteSet(connected') /\ IsFiniteSet(Accepting')
    BY RegistryFinite, AcceptingFinite, FS_Subset
  <2> QED
    BY <2>1, RegistryFinite, AcceptingFinite, FS_CardinalityType DEF TypeOK
<1> QED
    BY <1>1, <1>2, <1>3, FeedAssumption DEF LimitInv, LimitExceededOnlyByOverlap

LEMMA ConnectLimit ==
    ASSUME TypeOK, LimitInv, NEW ws \in Clients, Connect(ws), ~ AtCapacity,
           handler' = [handler EXCEPT ![ws] = "accept"],
           overlap' = IF Cardinality(Accepting) + 1 > overlap
                      THEN Cardinality(Accepting) + 1 ELSE overlap
    PROVE  LimitInv'
<1>1. Accepting' = Accepting \cup {ws} /\ ws \notin Accepting
    BY DEF Accepting, Connect, TypeOK
<1>2. Cardinality(Accepting') = Cardinality(Accepting) + 1
    BY <1>1, AcceptingFinite, FS_AddElement
<1>3. connected' = connected /\ Cardinality(connected) < MaxClients
    BY RegistryFinite, FeedAssumption DEF Connect, AtCapacity
<1>4. /\ Cardinality(connected) \in Nat /\ Cardinality(Accepting) \in Nat
      /\ overlap \in Nat
    BY RegistryFinite, AcceptingFinite DEF TypeOK
<1> QED
    BY <1>2, <1>3, <1>4, FeedAssumption DEF LimitInv, LimitExceededOnlyByOverlap

LEMMA AcceptedLimit ==
    ASSUME TypeOK, LimitInv, NEW ws \in Clients, Accepted(ws)
    PROVE  LimitInv'
<1>1. Accepting' = Accepting \ {ws} /\ ws \in Accepting
    BY DEF Accepting, Accepted, TypeOK
<1>2. Cardinality(Accepting') = Cardinality(Accepting) - 1
    BY <1>1, AcceptingFinite, FS_RemoveElement
<1>3. Cardinality(connected') <= Cardinality(connected) + 1
      /\ Cardinality(connected') \in Nat
    BY RegistryFinite, FS_AddElement DEF Accepted
<1>4. /\ Cardinality(connected) \in Nat /\ Cardinality(Accepting) \in Nat
      /\ overlap \in Nat /\ overlap' = overlap
    BY RegistryFinite, AcceptingFinite DEF TypeOK, Accepted, history
<1> QED
    BY <1>2, <1>3, <1>4, FeedAssumption DEF LimitInv, LimitExceededOnlyByOverlap

LEMMA LimitInit == Init => LimitInv
<1> SUFFICES ASSUME Init PROVE LimitInv
    OBVIOUS
<1>1. Accepting = {}
    BY DEF Init, Accepting
<1> QED
    BY <1>1, FS_EmptySet DEF Init, LimitInv, LimitExceededOnlyByOverlap

LEMMA LimitNext == TypeOK /\ LimitInv /\ [Next]_vars => LimitInv'
<1> SUFFICES ASSUME TypeOK, LimitInv, [Next]_vars PROVE LimitInv'
    OBVIOUS
<1>0. TypeOK'
    BY TypeNext
<1>1. ASSUME NEW ws \in Clients, Connect(ws) PROVE LimitInv'
  <2>1. CASE handler' = [handler EXCEPT ![ws] = "done"] /\ overlap' = overlap
    <3>1. connected' = connected /\ Accepting' \subseteq Accepting
      BY <1>1, <2>1 DEF Connect, Accepting, TypeOK
    <3> QED
      BY <1>0, <2>1, <3>1, Shrinking
  <2> QED
    BY <1>1, <2>1, ConnectLimit DEF Connect
<1>2. ASSUME NEW ws \in Clients, AcceptFails(ws) \/ Handle(ws) PROVE LimitInv'
  <2>1. connected' \subseteq connected /\ Accepting' \subseteq Accepting /\ overlap' = overlap
    BY <1>2 DEF AcceptFails, Handle, FirstSent, FirstFails, Leave, Remove, Accepting,
                TypeOK, history
  <2> QED
    BY <1>0, <2>1, Shrinking
<1>3. CASE UNCHANGED <<connected, handler, overlap>>
  <2>1. Accepting' = Accepting
    BY <1>3 DEF Accepting
  <2> QED
    BY <1>0, <1>3, <2>1, Shrinking
<1>4. ASSUME NEW ws \in Clients, Push(ws) \/ Answer(ws) \/ Disconnect(ws)
      PROVE  UNCHANGED <<connected, handler, overlap>>
    BY <1>4 DEF Push, PushWakes, PushSent, PushLags, PushFails, Answer, Receive,
                ReceiveEnds, Answered, AnswerFails, Disconnect, history
<1>5. Broadcast \/ UNCHANGED vars => UNCHANGED <<connected, handler, overlap>>
    BY DEF Broadcast, vars, history
<1> QED
    BY <1>1, <1>2, <1>3, <1>4, <1>5, AcceptedLimit DEF Next, Admit

\* The registry exceeds the limit by less than the number of handshakes that
\* were ever under way at once.
THEOREM LimitHolds == Spec => []LimitExceededOnlyByOverlap
<1>1. LimitInv => LimitExceededOnlyByOverlap
    BY DEF LimitInv
<1> QED
    BY <1>1, TypeCorrect, LimitInit, LimitNext, PTL DEF Spec

-----------------------------------------------------------------------------
(* Clients that only listen.                                               *)

\* Where such a client is while it is there and the server has not failed.
Listening(ws) ==
    /\ ws \in connected /\ handler[ws] = "wait"
    /\ push[ws] \in {"sleep", "send"} /\ recv[ws] = "receive"

QuietInv ==
    /\ \A ws \in Clients : handler[ws] \in {"none", "accept", "first"} => ws \notin greeted
    /\ \A ws \in Clients : handler[ws] = "first" => ws \in connected
    /\ faults = 0 =>
          \A ws \in greeted \ asked : link[ws] = "up" => Listening(ws)

\* A step of one client leaves what the invariant says of the others.
LEMMA QuietStep ==
    ASSUME TypeOK, QuietInv, NEW ws \in Clients,
           faults' = 0 => faults = 0,
           \A q \in Clients \ {ws} :
              /\ q \in connected' <=> q \in connected
              /\ handler'[q] = handler[q] /\ link'[q] = link[q]
              /\ push'[q] = push[q] /\ recv'[q] = recv[q]
              /\ q \in greeted' <=> q \in greeted
              /\ q \in asked' <=> q \in asked,
           greeted' \subseteq Clients,
           handler'[ws] \in {"none", "accept", "first"} => ws \notin greeted',
           handler'[ws] = "first" => ws \in connected',
           (faults' = 0 /\ ws \in greeted' \ asked' /\ link'[ws] = "up") => Listening(ws)'
    PROVE  QuietInv'
BY DEF QuietInv, Listening, TypeOK

LEMMA QuietAdmit ==
    ASSUME TypeOK, QuietInv, NEW ws \in Clients, Admit(ws) PROVE QuietInv'
<1>1. CASE Connect(ws)
    BY <1>1, QuietStep DEF Connect, QuietInv, TypeOK, loops
<1>2. CASE Accepted(ws)
    BY <1>2, QuietStep DEF Accepted, QuietInv, TypeOK, loops, history
<1>3. CASE AcceptFails(ws)
    BY <1>3, QuietStep DEF AcceptFails, QuietInv, TypeOK, loops, history
<1> QED
    BY <1>1, <1>2, <1>3 DEF Admit

LEMMA FaultCounts ==
    ASSUME TypeOK, NEW ws \in Clients, SendFails(ws) \/ UNCHANGED faults
    PROVE  faults' = 0 => faults = 0
BY DEF SendFails, Fault, TypeOK

LEMMA QuietHandle ==
    ASSUME TypeOK, QuietInv, NEW ws \in Clients, Handle(ws) PROVE QuietInv'
<1>1. CASE FirstSent(ws)
    BY <1>1, QuietStep DEF FirstSent, QuietInv, Listening, TypeOK
<1>2. CASE FirstFails(ws)
    BY <1>2, QuietStep, FaultCounts DEF FirstFails, Remove, QuietInv, TypeOK, loops, history
<1>3. CASE Leave(ws)
    BY <1>3, QuietStep
    DEF Leave, CancelPending, Remove, QuietInv, Listening, TypeOK, history
<1> QED
    BY <1>1, <1>2, <1>3 DEF Handle

LEMMA QuietPush ==
    ASSUME TypeOK, QuietInv, NEW ws \in Clients, Push(ws) PROVE QuietInv'
<1>1. CASE PushWakes(ws) \/ PushSent(ws) \/ PushLags(ws)
    BY <1>1, QuietStep
    DEF PushWakes, PushSent, PushLags, AfterLag, QuietInv, Listening, TypeOK, history
<1>2. CASE PushFails(ws)
  <2>1. faults' = 0 => link[ws] = "gone"
    BY <1>2 DEF PushFails, SendFails, Fault, TypeOK
  <2> QED
    BY <1>2, <2>1, QuietStep, FaultCounts DEF PushFails, QuietInv, TypeOK, history
<1> QED
    BY <1>1, <1>2 DEF Push

LEMMA QuietAnswer ==
    ASSUME TypeOK, QuietInv, NEW ws \in Clients, Answer(ws) PROVE QuietInv'
<1>1. CASE Receive(ws)
    BY <1>1, QuietStep DEF Receive, QuietInv, TypeOK
<1>2. CASE ReceiveEnds(ws)
    BY <1>2, QuietStep DEF ReceiveEnds, QuietInv, TypeOK, history
<1>3. CASE Answered(ws)
    BY <1>3, QuietStep DEF Answered, QuietInv, Listening, TypeOK, history
<1>4. CASE AnswerFails(ws)
    BY <1>4, QuietStep, FaultCounts DEF AnswerFails, QuietInv, Listening, TypeOK, history
<1> QED
    BY <1>1, <1>2, <1>3, <1>4 DEF Answer

LEMMA QuietNext == TypeOK /\ QuietInv /\ [Next]_vars => QuietInv'
<1> SUFFICES ASSUME TypeOK, QuietInv, [Next]_vars PROVE QuietInv'
    OBVIOUS
<1>1. ASSUME NEW ws \in Clients, Disconnect(ws) PROVE QuietInv'
    BY <1>1, QuietStep DEF Disconnect, QuietInv, TypeOK, loops, history
<1>2. CASE Broadcast
    BY <1>2 DEF Broadcast, QuietInv, Listening, loops
<1>3. CASE UNCHANGED vars
    BY <1>3 DEF vars, loops, history, QuietInv, Listening
<1> QED
    BY <1>1, <1>2, <1>3, QuietAdmit, QuietHandle, QuietPush, QuietAnswer DEF Next

\* A client that only listens stays in the registry until it goes itself.
THEOREM QuietStay == Spec => []QuietClientsStay
<1>1. Init => QuietInv
    BY DEF Init, QuietInv
<1>2. QuietInv => QuietClientsStay
    BY DEF QuietInv, QuietClientsStay, Listening
<1> QED
    BY <1>1, <1>2, TypeCorrect, QuietNext, PTL DEF Spec
===============================================================================
