------------------------------- MODULE LiveFeed -------------------------------
(***************************************************************************)
(* src/src/dashboard/routers/websocket.py: the live feed of the dashboard. *)
(*                                                                         *)
(* Each WebSocket client has a handler, websocket_live, which admits it,   *)
(* enters it into the global set _connected_clients, sends a first payload *)
(* and then waits for the first of two loops to end: one pushes a payload  *)
(* every few seconds, the other answers the client's messages.  All run on *)
(* one event loop and interleave at their awaits.                          *)
(*                                                                         *)
(* A payload is built from three queries whose failures are replaced by    *)
(* defaults; nothing here depends on what is in it, so building and        *)
(* sending it is one step, which may succeed, time out (the client lags)   *)
(* or fail (the client is gone, or the payload cannot be serialised).      *)
(*                                                                         *)
(* An operator Bad... is a plausible mistake in the one it is named after; *)
(* no action uses it.                                                      *)
(***************************************************************************)
EXTENDS Integers, FiniteSets

CONSTANTS
    Clients,     \* connections, each of which is made once
    MaxClients,  \* MAX_CLIENTS
    MaxFaults    \* bound: payloads that fail for a client that is there

ASSUME FeedAssumption ==
    /\ IsFiniteSet(Clients)
    /\ MaxClients \in Nat \ {0}
    /\ MaxFaults \in Nat

VARIABLES
    connected,  \* _connected_clients
    link,       \* the client's end of the connection
    handler,    \* where websocket_live is
    push,       \* where _push_loop is
    recv,       \* where _receive_loop is
    \* history, read by no action
    greeted,    \* the clients that got their first payload
    asked,      \* the clients that ever sent a message
    overlap,    \* the most handshakes that were ever under way at once
    unreached,  \* whether a broadcast neither reached nor removed some client
    \* bound
    faults

loops   == <<push, recv>>
history == <<greeted, asked, overlap, unreached>>
vars    == <<connected, link, handler, loops, history, faults>>

Links    == {"none", "up", "gone"}
Handlers == {"none", "accept", "first", "wait", "done"}
Pushes   == {"off", "sleep", "send", "over"}
Receives == {"off", "receive", "send", "over"}

Fault == faults < MaxFaults /\ faults' = faults + 1

\* A send fails because the client is gone, or for a reason of the server's.
SendFails(ws) == \/ link[ws] = "gone" /\ UNCHANGED faults
                 \/ link[ws] = "up" /\ Fault

Init ==
    /\ connected = {}
    /\ link = [ws \in Clients |-> "none"]
    /\ handler = [ws \in Clients |-> "none"]
    /\ push = [ws \in Clients |-> "off"]
    /\ recv = [ws \in Clients |-> "off"]
    /\ greeted = {} /\ asked = {} /\ overlap = 0 /\ unreached = FALSE
    /\ faults = 0

-----------------------------------------------------------------------------
(* Admission.                                                              *)

Accepting == {ws \in Clients : handler[ws] = "accept"}

BadAtCapacity == Cardinality(connected) > MaxClients
AtCapacity == Cardinality(connected) >= MaxClients

\* A new connection: refused with 1013, or on its way through accept().
Connect(ws) ==
    /\ handler[ws] = "none"
    /\ link' = [link EXCEPT ![ws] = "up"]
    /\ \/ /\ AtCapacity
          /\ handler' = [handler EXCEPT ![ws] = "done"]
          /\ UNCHANGED overlap
       \/ /\ ~ AtCapacity
          /\ handler' = [handler EXCEPT ![ws] = "accept"]
          /\ overlap' = IF Cardinality(Accepting) + 1 > overlap
                        THEN Cardinality(Accepting) + 1 ELSE overlap
    /\ UNCHANGED <<connected, loops, greeted, asked, unreached, faults>>

\* accept() returns, and the client enters the registry.
Accepted(ws) ==
    /\ handler[ws] = "accept"
    /\ connected' = connected \cup {ws}
    /\ handler' = [handler EXCEPT ![ws] = "first"]
    /\ UNCHANGED <<link, loops, history, faults>>

\* accept() raises, outside of the try: the client left during the handshake.
AcceptFails(ws) ==
    /\ handler[ws] = "accept" /\ link[ws] = "gone"
    /\ handler' = [handler EXCEPT ![ws] = "done"]
    /\ UNCHANGED <<connected, link, loops, history, faults>>

-----------------------------------------------------------------------------
(* The handler.                                                            *)

\* The finally clause.
BadRemove(ws) == UNCHANGED connected
Remove(ws) == connected' = connected \ {ws}

\* The first payload is sent; the two loops begin.
FirstSent(ws) ==
    /\ handler[ws] = "first"
    /\ handler' = [handler EXCEPT ![ws] = "wait"]
    /\ push' = [push EXCEPT ![ws] = "sleep"]
    /\ recv' = [recv EXCEPT ![ws] = "receive"]
    /\ greeted' = greeted \cup {ws}
    /\ UNCHANGED <<connected, link, asked, overlap, unreached, faults>>

\* The first payload fails or, like any other exception, times out.
FirstFails(ws) ==
    /\ handler[ws] = "first"
    /\ SendFails(ws) \/ UNCHANGED faults
    /\ handler' = [handler EXCEPT ![ws] = "done"]
    /\ Remove(ws)
    /\ UNCHANGED <<link, loops, history>>

\* asyncio.wait returned because one loop is over: the other one is cancelled
\* at its await, whichever that is, and runs no more.
BadCancelPending(ws) == UNCHANGED loops
CancelPending(ws) ==
    /\ push' = [push EXCEPT ![ws] = "over"]
    /\ recv' = [recv EXCEPT ![ws] = "over"]

Leave(ws) ==
    /\ handler[ws] = "wait" /\ "over" \in {push[ws], recv[ws]}
    /\ CancelPending(ws)
    /\ handler' = [handler EXCEPT ![ws] = "done"]
    /\ Remove(ws)
    /\ UNCHANGED <<link, history, faults>>

-----------------------------------------------------------------------------
(* _push_loop.                                                             *)

PushWakes(ws) ==
    /\ push[ws] = "sleep"
    /\ push' = [push EXCEPT ![ws] = "send"]
    /\ UNCHANGED <<connected, link, handler, recv, history, faults>>

PushSent(ws) ==
    /\ push[ws] = "send"
    /\ push' = [push EXCEPT ![ws] = "sleep"]
    /\ UNCHANGED <<connected, link, handler, recv, history, faults>>

\* A client that lags misses this payload.
BadAfterLag == "over"
AfterLag == "sleep"

PushLags(ws) ==
    /\ push[ws] = "send"
    /\ push' = [push EXCEPT ![ws] = AfterLag]
    /\ UNCHANGED <<connected, link, handler, recv, history, faults>>

PushFails(ws) ==
    /\ push[ws] = "send"
    /\ SendFails(ws)
    /\ push' = [push EXCEPT ![ws] = "over"]
    /\ UNCHANGED <<connected, link, handler, recv, history>>

-----------------------------------------------------------------------------
(* _receive_loop.                                                          *)

\* The client asks for an update.
Receive(ws) ==
    /\ recv[ws] = "receive" /\ link[ws] = "up"
    /\ recv' = [recv EXCEPT ![ws] = "send"]
    /\ asked' = asked \cup {ws}
    /\ UNCHANGED <<connected, link, handler, push, greeted, overlap, unreached,
                   faults>>

\* receive_text() raises WebSocketDisconnect.
ReceiveEnds(ws) ==
    /\ recv[ws] = "receive" /\ link[ws] = "gone"
    /\ recv' = [recv EXCEPT ![ws] = "over"]
    /\ UNCHANGED <<connected, link, handler, push, history, faults>>

Answered(ws) ==
    /\ recv[ws] = "send"
    /\ recv' = [recv EXCEPT ![ws] = "receive"]
    /\ UNCHANGED <<connected, link, handler, push, history, faults>>

\* Any exception ends this loop, the timeout of a client that lags included.
AnswerFails(ws) ==
    /\ recv[ws] = "send"
    /\ SendFails(ws) \/ UNCHANGED faults
    /\ recv' = [recv EXCEPT ![ws] = "over"]
    /\ UNCHANGED <<connected, link, handler, push, history>>

-----------------------------------------------------------------------------
(* The client and the rest of the program.                                 *)

Disconnect(ws) ==
    /\ link[ws] = "up" /\ handler[ws] # "done"
    /\ link' = [link EXCEPT ![ws] = "gone"]
    /\ UNCHANGED <<connected, handler, loops, history, faults>>

\* broadcast_anomaly.  Its last line, `_connected_clients -= dead`, makes the
\* name local to the function, which has no global statement: the test in its
\* first line raises UnboundLocalError, before anything is sent or removed.
BroadcastSent == {}
Broadcast ==
    /\ unreached' = (unreached \/ connected # BroadcastSent)
    /\ UNCHANGED <<connected, link, handler, loops, greeted, asked, overlap,
                   faults>>

-----------------------------------------------------------------------------
Admit(ws)  == Connect(ws) \/ Accepted(ws) \/ AcceptFails(ws)
Handle(ws) == FirstSent(ws) \/ FirstFails(ws) \/ Leave(ws)
Push(ws)   == PushWakes(ws) \/ PushSent(ws) \/ PushLags(ws) \/ PushFails(ws)
Answer(ws) == Receive(ws) \/ ReceiveEnds(ws) \/ Answered(ws) \/ AnswerFails(ws)

Next ==
    \/ \E ws \in Clients :
          Admit(ws) \/ Handle(ws) \/ Push(ws) \/ Answer(ws) \/ Disconnect(ws)
    \/ Broadcast

Spec == Init /\ [][Next]_vars

\* The event loop runs what can run, sleep() and the sends end (they have a
\* timeout), and receive_text() reports a disconnect.  A client need not do
\* anything.
Fairness ==
    \A ws \in Clients :
        /\ WF_vars(Accepted(ws))
        /\ WF_vars(FirstSent(ws) \/ FirstFails(ws))
        /\ WF_vars(Leave(ws))
        /\ WF_vars(PushWakes(ws))
        /\ WF_vars(PushSent(ws) \/ PushLags(ws) \/ PushFails(ws))
        /\ WF_vars(ReceiveEnds(ws))
        /\ WF_vars(Answered(ws) \/ AnswerFails(ws))

FairSpec == Spec /\ Fairness

-----------------------------------------------------------------------------
(* Properties.                                                             *)

\* Type invariant; the loops run while the handler waits for them, and only
\* then: no task of a connection outlives its handler.
TypeOK ==
    /\ connected \in SUBSET Clients
    /\ link \in [Clients -> Links]
    /\ handler \in [Clients -> Handlers]
    /\ push \in [Clients -> Pushes] /\ recv \in [Clients -> Receives]
    /\ greeted \in SUBSET Clients /\ asked \in SUBSET Clients
    /\ unreached \in BOOLEAN
    /\ overlap \in Nat /\ faults \in Nat
    /\ \A ws \in Clients :
          handler[ws] # "wait" => {push[ws], recv[ws]} \subseteq {"off", "over"}

\* "Max 50 concurrent WebSocket clients": the limit is tested before accept()
\* and the client is counted after it, so that handshakes which overlap may
\* all be admitted to the last place; the excess is less than their number,
\* and there is none when they come one by one.
LimitExceededOnlyByOverlap ==
    overlap > 0 =>
        Cardinality(connected) + Cardinality(Accepting) <= MaxClients - 1 + overlap

\* A client that only listens keeps its feed, however much it lags, from its
\* first payload until it goes away itself or the server fails.
QuietClientsStay ==
    faults = 0 =>
        \A ws \in greeted \ asked : link[ws] = "up" => ws \in connected

\* "On disconnect the loop stops cleanly": a client that is gone does not stay
\* in the registry, whatever its handler and its loops are doing.
GoneClientsLeave ==
    \A ws \in Clients :
        (ws \in connected /\ link[ws] = "gone") ~> ws \notin connected

\* websocket.py:175, "Push an anomaly event to ALL connected WebSocket clients
\* immediately": a call reaches each of them, or finds it dead and removes it.
BroadcastReachesAll == ~ unreached
===============================================================================
