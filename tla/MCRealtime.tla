----------------------------- MODULE MCRealtime -----------------------------
(* The two ways to push to a browser, the SSE broker and the WebSocket hub, over
   the same registry of clients and groups; "part" says which one runs. *)
EXTENDS SSEBroker, WebSocketHub

CONSTANTS Parts, c1, c2, a1, a2

VARIABLE part

vars == <<part, scenario, groupVars, sse, ws>>

-----------------------------------------------------------------------------
(* Broker: everything but Broker.Close from one application goroutine; two
   goroutines and one client without DeleteChannel; Broker.Close against
   connecting and leaving clients, and against Client.Close. *)
BrokerScenarios ==
    {[ops |-> SSEOps \ {"closeBroker"}, app |-> {a1}, clients |-> {c1, c2}],
     [ops |-> SSEOps \ {"closeBroker", "delete"}, app |-> {a1, a2}, clients |-> {c1}],
     [ops |-> {"closeBroker", "disconnect", "send"}, app |-> {a1}, clients |-> {c1, c2}],
     [ops |-> {"closeBroker", "closeClient", "disconnect", "send"}, app |-> {a1, a2}, clients |-> {c1}]}

(* Hub: every call from one application goroutine; two goroutines and one
   client without DeleteRoom and Hub.Close. *)
RoomScenarios ==
    {[ops |-> HubOps, app |-> {a1}, clients |-> {c1, c2}],
     [ops |-> HubOps \ {"delete", "closeHub"}, app |-> {a1, a2}, clients |-> {c1}]}
JustClose == {[ops |-> {"closeHub"}, app |-> {a1}, clients |-> {c1}]}

-----------------------------------------------------------------------------
Init == /\ part \in Parts /\ EventsInit /\ ConnInit
        /\ GroupsInit(IF part = "sse" THEN SSEScenarios ELSE HubScenarios)

InSSE(A) == part = "sse" /\ A /\ UNCHANGED <<part, ws>>
InHub(A) == part = "hub" /\ A /\ UNCHANGED <<part, sse>>

Next == InSSE(SSENext) \/ InHub(HubNext)

Spec == Init /\ [][Next]_vars

(* Goroutines run, writes end by their context, Go's mutexes let every waiter
   in, and runClient writes on working streams. *)
FairSpec ==
    /\ Spec
    /\ \A t \in Threads : SF_vars(InSSE(BrokerRunning(t) /\ UNCHANGED scenario)
                                   \/ InHub(HubRunning(t) /\ UNCHANGED scenario))
    /\ \A c \in Clients : WF_vars(InSSE(HandlerStep(c) /\ UNCHANGED scenario)
                                   \/ InHub(CloseSocket(c) /\ UNCHANGED scenario))

(* Receivers are collected before they are sent to and may be gone by then.  A
   WebSocket connection that somebody closed is not written to (Conn.Write); an
   SSE channel is used or closed after it was closed in one case only, a send to
   a client that was connected when Broker.Close was called. *)
NothingClosedIsUsed == NoPanic /\ WritesToOpen

(* Calls of broker and hub come back from their mutexes, and what is closed or
   loses its peer ends: Done is closed, Broker.Close reaches every handler, and
   a closed connection leaves the hub. *)
ConnectionsEnd == CallsReturn /\ DoneWhenEnded /\ CloseEndsHandlers /\ ClosedConnLeaves
=============================================================================
