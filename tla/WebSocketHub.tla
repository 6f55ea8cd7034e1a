---------------------------- MODULE WebSocketHub ----------------------------
(***************************************************************************)
(* pantry/websocket/hub.go with the connections of websocket.go: the hub's *)
(* clients and rooms (module Groups), Conn.Close and Conn.Write under the  *)
(* connection's mutex, OnClose, which is the hub's removeClient, Broadcast *)
(* and Hub.Close.  The goroutine of a client is the pinger of              *)
(* RunWithConfig.                                                          *)
(***************************************************************************)
EXTENDS Groups

CONSTANT HubScenarios    \* scenarios to look at

HubOps == {"join", "leave", "delete", "broadcast", "closeClient", "closeHub", "ping"}

ASSUME HubAssumption == HubScenarios \subseteq Scenario(HubOps)

VARIABLES conn,       \* "none", "open", "closed" (Conn.closed) or "refused"
          connLock,   \* thread that holds Conn.mu while it writes
          closer,     \* thread inside CloseWithReason, until it closes the socket
          socket      \* clients whose socket is closed

ws == <<conn, connLock, closer, socket>>
hubVars == <<scenario, groupVars, ws>>

ConnInit ==
    /\ conn = [c \in Clients |-> "none"]
    /\ connLock = [c \in Clients |-> None]
    /\ closer = [c \in Clients |-> None]
    /\ socket = {}
HubInit == GroupsInit(HubScenarios) /\ ConnInit

----------------------------------------------------------------------------
HubReady(t) == At(t, "idle") /\ \A c \in Clients : closer[c] # t

NewClient(c) ==
    /\ c \in scenario.clients /\ conn[c] = "none"
    /\ RegFree
    /\ IF ~regClosed
       THEN members' = members \cup {c} /\ conn' = [conn EXCEPT ![c] = "open"]
       ELSE UNCHANGED members /\ conn' = [conn EXCEPT ![c] = "refused"]
    /\ UNCHANGED <<current, made, regClosed, inGroup, joined, locks, call, connLock, closer, socket>>

(* CloseWithReason: once only, then OnClose. *)
BeginClose(t, c, next) ==
    /\ connLock[c] = None
    /\ conn[c] = "open"
    /\ conn' = [conn EXCEPT ![c] = "closed"]
    /\ closer' = [closer EXCEPT ![c] = t]
    /\ Go(t, next, c, None, {})
    /\ UNCHANGED <<registry, inGroup, joined, locks, connLock, socket>>

CloseConn(t, c) == BeginClose(t, c, "remove")

(* Client.Close by the application; a missed pong closes the connection too. *)
CloseHubClient(t, c) == Made("closeClient") /\ HubReady(t) /\ CloseConn(t, c)
PingTimeout(c) == Made("ping") /\ HubReady(c) /\ CloseConn(c, c)

(* OnClose has returned: the socket is closed. *)
CloseSocket(c) ==
    /\ closer[c] # None /\ At(closer[c], "idle")
    /\ closer' = [closer EXCEPT ![c] = None]
    /\ socket' = socket \cup {c}
    /\ UNCHANGED <<groupVars, conn, connLock>>

----------------------------------------------------------------------------
(* Hub.Close holds the hub's mutex while it closes one connection after the
   other.  Closing an open one calls removeClient, which waits for that mutex. *)
CloseHub(t) ==
    /\ Made("closeHub") /\ HubReady(t)
    /\ RegFree /\ ~regClosed
    /\ regClosed' = TRUE
    /\ regLock' = t
    /\ Go(t, "closeHub", None, None, members)
    /\ UNCHANGED <<members, current, made, inGroup, joined, clientLock, groupLock, ws>>

CloseNext(t) ==
    /\ At(t, "closeHub")
    /\ \E c \in Todo(t) :
         \/ /\ conn[c] = "closed" /\ connLock[c] = None
            /\ Go(t, "closeHub", None, None, Todo(t) \ {c})
            /\ UNCHANGED <<registry, inGroup, joined, locks, ws>>
         \/ CloseConn(t, c)

CloseHubFinish(t) ==
    /\ At(t, "closeHub") /\ Todo(t) = {}
    /\ members' = {}
    /\ current' = [n \in Names |-> 0]
    /\ regLock' = None
    /\ Finish(t)
    /\ UNCHANGED <<made, regClosed, inGroup, joined, clientLock, groupLock, ws>>

----------------------------------------------------------------------------
(* Broadcast of the hub or a room, or Send to one client. *)
HubBroadcast(t) ==
    /\ Made("broadcast") /\ HubReady(t)
    /\ \/ RegFree /\ Go(t, "broadcast", None, None, members)
       \/ \E o \in Objects : GroupFree(o) /\ Go(t, "broadcast", None, None, inGroup[o])
       \/ \E c \in Clients : conn[c] \in {"open", "closed"} /\ Go(t, "broadcast", None, None, {c})
    /\ UNCHANGED <<registry, inGroup, joined, locks, ws>>

WriteTo(t, writable) ==
    /\ At(t, "broadcast")
    /\ IF Todo(t) = {} THEN Finish(t) /\ UNCHANGED connLock
       ELSE \E c \in Todo(t) :
              /\ connLock[c] = None
              /\ IF conn[c] \in writable
                 THEN /\ connLock' = [connLock EXCEPT ![c] = t]
                      /\ Go(t, "write", c, None, Todo(t) \ {c})
                 ELSE /\ UNCHANGED connLock
                      /\ Go(t, "broadcast", None, None, Todo(t) \ {c})
    /\ UNCHANGED <<registry, inGroup, joined, locks, conn, closer, socket>>

(* Write of the next receiver, with the connection's mutex held. *)
ConnWrite(t) == WriteTo(t, {"open"})

Written(t) ==
    /\ At(t, "write")
    /\ connLock' = [connLock EXCEPT ![Client(t)] = None]
    /\ Go(t, "broadcast", None, None, Todo(t))
    /\ UNCHANGED <<registry, inGroup, joined, locks, conn, closer, socket>>

----------------------------------------------------------------------------
HubRunning(t) ==
    \/ (GroupStep(t) \/ RemoveFinish(t)) /\ UNCHANGED ws
    \/ CloseNext(t) \/ CloseHubFinish(t) \/ ConnWrite(t) \/ Written(t)

HubNext ==
    /\ \/ \E t \in Threads : HubRunning(t)
       \/ \E c \in Clients : NewClient(c) \/ PingTimeout(c) \/ CloseSocket(c)
       \/ \E t \in scenario.app :
            \/ CloseHub(t) \/ HubBroadcast(t)
            \/ \E c \in Clients : CloseHubClient(t, c)
            \/ /\ HubReady(t) /\ UNCHANGED ws
               /\ \/ \E c \in Clients, n \in Names :
                        /\ conn[c] \in {"open", "closed"}
                        /\ \/ Made("join") /\ Subscribe(t, c, n)
                           \/ Made("leave") /\ Unsubscribe(t, c, n)
                  \/ \E n \in Names : Made("delete") /\ DeleteGroup(t, n)
    /\ UNCHANGED scenario

----------------------------------------------------------------------------
(* A message is only written to a connection that nobody has closed, although
   receivers are collected before the writes begin. *)
WritesToOpen == \A t \in App : At(t, "write") => conn[Client(t)] = "open" /\ Client(t) \notin socket

(* A closed connection leaves the hub and its socket is closed, also if the
   application and the pinger close it at the same time. *)
ClosedConnLeaves ==
    \A c \in Clients : conn[c] = "closed" /\ LocksOrdered /\ ~Made("closeHub")
                          ~> (c \notin members /\ c \in socket)
=============================================================================
