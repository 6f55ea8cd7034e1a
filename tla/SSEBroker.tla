----------------------------- MODULE SSEBroker ------------------------------
(***************************************************************************)
(* pantry/sse/broker.go: the broker's registry and channels (module        *)
(* Groups), each client's buffer of events and its HTTP handler, which     *)
(* runs runClient, and Broadcast, Send, Client.Close and Broker.Close.     *)
(*                                                                         *)
(* A goroutine that sends on a closed channel, or closes a channel twice,  *)
(* panics; net/http recovers a panic only in the handler's own goroutine.  *)
(***************************************************************************)
EXTENDS Groups

CONSTANTS BufferSize,     \* ClientBufferSize
          SSEScenarios    \* scenarios to look at

SSEOps == {"subscribe", "unsubscribe", "delete", "send", "closeClient", "closeBroker", "disconnect"}

ASSUME SSEAssumption == SSEScenarios \subseteq Scenario(SSEOps) /\ BufferSize \in Nat \ {0}

VARIABLES events,     \* number of events in a client's buffer
          evClosed,   \* closed event channels
          cliClosed,  \* clients with client.closed
          done,       \* clients whose done channel is closed
          handler,    \* "none", "running", "leaving" or "ended"
          panicked    \* clients on whose closed channel a goroutine panicked

sse == <<events, evClosed, cliClosed, done, handler, panicked>>
sseVars == <<scenario, groupVars, sse>>

EventsInit ==
    /\ events = [c \in Clients |-> 0]
    /\ evClosed = {} /\ cliClosed = {} /\ done = {}
    /\ handler = [c \in Clients |-> "none"]
    /\ panicked = {}
SSEInit == GroupsInit(SSEScenarios) /\ EventsInit

----------------------------------------------------------------------------
(* HandleRequest: addClient, and runClient begins. *)
addClient(c) ==
    /\ c \in scenario.clients /\ handler[c] = "none"
    /\ RegFree
    /\ IF ~regClosed
       THEN /\ members' = members \cup {c}
            /\ handler' = [handler EXCEPT ![c] = "running"]
       ELSE /\ handler' = [handler EXCEPT ![c] = "ended"]
            /\ UNCHANGED members
    /\ UNCHANGED <<current, made, regClosed, inGroup, joined, locks, call,
                   events, evClosed, cliClosed, done, panicked>>

(* runClient takes an event from the buffer and writes it. *)
Deliver(c) ==
    /\ handler[c] = "running" /\ events[c] > 0
    /\ events' = [events EXCEPT ![c] = @ - 1]
    /\ UNCHANGED <<groupVars, evClosed, cliClosed, done, handler, panicked>>

(* runClient returns and its deferred removeClient is called. *)
Leave(c) ==
    /\ handler' = [handler EXCEPT ![c] = "leaving"]
    /\ Go(c, "remove", c, None, {})
    /\ UNCHANGED <<registry, inGroup, joined, locks, events, evClosed, cliClosed, done, panicked>>

(* The request's context ends or the stream cannot be written. *)
Disconnect(c) ==
    /\ Made("disconnect")
    /\ handler[c] = "running"
    /\ Leave(c)

(* The event channel is closed and drained. *)
Drained(c) ==
    /\ handler[c] = "running"
    /\ c \in evClosed /\ events[c] = 0
    /\ Leave(c)

HandlerEnds(c) ==
    /\ handler[c] = "leaving" /\ At(c, "idle")
    /\ handler' = [handler EXCEPT ![c] = "ended"]
    /\ UNCHANGED <<groupVars, events, evClosed, cliClosed, done, panicked>>

Clear(t, channels) ==
    /\ RemoveFinish(t)
    /\ cliClosed' = cliClosed \cup {Client(t)}
    /\ done' = done \cup channels
    /\ panicked' = panicked \cup (channels \cap done)
    /\ UNCHANGED <<events, evClosed, handler>>

(* End of removeClient: closed is set and done is closed. *)
Removed(t) == Clear(t, {Client(t)})

(* Client.Close. *)
CloseSubscriber(t, c) ==
    /\ Made("closeClient")
    /\ At(t, "idle") /\ handler[c] # "none"
    /\ Go(t, "remove", c, None, {})
    /\ UNCHANGED <<registry, inGroup, joined, locks, sse>>

Shut(channels) ==
    /\ Made("closeBroker")
    /\ RegFree /\ ~regClosed
    /\ regClosed' = TRUE
    /\ evClosed' = channels
    /\ members' = {}
    /\ current' = [n \in Names |-> 0]
    /\ UNCHANGED <<made, inGroup, joined, locks, call, events, cliClosed, done, handler, panicked>>

(* Mutant: the clients are forgotten but not told. *)
CloseSilently == Shut({})

(* Broker.Close. *)
Close == Shut(members)

----------------------------------------------------------------------------
(* Broadcast of the broker or of a channel, or Send to one client: the
   receivers are collected first. *)
BrokerBroadcast(t) ==
    /\ Made("send") /\ At(t, "idle")
    /\ \/ RegFree /\ Go(t, "broadcast", None, None, members)
       \/ \E o \in Objects : GroupFree(o) /\ Go(t, "broadcast", None, None, inGroup[o])
       \/ \E c \in Clients : handler[c] # "none" /\ Go(t, "broadcast", None, None, {c})
    /\ UNCHANGED <<registry, inGroup, joined, locks, sse>>

(* Send of the next receiver: first whether the client is closed ... *)
SendCheck(t) ==
    /\ At(t, "broadcast")
    /\ IF Todo(t) = {} THEN Finish(t)
       ELSE \E c \in Todo(t) :
              /\ ClientFree(c)
              /\ Go(t, IF c \in cliClosed THEN "broadcast" ELSE "send", c, None, Todo(t) \ {c})
    /\ UNCHANGED <<registry, inGroup, joined, locks, sse>>

(* ... then, without the mutex, a send that drops the event if the buffer is full. *)
ClientSend(t) ==
    /\ At(t, "send")
    /\ LET c == Client(t) IN
       IF c \in evClosed
       THEN panicked' = panicked \cup {c} /\ Finish(t) /\ UNCHANGED events
       ELSE /\ events' = [events EXCEPT ![c] = IF @ < BufferSize THEN @ + 1 ELSE @]
            /\ Go(t, "broadcast", None, None, Todo(t))
            /\ UNCHANGED panicked
    /\ UNCHANGED <<registry, inGroup, joined, locks, evClosed, cliClosed, done, handler>>

----------------------------------------------------------------------------
BrokerRunning(t) ==
    \/ GroupStep(t) /\ UNCHANGED sse
    \/ Removed(t) \/ SendCheck(t) \/ ClientSend(t)

HandlerStep(c) == Deliver(c) \/ Drained(c) \/ HandlerEnds(c)

Connected(c) == handler[c] # "none"

SSENext ==
    /\ \/ \E t \in Threads : BrokerRunning(t)
       \/ \E c \in Clients : addClient(c) \/ HandlerStep(c) \/ Disconnect(c)
       \/ \E t \in scenario.app :
            \/ BrokerBroadcast(t)
            \/ \E c \in Clients : CloseSubscriber(t, c)
            \/ \E c \in Clients, n \in Names :
                 Connected(c) /\ UNCHANGED sse /\
                    (\/ Made("subscribe") /\ Subscribe(t, c, n)
                     \/ Made("unsubscribe") /\ Unsubscribe(t, c, n))
            \/ \E n \in Names : Made("delete") /\ DeleteGroup(t, n) /\ UNCHANGED sse
       \/ Close
    /\ UNCHANGED scenario

----------------------------------------------------------------------------
(* Broker.Close closes the event channels without marking the clients as closed
   (broker.go:246-248), so a goroutine that sends to a client Close found
   connected panics, having collected it before or after (broker.go:517).  No
   other panic can be met: done is closed once, whether Client.Close, the handler's
   return or both come first, and a client that has left before Close keeps its
   channel, for a sender that collected it earlier. *)
NoPanic == panicked \subseteq evClosed \ done

(* "Done returns a channel that's closed when the client disconnects"
   (broker.go:583), unless Broker.Close emptied the registry first: then the
   handler's removeClient returns early. *)
DoneWhenEnded ==
    [][\A c \in Clients : handler[c] = "leaving" /\ handler'[c] = "ended" =>
          c \in done \/ regClosed]_sseVars

(* "Close closes the broker and disconnects all clients" (broker.go:236): the
   handlers end once their buffers are drained.  A client that Client.Close has
   taken out of the registry before is missed: its handler, which does not
   watch done, stays until the peer goes away. *)
CloseEndsHandlers ==
    \A c \in Clients : regClosed /\ LocksOrdered /\ ~Made("closeClient")
                          ~> handler[c] \in {"none", "ended"}
=============================================================================
