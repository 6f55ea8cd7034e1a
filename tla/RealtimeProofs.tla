--------------------------- MODULE RealtimeProofs ---------------------------
(***************************************************************************)
(* The SSE broker and the WebSocket hub.                                   *)
(*                                                                         *)
(* Both sides of a subscription, the group's clients and the client's      *)
(* groups, are written one after the other.  What makes the agreement      *)
(* inductive is who may have been interrupted in between: the one          *)
(* application goroutine inside Subscribe, Unsubscribe or DeleteChannel,   *)
(* or the goroutine that removes the client, which holds its mutex until   *)
(* the client is no longer registered.  A client is registered only once.  *)
(***************************************************************************)
EXTENDS MCRealtime, FiniteSetTheorems, TLAPS

(* Clients that have not connected yet. *)
Unused == IF part = "sse" THEN {c \in Clients : handler[c] = "none"} ELSE {c \in Clients : conn[c] = "none"}

RegistryTypes ==
    /\ members \subseteq Clients
    /\ current \in [Names -> 0 .. MaxGroups] /\ made \in [Names -> 0 .. MaxGroups]
    /\ inGroup \in [Objects -> SUBSET Clients]
    /\ joined \in [Clients -> [Names -> 0 .. MaxGroups]]
    /\ DOMAIN clientLock = Clients
    /\ DOMAIN call = Threads
    /\ scenario.app \subseteq App

(* Positions whose call is about a client, about a group, and those that still
   have clients to go through. *)
ForClient == {"remove", "removeClient", "removeGroups", "join", "joinClient", "leave", "leaveClient"}
ForGroup == {"join", "joinClient", "leave", "leaveClient", "delete", "deleteClients"}
OverClients == {"broadcast", "send", "write", "closeHub", "deleteClients"}

CallTyped(t) ==
    /\ call[t].pc \in ForClient => call[t].client \in Clients \ Unused
    /\ call[t].pc \in ForGroup => call[t].group \in Objects /\ t \in scenario.app
    /\ call[t].pc \in OverClients => call[t].todo \subseteq Clients

(* removeClient and Hub.Close hold the registry's mutex, removeClient the
   client's too. *)
LocksHeld(t) ==
    /\ call[t].pc \in {"removeClient", "removeGroups"} => regLock = t /\ call[t].client \in members
    /\ call[t].pc = "closeHub" => regLock = t
    /\ call[t].pc = "removeGroups" => clientLock[call[t].client] = t

(* A client that is yet to come is in nothing. *)
UnusedIsNowhere == \A c \in Unused : /\ c \notin members
                                     /\ \A n \in Names : joined[c][n] = 0
                                     /\ \A o \in Objects : c \notin inGroup[o]

RegistrySound == RegistryTypes /\ UnusedIsNowhere /\ \A t \in Threads : CallTyped(t) /\ LocksHeld(t)

----------------------------------------------------------------------------
(* Calls of the application come from one goroutine. *)
Solo == \A t, u \in scenario.app : t = u

(* Members that nobody is about to remove. *)
Stable == {c \in members : \A t \in Threads : call[t].pc = "removeGroups" => call[t].client # c}

Agrees(c, o) == c \in inGroup[o] <=> joined[c][o[1]] = o[2]

(* t has written one side of c and o and not the other one. *)
InBetween(t, c, o) == \/ call[t].pc \in {"joinClient", "leaveClient"} /\ call[t].client = c /\ call[t].group = o
                      \/ call[t].pc = "deleteClients" /\ call[t].group = o

(* t is going to take c out of the group it deletes. *)
StillToClear(t, c) == \/ call[t].pc = "delete"
                      \/ call[t].pc = "deleteClients" /\ c \in call[t].todo

SidesAgree(c) == \A o \in Objects : Agrees(c, o) \/ \E t \in scenario.app : InBetween(t, c, o)

(* The group a client is in is the registered one, or is being deleted. *)
InCurrent(c) == \A n \in Names : \/ joined[c][n] = 0
                                 \/ joined[c][n] = current[n]
                                 \/ \E t \in scenario.app : call[t].group = <<n, joined[c][n]>> /\ StillToClear(t, c)

HalfDone(c) == \A t \in scenario.app : call[t].client = c =>
    /\ call[t].pc = "joinClient" => c \in inGroup[call[t].group]
    /\ call[t].pc = "leaveClient" => c \notin inGroup[call[t].group]
    /\ call[t].pc \in {"leave", "leaveClient"} => joined[c][call[t].group[1]] = call[t].group[2]

(* A group that is joined is registered, a group that is deleted is not. *)
Targets == \A t \in scenario.app :
    /\ call[t].pc \in {"join", "joinClient"} => call[t].group[2] = current[call[t].group[1]]
    /\ call[t].pc \in {"delete", "deleteClients"} => current[call[t].group[1]] = 0

Agreed(c) == SidesAgree(c) /\ InCurrent(c) /\ HalfDone(c)

Agreement == Solo => \/ regClosed /\ members = {}
                     \/ Targets /\ \A c \in Stable : Agreed(c)

GroupsInv == RegistrySound /\ Agreement

(* Broker: removeClient finds a client registered once only, so done is closed
   once; a handler's goroutine makes no call before runClient returns. *)
BrokerInv ==
    /\ DOMAIN handler = Clients
    /\ \A c \in done : c \in Clients \ members /\ handler[c] # "none"
    /\ evClosed # {} => regClosed
    /\ evClosed \cap (members \cup done) = {} /\ panicked \subseteq evClosed
    /\ \A c \in Clients : handler[c] \in {"none", "running"} => call[c].pc = "idle"
    /\ \A t \in Threads : call[t].pc \notin {"write", "closeHub"}

(* Hub: a connection that is written to is locked, and a locked one is not closed. *)
ConnInv ==
    /\ DOMAIN conn = Clients /\ DOMAIN connLock = Clients
    /\ \A t \in Threads : call[t].pc = "closeHub" => regClosed
    /\ panicked = {} /\ socket \subseteq Clients
    /\ \A c \in socket : conn[c] = "closed"
    /\ DOMAIN closer = Clients
    /\ \A c \in Clients : closer[c] # None => conn[c] = "closed"
    /\ \A t \in Threads : call[t].pc = "write" =>
          /\ call[t].client \in Clients
          /\ connLock[call[t].client] = t /\ conn[call[t].client] = "open"

RealInv == GroupsInv /\ part \in Parts /\ IF part = "sse" THEN BrokerInv ELSE ConnInv

----------------------------------------------------------------------------
LEMMA GroupsConstants == /\ MaxGroups \in Nat /\ IsFiniteSet(App)
                         /\ \A t \in Threads : t # None
BY GroupsAssumption DEF Threads

LEMMA ObjectFacts == /\ \A o \in Objects : o[1] \in Names /\ o[2] \in 1 .. MaxGroups /\ o = <<o[1], o[2]>>
                     /\ \A o, p \in Objects : o[1] = p[1] /\ o[2] = p[2] => o = p
                     /\ \A n \in Names, i \in 1 .. MaxGroups : <<n, i>> \in Objects /\ <<n, i>>[1] = n /\ <<n, i>>[2] = i
BY DEF Objects

LEMMA GoFacts ==
    ASSUME NEW t \in Threads, DOMAIN call = Threads, NEW p, NEW c, NEW o, NEW s, Go(t, p, c, o, s)
    PROVE  /\ DOMAIN call' = Threads
           /\ call'[t].pc = p /\ call'[t].client = c /\ call'[t].group = o /\ call'[t].todo = s
           /\ \A u \in Threads \ {t} : call'[u] = call[u]
BY DEF Go

LEMMA FinishFacts ==
    ASSUME NEW t \in Threads, DOMAIN call = Threads, Finish(t)
    PROVE  /\ DOMAIN call' = Threads /\ call'[t].pc = "idle"
           /\ \A u \in Threads \ {t} : call'[u] = call[u]
BY DEF Finish, Idle

(* Whatever happens elsewhere, the agreement about c is kept by a step that does
   not write either side of it. *)
LEMMA AgreedKept ==
    ASSUME NEW c \in Clients, Agreed(c), scenario.app \subseteq Threads, UNCHANGED <<scenario, current>>,
           joined'[c] = joined[c],
           \A o \in Objects : c \in inGroup'[o] <=> c \in inGroup[o],
           \A t \in scenario.app : \/ call'[t] = call[t]
                                   \/ call[t].pc \notin ForGroup /\ call'[t].pc \notin ForGroup,
           \A t \in Threads : call[t].pc \in ForGroup => call[t].group \in Objects
    PROVE  Agreed(c)'
<1>1. SidesAgree(c)'
  BY DEF Agreed, SidesAgree, Agrees, InBetween, ForGroup
<1>2. InCurrent(c)'
  BY DEF Agreed, InCurrent, StillToClear, ForGroup
<1>3. HalfDone(c)'
  BY DEF Agreed, HalfDone, ForGroup
<1> QED BY <1>1, <1>2, <1>3 DEF Agreed

LEMMA TargetsKept ==
    ASSUME Targets, UNCHANGED <<scenario, current>>,
           \A t \in scenario.app : \/ call'[t] = call[t]
                                   \/ call[t].pc \notin ForGroup /\ call'[t].pc \notin ForGroup
    PROVE  Targets'
BY DEF Targets, ForGroup

----------------------------------------------------------------------------
(* A thread goes on to another position, the registry stays as it is. *)
LEMMA CallStep ==
    ASSUME GroupsInv, NEW t \in Threads,
           UNCHANGED <<scenario, members, current, made, inGroup, joined>>, Unused' = Unused,
           regClosed => regClosed', DOMAIN clientLock' = Clients,
           DOMAIN call' = Threads, \A u \in Threads \ {t} : call'[u] = call[u],
           call[t].pc \notin ForGroup, call[t].pc # "removeGroups", call'[t].pc \notin ForGroup,
           CallTyped(t)', \A u \in Threads : LocksHeld(u)'
    PROVE  GroupsInv'
<1>0. RegistrySound /\ RegistryTypes /\ scenario.app \subseteq Threads
  BY DEF GroupsInv, RegistrySound, RegistryTypes, Threads
<1>1. RegistryTypes'
  BY <1>0 DEF RegistryTypes
<1>2. UnusedIsNowhere'
  BY <1>0 DEF RegistrySound, UnusedIsNowhere
<1>3. ASSUME NEW u \in Threads PROVE CallTyped(u)'
  <2>1. CASE u = t
    BY <2>1
  <2>2. CASE u # t
    BY <1>0, <2>2 DEF RegistrySound, CallTyped
  <2> QED BY <2>1, <2>2
<1>4. Agreement'
  <2> SUFFICES ASSUME Solo', ~(regClosed' /\ members' = {}) PROVE Targets' /\ \A c \in Stable' : Agreed(c)'
    BY DEF Agreement
  <2>1. Solo /\ ~(regClosed /\ members = {})
    BY DEF Solo
  <2>2. Targets /\ \A c \in Stable : Agreed(c)
    BY <2>1 DEF GroupsInv, Agreement
  <2>3. \A u \in scenario.app : \/ call'[u] = call[u]
                                \/ call[u].pc \notin ForGroup /\ call'[u].pc \notin ForGroup
    BY <1>0
  <2>4. Targets'
    BY <2>2, <2>3, TargetsKept
  <2>5. ASSUME NEW c \in Stable' PROVE Agreed(c)'
    <3>1. c \in Stable
      <4>1. c \in members
        BY DEF Stable
      <4>2. ASSUME NEW u \in Threads, call[u].pc = "removeGroups" PROVE call[u].client # c
        <5>1. u # t /\ call'[u] = call[u]
          BY <4>2
        <5> QED BY <4>2, <5>1 DEF Stable
      <4> QED BY <4>1, <4>2 DEF Stable
    <3>2. c \in Clients /\ Agreed(c)
      BY <1>0, <2>2, <3>1 DEF Stable, RegistryTypes
    <3>3. \A u \in Threads : call[u].pc \in ForGroup => call[u].group \in Objects
      BY <1>0 DEF RegistrySound, CallTyped
    <3> QED BY <1>0, <2>3, <3>2, <3>3, AgreedKept
  <2> QED BY <2>4, <2>5
<1> QED BY <1>1, <1>2, <1>3, <1>4 DEF GroupsInv, RegistrySound

(* removeClient: the check. *)
LEMMA RemoveCheckKeeps ==
    ASSUME GroupsInv, NEW t \in Threads, RemoveCheck(t), UNCHANGED scenario, Unused' = Unused
    PROVE  GroupsInv'
<1>0. RegistrySound /\ RegistryTypes /\ DOMAIN call = Threads
  BY DEF GroupsInv, RegistrySound, RegistryTypes
<1>1. call[t].pc = "remove" /\ regLock = None /\ UNCHANGED <<members, current, made, regClosed, inGroup, joined, clientLock>>
  BY DEF RemoveCheck, BeginRemove, At, RegFree, registry
<1>2. \A u \in Threads : call[u].pc \notin {"removeClient", "removeGroups", "closeHub"}
  BY <1>0, <1>1, GroupsConstants DEF RegistrySound, LocksHeld
<1>3. CASE Client(t) \in members
  <2>1. regLock' = t /\ Go(t, "removeClient", Client(t), None, {})
    BY <1>3 DEF RemoveCheck, BeginRemove
  <2>2. /\ DOMAIN call' = Threads
        /\ call'[t].pc = "removeClient" /\ call'[t].client = Client(t) /\ call'[t].group = None /\ call'[t].todo = {}
        /\ \A u \in Threads \ {t} : call'[u] = call[u]
    BY <1>0, <2>1, GoFacts
  <2>3. CallTyped(t)'
    BY <1>0, <1>1, <2>2 DEF RegistrySound, CallTyped, ForClient, ForGroup, OverClients, Client
  <2>4. ASSUME NEW u \in Threads PROVE LocksHeld(u)'
    BY <1>1, <1>2, <1>3, <2>1, <2>2 DEF LocksHeld
  <2> QED BY <1>0, <1>1, <2>2, <2>3, <2>4, CallStep DEF ForGroup, RegistryTypes
<1>4. CASE Client(t) \notin members
  <2>1. UNCHANGED regLock /\ Finish(t)
    BY <1>4 DEF RemoveCheck, BeginRemove
  <2>2. DOMAIN call' = Threads /\ call'[t].pc = "idle" /\ \A u \in Threads \ {t} : call'[u] = call[u]
    BY <1>0, <2>1, FinishFacts
  <2>3. CallTyped(t)'
    BY <2>2 DEF CallTyped, ForClient, ForGroup, OverClients
  <2>4. ASSUME NEW u \in Threads PROVE LocksHeld(u)'
    BY <1>2, <2>2 DEF LocksHeld
  <2> QED BY <1>0, <1>1, <2>2, <2>3, <2>4, CallStep DEF ForGroup, RegistryTypes
<1> QED BY <1>3, <1>4

(* removeClient: the client's mutex. *)
LEMMA RemoveLocksKeeps ==
    ASSUME GroupsInv, NEW t \in Threads, RemoveLocksClient(t), UNCHANGED scenario, Unused' = Unused
    PROVE  GroupsInv'
<1>0. RegistrySound /\ RegistryTypes /\ DOMAIN call = Threads /\ DOMAIN clientLock = Clients
  BY DEF GroupsInv, RegistrySound, RegistryTypes
<1>1. /\ call[t].pc = "removeClient" /\ UNCHANGED <<members, current, made, regClosed, inGroup, joined, regLock>>
      /\ clientLock' = [clientLock EXCEPT ![call[t].client] = t]
  BY DEF RemoveLocksClient, At, registry, Client
<1>2. regLock = t /\ call[t].client \in members /\ call[t].client \in Clients \ Unused
  BY <1>0, <1>1 DEF RegistrySound, LocksHeld, CallTyped, ForClient
<1>3. \A u \in Threads \ {t} : call[u].pc \notin {"removeClient", "removeGroups", "closeHub"}
  BY <1>0, <1>2 DEF RegistrySound, LocksHeld
<1>4. PICK s : Go(t, "removeGroups", Client(t), None, s)
  BY DEF RemoveLocksClient
<1>5. /\ DOMAIN call' = Threads
      /\ call'[t].pc = "removeGroups" /\ call'[t].client = Client(t) /\ call'[t].group = None /\ call'[t].todo = s
      /\ \A u \in Threads \ {t} : call'[u] = call[u]
  BY <1>0, <1>4, GoFacts
<1>6. clientLock'[call[t].client] = t /\ DOMAIN clientLock' = Clients
  BY <1>0, <1>1, <1>2
<1>7. CallTyped(t)'
  BY <1>2, <1>5 DEF CallTyped, ForClient, ForGroup, OverClients, Client
<1>8. ASSUME NEW u \in Threads PROVE LocksHeld(u)'
  BY <1>1, <1>2, <1>3, <1>5, <1>6 DEF LocksHeld, Client
<1> QED BY <1>0, <1>1, <1>5, <1>6, <1>7, <1>8, CallStep DEF ForGroup

(* removeClient: one group after the other. *)
LEMMA RemoveFromGroupKeeps ==
    ASSUME GroupsInv, NEW t \in Threads, RemoveFromGroup(t), UNCHANGED scenario, Unused' = Unused
    PROVE  GroupsInv'
<1>0. RegistrySound /\ RegistryTypes /\ DOMAIN call = Threads /\ scenario.app \subseteq Threads
  BY DEF GroupsInv, RegistrySound, RegistryTypes, Threads
<1>1. call[t].pc = "removeGroups" /\ UNCHANGED <<members, current, made, regClosed, joined, regLock, clientLock>>
  BY DEF RemoveFromGroup, At, registry, locks
<1>2. PICK o : /\ inGroup' = [inGroup EXCEPT ![o] = @ \ {call[t].client}]
               /\ Go(t, "removeGroups", Client(t), None, Todo(t) \ {o})
  BY DEF RemoveFromGroup, Client
<1>3. /\ DOMAIN call' = Threads
      /\ call'[t].pc = "removeGroups" /\ call'[t].client = Client(t)
      /\ \A u \in Threads \ {t} : call'[u] = call[u]
  BY <1>0, <1>2, GoFacts
<1>4. /\ inGroup' \in [Objects -> SUBSET Clients]
      /\ \A p \in Objects, c \in Clients : c \in inGroup'[p] => c \in inGroup[p]
      /\ \A p \in Objects, c \in Clients : c # call[t].client /\ c \in inGroup[p] => c \in inGroup'[p]
  BY <1>0, <1>2 DEF RegistryTypes
<1>5. RegistryTypes'
  BY <1>0, <1>1, <1>3, <1>4 DEF RegistryTypes
<1>6. UnusedIsNowhere'
  <2>1. Unused \subseteq Clients
    BY DEF Unused
  <2> QED BY <1>0, <1>1, <1>4, <2>1 DEF RegistrySound, UnusedIsNowhere
<1>7. ASSUME NEW u \in Threads PROVE CallTyped(u)' /\ LocksHeld(u)'
  <2>1. CallTyped(u) /\ LocksHeld(u)
    BY <1>0 DEF RegistrySound
  <2>2. CASE u = t
    BY <1>1, <1>3, <2>1, <2>2 DEF CallTyped, LocksHeld, ForClient, ForGroup, OverClients, Client
  <2>3. CASE u # t
    BY <1>1, <1>3, <2>1, <2>3 DEF CallTyped, LocksHeld
  <2> QED BY <2>2, <2>3
<1>8. Agreement'
  <2> SUFFICES ASSUME Solo', ~(regClosed' /\ members' = {}) PROVE Targets' /\ \A c \in Stable' : Agreed(c)'
    BY DEF Agreement
  <2>2. Targets /\ \A c \in Stable : Agreed(c)
    BY <1>1 DEF GroupsInv, Agreement, Solo
  <2>3. \A u \in scenario.app : \/ call'[u] = call[u]
                                \/ call[u].pc \notin ForGroup /\ call'[u].pc \notin ForGroup
    BY <1>0, <1>1, <1>3 DEF ForGroup
  <2>4. Targets'
    BY <1>1, <2>2, <2>3, TargetsKept
  <2>5. ASSUME NEW c \in Stable' PROVE Agreed(c)'
    <3>1. c # call[t].client
      BY <1>3 DEF Stable, Client
    <3>2. c \in Stable
      BY <1>1, <1>3, <3>1 DEF Stable
    <3>3. c \in Clients /\ Agreed(c)
      BY <1>0, <2>2, <3>2 DEF Stable, RegistryTypes
    <3>4. \A u \in Threads : call[u].pc \in ForGroup => call[u].group \in Objects
      BY <1>0 DEF RegistrySound, CallTyped
    <3>5. \A p \in Objects : c \in inGroup'[p] <=> c \in inGroup[p]
      BY <1>4, <3>1, <3>3
    <3>6. joined'[c] = joined[c]
      BY <1>1
    <3> QED BY <1>0, <1>1, <2>3, <3>3, <3>4, <3>5, <3>6, AgreedKept
  <2> QED BY <2>4, <2>5
<1> QED BY <1>5, <1>6, <1>7, <1>8 DEF GroupsInv, RegistrySound

(* removeClient: the client is no longer registered and both mutexes are free. *)
LEMMA RemoveFinishKeeps ==
    ASSUME GroupsInv, NEW t \in Threads, RemoveFinish(t), UNCHANGED scenario, Unused' = Unused
    PROVE  GroupsInv'
<1>0. RegistrySound /\ RegistryTypes /\ DOMAIN call = Threads /\ scenario.app \subseteq Threads
  BY DEF GroupsInv, RegistrySound, RegistryTypes, Threads
<1>1. /\ call[t].pc = "removeGroups" /\ UNCHANGED <<current, made, regClosed, inGroup>>
      /\ joined' = [joined EXCEPT ![call[t].client] = [n \in Names |-> 0]]
      /\ members' = members \ {call[t].client}
      /\ clientLock' = [clientLock EXCEPT ![call[t].client] = None]
      /\ regLock' = None /\ Finish(t)
  BY DEF RemoveFinish, At, Client
<1>2. regLock = t /\ call[t].client \in members /\ call[t].client \in Clients \ Unused
  BY <1>0, <1>1 DEF RegistrySound, LocksHeld, CallTyped, ForClient
<1>3. \A u \in Threads \ {t} : call[u].pc \notin {"removeClient", "removeGroups", "closeHub"}
  BY <1>0, <1>2 DEF RegistrySound, LocksHeld
<1>4. DOMAIN call' = Threads /\ call'[t].pc = "idle" /\ \A u \in Threads \ {t} : call'[u] = call[u]
  BY <1>0, <1>1, FinishFacts
<1>5. /\ joined' \in [Clients -> [Names -> 0 .. MaxGroups]] /\ DOMAIN clientLock' = Clients
      /\ \A c \in Clients : c # call[t].client => joined'[c] = joined[c]
  BY <1>0, <1>1, <1>2, GroupsConstants DEF RegistryTypes
<1>6. RegistryTypes'
  BY <1>0, <1>1, <1>4, <1>5 DEF RegistryTypes
<1>7. UnusedIsNowhere'
  <2>1. Unused \subseteq Clients
    BY DEF Unused
  <2> QED BY <1>0, <1>1, <1>2, <1>5, <2>1 DEF RegistrySound, UnusedIsNowhere
<1>8. ASSUME NEW u \in Threads PROVE CallTyped(u)' /\ LocksHeld(u)'
  <2>1. CallTyped(u)
    BY <1>0 DEF RegistrySound
  <2>2. CASE u = t
    BY <1>4, <2>2 DEF CallTyped, LocksHeld, ForClient, ForGroup, OverClients
  <2>3. CASE u # t
    BY <1>3, <1>4, <2>1, <2>3 DEF CallTyped, LocksHeld
  <2> QED BY <2>2, <2>3
<1>9. Agreement'
  <2> SUFFICES ASSUME Solo', ~(regClosed' /\ members' = {}) PROVE Targets' /\ \A c \in Stable' : Agreed(c)'
    BY DEF Agreement
  <2>2. Targets /\ \A c \in Stable : Agreed(c)
    BY <1>1 DEF GroupsInv, Agreement, Solo
  <2>3. \A u \in scenario.app : \/ call'[u] = call[u]
                                \/ call[u].pc \notin ForGroup /\ call'[u].pc \notin ForGroup
    BY <1>0, <1>1, <1>4 DEF ForGroup
  <2>4. Targets'
    BY <1>1, <2>2, <2>3, TargetsKept
  <2>5. ASSUME NEW c \in Stable' PROVE Agreed(c)'
    <3>1. c # call[t].client /\ c \in members
      BY <1>1 DEF Stable
    <3>2. c \in Stable
      BY <1>3, <3>1 DEF Stable
    <3>3. c \in Clients /\ Agreed(c)
      BY <1>0, <2>2, <3>2 DEF Stable, RegistryTypes
    <3>4. \A u \in Threads : call[u].pc \in ForGroup => call[u].group \in Objects
      BY <1>0 DEF RegistrySound, CallTyped
    <3>5. \A p \in Objects : c \in inGroup'[p] <=> c \in inGroup[p]
      BY <1>1
    <3>6. joined'[c] = joined[c]
      BY <1>5, <3>1, <3>3
    <3> QED BY <1>0, <1>1, <2>3, <3>3, <3>4, <3>5, <3>6, AgreedKept
  <2> QED BY <2>4, <2>5
<1> QED BY <1>6, <1>7, <1>8, <1>9 DEF GroupsInv, RegistrySound

----------------------------------------------------------------------------
(* What the steps of the application's goroutine t have in common: they remove
   nobody, and the locks stay as they are. *)
LEMMA AppStep ==
    ASSUME GroupsInv, NEW t \in Threads,
           UNCHANGED <<scenario, members, regClosed, regLock, clientLock>>, Unused' = Unused,
           DOMAIN call' = Threads, \A u \in Threads \ {t} : call'[u] = call[u],
           call[t].pc # "removeGroups", call'[t].pc \notin {"removeClient", "removeGroups", "closeHub"},
           t \in scenario.app, CallTyped(t)',
           current' \in [Names -> 0 .. MaxGroups], made' \in [Names -> 0 .. MaxGroups],
           inGroup' \in [Objects -> SUBSET Clients],
           joined' \in [Clients -> [Names -> 0 .. MaxGroups]], UnusedIsNowhere',
           \A c \in Clients : Targets /\ Agreed(c) /\ c \in Stable /\ scenario.app = {t} => Agreed(c)',
           Targets /\ scenario.app = {t} => Targets'
    PROVE  GroupsInv'
<1>0. RegistrySound /\ RegistryTypes
  BY DEF GroupsInv, RegistrySound
<1>1. RegistryTypes'
  BY <1>0 DEF RegistryTypes
<1>2. ASSUME NEW u \in Threads PROVE CallTyped(u)' /\ LocksHeld(u)'
  <2>1. CallTyped(u) /\ LocksHeld(u)
    BY <1>0 DEF RegistrySound
  <2>2. CASE u = t
    BY <2>2 DEF LocksHeld
  <2>3. CASE u # t
    BY <2>1, <2>3 DEF CallTyped, LocksHeld
  <2> QED BY <2>2, <2>3
<1>3. Agreement'
  <2> SUFFICES ASSUME Solo', ~(regClosed' /\ members' = {}) PROVE Targets' /\ \A c \in Stable' : Agreed(c)'
    BY DEF Agreement
  <2>1. Targets /\ \A c \in Stable : Agreed(c)
    BY DEF GroupsInv, Agreement, Solo
  <2>2. scenario.app = {t}
    BY DEF Solo
  <2>3. ASSUME NEW c \in Stable' PROVE c \in Stable /\ c \in Clients
    <3>1. c \in members /\ c \in Clients
      BY <1>0 DEF Stable, RegistryTypes
    <3>2. ASSUME NEW u \in Threads, call[u].pc = "removeGroups" PROVE call[u].client # c
      <4>1. u # t /\ call'[u] = call[u]
        BY <3>2
      <4> QED BY <3>2, <4>1 DEF Stable
    <3> QED BY <3>1, <3>2 DEF Stable
  <2> QED BY <2>1, <2>2, <2>3
<1> QED BY <1>1, <1>2, <1>3 DEF GroupsInv, RegistrySound

(* Subscribe: GetChannel finds the group or makes it. *)
LEMMA SubscribeKeeps ==
    ASSUME GroupsInv, NEW t \in scenario.app, NEW c \in Clients \ Unused, NEW n \in Names, Subscribe(t, c, n),
           UNCHANGED scenario, Unused' = Unused
    PROVE  GroupsInv'
<1> USE GroupsConstants
<1>0. RegistrySound /\ RegistryTypes /\ DOMAIN call = Threads /\ t \in Threads
  BY DEF GroupsInv, RegistrySound, RegistryTypes, Threads
<1>1. call[t].pc = "idle" /\ UNCHANGED <<members, regClosed, inGroup, joined, regLock, clientLock>>
  BY DEF Subscribe, At, locks
<1>2. PICK i \in 1 .. MaxGroups :
        /\ Go(t, "join", c, <<n, i>>, {})
        /\ current' \in [Names -> 0 .. MaxGroups] /\ made' \in [Names -> 0 .. MaxGroups]
        /\ current'[n] = i /\ \A m \in Names \ {n} : current'[m] = current[m]
        /\ current[n] # 0 => current' = current
  <2>0. current \in [Names -> 0 .. MaxGroups] /\ made \in [Names -> 0 .. MaxGroups]
    BY <1>0 DEF RegistryTypes
  <2>1. CASE current[n] # 0
    <3>1. current[n] \in 1 .. MaxGroups
      BY <2>0, <2>1
    <3> QED BY <2>0, <2>1, <3>1 DEF Subscribe
  <2>2. CASE current[n] = 0
    <3>1. made[n] + 1 \in 1 .. MaxGroups
      BY <2>0, <2>2 DEF Subscribe
    <3>2. /\ current' = [current EXCEPT ![n] = made[n] + 1] /\ made' = [made EXCEPT ![n] = made[n] + 1]
          /\ Go(t, "join", c, <<n, made[n] + 1>>, {})
      BY <2>2 DEF Subscribe
    <3> QED BY <2>0, <2>2, <3>1, <3>2
  <2> QED BY <2>1, <2>2
<1>3. /\ DOMAIN call' = Threads
      /\ call'[t].pc = "join" /\ call'[t].client = c /\ call'[t].group = <<n, i>>
      /\ \A u \in Threads \ {t} : call'[u] = call[u]
  BY <1>0, <1>2, GoFacts
<1>4. CallTyped(t)'
  BY <1>3, ObjectFacts DEF CallTyped, ForClient, ForGroup, OverClients
<1>5. UnusedIsNowhere'
  BY <1>0, <1>1 DEF RegistrySound, UnusedIsNowhere
<1>6. ASSUME NEW d \in Clients, Agreed(d), scenario.app = {t} PROVE Agreed(d)'
  <2>1. SidesAgree(d)'
    BY <1>1, <1>3, <1>6 DEF Agreed, SidesAgree, Agrees, InBetween
  <2>2. InCurrent(d)'
    <3> SUFFICES ASSUME NEW m \in Names PROVE joined[d][m] = 0 \/ joined[d][m] = current'[m]
      BY <1>1 DEF InCurrent
    <3>1. joined[d][m] = 0 \/ joined[d][m] = current[m]
      BY <1>1, <1>6 DEF Agreed, InCurrent, StillToClear
    <3> QED BY <1>2, <3>1
  <2>3. HalfDone(d)'
    BY <1>3, <1>6 DEF HalfDone
  <2> QED BY <2>1, <2>2, <2>3 DEF Agreed
<1>7. ASSUME scenario.app = {t} PROVE Targets'
  BY <1>2, <1>3, <1>7, ObjectFacts DEF Targets
<1>8. inGroup' \in [Objects -> SUBSET Clients] /\ joined' \in [Clients -> [Names -> 0 .. MaxGroups]]
  BY <1>0, <1>1 DEF RegistryTypes
<1> QED BY <1>0, <1>1, <1>2, <1>3, <1>4, <1>5, <1>6, <1>7, <1>8, AppStep

(* Unsubscribe: the group is looked up in the client. *)
LEMMA UnsubscribeKeeps ==
    ASSUME GroupsInv, NEW t \in scenario.app, NEW c \in Clients \ Unused, NEW n \in Names, Unsubscribe(t, c, n),
           UNCHANGED scenario, Unused' = Unused
    PROVE  GroupsInv'
<1>0. RegistrySound /\ RegistryTypes /\ DOMAIN call = Threads /\ t \in Threads
  BY DEF GroupsInv, RegistrySound, RegistryTypes, Threads
<1>1. /\ call[t].pc = "idle" /\ UNCHANGED <<members, current, made, regClosed, inGroup, joined, regLock, clientLock>>
      /\ joined[c][n] # 0 /\ Go(t, "leave", c, <<n, joined[c][n]>>, {})
  BY DEF Unsubscribe, At, locks, registry
<1>2. <<n, joined[c][n]>> \in Objects /\ <<n, joined[c][n]>>[1] = n /\ <<n, joined[c][n]>>[2] = joined[c][n]
  <2>1. joined[c][n] \in 1 .. MaxGroups
    BY <1>0, <1>1, GroupsConstants DEF RegistryTypes
  <2> QED BY <2>1, ObjectFacts
<1>3. /\ DOMAIN call' = Threads
      /\ call'[t].pc = "leave" /\ call'[t].client = c /\ call'[t].group = <<n, joined[c][n]>>
      /\ \A u \in Threads \ {t} : call'[u] = call[u]
  BY <1>0, <1>1, GoFacts
<1>4. CallTyped(t)'
  BY <1>2, <1>3 DEF CallTyped, ForClient, ForGroup, OverClients
<1>5. UnusedIsNowhere'
  BY <1>0, <1>1 DEF RegistrySound, UnusedIsNowhere
<1>6. ASSUME NEW d \in Clients, Agreed(d), scenario.app = {t} PROVE Agreed(d)'
  <2>1. SidesAgree(d)'
    BY <1>1, <1>3, <1>6 DEF Agreed, SidesAgree, Agrees, InBetween
  <2>2. InCurrent(d)'
    BY <1>1, <1>3, <1>6 DEF Agreed, InCurrent, StillToClear
  <2>3. HalfDone(d)'
    BY <1>1, <1>2, <1>3, <1>6 DEF HalfDone
  <2> QED BY <2>1, <2>2, <2>3 DEF Agreed
<1>7. ASSUME scenario.app = {t} PROVE Targets'
  BY <1>3, <1>7 DEF Targets
<1> QED BY <1>0, <1>1, <1>3, <1>4, <1>5, <1>6, <1>7, AppStep DEF RegistryTypes

(* Subscribe and Unsubscribe: the group's side. *)
LEMMA GroupSideKeeps ==
    ASSUME GroupsInv, NEW t \in Threads, UNCHANGED scenario, Unused' = Unused, JoinGroup(t) \/ LeaveGroup(t)
    PROVE  GroupsInv'
<1> DEFINE c == call[t].client
           g == call[t].group
<1>0. RegistrySound /\ RegistryTypes /\ DOMAIN call = Threads
  BY DEF GroupsInv, RegistrySound, RegistryTypes
<1>1. PICK next \in {"joinClient", "leaveClient"}, s \in {inGroup[g] \cup {c}, inGroup[g] \ {c}} :
        /\ next = "joinClient" => call[t].pc = "join" /\ s = inGroup[g] \cup {c}
        /\ next = "leaveClient" => call[t].pc = "leave" /\ s = inGroup[g] \ {c}
        /\ inGroup' = [inGroup EXCEPT ![g] = s]
        /\ Go(t, next, c, g, {})
  BY DEF JoinGroup, LeaveGroup, GroupSide, At, Client, Group
<1>2. UNCHANGED <<members, current, made, regClosed, joined, regLock, clientLock>>
  BY DEF JoinGroup, LeaveGroup, GroupSide, registry, locks
<1>3. c \in Clients \ Unused /\ g \in Objects /\ t \in scenario.app /\ call[t].pc \in {"join", "leave"}
  BY <1>0, <1>1 DEF RegistrySound, CallTyped, ForClient, ForGroup
<1>4. /\ DOMAIN call' = Threads
      /\ call'[t].pc = next /\ call'[t].client = c /\ call'[t].group = g
      /\ \A u \in Threads \ {t} : call'[u] = call[u]
  BY <1>0, <1>1, GoFacts
<1>5. /\ inGroup' \in [Objects -> SUBSET Clients]
      /\ \A d \in Clients, o \in Objects : d # c \/ o # g => (d \in inGroup'[o] <=> d \in inGroup[o])
      /\ c \in inGroup'[g] <=> next = "joinClient"
  <2>1. inGroup \in [Objects -> SUBSET Clients]
    BY <1>0 DEF RegistryTypes
  <2>2. inGroup'[g] = s /\ \A o \in Objects : o # g => inGroup'[o] = inGroup[o]
    BY <1>1, <1>3, <2>1
  <2>3. s = inGroup[g] \cup {c} \/ s = inGroup[g] \ {c}
    BY <1>1
  <2>4. s \subseteq Clients
    BY <1>3, <2>1, <2>3
  <2>5. inGroup' \in [Objects -> SUBSET Clients]
    BY <1>1, <1>3, <2>1, <2>4
  <2>6. c \in inGroup'[g] <=> next = "joinClient"
    BY <1>1, <2>2
  <2>7. \A d \in Clients, o \in Objects : d # c \/ o # g => (d \in inGroup'[o] <=> d \in inGroup[o])
    BY <2>2, <2>3
  <2> QED BY <2>5, <2>6, <2>7
<1> HIDE DEF c, g
<1>6. CallTyped(t)'
  BY <1>3, <1>4 DEF CallTyped, ForClient, ForGroup, OverClients
<1>7. UnusedIsNowhere'
  <2>1. Unused \subseteq Clients
    BY DEF Unused
  <2> QED BY <1>0, <1>2, <1>3, <1>5, <2>1 DEF RegistrySound, UnusedIsNowhere
<1>8. call[t].client = c /\ call[t].group = g
  BY DEF c, g
<1>9. ASSUME NEW d \in Clients, Agreed(d), scenario.app = {t} PROVE Agreed(d)'
  <2>1. SidesAgree(d)'
    <3> SUFFICES ASSUME NEW o \in Objects PROVE Agrees(d, o)' \/ InBetween(t, d, o)'
      BY <1>2, <1>9 DEF SidesAgree
    <3>1. Agrees(d, o)
      BY <1>3, <1>9 DEF Agreed, SidesAgree, InBetween
    <3>2. CASE d = c /\ o = g
      BY <1>1, <1>4, <3>2 DEF InBetween
    <3>3. CASE ~(d = c /\ o = g)
      BY <1>2, <1>5, <3>1, <3>3 DEF Agrees
    <3> QED BY <3>2, <3>3
  <2>2. InCurrent(d)'
    BY <1>2, <1>3, <1>4, <1>9 DEF Agreed, InCurrent, StillToClear
  <2>3. HalfDone(d)'
    <3> SUFFICES ASSUME d = c PROVE /\ next = "joinClient" => c \in inGroup'[g]
                                    /\ next = "leaveClient" => c \notin inGroup'[g]
                                    /\ next = "leaveClient" => joined[c][g[1]] = g[2]
      BY <1>1, <1>2, <1>4, <1>9 DEF HalfDone
    <3>1. next = "leaveClient" => joined[c][g[1]] = g[2]
      BY <1>1, <1>8, <1>9 DEF Agreed, HalfDone
    <3> QED BY <1>1, <1>5, <3>1
  <2> QED BY <2>1, <2>2, <2>3 DEF Agreed
<1>10. ASSUME Targets, scenario.app = {t} PROVE Targets'
  BY <1>1, <1>2, <1>4, <1>8, <1>10 DEF Targets
<1> QED BY <1>0, <1>1, <1>2, <1>3, <1>4, <1>5, <1>6, <1>7, <1>9, <1>10, AppStep DEF RegistryTypes

(* Subscribe and Unsubscribe: the client's side.  A client that joins a group is
   in no other one of that name, since only the registered one is joined. *)
LEMMA ClientSideKeeps ==
    ASSUME GroupsInv, NEW t \in Threads, UNCHANGED scenario, Unused' = Unused, JoinClient(t) \/ LeaveClient(t)
    PROVE  GroupsInv'
<1> DEFINE c == call[t].client
           g == call[t].group
<1>0. RegistrySound /\ RegistryTypes /\ DOMAIN call = Threads
  BY DEF GroupsInv, RegistrySound, RegistryTypes
<1>1. PICK i : /\ \/ call[t].pc = "joinClient" /\ i = g[2]
                  \/ call[t].pc = "leaveClient" /\ i = 0
               /\ joined' = [joined EXCEPT ![c][g[1]] = i]
               /\ Finish(t)
  BY DEF JoinClient, LeaveClient, ClientSide, At, Client, Group, Name
<1>2. UNCHANGED <<members, current, made, regClosed, inGroup, regLock, clientLock>>
  BY DEF JoinClient, LeaveClient, ClientSide, registry, locks
<1>3. c \in Clients \ Unused /\ g \in Objects /\ t \in scenario.app
  BY <1>0, <1>1 DEF RegistrySound, CallTyped, ForClient, ForGroup
<1>4. DOMAIN call' = Threads /\ call'[t].pc = "idle" /\ \A u \in Threads \ {t} : call'[u] = call[u]
  BY <1>0, <1>1, FinishFacts
<1>5. call[t].client = c /\ call[t].group = g /\ call[t].pc \in {"joinClient", "leaveClient"}
  BY <1>1
<1> HIDE DEF c, g
<1>6. g[1] \in Names /\ g[2] \in 1 .. MaxGroups /\ i \in 0 .. MaxGroups
  BY <1>1, <1>3, ObjectFacts, GroupsConstants
<1>7. /\ joined' \in [Clients -> [Names -> 0 .. MaxGroups]]
      /\ joined'[c][g[1]] = i
      /\ \A d \in Clients, n \in Names : d # c \/ n # g[1] => joined'[d][n] = joined[d][n]
  BY <1>0, <1>1, <1>3, <1>6 DEF RegistryTypes
<1>8. CallTyped(t)'
  BY <1>4 DEF CallTyped, ForClient, ForGroup, OverClients
<1>9. UnusedIsNowhere'
  <2>1. Unused \subseteq Clients
    BY DEF Unused
  <2> QED BY <1>0, <1>2, <1>3, <1>7, <2>1 DEF RegistrySound, UnusedIsNowhere
<1>10. ASSUME NEW d \in Clients, Targets, Agreed(d), scenario.app = {t} PROVE Agreed(d)'
  <2>0. \A n \in Names : joined[d][n] = 0 \/ joined[d][n] = current[n]
    BY <1>5, <1>10 DEF Agreed, InCurrent, StillToClear
  <2>1. SidesAgree(d)'
    <3> SUFFICES ASSUME NEW o \in Objects PROVE Agrees(d, o)'
      BY DEF SidesAgree
    <3>0. o[1] \in Names /\ o[2] \in 1 .. MaxGroups /\ (o[1] = g[1] /\ o[2] = g[2] => o = g)
      BY <1>3, ObjectFacts
    <3>1. CASE d # c \/ o[1] # g[1]
      <4>1. Agrees(d, o)
        BY <1>5, <1>10, <3>1 DEF Agreed, SidesAgree, InBetween
      <4>2. joined'[d][o[1]] = joined[d][o[1]]
        BY <1>7, <3>0, <3>1
      <4> QED BY <1>2, <4>1, <4>2 DEF Agrees
    <3>2. CASE d = c /\ o = g
      <4>1. d \in inGroup[g] <=> call[t].pc = "joinClient"
        BY <1>5, <1>10, <3>2 DEF Agreed, HalfDone
      <4> QED BY <1>1, <1>2, <1>6, <1>7, <3>2, <4>1, GroupsConstants DEF Agrees, g
    <3>3. CASE d = c /\ o[1] = g[1] /\ o # g
      <4>1. Agrees(d, o) /\ o[2] # g[2]
        BY <1>5, <1>10, <3>0, <3>3 DEF Agreed, SidesAgree, InBetween
      <4>2. joined[d][o[1]] # o[2]
        <5>1. CASE call[t].pc = "joinClient"
          BY <1>5, <1>10, <2>0, <3>0, <3>3, <4>1, <5>1, GroupsConstants DEF Targets
        <5>2. CASE call[t].pc = "leaveClient"
          BY <1>5, <1>10, <3>3, <4>1, <5>2 DEF Agreed, HalfDone
        <5> QED BY <1>5, <5>1, <5>2
      <4>3. d \notin inGroup'[o]
        BY <1>2, <4>1, <4>2 DEF Agrees
      <4>4. i # o[2]
        BY <1>1, <3>0, <4>1, GroupsConstants DEF g
      <4> QED BY <1>7, <3>3, <4>3, <4>4 DEF Agrees
    <3> QED BY <3>1, <3>2, <3>3
  <2>2. InCurrent(d)'
    <3> SUFFICES ASSUME NEW n \in Names PROVE joined'[d][n] = 0 \/ joined'[d][n] = current[n]
      BY <1>2 DEF InCurrent
    <3>1. CASE d = c /\ n = g[1]
      <4>1. call[t].pc = "joinClient" => g[2] = current[g[1]]
        BY <1>5, <1>10 DEF Targets
      <4> QED BY <1>1, <1>7, <3>1, <4>1 DEF g
    <3>2. CASE ~(d = c /\ n = g[1])
      BY <1>7, <2>0, <3>2
    <3> QED BY <3>1, <3>2
  <2>3. HalfDone(d)'
    BY <1>2, <1>4, <1>10 DEF HalfDone
  <2> QED BY <2>1, <2>2, <2>3 DEF Agreed
<1>11. ASSUME scenario.app = {t} PROVE Targets'
  BY <1>4, <1>11 DEF Targets
<1> QED BY <1>0, <1>1, <1>2, <1>3, <1>4, <1>5, <1>7, <1>8, <1>9, <1>10, <1>11, AppStep DEF RegistryTypes

(* DeleteChannel: the group is no longer registered; its clients are yet to be cleared. *)
LEMMA DeleteGroupKeeps ==
    ASSUME GroupsInv, NEW t \in scenario.app, NEW n \in Names, DeleteGroup(t, n), UNCHANGED scenario, Unused' = Unused
    PROVE  GroupsInv'
<1>0. RegistrySound /\ RegistryTypes /\ DOMAIN call = Threads /\ t \in Threads
  BY DEF GroupsInv, RegistrySound, RegistryTypes, Threads
<1>1. /\ call[t].pc = "idle" /\ UNCHANGED <<members, made, regClosed, inGroup, joined, regLock, clientLock>>
      /\ current' = [current EXCEPT ![n] = 0] /\ current[n] # 0
      /\ Go(t, "delete", None, <<n, current[n]>>, {})
  BY DEF DeleteGroup, At, locks
<1>2. <<n, current[n]>> \in Objects /\ <<n, current[n]>>[1] = n
  <2>1. current[n] \in 1 .. MaxGroups
    BY <1>0, <1>1, GroupsConstants DEF RegistryTypes
  <2> QED BY <2>1, ObjectFacts
<1>3. /\ DOMAIN call' = Threads
      /\ call'[t].pc = "delete" /\ call'[t].group = <<n, current[n]>>
      /\ \A u \in Threads \ {t} : call'[u] = call[u]
  BY <1>0, <1>1, GoFacts
<1>4. CallTyped(t)'
  BY <1>2, <1>3 DEF CallTyped, ForClient, ForGroup, OverClients
<1>5. UnusedIsNowhere'
  BY <1>0, <1>1 DEF RegistrySound, UnusedIsNowhere
<1>6. /\ current' \in [Names -> 0 .. MaxGroups] /\ current'[n] = 0
      /\ \A m \in Names : m # n => current'[m] = current[m]
  BY <1>0, <1>1, GroupsConstants DEF RegistryTypes
<1>7. ASSUME NEW d \in Clients, Agreed(d), scenario.app = {t} PROVE Agreed(d)'
  <2>1. SidesAgree(d)'
    BY <1>1, <1>3, <1>7 DEF Agreed, SidesAgree, Agrees, InBetween
  <2>2. InCurrent(d)'
    <3> SUFFICES ASSUME NEW m \in Names
                 PROVE  \/ joined'[d][m] = 0
                        \/ joined'[d][m] = current'[m]
                        \/ call'[t].group = <<m, joined'[d][m]>> /\ StillToClear(t, d)'
      BY <1>7 DEF InCurrent
    <3>1. joined[d][m] = 0 \/ joined[d][m] = current[m]
      BY <1>1, <1>7 DEF Agreed, InCurrent, StillToClear
    <3>2. StillToClear(t, d)'
      BY <1>3 DEF StillToClear
    <3> QED BY <1>1, <1>3, <1>6, <3>1, <3>2
  <2>3. HalfDone(d)'
    BY <1>3, <1>7 DEF HalfDone
  <2> QED BY <2>1, <2>2, <2>3 DEF Agreed
<1>8. ASSUME scenario.app = {t} PROVE Targets'
  BY <1>2, <1>3, <1>6, <1>8 DEF Targets
<1> QED BY <1>0, <1>1, <1>3, <1>4, <1>5, <1>6, <1>7, <1>8, AppStep DEF RegistryTypes

(* DeleteChannel: the group's mutex, and its clients are to be cleared. *)
LEMMA DeleteLocksKeeps ==
    ASSUME GroupsInv, NEW t \in Threads, DeleteLocks(t), UNCHANGED scenario, Unused' = Unused
    PROVE  GroupsInv'
<1> DEFINE g == call[t].group
<1>0. RegistrySound /\ RegistryTypes /\ DOMAIN call = Threads
  BY DEF GroupsInv, RegistrySound, RegistryTypes
<1>1. /\ call[t].pc = "delete" /\ UNCHANGED <<members, current, made, regClosed, inGroup, joined, regLock, clientLock>>
      /\ Go(t, "deleteClients", None, g, inGroup[g])
  BY DEF DeleteLocks, At, registry, Group
<1>2. g \in Objects /\ t \in scenario.app /\ inGroup[g] \subseteq Clients
  BY <1>0, <1>1 DEF RegistrySound, RegistryTypes, CallTyped, ForGroup
<1>3. /\ DOMAIN call' = Threads
      /\ call'[t].pc = "deleteClients" /\ call'[t].group = g /\ call'[t].todo = inGroup[g]
      /\ \A u \in Threads \ {t} : call'[u] = call[u]
  BY <1>0, <1>1, GoFacts
<1>4. call[t].group = g
  OBVIOUS
<1> HIDE DEF g
<1>5. CallTyped(t)'
  BY <1>2, <1>3 DEF CallTyped, ForClient, ForGroup, OverClients
<1>6. UnusedIsNowhere'
  BY <1>0, <1>1 DEF RegistrySound, UnusedIsNowhere
<1>7. ASSUME NEW d \in Clients, Agreed(d), scenario.app = {t} PROVE Agreed(d)'
  <2>0. \A o \in Objects : Agrees(d, o)
    BY <1>1, <1>7 DEF Agreed, SidesAgree, InBetween
  <2>1. SidesAgree(d)'
    BY <1>1, <2>0 DEF SidesAgree, Agrees
  <2>2. InCurrent(d)'
    <3> SUFFICES ASSUME NEW m \in Names, joined[d][m] # 0, joined[d][m] # current[m]
                 PROVE  g = <<m, joined[d][m]>> /\ d \in inGroup[g]
      BY <1>1, <1>3, <1>7 DEF InCurrent, StillToClear
    <3>1. g = <<m, joined[d][m]>>
      BY <1>4, <1>7 DEF Agreed, InCurrent
    <3>2. g[1] = m /\ g[2] = joined[d][m]
      BY <3>1
    <3> QED BY <1>2, <2>0, <3>1, <3>2 DEF Agrees
  <2>3. HalfDone(d)'
    BY <1>3, <1>7 DEF HalfDone
  <2> QED BY <2>1, <2>2, <2>3 DEF Agreed
<1>8. ASSUME Targets, scenario.app = {t} PROVE Targets'
  BY <1>1, <1>3, <1>4, <1>8 DEF Targets
<1> QED BY <1>0, <1>1, <1>2, <1>3, <1>5, <1>6, <1>7, <1>8, AppStep DEF RegistryTypes

(* DeleteChannel: one client after the other.  The entry cleared by name is the
   deleted group's, because the client is in no other one of that name. *)
LEMMA DeleteFromClientKeeps ==
    ASSUME GroupsInv, NEW t \in Threads, DeleteFromClient(t), UNCHANGED scenario, Unused' = Unused
    PROVE  GroupsInv'
<1> DEFINE g == call[t].group
           todo == call[t].todo
<1>0. RegistrySound /\ RegistryTypes /\ DOMAIN call = Threads
  BY DEF GroupsInv, RegistrySound, RegistryTypes
<1>1. call[t].pc = "deleteClients" /\ UNCHANGED <<members, current, made, regClosed, inGroup, regLock, clientLock>>
  BY DEF DeleteFromClient, At, registry, locks
<1>2. g \in Objects /\ t \in scenario.app /\ todo \subseteq Clients
  BY <1>0, <1>1 DEF RegistrySound, CallTyped, ForGroup, OverClients
<1>3. PICK c \in todo : /\ joined' = [joined EXCEPT ![c][g[1]] = 0]
                        /\ Go(t, "deleteClients", None, g, todo \ {c})
  BY DEF DeleteFromClient, Group, Todo, Name
<1>4. /\ DOMAIN call' = Threads
      /\ call'[t].pc = "deleteClients" /\ call'[t].group = g /\ call'[t].todo = todo \ {c}
      /\ \A u \in Threads \ {t} : call'[u] = call[u]
  BY <1>0, <1>3, GoFacts
<1>5. call[t].group = g /\ call[t].todo = todo /\ c \in Clients
  BY <1>2
<1> HIDE DEF g, todo
<1>6. /\ joined' \in [Clients -> [Names -> 0 .. MaxGroups]]
      /\ joined'[c][g[1]] = 0
      /\ \A d \in Clients, n \in Names : d # c \/ n # g[1] => joined'[d][n] = joined[d][n]
  <2>1. g[1] \in Names
    BY <1>2, ObjectFacts
  <2> QED BY <1>0, <1>3, <1>5, <2>1, GroupsConstants DEF RegistryTypes
<1>7. CallTyped(t)'
  BY <1>2, <1>4 DEF CallTyped, ForClient, ForGroup, OverClients
<1>8. UnusedIsNowhere'
  <2>1. \A d \in Clients, n \in Names : joined[d][n] = 0 => joined'[d][n] = 0
    BY <1>6
  <2>2. Unused \subseteq Clients
    BY DEF Unused
  <2> QED BY <1>0, <1>1, <2>1, <2>2 DEF RegistrySound, UnusedIsNowhere
<1>9. ASSUME NEW d \in Clients, Targets, Agreed(d), scenario.app = {t} PROVE Agreed(d)'
  <2>0. \A n \in Names : \/ joined[d][n] = 0 \/ joined[d][n] = current[n]
                         \/ g = <<n, joined[d][n]>> /\ d \in todo
    BY <1>1, <1>5, <1>9 DEF Agreed, InCurrent, StillToClear
  <2>1. SidesAgree(d)'
    <3> SUFFICES ASSUME NEW o \in Objects PROVE Agrees(d, o)' \/ InBetween(t, d, o)'
      BY <1>9 DEF SidesAgree
    <3>0. o[1] \in Names /\ o[2] \in 1 .. MaxGroups /\ o = <<o[1], o[2]>>
      BY ObjectFacts
    <3>1. CASE o = g
      BY <1>4, <3>1 DEF InBetween
    <3>2. CASE o # g
      <4>1. Agrees(d, o)
        BY <1>1, <1>5, <1>9, <3>2 DEF Agreed, SidesAgree, InBetween
      <4>2. CASE d # c \/ o[1] # g[1]
        BY <1>1, <1>6, <3>0, <4>1, <4>2 DEF Agrees
      <4>3. CASE d = c /\ o[1] = g[1]
        <5>1. current[o[1]] = 0
          BY <1>1, <1>5, <1>9, <4>3 DEF Targets
        <5>2. o[2] # 0
          BY <3>0, GroupsConstants
        <5>3. joined[d][o[1]] # o[2]
          BY <2>0, <3>0, <3>2, <5>1, <5>2
        <5>4. joined'[d][o[1]] # o[2]
          BY <1>6, <4>3, <5>2
        <5> QED BY <1>1, <4>1, <5>3, <5>4 DEF Agrees
      <4> QED BY <4>2, <4>3
    <3> QED BY <3>1, <3>2
  <2>2. InCurrent(d)'
    <3> SUFFICES ASSUME NEW n \in Names
                 PROVE  \/ joined'[d][n] = 0 \/ joined'[d][n] = current[n]
                        \/ g = <<n, joined'[d][n]>> /\ d \in todo \ {c}
      BY <1>1, <1>4, <1>9 DEF InCurrent, StillToClear
    <3>1. CASE d # c
      BY <1>6, <2>0, <3>1
    <3>2. CASE d = c /\ n = g[1]
      BY <1>6, <3>2
    <3>3. CASE d = c /\ n # g[1]
      <4>1. g # <<n, joined[d][n]>>
        BY <3>3
      <4> QED BY <1>6, <2>0, <3>3, <4>1
    <3> QED BY <3>1, <3>2, <3>3
  <2>3. HalfDone(d)'
    BY <1>4, <1>9 DEF HalfDone
  <2> QED BY <2>1, <2>2, <2>3 DEF Agreed
<1>10. ASSUME Targets, scenario.app = {t} PROVE Targets'
  BY <1>1, <1>4, <1>5, <1>10 DEF Targets
<1> QED BY <1>0, <1>1, <1>2, <1>4, <1>6, <1>7, <1>8, <1>9, <1>10, AppStep DEF RegistryTypes

(* DeleteChannel: the group's side is emptied; nobody has an entry of it any more. *)
LEMMA DeleteFinishKeeps ==
    ASSUME GroupsInv, NEW t \in Threads, DeleteFinish(t), UNCHANGED scenario, Unused' = Unused
    PROVE  GroupsInv'
<1> DEFINE g == call[t].group
<1>0. RegistrySound /\ RegistryTypes /\ DOMAIN call = Threads
  BY DEF GroupsInv, RegistrySound, RegistryTypes
<1>1. /\ call[t].pc = "deleteClients" /\ UNCHANGED <<members, current, made, regClosed, joined, regLock, clientLock>>
      /\ inGroup' = [inGroup EXCEPT ![g] = {}] /\ Finish(t) /\ call[t].todo = {}
  BY DEF DeleteFinish, EndDelete, At, registry, Group, Todo
<1>2. g \in Objects /\ t \in scenario.app
  BY <1>0, <1>1 DEF RegistrySound, CallTyped, ForGroup
<1>3. DOMAIN call' = Threads /\ call'[t].pc = "idle" /\ \A u \in Threads \ {t} : call'[u] = call[u]
  BY <1>0, <1>1, FinishFacts
<1>4. call[t].group = g
  OBVIOUS
<1> HIDE DEF g
<1>5. /\ inGroup' \in [Objects -> SUBSET Clients] /\ inGroup'[g] = {}
      /\ \A o \in Objects : o # g => inGroup'[o] = inGroup[o]
  BY <1>0, <1>1, <1>2 DEF RegistryTypes
<1>6. CallTyped(t)'
  BY <1>3 DEF CallTyped, ForClient, ForGroup, OverClients
<1>7. UnusedIsNowhere'
  <2>1. \A o \in Objects : inGroup'[o] \subseteq inGroup[o]
    BY <1>5
  <2> QED BY <1>0, <1>1, <2>1 DEF RegistrySound, UnusedIsNowhere
<1>8. ASSUME NEW d \in Clients, Targets, Agreed(d), scenario.app = {t} PROVE Agreed(d)'
  <2>0. \A n \in Names : joined[d][n] = 0 \/ joined[d][n] = current[n]
    BY <1>1, <1>8 DEF Agreed, InCurrent, StillToClear
  <2>1. SidesAgree(d)'
    <3> SUFFICES ASSUME NEW o \in Objects PROVE Agrees(d, o)'
      BY DEF SidesAgree
    <3>1. CASE o = g
      <4>1. current[g[1]] = 0 /\ g[1] \in Names /\ g[2] # 0
        BY <1>1, <1>2, <1>4, <1>8, ObjectFacts, GroupsConstants DEF Targets
      <4> QED BY <1>1, <1>5, <2>0, <3>1, <4>1 DEF Agrees
    <3>2. CASE o # g
      BY <1>1, <1>4, <1>5, <1>8, <3>2 DEF Agreed, SidesAgree, InBetween, Agrees
    <3> QED BY <3>1, <3>2
  <2>2. InCurrent(d)'
    BY <1>1, <2>0 DEF InCurrent
  <2>3. HalfDone(d)'
    BY <1>3, <1>8 DEF HalfDone
  <2> QED BY <2>1, <2>2, <2>3 DEF Agreed
<1>9. ASSUME scenario.app = {t} PROVE Targets'
  BY <1>3, <1>9 DEF Targets
<1> QED BY <1>0, <1>1, <1>2, <1>3, <1>5, <1>6, <1>7, <1>8, <1>9, AppStep DEF RegistryTypes

(* The steps of a call under way. *)
LEMMA GroupStepKeeps ==
    ASSUME GroupsInv, NEW t \in Threads, GroupStep(t), UNCHANGED scenario, Unused' = Unused
    PROVE  GroupsInv'
BY RemoveCheckKeeps, RemoveLocksKeeps, RemoveFromGroupKeeps, GroupSideKeeps, ClientSideKeeps,
   DeleteLocksKeeps, DeleteFromClientKeeps, DeleteFinishKeeps DEF GroupStep

----------------------------------------------------------------------------
(* A client connects: it is new to every group, and refused once the registry is closed. *)
LEMMA ArriveKeeps ==
    ASSUME GroupsInv, NEW c \in Unused, Unused' = Unused \ {c},
           UNCHANGED <<scenario, current, made, regClosed, inGroup, joined, locks, call>>,
           members' = IF regClosed THEN members ELSE members \cup {c}
    PROVE  GroupsInv'
<1>0. RegistrySound /\ RegistryTypes /\ UnusedIsNowhere /\ c \in Clients /\ UNCHANGED <<regLock, clientLock>>
  BY DEF GroupsInv, RegistrySound, Unused, locks
<1>1. RegistryTypes'
  BY <1>0 DEF RegistryTypes
<1>2. UnusedIsNowhere'
  BY <1>0 DEF UnusedIsNowhere
<1>3. ASSUME NEW u \in Threads PROVE CallTyped(u)' /\ LocksHeld(u)'
  <2>1. CallTyped(u) /\ LocksHeld(u)
    BY <1>0 DEF RegistrySound
  <2> QED BY <1>0, <2>1 DEF CallTyped, LocksHeld
<1>4. Agreement'
  <2> SUFFICES ASSUME Solo', ~(regClosed' /\ members' = {}) PROVE Targets' /\ \A d \in Stable' : Agreed(d)'
    BY DEF Agreement
  <2>1. Targets /\ \A d \in Stable : Agreed(d)
    BY DEF GroupsInv, Agreement, Solo
  <2>2. Targets'
    BY <2>1 DEF Targets
  <2>3. ASSUME NEW d \in Stable' PROVE Agreed(d)
    <3>1. CASE d \in members
      BY <2>1, <3>1 DEF Stable
    <3>2. CASE d \notin members
      <4>1. d = c
        BY <3>2 DEF Stable
      <4>2. (\A n \in Names : joined[c][n] = 0) /\ \A o \in Objects : c \notin inGroup[o]
        BY <1>0 DEF UnusedIsNowhere
      <4>3. SidesAgree(c)
        <5> SUFFICES ASSUME NEW o \in Objects PROVE Agrees(c, o)
          BY DEF SidesAgree
        <5>1. o[1] \in Names /\ o[2] # 0
          BY ObjectFacts, GroupsConstants
        <5> QED BY <4>2, <5>1 DEF Agrees
      <4>4. InCurrent(c)
        BY <4>2 DEF InCurrent
      <4>5. HalfDone(c)
        <5>1. \A t \in scenario.app : t \in Threads
          BY <1>0 DEF RegistryTypes, Threads
        <5> QED BY <1>0, <5>1 DEF RegistrySound, CallTyped, ForClient, HalfDone
      <4> QED BY <4>1, <4>3, <4>4, <4>5 DEF Agreed
    <3> QED BY <3>1, <3>2
  <2>4. ASSUME NEW d, Agreed(d) PROVE Agreed(d)'
    BY <2>4 DEF Agreed, SidesAgree, Agrees, InBetween, InCurrent, StillToClear, HalfDone
  <2> QED BY <2>2, <2>3, <2>4
<1> QED BY <1>1, <1>2, <1>3, <1>4 DEF GroupsInv, RegistrySound

(* Broker.Close and the end of Hub.Close: the registry is closed for good, and
   nobody is in the middle of a removal. *)
LEMMA EmptiedKeeps ==
    ASSUME GroupsInv, regClosed', members' = {}, current' = [n \in Names |-> 0], Unused' = Unused,
           UNCHANGED <<scenario, made, inGroup, joined, clientLock>>, DOMAIN call' = Threads,
           \A t \in Threads : /\ call'[t] = call[t] \/ call'[t].pc = "idle"
                              /\ call'[t].pc \notin {"removeClient", "removeGroups", "closeHub"}
    PROVE  GroupsInv'
<1>0. RegistrySound /\ RegistryTypes /\ UnusedIsNowhere
  BY DEF GroupsInv, RegistrySound
<1>1. RegistryTypes'
  BY <1>0, GroupsConstants DEF RegistryTypes
<1>2. UnusedIsNowhere'
  BY <1>0 DEF UnusedIsNowhere
<1>3. ASSUME NEW u \in Threads PROVE CallTyped(u)' /\ LocksHeld(u)'
  <2>1. CallTyped(u)
    BY <1>0 DEF RegistrySound
  <2>2. LocksHeld(u)'
    BY DEF LocksHeld
  <2>3. CASE call'[u].pc = "idle"
    BY <2>2, <2>3 DEF CallTyped, ForClient, ForGroup, OverClients
  <2>4. CASE call'[u] = call[u]
    BY <2>1, <2>2, <2>4 DEF CallTyped
  <2> QED BY <2>3, <2>4
<1> QED BY <1>1, <1>2, <1>3 DEF GroupsInv, RegistrySound, Agreement

(* Nothing of the registry changes. *)
LEMMA RegistryKept ==
    ASSUME GroupsInv, UNCHANGED <<scenario, groupVars>>, Unused' = Unused
    PROVE  GroupsInv'
<1>0. UNCHANGED <<members, current, made, regClosed, inGroup, joined, regLock, clientLock, call>>
  BY DEF groupVars, registry, locks
<1>1. RegistrySound'
  BY <1>0 DEF GroupsInv, RegistrySound, RegistryTypes, UnusedIsNowhere, CallTyped, LocksHeld
<1>2. \A d : Agreed(d)' = Agreed(d)
  BY <1>0 DEF Agreed, SidesAgree, Agrees, InBetween, InCurrent, StillToClear, HalfDone
<1>3. Targets' = Targets /\ Stable' = Stable /\ Solo' = Solo
  BY <1>0 DEF Targets, Stable, Solo
<1> QED BY <1>0, <1>1, <1>2, <1>3 DEF GroupsInv, Agreement

(* A thread begins to remove a client, or goes through the clients it writes to. *)
LEMMA CallMoves ==
    ASSUME GroupsInv, NEW t \in Threads, UNCHANGED <<scenario, registry, inGroup, joined, locks>>, Unused' = Unused,
           DOMAIN call' = Threads, \A u \in Threads \ {t} : call'[u] = call[u],
           call[t].pc \notin ForGroup, call[t].pc # "removeGroups",
           call'[t].pc \in {"idle", "remove", "broadcast", "send", "write", "closeHub"},
           call'[t].pc = "remove" => call'[t].client \in Clients \ Unused,
           call'[t].pc \in OverClients => call'[t].todo \subseteq Clients,
           call'[t].pc = "closeHub" => regLock = t
    PROVE  GroupsInv'
<1>0. RegistrySound /\ RegistryTypes /\ UNCHANGED <<members, current, made, regClosed, regLock, clientLock>>
  BY DEF GroupsInv, RegistrySound, registry, locks
<1>1. CallTyped(t)'
  BY DEF CallTyped, ForClient, ForGroup
<1>2. ASSUME NEW u \in Threads PROVE LocksHeld(u)'
  <2>1. LocksHeld(u)
    BY <1>0 DEF RegistrySound
  <2> QED BY <1>0, <2>1 DEF LocksHeld
<1> QED BY <1>0, <1>1, <1>2, CallStep DEF RegistryTypes, ForGroup

LEMMA GroupStepFacts ==
    ASSUME NEW t \in Threads, DOMAIN call = Threads, GroupStep(t)
    PROVE  /\ UNCHANGED <<members, regClosed>>
           /\ call[t].pc \notin {"idle", "write"} /\ call'[t].pc \notin {"write", "closeHub"}
           /\ DOMAIN call' = Threads /\ \A u \in Threads \ {t} : call'[u] = call[u]
<1>1. CASE RemoveCheck(t)
  BY <1>1, GoFacts, FinishFacts DEF RemoveCheck, BeginRemove, At, registry
<1>2. CASE RemoveLocksClient(t)
  BY <1>2, GoFacts DEF RemoveLocksClient, At, registry
<1>3. CASE RemoveFromGroup(t)
  BY <1>3, GoFacts DEF RemoveFromGroup, At, registry
<1>4. CASE JoinGroup(t) \/ LeaveGroup(t)
  BY <1>4, GoFacts DEF JoinGroup, LeaveGroup, GroupSide, At, registry
<1>5. CASE JoinClient(t) \/ LeaveClient(t)
  BY <1>5, FinishFacts DEF JoinClient, LeaveClient, ClientSide, At, registry
<1>6. CASE DeleteLocks(t)
  BY <1>6, GoFacts DEF DeleteLocks, At, registry
<1>7. CASE DeleteFromClient(t)
  BY <1>7, GoFacts DEF DeleteFromClient, At, registry
<1>8. CASE DeleteFinish(t)
  BY <1>8, FinishFacts DEF DeleteFinish, EndDelete, At, registry
<1> QED BY <1>1, <1>2, <1>3, <1>4, <1>5, <1>6, <1>7, <1>8 DEF GroupStep

----------------------------------------------------------------------------
(* The broker's part of the invariant, in a step of one thread that opens nothing. *)
LEMMA BrokerKept ==
    ASSUME BrokerInv, NEW t \in Threads, UNCHANGED <<handler, done, evClosed>>,
           members' \subseteq members, regClosed => regClosed', panicked' \subseteq evClosed',
           \A u \in Threads \ {t} : call'[u] = call[u],
           t \notin Clients \/ call[t].pc # "idle", call'[t].pc \notin {"write", "closeHub"}
    PROVE  BrokerInv'
<1>1. \A c \in done' : c \in Clients \ members' /\ handler'[c] # "none"
  BY DEF BrokerInv
<1>2. ASSUME NEW c \in Clients, handler'[c] \in {"none", "running"} PROVE call'[c].pc = "idle"
  <2>1. call[c].pc = "idle" /\ c \in Threads
    BY <1>2 DEF BrokerInv, Threads
  <2> QED BY <2>1
<1>3. \A u \in Threads : call'[u].pc \notin {"write", "closeHub"}
  BY DEF BrokerInv
<1> QED BY <1>1, <1>2, <1>3 DEF BrokerInv

(* Steps of calls under way in the broker: the groups, the end of removeClient, and Send. *)
LEMMA BrokerRunningKeeps ==
    ASSUME GroupsInv, BrokerInv, part = "sse", UNCHANGED <<part, scenario>>, NEW t \in Threads, BrokerRunning(t)
    PROVE  GroupsInv' /\ BrokerInv'
<1>0. RegistrySound /\ RegistryTypes /\ DOMAIN call = Threads /\ CallTyped(t) /\ LocksHeld(t)
  BY DEF GroupsInv, RegistrySound, RegistryTypes
<1>1. CASE GroupStep(t) /\ UNCHANGED sse
  <2>1. Unused' = Unused /\ UNCHANGED <<handler, done, evClosed, panicked>>
    BY <1>1 DEF sse, Unused
  <2>2. panicked' \subseteq evClosed'
    BY <1>0, <1>1, <2>1, GroupStepFacts DEF BrokerInv
  <2> QED BY <1>0, <1>1, <2>1, <2>2, GroupStepKeeps, GroupStepFacts, BrokerKept
<1>2. CASE Removed(t)
  <2>1. /\ RemoveFinish(t) /\ done' = done \cup {call[t].client} /\ UNCHANGED <<evClosed, handler>>
        /\ panicked' = panicked \cup ({call[t].client} \cap done)
    BY <1>2 DEF Removed, Clear, Client
  <2>2. /\ call[t].pc = "removeGroups" /\ members' = members \ {call[t].client} /\ UNCHANGED regClosed
        /\ call'[t].pc = "idle" /\ \A u \in Threads \ {t} : call'[u] = call[u]
    BY <1>0, <2>1, FinishFacts DEF RemoveFinish, At, Client
  <2>3. call[t].client \in members /\ call[t].client \in Clients \ Unused
    BY <1>0, <2>2 DEF CallTyped, LocksHeld, ForClient
  <2>4. call[t].client \notin done /\ handler[call[t].client] # "none"
    BY <2>3 DEF BrokerInv, Unused
  <2>5. panicked' = panicked
    BY <2>1, <2>4
  <2>6. \A c \in done' : c \in Clients \ members' /\ handler'[c] # "none"
    BY <2>1, <2>2, <2>3, <2>4 DEF BrokerInv
  <2>7. ASSUME NEW c \in Clients, handler'[c] \in {"none", "running"} PROVE call'[c].pc = "idle"
    BY <2>1, <2>2, <2>7 DEF BrokerInv, Threads
  <2>10. evClosed' \cap (members' \cup done') = {}
    BY <2>1, <2>2, <2>3 DEF BrokerInv
  <2>8. BrokerInv'
    BY <2>1, <2>2, <2>5, <2>6, <2>7, <2>10 DEF BrokerInv
  <2>9. Unused' = Unused
    BY <2>1 DEF Unused
  <2> QED BY <2>1, <2>8, <2>9, RemoveFinishKeeps
<1>3. CASE SendCheck(t)
  <2>1. /\ call[t].pc = "broadcast" /\ call[t].todo \subseteq Clients
        /\ UNCHANGED <<registry, inGroup, joined, locks, sse>>
    BY <1>0, <1>3 DEF SendCheck, At, CallTyped, OverClients
  <2>2. /\ Unused' = Unused /\ UNCHANGED <<handler, done, evClosed, panicked, members, regClosed>>
        /\ panicked' \subseteq evClosed'
    BY <2>1 DEF sse, Unused, registry, BrokerInv
  <2>3. /\ DOMAIN call' = Threads /\ \A u \in Threads \ {t} : call'[u] = call[u]
        /\ call'[t].pc \in {"idle", "broadcast", "send"}
        /\ call'[t].pc \in OverClients => call'[t].todo \subseteq Clients
    <3>1. CASE Todo(t) = {}
      BY <1>0, <1>3, <3>1, FinishFacts DEF SendCheck, OverClients
    <3>2. CASE Todo(t) # {}
      <4>1. PICK c \in call[t].todo, p \in {"broadcast", "send"} : Go(t, p, c, None, call[t].todo \ {c})
        BY <1>3, <3>2 DEF SendCheck, Todo
      <4> QED BY <1>0, <2>1, <4>1, GoFacts
    <3> QED BY <3>1, <3>2
  <2>4. GroupsInv'
    BY <2>1, <2>2, <2>3, CallMoves DEF ForGroup
  <2> QED BY <2>1, <2>2, <2>3, <2>4, BrokerKept
<1>4. CASE ClientSend(t)
  <2>1. /\ call[t].pc = "send" /\ call[t].todo \subseteq Clients
        /\ UNCHANGED <<registry, inGroup, joined, locks, evClosed, done, handler>>
    BY <1>0, <1>4 DEF ClientSend, At, CallTyped, OverClients
  <2>2. /\ Unused' = Unused /\ UNCHANGED <<members, regClosed>>
    BY <2>1 DEF sse, Unused, registry
  <2>3. panicked' \subseteq evClosed'
    <3>1. CASE call[t].client \in evClosed
      BY <1>4, <2>1, <2>2, <3>1 DEF ClientSend, Client, BrokerInv
    <3>2. CASE call[t].client \notin evClosed
      BY <1>4, <2>1, <2>2, <3>2 DEF ClientSend, Client, BrokerInv
    <3> QED BY <3>1, <3>2
  <2>4. /\ DOMAIN call' = Threads /\ \A u \in Threads \ {t} : call'[u] = call[u]
        /\ call'[t].pc \in {"idle", "broadcast"}
        /\ call'[t].pc \in OverClients => call'[t].todo \subseteq Clients
    <3>1. CASE Finish(t)
      BY <1>0, <3>1, FinishFacts DEF OverClients
    <3>2. CASE Go(t, "broadcast", None, None, call[t].todo)
      BY <1>0, <2>1, <3>2, GoFacts
    <3> QED BY <1>4, <3>1, <3>2 DEF ClientSend, Todo
  <2>5. GroupsInv'
    BY <2>1, <2>2, <2>4, CallMoves DEF ForGroup
  <2> QED BY <2>1, <2>2, <2>3, <2>4, <2>5, BrokerKept
<1> QED BY <1>1, <1>2, <1>3, <1>4 DEF BrokerRunning

(* A request arrives, its handler delivers events, returns and ends. *)
LEMMA HandlerKeeps ==
    ASSUME GroupsInv, BrokerInv, part = "sse", UNCHANGED <<part, scenario>>, NEW c \in Clients,
           addClient(c) \/ HandlerStep(c) \/ Disconnect(c)
    PROVE  GroupsInv' /\ BrokerInv'
<1>0. RegistrySound /\ RegistryTypes /\ DOMAIN call = Threads /\ DOMAIN handler = Clients /\ c \in Threads
  BY DEF GroupsInv, RegistrySound, RegistryTypes, BrokerInv, Threads
<1>1. CASE addClient(c)
  <2>1. /\ handler[c] = "none"
        /\ UNCHANGED <<current, made, regClosed, inGroup, joined, locks, call, evClosed, done, panicked>>
        /\ members' = IF regClosed THEN members ELSE members \cup {c}
    BY <1>1 DEF addClient
  <2>2. PICK h \in {"running", "ended"} : handler' = [handler EXCEPT ![c] = h]
    BY <1>1 DEF addClient
  <2>3. handler'[c] = h /\ DOMAIN handler' = Clients /\ \A d \in Clients \ {c} : handler'[d] = handler[d]
    BY <1>0, <2>2
  <2>4. c \in Unused /\ Unused' = Unused \ {c}
    BY <2>1, <2>2, <2>3 DEF Unused
  <2>5. GroupsInv'
    BY <2>1, <2>4, ArriveKeeps
  <2>6. \A d \in done' : d \in Clients \ members' /\ handler'[d] # "none"
    BY <2>1, <2>3 DEF BrokerInv
  <2>7. \A d \in Clients : handler'[d] \in {"none", "running"} => call'[d].pc = "idle"
    BY <2>1, <2>3 DEF BrokerInv
  <2> QED BY <2>1, <2>3, <2>5, <2>6, <2>7 DEF BrokerInv
<1>2. CASE Deliver(c)
  <2>1. UNCHANGED <<groupVars, evClosed, done, handler, panicked>>
    BY <1>2 DEF Deliver
  <2>2. Unused' = Unused
    BY <2>1 DEF Unused
  <2>3. BrokerInv'
    BY <2>1 DEF BrokerInv, groupVars, registry
  <2> QED BY <2>1, <2>2, <2>3, RegistryKept
<1>3. CASE HandlerEnds(c)
  <2>1. /\ UNCHANGED <<groupVars, evClosed, done, panicked>>
        /\ handler[c] = "leaving" /\ handler' = [handler EXCEPT ![c] = "ended"]
    BY <1>3 DEF HandlerEnds
  <2>2. handler'[c] = "ended" /\ DOMAIN handler' = Clients /\ \A d \in Clients \ {c} : handler'[d] = handler[d]
    BY <1>0, <2>1
  <2>3. Unused' = Unused
    BY <2>1, <2>2 DEF Unused
  <2>4. BrokerInv'
    BY <2>1, <2>2 DEF BrokerInv, groupVars, registry
  <2> QED BY <2>1, <2>3, <2>4, RegistryKept
<1>4. CASE Drained(c) \/ Disconnect(c)
  <2>1. /\ handler[c] = "running" /\ handler' = [handler EXCEPT ![c] = "leaving"]
        /\ Go(c, "remove", c, None, {})
        /\ UNCHANGED <<registry, inGroup, joined, locks, evClosed, done, panicked>>
    BY <1>4 DEF Drained, Disconnect, Leave
  <2>2. call[c].pc = "idle"
    BY <2>1 DEF BrokerInv
  <2>3. handler'[c] = "leaving" /\ DOMAIN handler' = Clients /\ \A d \in Clients \ {c} : handler'[d] = handler[d]
    BY <1>0, <2>1
  <2>4. Unused' = Unused /\ c \notin Unused
    BY <2>1, <2>3 DEF Unused
  <2>5. /\ DOMAIN call' = Threads /\ call'[c].pc = "remove" /\ call'[c].client = c
        /\ \A u \in Threads \ {c} : call'[u] = call[u]
    BY <1>0, <2>1, GoFacts
  <2>6. GroupsInv'
    BY <1>0, <2>1, <2>2, <2>4, <2>5, CallMoves DEF ForGroup, OverClients
  <2>7. \A d \in Clients : handler'[d] \in {"none", "running"} => call'[d].pc = "idle"
    BY <2>3, <2>5 DEF BrokerInv, Threads
  <2>8. \A u \in Threads : call'[u].pc \notin {"write", "closeHub"}
    BY <2>5 DEF BrokerInv
  <2>9. \A d \in done' : d \in Clients \ members' /\ handler'[d] # "none"
    BY <2>1, <2>3 DEF BrokerInv, registry
  <2> QED BY <2>1, <2>3, <2>6, <2>7, <2>8, <2>9 DEF BrokerInv, registry
<1> QED BY <1>1, <1>2, <1>3, <1>4 DEF HandlerStep

(* The application calls Broadcast, Send, Client.Close, Subscribe, Unsubscribe and DeleteChannel. *)
LEMMA BrokerCallKeeps ==
    ASSUME GroupsInv, BrokerInv, part = "sse", UNCHANGED <<part, scenario>>, NEW t \in scenario.app,
           \/ BrokerBroadcast(t) \/ \E c \in Clients : CloseSubscriber(t, c)
           \/ \E c \in Clients, n \in Names :
                Connected(c) /\ UNCHANGED sse /\ (Subscribe(t, c, n) \/ Unsubscribe(t, c, n))
           \/ \E n \in Names : DeleteGroup(t, n) /\ UNCHANGED sse
    PROVE  GroupsInv' /\ BrokerInv'
<1>0. RegistrySound /\ RegistryTypes /\ DOMAIN call = Threads /\ t \in Threads /\ t \notin Clients
  BY GroupsAssumption DEF GroupsInv, RegistrySound, RegistryTypes, Threads
<1>1. UNCHANGED sse
  BY DEF BrokerBroadcast, CloseSubscriber
<1>2. Unused' = Unused /\ UNCHANGED <<handler, done, evClosed, panicked>>
  BY <1>1 DEF Unused, sse
<1>3. CASE BrokerBroadcast(t)
  <2>1. call[t].pc = "idle" /\ UNCHANGED <<registry, inGroup, joined, locks>>
    BY <1>3 DEF BrokerBroadcast, At
  <2>2. PICK s \in SUBSET Clients : Go(t, "broadcast", None, None, s)
    BY <1>0, <1>3 DEF BrokerBroadcast, RegistryTypes
  <2>3. /\ DOMAIN call' = Threads /\ call'[t].pc = "broadcast" /\ call'[t].todo \subseteq Clients
        /\ \A u \in Threads \ {t} : call'[u] = call[u]
    BY <1>0, <2>2, GoFacts
  <2>4. GroupsInv'
    BY <1>0, <1>2, <2>1, <2>3, CallMoves DEF ForGroup
  <2>5. UNCHANGED <<members, regClosed>> /\ (panicked' \subseteq evClosed')
    BY <1>2, <2>1 DEF registry, BrokerInv
  <2> QED BY <1>0, <1>2, <2>3, <2>4, <2>5, BrokerKept
<1>4. ASSUME NEW c \in Clients, CloseSubscriber(t, c) PROVE GroupsInv' /\ BrokerInv'
  <2>1. /\ call[t].pc = "idle" /\ UNCHANGED <<registry, inGroup, joined, locks>>
        /\ handler[c] # "none" /\ Go(t, "remove", c, None, {})
    BY <1>4 DEF CloseSubscriber, At
  <2>2. c \in Clients \ Unused
    BY <2>1 DEF Unused
  <2>3. /\ DOMAIN call' = Threads /\ call'[t].pc = "remove" /\ call'[t].client = c
        /\ \A u \in Threads \ {t} : call'[u] = call[u]
    BY <1>0, <2>1, GoFacts
  <2>4. GroupsInv'
    BY <1>0, <1>2, <2>1, <2>2, <2>3, CallMoves DEF ForGroup, OverClients
  <2>5. UNCHANGED <<members, regClosed>> /\ (panicked' \subseteq evClosed')
    BY <1>2, <2>1 DEF registry, BrokerInv
  <2> QED BY <1>0, <1>2, <2>3, <2>4, <2>5, BrokerKept
<1>5. ASSUME NEW c \in Clients, NEW n \in Names, Connected(c), Subscribe(t, c, n) \/ Unsubscribe(t, c, n)
      PROVE  GroupsInv' /\ BrokerInv'
  <2>1. c \in Clients \ Unused
    BY <1>5 DEF Connected, Unused
  <2>2. PICK o : Go(t, "join", c, o, {}) \/ Go(t, "leave", c, o, {})
    BY <1>5 DEF Subscribe, Unsubscribe
  <2>3. /\ call'[t].pc \in {"join", "leave"} /\ \A u \in Threads \ {t} : call'[u] = call[u]
    BY <1>0, <2>2, GoFacts
  <2>4. UNCHANGED <<members, regClosed>>
    BY <1>5 DEF Subscribe, Unsubscribe, registry
  <2>5. panicked' \subseteq evClosed'
    BY <1>2, <2>4 DEF BrokerInv
  <2>6. BrokerInv'
    BY <1>0, <1>2, <2>3, <2>4, <2>5, BrokerKept
  <2> QED BY <1>2, <1>5, <2>1, <2>6, SubscribeKeeps, UnsubscribeKeeps
<1>6. ASSUME NEW n \in Names, DeleteGroup(t, n) PROVE GroupsInv' /\ BrokerInv'
  <2>1. /\ Go(t, "delete", None, <<n, current[n]>>, {}) /\ UNCHANGED <<members, regClosed>>
    BY <1>6 DEF DeleteGroup
  <2>2. call'[t].pc = "delete" /\ \A u \in Threads \ {t} : call'[u] = call[u]
    BY <1>0, <2>1, GoFacts
  <2>3. panicked' \subseteq evClosed'
    BY <1>2, <2>1 DEF BrokerInv
  <2>4. BrokerInv'
    BY <1>0, <1>2, <2>1, <2>2, <2>3, BrokerKept
  <2> QED BY <1>2, <1>6, <2>4, DeleteGroupKeeps
<1> QED BY <1>3, <1>4, <1>5, <1>6

(* Broker.Close. *)
LEMMA BrokerCloseKeeps ==
    ASSUME GroupsInv, BrokerInv, part = "sse", UNCHANGED <<part, scenario>>, Close
    PROVE  GroupsInv' /\ BrokerInv'
<1>0. RegistrySound /\ RegistryTypes /\ DOMAIN call = Threads
  BY DEF GroupsInv, RegistrySound, RegistryTypes
<1>1. /\ regLock = None /\ regClosed' /\ members' = {} /\ current' = [n \in Names |-> 0]
      /\ UNCHANGED <<made, inGroup, joined, locks, call, done, handler, panicked>>
  BY DEF Close, Shut, RegFree
<1>6. ~regClosed /\ evClosed' = members /\ evClosed = {} /\ done \cap members = {}
  BY DEF Close, Shut, BrokerInv
<1>2. \A t \in Threads : call[t].pc \notin {"removeClient", "removeGroups", "closeHub"}
  BY <1>0, <1>1, GroupsConstants DEF RegistrySound, LocksHeld
<1>3. Unused' = Unused /\ UNCHANGED clientLock
  BY <1>1 DEF Unused, locks
<1>4. GroupsInv'
  BY <1>0, <1>1, <1>2, <1>3, EmptiedKeeps
<1>5. BrokerInv'
  BY <1>1, <1>6 DEF BrokerInv
<1> QED BY <1>4, <1>5

LEMMA SSENextKeeps ==
    ASSUME GroupsInv, BrokerInv, part = "sse", UNCHANGED part, SSENext
    PROVE  GroupsInv' /\ BrokerInv'
<1>0. UNCHANGED scenario
  BY DEF SSENext
<1>1. CASE \E t \in Threads : BrokerRunning(t)
  BY <1>0, <1>1, BrokerRunningKeeps
<1>2. CASE \E c \in Clients : addClient(c) \/ HandlerStep(c) \/ Disconnect(c)
  BY <1>0, <1>2, HandlerKeeps
<1>3. CASE Close
  BY <1>0, <1>3, BrokerCloseKeeps
<1>4. CASE \E t \in scenario.app :
             \/ BrokerBroadcast(t) \/ \E c \in Clients : CloseSubscriber(t, c)
             \/ \E c \in Clients, n \in Names :
                  Connected(c) /\ UNCHANGED sse /\ (Subscribe(t, c, n) \/ Unsubscribe(t, c, n))
             \/ \E n \in Names : DeleteGroup(t, n) /\ UNCHANGED sse
  BY <1>0, <1>4, BrokerCallKeeps
<1> QED BY <1>1, <1>2, <1>3, <1>4 DEF SSENext

----------------------------------------------------------------------------
(* The hub's part of the invariant, in a step that neither opens nor closes a connection. *)
LEMMA ConnKept ==
    ASSUME ConnInv, UNCHANGED <<ws, panicked>>, NEW t \in Threads, regClosed => regClosed',
           \A u \in Threads \ {t} : call'[u] = call[u], call'[t].pc # "write",
           call'[t].pc = "closeHub" => regClosed'
    PROVE  ConnInv'
BY DEF ConnInv, ws

(* CloseWithReason: nobody is writing to the connection, since its mutex is free. *)
LEMMA BeginCloseKeeps ==
    ASSUME GroupsInv, ConnInv, part = "hub", UNCHANGED <<part, scenario, panicked>>, NEW t \in Threads, NEW c \in Clients,
           call[t].pc \in {"idle", "closeHub"}, CloseConn(t, c)
    PROVE  GroupsInv' /\ ConnInv'
<1>0. RegistryTypes /\ DOMAIN call = Threads
  BY DEF GroupsInv, RegistrySound, RegistryTypes
<1>1. /\ connLock[c] = None /\ conn[c] = "open" /\ conn' = [conn EXCEPT ![c] = "closed"]
      /\ closer' = [closer EXCEPT ![c] = t] /\ Go(t, "remove", c, None, {})
      /\ UNCHANGED <<registry, inGroup, joined, locks, connLock, socket>>
  BY DEF CloseConn, BeginClose
<1>2. /\ DOMAIN conn' = Clients /\ conn'[c] = "closed" /\ \A d \in Clients \ {c} : conn'[d] = conn[d]
      /\ DOMAIN closer' = Clients /\ \A d \in Clients \ {c} : closer'[d] = closer[d]
  BY <1>1 DEF ConnInv
<1>3. Unused' = Unused /\ c \notin Unused
  BY <1>1, <1>2 DEF Unused
<1>4. /\ DOMAIN call' = Threads /\ call'[t].pc = "remove" /\ call'[t].client = c
      /\ \A u \in Threads \ {t} : call'[u] = call[u]
  BY <1>0, <1>1, GoFacts
<1>5. GroupsInv'
  BY <1>1, <1>3, <1>4, CallMoves DEF ForGroup, OverClients
<1>6. ASSUME NEW u \in Threads, call'[u].pc = "write"
      PROVE  call'[u].client \in Clients /\ connLock'[call'[u].client] = u /\ conn'[call'[u].client] = "open"
  <2>1. call'[u] = call[u]
    BY <1>4, <1>6
  <2>2. call[u].client \in Clients /\ connLock[call[u].client] = u /\ conn[call[u].client] = "open"
    BY <1>6, <2>1 DEF ConnInv
  <2>3. call[u].client # c
    BY <1>1, <2>2, GroupsConstants
  <2> QED BY <1>1, <1>2, <2>1, <2>2, <2>3
<1>7. socket' \subseteq Clients /\ \A d \in socket' : conn'[d] = "closed"
  BY <1>1, <1>2 DEF ConnInv
<1>8. \A d \in Clients : closer'[d] # None => conn'[d] = "closed"
  BY <1>2 DEF ConnInv
<1>9. DOMAIN connLock' = Clients /\ panicked' = {}
  BY <1>1 DEF ConnInv
<1>10. \A u \in Threads : call'[u].pc = "closeHub" => regClosed'
  BY <1>1, <1>4 DEF ConnInv, registry
<1> QED BY <1>2, <1>5, <1>6, <1>7, <1>8, <1>9, <1>10 DEF ConnInv

(* Steps of calls under way in the hub. *)
LEMMA HubRunningKeeps ==
    ASSUME GroupsInv, ConnInv, part = "hub", UNCHANGED <<part, scenario, panicked>>, NEW t \in Threads, HubRunning(t)
    PROVE  GroupsInv' /\ ConnInv'
<1>0. RegistrySound /\ RegistryTypes /\ DOMAIN call = Threads /\ CallTyped(t) /\ LocksHeld(t)
  BY DEF GroupsInv, RegistrySound, RegistryTypes
<1>u. ASSUME UNCHANGED conn PROVE Unused' = Unused
  BY <1>u DEF Unused
<1>1. CASE GroupStep(t) /\ UNCHANGED ws
  BY <1>0, <1>1, <1>u, GroupStepKeeps, GroupStepFacts, ConnKept DEF ws
<1>2. CASE RemoveFinish(t) /\ UNCHANGED ws
  <2>1. call'[t].pc = "idle" /\ \A u \in Threads \ {t} : call'[u] = call[u]
    BY <1>0, <1>2, FinishFacts DEF RemoveFinish
  <2>2. UNCHANGED regClosed
    BY <1>2 DEF RemoveFinish
  <2> QED BY <1>2, <1>u, <2>1, <2>2, RemoveFinishKeeps, ConnKept DEF ws
<1>3. CASE CloseNext(t)
  <2>1. call[t].pc = "closeHub" /\ call[t].todo \subseteq Clients /\ regLock = t
    BY <1>0, <1>3 DEF CloseNext, At, CallTyped, LocksHeld, OverClients
  <2>2. PICK c \in call[t].todo :
          \/ Go(t, "closeHub", None, None, call[t].todo \ {c}) /\ UNCHANGED <<registry, inGroup, joined, locks, ws>>
          \/ CloseConn(t, c)
    BY <1>3 DEF CloseNext, Todo
  <2>3. CASE Go(t, "closeHub", None, None, call[t].todo \ {c}) /\ UNCHANGED <<registry, inGroup, joined, locks, ws>>
    <3>1. /\ DOMAIN call' = Threads /\ call'[t].pc = "closeHub" /\ call'[t].todo \subseteq Clients
          /\ \A u \in Threads \ {t} : call'[u] = call[u]
      BY <1>0, <2>1, <2>3, GoFacts
    <3>2. GroupsInv'
      BY <1>u, <2>1, <2>3, <3>1, CallMoves DEF ForGroup, ws
    <3>3. regClosed /\ UNCHANGED regClosed
      BY <2>1, <2>3 DEF ConnInv, registry
    <3> QED BY <2>3, <3>1, <3>2, <3>3, ConnKept
  <2>4. CASE CloseConn(t, c)
    BY <2>1, <2>4, BeginCloseKeeps
  <2> QED BY <2>2, <2>3, <2>4
<1>4. CASE CloseHubFinish(t)
  <2>1. /\ call[t].pc = "closeHub" /\ members' = {} /\ current' = [n \in Names |-> 0] /\ Finish(t)
        /\ UNCHANGED <<made, regClosed, inGroup, joined, clientLock, ws>>
    BY <1>4 DEF CloseHubFinish, At
  <2>2. DOMAIN call' = Threads /\ call'[t].pc = "idle" /\ \A u \in Threads \ {t} : call'[u] = call[u]
    BY <1>0, <2>1, FinishFacts
  <2>3. regLock = t
    BY <1>0, <2>1 DEF LocksHeld
  <2>4. \A u \in Threads \ {t} : call[u].pc \notin {"removeClient", "removeGroups", "closeHub"}
    BY <1>0, <2>3 DEF RegistrySound, LocksHeld
  <2>5. regClosed
    BY <1>4, <2>1 DEF ConnInv
  <2>6. GroupsInv'
    BY <1>0, <1>u, <2>1, <2>2, <2>4, <2>5, EmptiedKeeps DEF ws
  <2> QED BY <2>1, <2>2, <2>6, ConnKept
<1>5. CASE ConnWrite(t)
  <2>1. /\ call[t].pc = "broadcast" /\ call[t].todo \subseteq Clients
        /\ UNCHANGED <<registry, inGroup, joined, locks, conn, closer, socket>>
    BY <1>0, <1>5 DEF ConnWrite, WriteTo, At, CallTyped, OverClients
  <2>2. CASE UNCHANGED connLock /\ call[t].todo = {} /\ Finish(t)
    <3>1. DOMAIN call' = Threads /\ call'[t].pc = "idle" /\ \A u \in Threads \ {t} : call'[u] = call[u]
      BY <1>0, <2>2, FinishFacts
    <3>2. GroupsInv'
      BY <1>u, <2>1, <3>1, CallMoves DEF ForGroup, OverClients
    <3> QED BY <2>1, <2>2, <3>1, <3>2, ConnKept DEF ws, registry
  <2>3. ASSUME NEW c \in call[t].todo, UNCHANGED connLock, Go(t, "broadcast", None, None, call[t].todo \ {c})
        PROVE  GroupsInv' /\ ConnInv'
    <3>1. /\ DOMAIN call' = Threads /\ call'[t].pc = "broadcast" /\ call'[t].todo \subseteq Clients
          /\ \A u \in Threads \ {t} : call'[u] = call[u]
      BY <1>0, <2>1, <2>3, GoFacts
    <3>2. GroupsInv'
      BY <1>u, <2>1, <3>1, CallMoves DEF ForGroup
    <3> QED BY <2>1, <2>3, <3>1, <3>2, ConnKept DEF ws, registry
  <2>4. ASSUME NEW c \in call[t].todo, connLock[c] = None, conn[c] = "open",
               connLock' = [connLock EXCEPT ![c] = t], Go(t, "write", c, None, call[t].todo \ {c})
        PROVE  GroupsInv' /\ ConnInv'
    <3>1. /\ DOMAIN call' = Threads /\ call'[t].pc = "write" /\ call'[t].client = c /\ call'[t].todo \subseteq Clients
          /\ \A u \in Threads \ {t} : call'[u] = call[u]
      BY <1>0, <2>1, <2>4, GoFacts
    <3>2. GroupsInv'
      BY <1>u, <2>1, <3>1, CallMoves DEF ForGroup
    <3>3. c \in Clients /\ DOMAIN connLock' = Clients /\ connLock'[c] = t /\ \A d \in Clients \ {c} : connLock'[d] = connLock[d]
      BY <2>1, <2>4 DEF ConnInv
    <3>4. ASSUME NEW u \in Threads, call'[u].pc = "write"
          PROVE  call'[u].client \in Clients /\ connLock'[call'[u].client] = u /\ conn'[call'[u].client] = "open"
      <4>1. CASE u = t
        BY <2>1, <2>4, <3>1, <3>3, <4>1
      <4>2. CASE u # t
        <5>1. call'[u] = call[u]
          BY <3>1, <4>2
        <5>2. call[u].client \in Clients /\ connLock[call[u].client] = u /\ conn[call[u].client] = "open"
          BY <3>4, <5>1 DEF ConnInv
        <5>3. call[u].client # c
          BY <2>4, <5>2, GroupsConstants
        <5> QED BY <2>1, <3>3, <5>1, <5>2, <5>3
      <4> QED BY <4>1, <4>2
    <3>5. \A u \in Threads : call'[u].pc = "closeHub" => regClosed'
      BY <2>1, <3>1 DEF ConnInv, registry
    <3> QED BY <2>1, <3>2, <3>3, <3>4, <3>5 DEF ConnInv
  <2> QED BY <1>5, <2>2, <2>3, <2>4 DEF ConnWrite, WriteTo, Todo
<1>6. CASE Written(t)
  <2>1. /\ call[t].pc = "write" /\ call[t].todo \subseteq Clients
        /\ connLock' = [connLock EXCEPT ![call[t].client] = None] /\ Go(t, "broadcast", None, None, call[t].todo)
        /\ UNCHANGED <<registry, inGroup, joined, locks, conn, closer, socket>>
    BY <1>0, <1>6 DEF Written, At, CallTyped, OverClients, Client, Todo
  <2>2. /\ DOMAIN call' = Threads /\ call'[t].pc = "broadcast" /\ call'[t].todo \subseteq Clients
        /\ \A u \in Threads \ {t} : call'[u] = call[u]
    BY <1>0, <2>1, GoFacts
  <2>3. GroupsInv'
    BY <1>u, <2>1, <2>2, CallMoves DEF ForGroup
  <2>4. DOMAIN connLock' = Clients /\ \A d \in Clients : d # call[t].client => connLock'[d] = connLock[d]
    BY <2>1 DEF ConnInv
  <2>5. call[t].client \in Clients /\ connLock[call[t].client] = t
    BY <2>1 DEF ConnInv
  <2>6. ASSUME NEW u \in Threads, call'[u].pc = "write"
        PROVE  call'[u].client \in Clients /\ connLock'[call'[u].client] = u /\ conn'[call'[u].client] = "open"
    <3>1. u # t /\ call'[u] = call[u]
      BY <2>2, <2>6
    <3>2. call[u].client \in Clients /\ connLock[call[u].client] = u /\ conn[call[u].client] = "open"
      BY <2>6, <3>1 DEF ConnInv
    <3> QED BY <2>1, <2>4, <2>5, <3>1, <3>2
  <2>7. \A u \in Threads : call'[u].pc = "closeHub" => regClosed'
    BY <2>1, <2>2 DEF ConnInv, registry
  <2> QED BY <2>1, <2>3, <2>4, <2>6, <2>7 DEF ConnInv
<1> QED BY <1>1, <1>2, <1>3, <1>4, <1>5, <1>6 DEF HubRunning

(* A connection is opened, its pinger gives it up, its socket is closed. *)
LEMMA ConnKeeps ==
    ASSUME GroupsInv, ConnInv, part = "hub", UNCHANGED <<part, scenario, panicked>>, NEW c \in Clients,
           NewClient(c) \/ PingTimeout(c) \/ CloseSocket(c)
    PROVE  GroupsInv' /\ ConnInv'
<1>1. CASE NewClient(c)
  <2>1. /\ conn[c] = "none"
        /\ UNCHANGED <<current, made, regClosed, inGroup, joined, locks, call, connLock, closer, socket>>
        /\ members' = IF regClosed THEN members ELSE members \cup {c}
    BY <1>1 DEF NewClient
  <2>2. PICK h \in {"open", "refused"} : conn' = [conn EXCEPT ![c] = h]
    BY <1>1 DEF NewClient
  <2>3. conn'[c] = h /\ DOMAIN conn' = Clients /\ \A d \in Clients \ {c} : conn'[d] = conn[d]
    BY <2>2 DEF ConnInv
  <2>4. c \in Unused /\ Unused' = Unused \ {c}
    BY <2>1, <2>2, <2>3 DEF Unused
  <2>5. GroupsInv'
    BY <2>1, <2>4, ArriveKeeps
  <2>6. socket' \subseteq Clients /\ (\A d \in socket' : conn'[d] = "closed") /\ DOMAIN closer' = Clients
    BY <2>1, <2>3 DEF ConnInv
  <2>7. \A d \in Clients : closer'[d] # None => conn'[d] = "closed"
    BY <2>1, <2>3 DEF ConnInv
  <2>8. \A u \in Threads : call'[u].pc = "write" =>
          call'[u].client \in Clients /\ connLock'[call'[u].client] = u /\ conn'[call'[u].client] = "open"
    BY <2>1, <2>3 DEF ConnInv
  <2> QED BY <2>1, <2>3, <2>5, <2>6, <2>7, <2>8 DEF ConnInv
<1>2. CASE PingTimeout(c)
  BY <1>2, BeginCloseKeeps DEF PingTimeout, HubReady, At, Threads
<1>3. CASE CloseSocket(c)
  <2>1. /\ closer[c] # None /\ closer' = [closer EXCEPT ![c] = None] /\ socket' = socket \cup {c}
        /\ UNCHANGED <<groupVars, conn, connLock>>
    BY <1>3 DEF CloseSocket
  <2>2. UNCHANGED call /\ Unused' = Unused
    BY <2>1 DEF groupVars, Unused
  <2>3. DOMAIN closer' = Clients /\ \A d \in Clients : closer'[d] # None => closer[d] # None
    BY <2>1 DEF ConnInv
  <2>4. conn[c] = "closed"
    BY <2>1 DEF ConnInv
  <2>5. ConnInv'
    BY <2>1, <2>2, <2>3, <2>4 DEF ConnInv, groupVars, registry
  <2> QED BY <2>1, <2>2, <2>5, RegistryKept
<1> QED BY <1>1, <1>2, <1>3

(* The application calls Broadcast, Close, Join, Leave and DeleteRoom. *)
LEMMA HubCallKeeps ==
    ASSUME GroupsInv, ConnInv, part = "hub", UNCHANGED <<part, scenario, panicked>>, NEW t \in scenario.app,
           \/ CloseHub(t) \/ HubBroadcast(t) \/ \E c \in Clients : CloseHubClient(t, c)
           \/ \E c \in Clients, n \in Names :
                conn[c] \in {"open", "closed"} /\ UNCHANGED ws /\ (Subscribe(t, c, n) \/ Unsubscribe(t, c, n))
           \/ \E n \in Names : DeleteGroup(t, n) /\ UNCHANGED ws
    PROVE  GroupsInv' /\ ConnInv'
<1>0. RegistrySound /\ RegistryTypes /\ DOMAIN call = Threads /\ t \in Threads
  BY DEF GroupsInv, RegistrySound, RegistryTypes, Threads
<1>u. ASSUME UNCHANGED ws PROVE Unused' = Unused
  BY <1>u DEF Unused, ws
<1>1. CASE CloseHub(t)
  <2>1. /\ call[t].pc = "idle" /\ regLock = None /\ regClosed' /\ regLock' = t /\ Go(t, "closeHub", None, None, members)
        /\ UNCHANGED <<members, current, made, inGroup, joined, clientLock, ws>>
    BY <1>1 DEF CloseHub, HubReady, At, RegFree
  <2>2. /\ DOMAIN call' = Threads /\ call'[t].pc = "closeHub" /\ call'[t].todo \subseteq Clients
        /\ \A u \in Threads \ {t} : call'[u] = call[u]
    BY <1>0, <2>1, GoFacts DEF RegistryTypes
  <2>3. \A u \in Threads : call[u].pc \notin {"removeClient", "removeGroups", "closeHub"}
    BY <1>0, <2>1, GroupsConstants DEF RegistrySound, LocksHeld
  <2>4. CallTyped(t)'
    BY <2>2 DEF CallTyped, ForClient, ForGroup
  <2>5. \A u \in Threads : LocksHeld(u)'
    BY <2>1, <2>2, <2>3 DEF LocksHeld
  <2>6. GroupsInv'
    BY <1>0, <1>u, <2>1, <2>2, <2>4, <2>5, CallStep DEF ForGroup, RegistryTypes
  <2> QED BY <1>0, <2>1, <2>2, <2>6, ConnKept
<1>2. CASE HubBroadcast(t)
  <2>1. call[t].pc = "idle" /\ UNCHANGED <<registry, inGroup, joined, locks, ws>>
    BY <1>2 DEF HubBroadcast, HubReady, At
  <2>2. PICK s \in SUBSET Clients : Go(t, "broadcast", None, None, s)
    BY <1>0, <1>2 DEF HubBroadcast, RegistryTypes
  <2>3. /\ DOMAIN call' = Threads /\ call'[t].pc = "broadcast" /\ call'[t].todo \subseteq Clients
        /\ \A u \in Threads \ {t} : call'[u] = call[u]
    BY <1>0, <2>2, GoFacts
  <2>4. GroupsInv'
    BY <1>0, <1>u, <2>1, <2>3, CallMoves DEF ForGroup
  <2> QED BY <1>0, <2>1, <2>3, <2>4, ConnKept DEF registry
<1>3. CASE \E c \in Clients : CloseHubClient(t, c)
  BY <1>0, <1>3, BeginCloseKeeps DEF CloseHubClient, HubReady, At
<1>4. ASSUME NEW c \in Clients, NEW n \in Names, conn[c] \in {"open", "closed"}, UNCHANGED ws,
             Subscribe(t, c, n) \/ Unsubscribe(t, c, n)
      PROVE  GroupsInv' /\ ConnInv'
  <2>1. c \in Clients \ Unused
    BY <1>4 DEF Unused
  <2>2. PICK o : Go(t, "join", c, o, {}) \/ Go(t, "leave", c, o, {})
    BY <1>4 DEF Subscribe, Unsubscribe
  <2>3. /\ call'[t].pc \in {"join", "leave"} /\ \A u \in Threads \ {t} : call'[u] = call[u]
    BY <1>0, <2>2, GoFacts
  <2>4. ConnInv'
    BY <1>0, <1>4, <2>3, ConnKept DEF Subscribe, Unsubscribe, registry
  <2> QED BY <1>u, <1>4, <2>1, <2>4, SubscribeKeeps, UnsubscribeKeeps
<1>5. ASSUME NEW n \in Names, DeleteGroup(t, n), UNCHANGED ws PROVE GroupsInv' /\ ConnInv'
  <2>1. Go(t, "delete", None, <<n, current[n]>>, {})
    BY <1>5 DEF DeleteGroup
  <2>2. call'[t].pc = "delete" /\ \A u \in Threads \ {t} : call'[u] = call[u]
    BY <1>0, <2>1, GoFacts
  <2>3. ConnInv'
    BY <1>0, <1>5, <2>2, ConnKept DEF DeleteGroup
  <2> QED BY <1>u, <1>5, <2>3, DeleteGroupKeeps
<1> QED BY <1>1, <1>2, <1>3, <1>4, <1>5

LEMMA HubNextKeeps ==
    ASSUME GroupsInv, ConnInv, part = "hub", UNCHANGED <<part, panicked>>, HubNext
    PROVE  GroupsInv' /\ ConnInv'
<1>0. UNCHANGED scenario
  BY DEF HubNext
<1>1. CASE \E t \in Threads : HubRunning(t)
  BY <1>0, <1>1, HubRunningKeeps
<1>2. CASE \E c \in Clients : NewClient(c) \/ PingTimeout(c) \/ CloseSocket(c)
  BY <1>0, <1>2, ConnKeeps
<1>3. CASE \E t \in scenario.app :
             \/ CloseHub(t) \/ HubBroadcast(t) \/ \E c \in Clients : CloseHubClient(t, c)
             \/ \E c \in Clients, n \in Names :
                  conn[c] \in {"open", "closed"} /\ UNCHANGED ws /\ (Subscribe(t, c, n) \/ Unsubscribe(t, c, n))
             \/ \E n \in Names : DeleteGroup(t, n) /\ UNCHANGED ws
  BY <1>0, <1>3, HubCallKeeps
<1> QED BY <1>1, <1>2, <1>3 DEF HubNext

----------------------------------------------------------------------------
LEMMA RealInit == Init => RealInv
<1> SUFFICES ASSUME Init PROVE RealInv
  OBVIOUS
<1>0. /\ part \in Parts /\ members = {} /\ current = [n \in Names |-> 0] /\ made = [n \in Names |-> 0]
      /\ inGroup = [o \in Objects |-> {}] /\ joined = [c \in Clients |-> [n \in Names |-> 0]]
      /\ clientLock = [c \in Clients |-> None] /\ call = [t \in Threads |-> Idle]
      /\ scenario \in Scenario(SSEOps) \cup Scenario(HubOps)
  BY SSEAssumption, HubAssumption DEF Init, GroupsInit
<1>1. scenario.app \subseteq App
  BY <1>0 DEF Scenario
<1>2. RegistryTypes
  BY <1>0, <1>1, GroupsConstants DEF RegistryTypes
<1>3. \A t \in Threads : call[t].pc = "idle"
  BY <1>0 DEF Idle
<1>4. RegistrySound
  <2>1. UnusedIsNowhere
    BY <1>0 DEF UnusedIsNowhere, Unused
  <2>2. \A t \in Threads : CallTyped(t) /\ LocksHeld(t)
    BY <1>3 DEF CallTyped, LocksHeld, ForClient, ForGroup, OverClients
  <2> QED BY <1>2, <2>1, <2>2 DEF RegistrySound
<1>5. Agreement
  <2>1. Targets
    BY <1>1, <1>3 DEF Targets, Threads
  <2> QED BY <1>0, <2>1 DEF Agreement, Stable
<1>6. BrokerInv
  BY <1>3 DEF Init, EventsInit, BrokerInv, Threads
<1>7. ConnInv
  BY <1>3 DEF Init, EventsInit, ConnInit, ConnInv
<1> QED BY <1>0, <1>4, <1>5, <1>6, <1>7 DEF RealInv, GroupsInv

LEMMA RealStep == RealInv /\ [Next]_vars => RealInv'
<1> SUFFICES ASSUME RealInv, [Next]_vars PROVE RealInv'
  OBVIOUS
<1>1. CASE InSSE(SSENext)
  BY <1>1, SSENextKeeps DEF InSSE, RealInv
<1>2. CASE InHub(HubNext)
  BY <1>2, HubNextKeeps DEF InHub, RealInv, sse
<1>3. CASE UNCHANGED vars
  <2>1. UNCHANGED <<part, scenario, groupVars, sse, ws>>
    BY <1>3 DEF vars
  <2>2. Unused' = Unused
    BY <2>1 DEF Unused, sse, ws
  <2>3. BrokerInv' = BrokerInv /\ ConnInv' = ConnInv
    BY <2>1 DEF BrokerInv, ConnInv, sse, ws, groupVars, registry
  <2> QED BY <2>1, <2>2, <2>3, RegistryKept DEF RealInv
<1> QED BY <1>1, <1>2, <1>3 DEF Next

(* Has of a group and InChannel of its client agree about every registered client
   once no call is under way and one goroutine makes the calls: for any number of
   clients, names and groups, with clients that come and go and with Broker.Close
   or Hub.Close (broker.go:403, 575, and hub.go alike). *)
THEOREM SidesAlwaysAgree == Spec => []MembershipAgrees
<1>1. RealInv => MembershipAgrees
  <2> SUFFICES ASSUME RealInv, Cardinality(scenario.app) <= 1, AllIdle, NEW c \in members, NEW o \in Objects
               PROVE  c \in inGroup[o] <=> joined[c][Name(o)] = o[2]
    BY DEF MembershipAgrees
  <2>0. RegistrySound /\ RegistryTypes /\ Agreement /\ scenario.app \subseteq App /\ c \in Clients
    BY DEF RealInv, GroupsInv, RegistrySound, RegistryTypes
  <2>1. Solo
    <3> SUFFICES ASSUME NEW t \in scenario.app, NEW u \in scenario.app, t # u PROVE FALSE
      BY DEF Solo
    <3>1. IsFiniteSet(scenario.app) /\ Cardinality(scenario.app) \in Nat
      BY <2>0, GroupsConstants, FS_Subset, FS_CardinalityType
    <3>2. IsFiniteSet({t, u}) /\ Cardinality({t, u}) = 2
      <4>1. IsFiniteSet({t}) /\ Cardinality({t}) = 1
        BY FS_Singleton
      <4>2. {t, u} = {t} \cup {u} /\ u \notin {t}
        OBVIOUS
      <4>3. IsFiniteSet({t} \cup {u}) /\ Cardinality({t} \cup {u}) = Cardinality({t}) + 1
        BY ONLY <4>1, <4>2, FS_AddElement
      <4> QED BY ONLY <4>1, <4>2, <4>3
    <3>3. Cardinality({t, u}) <= Cardinality(scenario.app)
      BY <3>1, FS_Subset
    <3> QED BY <3>1, <3>2, <3>3
  <2>2. \A t \in Threads : call[t].pc = "idle"
    BY DEF AllIdle, At
  <2>3. c \in Stable
    BY <2>2 DEF Stable
  <2>4. SidesAgree(c)
    BY <2>0, <2>1, <2>3 DEF Agreement, Agreed
  <2>5. \A t \in scenario.app : t \in Threads
    BY <2>0 DEF Threads
  <2> QED BY <2>2, <2>4, <2>5 DEF SidesAgree, Agrees, InBetween, Name
<1> QED BY <1>1, RealInit, RealStep, PTL DEF Spec

(* Whoever closes what in the meantime: done is closed once per client, an event is
   sent on a closed channel only to a client that Broker.Close found connected,
   and Conn.Write writes to open connections only. *)
THEOREM ClosedIsNotUsed == Spec => []NothingClosedIsUsed
<1>1. RealInv => NothingClosedIsUsed
  <2> SUFFICES ASSUME RealInv PROVE NoPanic /\ WritesToOpen
    BY DEF NothingClosedIsUsed
  <2>1. CASE part = "sse"
    BY <2>1 DEF RealInv, BrokerInv, NoPanic, WritesToOpen, At, Threads
  <2>2. CASE part # "sse"
    BY <2>2 DEF RealInv, ConnInv, NoPanic, WritesToOpen, At, Client, Threads
  <2> QED BY <2>1, <2>2
<1> QED BY <1>1, RealInit, RealStep, PTL DEF Spec
=============================================================================
