------------------------------- MODULE Groups -------------------------------
(***************************************************************************)
(* The registry that pantry/sse/broker.go and pantry/websocket/hub.go have *)
(* in common: a set of clients, named groups of clients (channels, rooms), *)
(* and in each client the groups it is in.  Line numbers of the map are    *)
(* those of broker.go; hub.go has the same statements under other names.   *)
(*                                                                         *)
(* The registry, every group object and every client have a mutex.  A      *)
(* section that holds one mutex only is one step, taken when the mutex is  *)
(* free; removeClient and the second half of DeleteChannel hold several    *)
(* and are a step per mutex.  A deleted group is an object that is no      *)
(* longer registered, and the next one of its name is another object.      *)
(*                                                                         *)
(* A behaviour belongs to one scenario: which calls the application makes, *)
(* from which goroutines, and which clients connect.                       *)
(***************************************************************************)
EXTENDS Integers, FiniteSets

CONSTANTS Clients,
          Names,        \* names of groups
          MaxGroups,    \* bound: objects made for one name
          App,          \* application goroutines
          None

ASSUME GroupsAssumption == /\ None \notin App \cup Clients /\ App \cap Clients = {}
                           /\ IsFiniteSet(App) /\ MaxGroups \in Nat

(* Every client also has a goroutine of its own: its HTTP handler or pinger. *)
Threads == App \cup Clients
Objects == Names \X (1..MaxGroups)

VARIABLES scenario,   \* calls made, goroutines that make them, clients that connect
          members,    \* b.clients
          current,    \* b.channels: number of the object registered for a name, or 0
          made,       \* objects made for a name
          regClosed,     \* b.closed
          inGroup,    \* clients of each group object
          joined,     \* client.channels: number of the object for a name, or 0
          regLock, clientLock, groupLock,   \* thread that holds the mutex across steps
          call        \* what each thread is doing

registry == <<members, current, made, regClosed>>
locks == <<regLock, clientLock, groupLock>>
groupVars == <<registry, inGroup, joined, locks, call>>

Idle == [pc |-> "idle", client |-> None, group |-> None, todo |-> {}]
Name(o) == o[1]

Scenario(ops) == [ops : SUBSET ops, app : SUBSET App, clients : SUBSET Clients]

Made(op) == op \in scenario.ops

GroupsInit(scenarios) ==
    /\ scenario \in scenarios
    /\ members = {}
    /\ current = [n \in Names |-> 0] /\ made = [n \in Names |-> 0]
    /\ regClosed = FALSE
    /\ inGroup = [o \in Objects |-> {}]
    /\ joined = [c \in Clients |-> [n \in Names |-> 0]]
    /\ regLock = None
    /\ clientLock = [c \in Clients |-> None]
    /\ groupLock = [o \in Objects |-> None]
    /\ call = [t \in Threads |-> Idle]

----------------------------------------------------------------------------
At(t, pc) == call[t].pc = pc
Go(t, pc, c, o, todo) ==
    call' = [call EXCEPT ![t] = [pc |-> pc, client |-> c, group |-> o, todo |-> todo]]
Finish(t) == call' = [call EXCEPT ![t] = Idle]

Client(t) == call[t].client
Group(t) == call[t].group
Todo(t) == call[t].todo

RegFree == regLock = None
ClientFree(c) == clientLock[c] = None
GroupFree(o) == groupLock[o] = None

----------------------------------------------------------------------------
(* removeClient: the registry's mutex is held to the end. *)
BeginRemove(t, stillThere) ==
    /\ At(t, "remove")
    /\ RegFree
    /\ IF stillThere
       THEN regLock' = t /\ Go(t, "removeClient", Client(t), None, {})
       ELSE UNCHANGED regLock /\ Finish(t)
    /\ UNCHANGED <<registry, inGroup, joined, clientLock, groupLock>>

(* Mutant: no check that the client is still registered. *)
RemoveUnchecked(t) == BeginRemove(t, TRUE)

RemoveCheck(t) == BeginRemove(t, Client(t) \in members)

RemoveLocksClient(t) ==
    /\ At(t, "removeClient")
    /\ ClientFree(Client(t))
    /\ clientLock' = [clientLock EXCEPT ![Client(t)] = t]
    /\ Go(t, "removeGroups", Client(t), None,
          {o \in Objects : joined[Client(t)][Name(o)] = o[2]})
    /\ UNCHANGED <<registry, inGroup, joined, regLock, groupLock>>

RemoveFromGroup(t) ==
    /\ At(t, "removeGroups")
    /\ \E o \in Todo(t) :
          /\ GroupFree(o)
          /\ inGroup' = [inGroup EXCEPT ![o] = @ \ {Client(t)}]
          /\ Go(t, "removeGroups", Client(t), None, Todo(t) \ {o})
    /\ UNCHANGED <<registry, joined, locks>>

RemoveFinish(t) ==
    /\ At(t, "removeGroups") /\ Todo(t) = {}
    /\ joined' = [joined EXCEPT ![Client(t)] = [n \in Names |-> 0]]
    /\ members' = members \ {Client(t)}
    /\ clientLock' = [clientLock EXCEPT ![Client(t)] = None]
    /\ regLock' = None
    /\ Finish(t)
    /\ UNCHANGED <<current, made, regClosed, inGroup, groupLock>>

----------------------------------------------------------------------------
(* Client.Subscribe: GetChannel, then the group's side, then the client's. *)
Subscribe(t, c, n) ==
    /\ At(t, "idle")
    /\ RegFree
    /\ IF current[n] # 0
       THEN Go(t, "join", c, <<n, current[n]>>, {}) /\ UNCHANGED <<current, made>>
       ELSE /\ made[n] < MaxGroups
            /\ made' = [made EXCEPT ![n] = @ + 1]
            /\ current' = [current EXCEPT ![n] = made[n] + 1]
            /\ Go(t, "join", c, <<n, made[n] + 1>>, {})
    /\ UNCHANGED <<members, regClosed, inGroup, joined, locks>>

GroupSide(t, pc, next, clients) ==
    /\ At(t, pc)
    /\ GroupFree(Group(t))
    /\ inGroup' = [inGroup EXCEPT ![Group(t)] = clients]
    /\ Go(t, next, Client(t), Group(t), {})
    /\ UNCHANGED <<registry, joined, locks>>

ClientSide(t, pc, number) ==
    /\ At(t, pc)
    /\ ClientFree(Client(t))
    /\ joined' = [joined EXCEPT ![Client(t)][Name(Group(t))] = number]
    /\ Finish(t)
    /\ UNCHANGED <<registry, inGroup, locks>>

JoinGroup(t) == GroupSide(t, "join", "joinClient", inGroup[Group(t)] \cup {Client(t)})
JoinClient(t) == ClientSide(t, "joinClient", Group(t)[2])

(* Client.Unsubscribe looks the group up in the client. *)
Unsubscribe(t, c, n) ==
    /\ At(t, "idle")
    /\ ClientFree(c)
    /\ joined[c][n] # 0
    /\ Go(t, "leave", c, <<n, joined[c][n]>>, {})
    /\ UNCHANGED <<registry, inGroup, joined, locks>>

LeaveGroup(t) == GroupSide(t, "leave", "leaveClient", inGroup[Group(t)] \ {Client(t)})
LeaveClient(t) == ClientSide(t, "leaveClient", 0)

----------------------------------------------------------------------------
(* DeleteChannel: out of the registry, then the clients under the group's mutex. *)
DeleteGroup(t, n) ==
    /\ At(t, "idle")
    /\ RegFree /\ current[n] # 0
    /\ current' = [current EXCEPT ![n] = 0]
    /\ Go(t, "delete", None, <<n, current[n]>>, {})
    /\ UNCHANGED <<members, made, regClosed, inGroup, joined, locks>>

DeleteLocks(t) ==
    /\ At(t, "delete")
    /\ GroupFree(Group(t))
    /\ groupLock' = [groupLock EXCEPT ![Group(t)] = t]
    /\ Go(t, "deleteClients", None, Group(t), inGroup[Group(t)])
    /\ UNCHANGED <<registry, inGroup, joined, regLock, clientLock>>

(* The client's entry is found by name, whichever object it stands for. *)
DeleteFromClient(t) ==
    /\ At(t, "deleteClients")
    /\ \E c \in Todo(t) :
          /\ ClientFree(c)
          /\ joined' = [joined EXCEPT ![c][Name(Group(t))] = 0]
          /\ Go(t, "deleteClients", None, Group(t), Todo(t) \ {c})
    /\ UNCHANGED <<registry, inGroup, locks>>

EndDelete(t, todo) ==
    /\ At(t, "deleteClients") /\ todo = {}
    /\ inGroup' = [inGroup EXCEPT ![Group(t)] = {}]
    /\ groupLock' = [groupLock EXCEPT ![Group(t)] = None]
    /\ Finish(t)
    /\ UNCHANGED <<registry, joined, regLock, clientLock>>

(* Mutant: only the group's side is emptied. *)
DeleteForgetsClients(t) == EndDelete(t, {})

DeleteFinish(t) == EndDelete(t, Todo(t))

----------------------------------------------------------------------------
(* The steps of calls under way, RemoveFinish excepted. *)
GroupStep(t) ==
    \/ RemoveCheck(t) \/ RemoveLocksClient(t) \/ RemoveFromGroup(t)
    \/ JoinGroup(t) \/ JoinClient(t) \/ LeaveGroup(t) \/ LeaveClient(t)
    \/ DeleteLocks(t) \/ DeleteFromClient(t) \/ DeleteFinish(t)

AllIdle == \A t \in Threads : At(t, "idle")

(* Has of the group and InChannel of the client both say whether "the client
   is subscribed to the channel" (broker.go:403, 575): with no call under way
   they agree about every registered client, as long as one goroutine makes
   the calls.  Two that subscribe and unsubscribe the same client at once can
   leave it in the group's map only. *)
MembershipAgrees ==
    Cardinality(scenario.app) <= 1 /\ AllIdle =>
        \A c \in members, o \in Objects : c \in inGroup[o] <=> joined[c][Name(o)] = o[2]

(* A call that waits for mutexes returns: nobody waits in a circle.  The
   scenarios are those without DeleteChannel and DeleteRoom, which lock group
   and client in the opposite order of removeClient. *)
LocksOrdered == ~Made("delete")
CallsReturn == \A t \in Threads : ~At(t, "idle") /\ LocksOrdered ~> At(t, "idle")
=============================================================================
