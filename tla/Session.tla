------------------------------ MODULE Session ------------------------------
(* pantry/session: the requests of one browser, each with its own copy of the
   session (Manager.Get), which the handler changes and the middleware writes
   back as a whole, over the memory or the Redis store.  The browser keeps the
   last cookie it was sent.  Store calls may fail; time passes. *)
EXTENDS Integers, FiniteSets, GoMap

CONSTANTS Requests, Keys, NoId,
          Keep,         \* no Set-Cookie header: the browser keeps its cookie
          MaxAge,       \* lifetime of a session, in ticks
          MaxIds,       \* bound: session ids generated
          MaxEvents     \* bound: requests, handler operations, failing store calls and ticks

VARIABLES backend,      \* "memory" or "redis"
          sessions,     \* the store: id -> [data, exp]
          jar,          \* the browser's cookie
          req,          \* the requests
          now, issued, events,
          ended,        \* ids deleted for good: by a request that was the only one to hold them
                        \* and had nothing left to save
          left,         \* what the last handler left: [data, exp]
          spoiled       \* requests overlapped, a store call failed, a change came too late, or
                        \* a session was changed and destroyed in one request

sessionVars == <<backend, sessions, jar, req, now, issued, events, ended, left, spoiled>>

Ids == 1 .. MaxIds

ASSUME SessionAssumption == /\ MaxAge \in Nat /\ MaxIds \in Nat
                            /\ NoId \notin Ids /\ Keep \notin Ids \cup {NoId}

Fresh == issued + 1
Gone == [data |-> {}, exp |-> 0]
Idle == [pc |-> "idle", cookie |-> NoId, id |-> NoId, data |-> {}, exp |-> 0, mod |-> FALSE,
         written |-> FALSE, sent |-> FALSE, set |-> Keep, destroyed |-> FALSE]

SessionTypeOK ==
    /\ DOMAIN sessions \subseteq Ids /\ jar \in Ids \cup {NoId} /\ now \in 0 .. MaxEvents
    /\ \A r \in Requests : /\ req[r].pc \in {"idle", "load", "check", "handler", "regenerate"}
                           /\ req[r].data \subseteq Keys

SessionInit == /\ backend \in {"memory", "redis"}
               /\ sessions = << >> /\ jar = NoId /\ req = [r \in Requests |-> Idle]
               /\ now = 0 /\ issued = 0 /\ events = 0 /\ ended = {}
               /\ left = Gone /\ spoiled = FALSE

-----------------------------------------------------------------------------
Expired(exp) == now > exp
Busy == {r \in Requests : req[r].pc # "idle"}

Event == events < MaxEvents /\ events' = events + 1

(* One store call, which may fail. *)
Calls(ok) == IF ok THEN UNCHANGED events ELSE Event
Late(q) == q.written \/ q.destroyed
Spoils(late, ok) == spoiled' = (spoiled \/ late \/ ~ok)

(* Store.Save: Redis does not keep a session that has expired, and says nothing. *)
Stored(q, ok) == IF ~ok \/ (backend = "redis" /\ now >= q.exp) THEN sessions
                 ELSE Put(sessions, q.id, [data |-> q.data, exp |-> q.exp])
Without(i) == Drop(sessions, {i})

(* Manager.Save: the store first, then the Set-Cookie header. *)
Saved(q, ok) == IF ok THEN [q EXCEPT !.set = q.id, !.destroyed = FALSE] ELSE q

(* The headers go out: the browser applies the Set-Cookie headers set so far. *)
Delivered(q) == IF q.set # Keep /\ ~q.sent THEN q.set ELSE jar

(* Manager.New *)
New(q) == [q EXCEPT !.pc = "handler", !.id = Fresh, !.data = {}, !.mod = TRUE, !.exp = now + MaxAge]

(* Changes that the middleware will save, whatever happens to the session. *)
Unsaved(q) == q.mod /\ ~q.written
Holds(r, i) == req[r].pc # "idle" /\ req[r].id = i
Alone(r) == \A s \in Requests \ {r} : ~Holds(s, req[r].id)
(* What Destroy deleted comes back when the handler goes on with it. *)
TakesUp(r) == ended' = IF req[r].destroyed THEN ended \ {req[r].id} ELSE ended

(* The handler does something. *)
Operates(r) == req[r].pc = "handler" /\ Event

-----------------------------------------------------------------------------
(* Middleware: the request carries the browser's cookie. *)
Arrive(r) ==
    /\ r \notin Busy /\ issued < MaxIds /\ Event
    /\ req' = [req EXCEPT ![r] = IF jar = NoId THEN New(Idle)
                                               ELSE [Idle EXCEPT !.pc = "load", !.cookie = jar]]
    /\ issued' = IF jar = NoId THEN Fresh ELSE issued
    /\ Spoils(Busy # {}, TRUE)
    /\ UNCHANGED <<backend, sessions, jar, now, ended, left>>

(* Mutant: a new session takes the ID of the cookie. *)
LoadAdopts(r, ok) ==
    /\ req[r].pc = "load" /\ Calls(ok) /\ issued < MaxIds
    /\ LET c == req[r].cookie
           found == ok /\ c \in DOMAIN sessions /\ ~Expired(sessions[c].exp)
       IN  /\ req' = [req EXCEPT ![r] =
                 IF found THEN [@ EXCEPT !.pc = "check", !.id = c, !.data = sessions[c].data,
                                         !.exp = sessions[c].exp]
                          ELSE [New(@) EXCEPT !.id = c]]
           /\ UNCHANGED issued
    /\ Spoils(FALSE, ok)
    /\ UNCHANGED <<backend, sessions, jar, now, ended, left>>
(* Manager.Get: an unknown, an expired or an unreadable session gives a new one. *)
Load(r, ok) ==
    /\ req[r].pc = "load" /\ Calls(ok) /\ issued < MaxIds
    /\ LET c == req[r].cookie
           found == ok /\ c \in DOMAIN sessions /\ ~Expired(sessions[c].exp)
       IN  /\ req' = [req EXCEPT ![r] =
                 IF found THEN [@ EXCEPT !.pc = "check", !.id = c, !.data = sessions[c].data,
                                         !.exp = sessions[c].exp]
                          ELSE New(@)]
           /\ issued' = IF found THEN issued ELSE Fresh
    /\ Spoils(FALSE, ok)
    /\ UNCHANGED <<backend, sessions, jar, now, ended, left>>

(* Get looks at the clock again; a session that has expired since is deleted. *)
Check(r) ==
    /\ req[r].pc = "check" /\ issued < MaxIds
    /\ IF Expired(req[r].exp)
       THEN /\ sessions' = Without(req[r].cookie) /\ issued' = Fresh
            /\ req' = [req EXCEPT ![r] = New(@)]
       ELSE /\ req' = [req EXCEPT ![r].pc = "handler"] /\ UNCHANGED <<sessions, issued>>
    /\ UNCHANGED <<backend, jar, now, events, ended, left, spoiled>>

(* Session.Set, Delete, Clear, and the flash messages made of them. *)
Change(r, d) ==
    /\ Operates(r)
    /\ req' = [req EXCEPT ![r].data = d, ![r].mod = TRUE]
    /\ Spoils(Late(req[r]), TRUE) /\ TakesUp(r)
    /\ UNCHANGED <<backend, sessions, jar, now, issued, left>>
Set(r, k) == Change(r, req[r].data \cup {k})
Delete(r, k) == Change(r, req[r].data \ {k})
Clear(r) == Change(r, {})

(* sessionWriter.Write and WriteHeader: a modified session is saved once, an
   error ignored; then the headers are out. *)
Write(r, ok) ==
    /\ Operates(r)
    /\ LET saves == ~req[r].written /\ req[r].mod
           q == IF saves THEN [Saved(req[r], ok) EXCEPT !.written = TRUE] ELSE req[r]
       IN  /\ sessions' = IF saves THEN Stored(req[r], ok) ELSE sessions
           /\ req' = [req EXCEPT ![r] = [q EXCEPT !.sent = TRUE]]
           /\ jar' = Delivered(q)
    /\ Spoils(FALSE, ok)
    /\ UNCHANGED <<backend, now, issued, ended, left>>

(* Manager.Destroy: the session object itself stays as it is. *)
Destroy(r, ok) ==
    /\ Operates(r)
    /\ sessions' = IF ok THEN Without(req[r].id) ELSE sessions
    /\ ended' = IF ok /\ Alone(r) /\ ~Unsaved(req[r]) THEN ended \cup {req[r].id} ELSE ended
    /\ req' = IF ok THEN [req EXCEPT ![r].set = NoId, ![r].destroyed = TRUE] ELSE req
    /\ Spoils(Unsaved(req[r]), ok)
    /\ UNCHANGED <<backend, jar, now, issued, left>>

(* Manager.Regenerate: a new id, the old session deleted (an error is ignored),
   the data saved under the new id. *)
Regenerate(r, ok) ==
    /\ Operates(r) /\ issued < MaxIds
    /\ req' = [req EXCEPT ![r].pc = "regenerate", ![r].id = Fresh, ![r].mod = TRUE]
    /\ issued' = Fresh
    /\ sessions' = IF ok THEN Without(req[r].id) ELSE sessions
    /\ ended' = IF ok /\ Alone(r) THEN ended \cup {req[r].id} ELSE ended
    /\ Spoils(req[r].sent, ok)
    /\ UNCHANGED <<backend, jar, now, left>>
RegenerateSave(r, ok) ==
    /\ req[r].pc = "regenerate" /\ Calls(ok)
    /\ sessions' = Stored(req[r], ok)
    /\ req' = [req EXCEPT ![r] = [Saved(req[r], ok) EXCEPT !.pc = "handler"]]
    /\ Spoils(FALSE, ok)
    /\ UNCHANGED <<backend, jar, now, issued, ended, left>>

(* Manager.Refresh *)
Refresh(r, ok) ==
    /\ Operates(r)
    /\ LET q == [req[r] EXCEPT !.exp = now + MaxAge, !.mod = TRUE]
       IN  /\ sessions' = Stored(q, ok) /\ req' = [req EXCEPT ![r] = Saved(q, ok)]
    /\ Spoils(req[r].destroyed, ok) /\ TakesUp(r)
    /\ UNCHANGED <<backend, jar, now, issued, left>>

(* The handler returns: the middleware saves what was not saved yet. *)
Return(r, ok) ==
    /\ req[r].pc = "handler" /\ Calls(ok)
    /\ LET saves == ~req[r].written /\ req[r].mod
           q == IF saves THEN Saved(req[r], ok) ELSE req[r]
       IN  /\ sessions' = IF saves THEN Stored(req[r], ok) ELSE sessions
           /\ jar' = Delivered(q)
           /\ left' = IF q.destroyed THEN Gone ELSE [data |-> q.data, exp |-> q.exp]
    /\ req' = [req EXCEPT ![r] = Idle]
    /\ Spoils(FALSE, ok)
    /\ UNCHANGED <<backend, now, issued, ended>>

(* Time passes, and MemoryStore.removeExpired or the Redis TTL catches up. *)
SessionTick == /\ Event /\ now' = now + 1
        /\ UNCHANGED <<backend, sessions, jar, req, issued, ended, left, spoiled>>
removeExpired ==
    /\ \E i \in DOMAIN sessions : Expired(sessions[i].exp)
    /\ sessions' = [i \in {j \in DOMAIN sessions : ~Expired(sessions[j].exp)} |-> sessions[i]]
    /\ UNCHANGED <<backend, jar, req, now, events, issued, ended, left, spoiled>>

SessionNext ==
    \/ \E r \in Requests :
          \/ Arrive(r) \/ Check(r) \/ Clear(r)
          \/ \E k \in Keys : Set(r, k) \/ Delete(r, k)
          \/ \E ok \in BOOLEAN : \/ Load(r, ok) \/ Write(r, ok) \/ Destroy(r, ok) \/ Refresh(r, ok)
                                 \/ Regenerate(r, ok) \/ RegenerateSave(r, ok) \/ Return(r, ok)
    \/ SessionTick \/ removeExpired

SessionSpec == SessionInit /\ [][SessionNext]_sessionVars

-----------------------------------------------------------------------------
(* When requests come one after the other, no store call fails, nothing is changed
   after the response has begun and no handler destroys a session it has changed,
   the next request finds under the browser's cookie exactly what the last handler
   left, and nothing after a logout: through new ids, early and late writes, refresh
   and expiry.  A handler that sets a value and then calls Destroy, or the other way
   round, ends nothing: the middleware saves the session and its cookie again. *)
Found == IF jar \in DOMAIN sessions /\ ~Expired(sessions[jar].exp) THEN sessions[jar].data ELSE {}
NothingLost ==
    ~spoiled /\ Busy = {} => /\ now < left.exp => Found = left.data
                             /\ now > left.exp => Found = {}

(* Requests may overlap and store calls may fail: an id that Destroy or Regenerate
   has deleted names no session again, whoever still sends it as a cookie, unless a
   request had it in hand then to save it later: another one, or the one that called
   Destroy and had changed the session, or changed or refreshed it afterwards. *)
EndedStaysEnded == \A i \in ended : i \notin DOMAIN sessions

(* A browser finds what its last request left, and nothing under an id that was
   ended for good (Manager.Destroy, Regenerate, Middleware). *)
SessionsSound == NothingLost /\ EndedStaysEnded
=============================================================================
