----------------------------- MODULE LoginFlow -----------------------------
(* pantry/auth/oauth2: the login redirect, the callback and the logout of
   Provider, the POST callback of Apple, the launch of LTI and the assertion
   consumer of Shibboleth, over the state store and the session store.  Callbacks overlap, come twice (a reload), come
   late, or come back with an error; every call in one may fail. *)
EXTENDS Integers, FiniteSets, GoMap

CONSTANTS Callbacks, NoState,
          StateDuration,   \* ticks a state is valid
          MaxLogins,       \* bound: logins started
          MaxCallbacks,    \* bound: callbacks received
          MaxMinutes       \* bound: ticks

ASSUME LoginAssumption == /\ {StateDuration, MaxLogins, MaxCallbacks, MaxMinutes} \subseteq Nat
                          /\ NoState \notin 1 .. MaxLogins

VARIABLES flow,            \* "oauth2", "apple", "lti" or "shibboleth"
          states,          \* the state store: state -> expiry
          logins,          \* logins started: their states are 1 .. logins
          cb,              \* callbacks in progress
          received, minutes,
          saved,           \* the session store: session -> the state it came from
          sessionsMade,    \* sessions saved so far: their IDs are 1 .. sessionsMade
          live,            \* sessions a browser holds the cookie of
          created          \* state -> sessions created by its callbacks

loginVars == <<flow, states, logins, cb, received, minutes, saved, sessionsMade, live, created>>

States == 1 .. MaxLogins
NoCallback == [pc |-> "idle", state |-> NoState, code |-> FALSE]

LoginTypeOK == /\ DOMAIN states \subseteq States
               /\ \A c \in Callbacks : /\ cb[c].state \in States \cup {NoState}
                                       /\ cb[c].pc \in {"idle", "validate", "exchange", "fetch", "save"}
               /\ live \subseteq 1 .. sessionsMade /\ DOMAIN saved \subseteq 1 .. sessionsMade

LoginInit == /\ flow \in {"oauth2", "apple", "lti", "shibboleth"}
             /\ states = << >> /\ logins = 0 /\ cb = [c \in Callbacks |-> NoCallback]
             /\ received = 0 /\ minutes = 0 /\ saved = << >> /\ sessionsMade = 0 /\ live = {}
             /\ created = [s \in States |-> 0]

-----------------------------------------------------------------------------
(* LoginHandler: a fresh state is saved and sent along to the provider. *)
SaveState(ok) ==
    /\ logins < MaxLogins /\ logins' = logins + 1
    /\ states' = IF ok THEN Put(states, logins', minutes + StateDuration) ELSE states
    /\ UNCHANGED <<flow, cb, received, minutes, saved, sessionsMade, live, created>>
LoginHandler(ok) == flow \in {"oauth2", "apple"} /\ SaveState(ok)

(* The platform starts an LTI login; an unknown issuer or another's client ID is
   refused before anything is saved.  A nonce that cannot be saved ends the
   login too, but its state is in the store by then. *)
LTILoginHandler(known, ok) == /\ flow = "lti"
                              /\ IF known THEN SaveState(ok) ELSE UNCHANGED loginVars

(* Shibboleth saves the request's ID, and then finds no address to go to: the
   metadata it is looked up in are never read.  The ID may come back as the
   RelayState of a response all the same; most responses come unasked for. *)
ShibbolethLoginHandler(ok) == flow = "shibboleth" /\ SaveState(ok)

(* A callback of these two may come without a state, and has no code. *)
Unasked == {"lti", "shibboleth"}

Fails(c) == cb' = [cb EXCEPT ![c] = NoCallback]
Goes(c, pc) == cb' = [cb EXCEPT ![c].pc = pc]

(* A callback arrives.  An error parameter, or no state, ends it at once; only
   an LTI launch and a SAML response do without a state. *)
CallbackHandler(c, s, error, code) ==
    /\ cb[c].pc = "idle" /\ received < MaxCallbacks /\ received' = received + 1
    /\ s \in 1 .. logins \cup {NoState}
    /\ cb' = [cb EXCEPT ![c] =
          CASE flow \in Unasked /\ s = NoState -> [pc |-> "fetch", state |-> s, code |-> code]
            [] flow \notin Unasked /\ (error \/ s = NoState) -> NoCallback
            [] OTHER -> [pc |-> "validate", state |-> s, code |-> code]]
    /\ UNCHANGED <<flow, states, logins, minutes, saved, sessionsMade, live, created>>

(* Mutant: a state that was used stays valid. *)
ValidateKeeps(c, ok) ==
    /\ cb[c].pc = "validate"
    /\ LET s == cb[c].state
           valid == ok /\ s \in DOMAIN states /\ minutes <= states[s]
       IN  IF ~valid \/ (flow \notin Unasked /\ ~cb[c].code) THEN Fails(c)
           ELSE Goes(c, IF flow \in Unasked THEN "fetch" ELSE "exchange")
    /\ UNCHANGED <<flow, states, logins, received, minutes, saved, sessionsMade, live, created>>
(* StateStore.Validate looks up and deletes under one lock, then looks at the
   expiry; a state is gone whatever the answer. *)
Validate(c, ok) ==
    /\ cb[c].pc = "validate"
    /\ LET s == cb[c].state
           valid == ok /\ s \in DOMAIN states /\ minutes <= states[s]
       IN  /\ states' = IF ok THEN Drop(states, {s}) ELSE states
           /\ IF ~valid \/ (flow \notin Unasked /\ ~cb[c].code) THEN Fails(c)
              ELSE Goes(c, IF flow \in Unasked THEN "fetch" ELSE "exchange")
    /\ UNCHANGED <<flow, logins, received, minutes, saved, sessionsMade, live, created>>

(* The code is exchanged for a token, and the token for the user (for LTI:
   the id_token is validated).  Both are external. *)
Exchange(c, ok) == /\ cb[c].pc = "exchange" /\ IF ok THEN Goes(c, "fetch") ELSE Fails(c)
                   /\ UNCHANGED <<flow, states, logins, received, minutes, saved, sessionsMade, live, created>>
FetchUserInfo(c, ok) == /\ cb[c].pc = "fetch" /\ IF ok THEN Goes(c, "save") ELSE Fails(c)
                        /\ UNCHANGED <<flow, states, logins, received, minutes, saved, sessionsMade, live, created>>

(* The session is saved, then the cookie set and OnSuccess called. *)
SaveSession(c, ok) ==
    /\ cb[c].pc = "save" /\ Fails(c)
    /\ sessionsMade' = IF ok THEN sessionsMade + 1 ELSE sessionsMade
    /\ LET id == sessionsMade + 1
       IN  /\ saved' = IF ok THEN Put(saved, id, cb[c].state) ELSE saved
           /\ live' = IF ok THEN live \cup {id} ELSE live
           /\ created' = IF ok /\ cb[c].state # NoState THEN [created EXCEPT ![cb[c].state] = @ + 1] ELSE created
    /\ UNCHANGED <<flow, states, logins, received, minutes>>

(* LogoutHandler deletes the session, and clears the cookie even when the store
   could not.  An LTI tool has none. *)
LogoutHandler(id, ok) ==
    /\ flow # "lti" /\ id \in live /\ live' = live \ {id}
    /\ saved' = IF ok THEN Drop(saved, {id}) ELSE saved
    /\ UNCHANGED <<flow, states, logins, cb, received, minutes, sessionsMade, created>>

(* MemoryStateStore.Cleanup, run by the cleanup task. *)
CleanupStates == /\ \E s \in DOMAIN states : minutes > states[s]
           /\ states' = Drop(states, {s \in DOMAIN states : minutes > states[s]})
           /\ UNCHANGED <<flow, logins, cb, received, minutes, saved, sessionsMade, live, created>>
Minute == /\ minutes < MaxMinutes /\ minutes' = minutes + 1
          /\ UNCHANGED <<flow, states, logins, cb, received, saved, sessionsMade, live, created>>

LoginNext ==
    \/ \E ok \in BOOLEAN :
          \/ LoginHandler(ok) \/ ShibbolethLoginHandler(ok)
          \/ \E known \in BOOLEAN : LTILoginHandler(known, ok)
          \/ \E id \in live : LogoutHandler(id, ok)
          \/ \E c \in Callbacks : Validate(c, ok) \/ Exchange(c, ok) \/ FetchUserInfo(c, ok) \/ SaveSession(c, ok)
    \/ \E c \in Callbacks, s \in States \cup {NoState}, e \in BOOLEAN, k \in BOOLEAN : CallbackHandler(c, s, e, k)
    \/ CleanupStates \/ Minute

LoginSpec == LoginInit /\ [][LoginNext]_loginVars

-----------------------------------------------------------------------------
(* A login gives at most one session, however often and however concurrently
   its callback comes back: the state is used up before anything is exchanged. *)
OneSessionPerState == \A s \in States : created[s] <= 1
=============================================================================
