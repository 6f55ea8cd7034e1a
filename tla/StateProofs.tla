----------------------------- MODULE StateProofs -----------------------------
(***************************************************************************)
(* Proofs about the components that keep state for requests: the login     *)
(* flow, refresh tokens, rate limits, the cache, sessions and feature      *)
(* flags, for any number of callbacks, tokens, clients, readers, requests  *)
(* and flags and any timing.                                               *)
(***************************************************************************)
EXTENDS Session, LoginFlow, TokenService, RateLimit, Cache, Feature, FiniteSetTheorems,
        WellFoundedInduction, TLAPS

(* A set of naturals that is not empty has a least element. *)
LEMMA LeastOf ==
    ASSUME NEW T, T \subseteq Nat, T # {}
    PROVE  \E x \in T : \A y \in T : x <= y
<1> DEFINE R == OpToRel(<, Nat)
<1>1. PICK x \in T : \A y \in T : ~(<<y, x>> \in R)
  BY WFMin, NatLessThanWellFounded
<1>2. \A y \in T : y < x => <<y, x>> \in R
  BY DEF OpToRel
<1> HIDE DEF R
<1>3. ASSUME NEW y \in T PROVE x <= y
  <2>1. ~(y < x)
    BY <1>1, <1>2
  <2> QED BY <2>1
<1> QED BY <1>3

(* What holds of the first number and passes from each to the next. *)
LEMMA CountingUp ==
    ASSUME NEW n \in Nat, NEW T, 0 \in T, \A i \in 1 .. n : i - 1 \in T => i \in T
    PROVE  \A i \in 0 .. n : i \in T
<1> SUFFICES ASSUME ~(\A i \in 0 .. n : i \in T) PROVE FALSE
  OBVIOUS
<1> DEFINE out == {i \in 0 .. n : i \notin T}
<1>1. out # {} /\ out \subseteq Nat
  OBVIOUS
<1>0. PICK x \in out : \A y \in out : x <= y
  <2> HIDE DEF out
  <2> QED BY <1>1, LeastOf, Zenon
<1>2. x \in 1 .. n /\ x - 1 \in 0 .. n
  BY <1>0
<1>3. x - 1 \in T
  BY <1>0, <1>2
<1> QED BY <1>0, <1>2, <1>3

(* What a map holds after a write. *)
LEMMA PutFacts ==
    ASSUME NEW m, NEW k, NEW v
    PROVE  /\ DOMAIN Put(m, k, v) = DOMAIN m \cup {k}
           /\ Put(m, k, v)[k] = v
           /\ \A x \in DOMAIN m \ {k} : Put(m, k, v)[x] = m[x]
BY DEF Put

(* What a map holds after entries were deleted. *)
LEMMA DropFacts ==
    ASSUME NEW m, NEW ks
    PROVE  /\ DOMAIN Drop(m, ks) = DOMAIN m \ ks
           /\ \A x \in DOMAIN m \ ks : Drop(m, ks)[x] = m[x]
BY DEF Drop

(* What a map holds after several entries were written. *)
LEMMA MergeFacts ==
    ASSUME NEW n, NEW m
    PROVE  /\ DOMAIN Merge(n, m) = DOMAIN m \cup DOMAIN n
           /\ \A x \in DOMAIN n : Merge(n, m)[x] = n[x]
           /\ \A x \in DOMAIN m \ DOMAIN n : Merge(n, m)[x] = m[x]
BY DEF Merge

-----------------------------------------------------------------------------
CallbackPcs == {"idle", "validate", "exchange", "fetch", "save"}

LoginTypes ==
    /\ logins \in 0 .. MaxLogins
    /\ cb \in [Callbacks -> [pc : CallbackPcs, state : 1 .. logins \cup {NoState}, code : BOOLEAN]]
    /\ DOMAIN states \subseteq 1 .. logins
    /\ created \in [States -> Nat]
    /\ sessionsMade \in Nat
    /\ live \subseteq 1 .. sessionsMade /\ DOMAIN saved \subseteq 1 .. sessionsMade

(* A callback that got past Validate with state s. *)
Past(c, s) == cb[c].pc \in {"exchange", "fetch", "save"} /\ cb[c].state = s

(* A state is in the store, or with one callback that took it out, or with one
   session, or lost: never at two of these places. *)
StateOnce(s) ==
    /\ created[s] <= 1
    /\ s \in DOMAIN states \/ s > logins => created[s] = 0
    /\ \A c \in Callbacks : Past(c, s) => s \notin DOMAIN states /\ created[s] = 0
    /\ \A c, d \in Callbacks : Past(c, s) /\ Past(d, s) => c = d

LoginInv == LoginTypes /\ \A s \in States : StateOnce(s)

LEMMA LoginStarts == LoginInit => LoginInv
<1> SUFFICES ASSUME LoginInit PROVE LoginInv OBVIOUS
<1> USE LoginAssumption DEF LoginInit, States
<1>1. DOMAIN states = {} /\ DOMAIN saved = {}
  OBVIOUS
<1>2. LoginTypes
  BY <1>1 DEF LoginTypes, CallbackPcs, NoCallback
<1>3. ASSUME NEW s \in States PROVE StateOnce(s)
  BY <1>1 DEF StateOnce, Past, NoCallback
<1> QED BY <1>2, <1>3 DEF LoginInv

(* A callback that ends, or goes on without touching the store, moves its own
   state from the callback to nowhere or leaves it where it is. *)
LEMMA CallbackMoves ==
    ASSUME LoginInv, NEW c \in Callbacks,
           NEW p \in {"exchange", "fetch", "save"},
           cb[c].pc \in {"exchange", "fetch"},
           Fails(c) \/ Goes(c, p),
           UNCHANGED <<states, logins, saved, sessionsMade, live, created>>
    PROVE  LoginInv'
<1> USE LoginAssumption DEF LoginInv, LoginTypes
<1>1. \/ cb' = [cb EXCEPT ![c] = NoCallback]
      \/ cb' = [cb EXCEPT ![c] = [pc |-> p, state |-> cb[c].state, code |-> cb[c].code]]
  BY DEF Fails, Goes
<1>2. cb' \in [Callbacks -> [pc : CallbackPcs, state : 1 .. logins \cup {NoState}, code : BOOLEAN]]
  <2> DEFINE R == [pc : CallbackPcs, state : 1 .. logins \cup {NoState}, code : BOOLEAN]
  <2>1. NoCallback \in R
    BY DEF NoCallback, CallbackPcs
  <2>2. [pc |-> p, state |-> cb[c].state, code |-> cb[c].code] \in R
    BY DEF CallbackPcs
  <2> HIDE DEF R
  <2>3. cb \in [Callbacks -> R]
    BY DEF R
  <2>4. cb' \in [Callbacks -> R]
    BY <1>1, <2>1, <2>2, <2>3
  <2> QED BY <2>4 DEF R
<1>3. LoginTypes'
  BY <1>2
<1>4. ASSUME NEW s \in States PROVE StateOnce(s)'
  <2>1. \A d \in Callbacks : Past(d, s)' => Past(d, s)
    BY <1>1 DEF Past, NoCallback, States
  <2>2. StateOnce(s)
    OBVIOUS
  <2> QED BY <2>1, <2>2 DEF StateOnce
<1> QED BY <1>3, <1>4

(* Every step of a handler, in whatever order callbacks come, keeps a state at
   one place. *)
LEMMA LoginStep == LoginInv /\ [LoginNext]_loginVars => LoginInv'
<1> SUFFICES ASSUME LoginInv, [LoginNext]_loginVars PROVE LoginInv' OBVIOUS
<1> USE LoginAssumption
<1> DEFINE R(n) == [pc : CallbackPcs, state : 1 .. n \cup {NoState}, code : BOOLEAN]
<1>0. /\ logins \in 0 .. MaxLogins /\ created \in [States -> Nat] /\ cb \in [Callbacks -> R(logins)]
      /\ DOMAIN states \subseteq 1 .. logins /\ sessionsMade \in Nat
      /\ live \subseteq 1 .. sessionsMade /\ DOMAIN saved \subseteq 1 .. sessionsMade
      /\ NoCallback \in R(logins)
  BY DEF LoginInv, LoginTypes, NoCallback, CallbackPcs
<1>1. ASSUME NEW ok \in BOOLEAN, SaveState(ok) PROVE LoginInv'
  <2>1. /\ logins' = logins + 1 /\ logins' \in 0 .. MaxLogins
        /\ states' = IF ok THEN Put(states, logins + 1, minutes + StateDuration) ELSE states
        /\ UNCHANGED <<cb, saved, sessionsMade, live, created>>
    BY <1>0, <1>1 DEF SaveState
  <2>2. DOMAIN states' \subseteq DOMAIN states \cup {logins + 1}
    <3>1. CASE ok
      <4>1. states' = Put(states, logins + 1, minutes + StateDuration)
        BY <2>1, <3>1
      <4> QED BY ONLY <4>1, PutFacts
    <3>2. CASE ~ok
      BY <2>1, <3>2
    <3> QED BY <3>1, <3>2
  <2>3. R(logins) \subseteq R(logins + 1)
    BY <1>0
  <2>4. LoginTypes'
    <3>1. cb' \in [Callbacks -> R(logins')]
      BY <1>0, <2>1, <2>3
    <3> QED BY <1>0, <2>1, <2>2, <3>1 DEF LoginTypes
  <2>5. ASSUME NEW s \in States PROVE StateOnce(s)'
    <3>1. StateOnce(s) /\ s \in Nat
      BY DEF LoginInv, States
    <3>2. \A c \in Callbacks : Past(c, s) <=> Past(c, s)'
      BY <2>1 DEF Past
    <3>3. \A c \in Callbacks : Past(c, s) => s # logins + 1
      BY <1>0, <3>1 DEF Past, States
    <3> QED BY <1>0, <2>1, <2>2, <3>1, <3>2, <3>3 DEF StateOnce
  <2> QED BY <2>4, <2>5 DEF LoginInv
<1>2. ASSUME NEW c \in Callbacks, NEW s, NEW e, NEW k \in BOOLEAN, CallbackHandler(c, s, e, k)
      PROVE  LoginInv'
  <2>1. /\ s \in 1 .. logins \cup {NoState}
        /\ \/ cb' = [cb EXCEPT ![c] = NoCallback]
           \/ cb' = [cb EXCEPT ![c] = [pc |-> "validate", state |-> s, code |-> k]]
           \/ cb' = [cb EXCEPT ![c] = [pc |-> "fetch", state |-> s, code |-> k]] /\ s = NoState
        /\ UNCHANGED <<states, logins, saved, sessionsMade, live, created>>
    BY <1>2 DEF CallbackHandler
  <2>2. cb' \in [Callbacks -> R(logins)]
    <3>1. [pc |-> "validate", state |-> s, code |-> k] \in R(logins)
      BY <2>1 DEF CallbackPcs
    <3>2. [pc |-> "fetch", state |-> s, code |-> k] \in R(logins)
      BY <2>1 DEF CallbackPcs
    <3> HIDE DEF R
    <3> QED BY <1>0, <2>1, <3>1, <3>2
  <2>3. LoginTypes'
    BY <1>0, <2>1, <2>2 DEF LoginTypes
  <2>4. ASSUME NEW t \in States PROVE StateOnce(t)'
    <3>1. StateOnce(t) /\ t # NoState
      BY DEF LoginInv, States
    <3>2. \A d \in Callbacks : Past(d, t)' => Past(d, t)
      BY <1>0, <2>1, <3>1 DEF Past, NoCallback
    <3> QED BY <2>1, <3>1, <3>2 DEF StateOnce
  <2> QED BY <2>3, <2>4 DEF LoginInv
<1>3. ASSUME NEW c \in Callbacks, NEW ok \in BOOLEAN, Validate(c, ok) PROVE LoginInv'
  <2> DEFINE s == cb[c].state
  <2>1. /\ cb[c].pc = "validate" /\ states' \in {states, Drop(states, {s})}
        /\ \/ cb' = [cb EXCEPT ![c] = NoCallback]
           \/ \E p \in {"exchange", "fetch"} :
                 /\ cb' = [cb EXCEPT ![c] = [pc |-> p, state |-> s, code |-> cb[c].code]]
                 /\ s \in DOMAIN states /\ states' = Drop(states, {s})
        /\ UNCHANGED <<logins, saved, sessionsMade, live, created>>
    BY <1>0, <1>3 DEF Validate, Fails, Goes
  <2>2. DOMAIN states' \subseteq DOMAIN states
    <3>1. DOMAIN Drop(states, {s}) = DOMAIN states \ {s}
      BY ONLY DropFacts
    <3> QED BY <2>1, <3>1
  <2>3. cb' \in [Callbacks -> R(logins)]
    <3>1. ASSUME NEW p \in {"exchange", "fetch"}
          PROVE  [pc |-> p, state |-> s, code |-> cb[c].code] \in R(logins)
      BY <1>0 DEF CallbackPcs
    <3> HIDE DEF R, s
    <3> QED BY <1>0, <2>1, <3>1
  <2>4. LoginTypes'
    BY <1>0, <2>1, <2>2, <2>3 DEF LoginTypes
  <2>5. ASSUME NEW t \in States PROVE StateOnce(t)'
    <3>1. StateOnce(t)
      BY DEF LoginInv
    <3>2. CASE \A d \in Callbacks : Past(d, t)' => Past(d, t)
      BY <2>1, <2>2, <3>1, <3>2 DEF StateOnce
    <3>3. CASE ~ \A d \in Callbacks : Past(d, t)' => Past(d, t)
      <4>a. t = s /\ s \in DOMAIN states /\ states' = Drop(states, {s})
        BY <1>0, <2>1, <3>3 DEF Past, NoCallback
      <4>b. \A d \in Callbacks : Past(d, t)' => d = c \/ Past(d, t)
        BY <1>0, <2>1 DEF Past, NoCallback
      <4>c. DOMAIN Drop(states, {s}) = DOMAIN states \ {s}
        BY ONLY DropFacts
      <4>1. t = s /\ s \in DOMAIN states /\ t \notin DOMAIN states' /\ \A d \in Callbacks : Past(d, t)' => d = c \/ Past(d, t)
        BY <4>a, <4>b, <4>c
      <4>2. \A d \in Callbacks : ~Past(d, t)
        BY <3>1, <4>1 DEF StateOnce
      <4> QED BY <2>1, <3>1, <4>1, <4>2 DEF StateOnce
    <3> QED BY <3>2, <3>3
  <2> QED BY <2>4, <2>5 DEF LoginInv
<1>4. ASSUME NEW c \in Callbacks, NEW ok \in BOOLEAN, Exchange(c, ok) \/ FetchUserInfo(c, ok) PROVE LoginInv'
  BY <1>4, CallbackMoves DEF Exchange, FetchUserInfo
<1>5. ASSUME NEW c \in Callbacks, NEW ok \in BOOLEAN, SaveSession(c, ok) PROVE LoginInv'
  <2> DEFINE s == cb[c].state
  <2>1. /\ cb[c].pc = "save" /\ cb' = [cb EXCEPT ![c] = NoCallback]
        /\ sessionsMade' \in {sessionsMade, sessionsMade + 1}
        /\ \/ saved' = saved /\ live' = live
           \/ /\ sessionsMade' = sessionsMade + 1 /\ live' = live \cup {sessionsMade + 1}
              /\ saved' = Put(saved, sessionsMade + 1, s)
        /\ created' = created \/ (s # NoState /\ created' = [created EXCEPT ![s] = @ + 1])
        /\ UNCHANGED <<states, logins>>
    BY <1>5 DEF SaveSession, Fails
  <2>2. DOMAIN saved' \subseteq 1 .. sessionsMade' /\ live' \subseteq 1 .. sessionsMade' /\ sessionsMade' \in Nat
    <3>1. DOMAIN Put(saved, sessionsMade + 1, s) = DOMAIN saved \cup {sessionsMade + 1}
      BY ONLY PutFacts
    <3>2. DOMAIN saved' \subseteq DOMAIN saved \cup {sessionsMade'} /\ live' \subseteq live \cup {sessionsMade'}
      BY <2>1, <3>1
    <3>3. sessionsMade' \in Nat /\ sessionsMade' >= sessionsMade
      BY <1>0, <2>1
    <3>4. CASE sessionsMade' = 0
      <4>1. UNCHANGED <<saved, live>> /\ sessionsMade' = sessionsMade
        BY <1>0, <2>1, <3>4
      <4> QED BY <1>0, <4>1
    <3>5. CASE sessionsMade' > 0
      BY <1>0, <3>2, <3>3, <3>5
    <3> QED BY <3>3, <3>4, <3>5
  <2>3. s \in States \cup {NoState}
    BY <1>0 DEF States
  <2>4. LoginTypes'
    <3>1. cb' \in [Callbacks -> R(logins)]
      <4> HIDE DEF R
      <4> QED BY <1>0, <2>1
    <3>2. created' \in [States -> Nat]
      BY <1>0, <2>1, <2>3
    <3> QED BY <1>0, <2>1, <2>2, <3>1, <3>2 DEF LoginTypes
  <2>5. ASSUME NEW t \in States PROVE StateOnce(t)'
    <3>1. StateOnce(t)
      BY DEF LoginInv
    <3>2. \A d \in Callbacks : Past(d, t)' => Past(d, t) /\ d # c
      BY <1>0, <2>1 DEF Past, NoCallback
    <3>3. CASE created'[t] = created[t]
      BY <2>1, <3>1, <3>2, <3>3 DEF StateOnce
    <3>4. CASE created'[t] # created[t]
      <4>1. t = s /\ created'[t] = created[t] + 1 /\ Past(c, t)
        BY <1>0, <2>1, <2>3, <3>4 DEF Past
      <4>2. created[t] = 0 /\ t \notin DOMAIN states /\ t \in 1 .. logins /\ \A d \in Callbacks : ~Past(d, t)'
        <5>1. t \in 1 .. logins
          BY <1>0, <4>1 DEF States
        <5> QED BY <3>1, <3>2, <4>1, <5>1 DEF StateOnce
      <4> QED BY <1>0, <2>1, <4>1, <4>2 DEF StateOnce
    <3> QED BY <3>3, <3>4
  <2> QED BY <2>4, <2>5 DEF LoginInv
<1>6. ASSUME NEW i, NEW ok \in BOOLEAN, LogoutHandler(i, ok) PROVE LoginInv'
  <2>1. DOMAIN saved' \subseteq DOMAIN saved /\ live' \subseteq live /\ UNCHANGED <<states, logins, cb, sessionsMade, created>>
    <3>1. DOMAIN Drop(saved, {i}) = DOMAIN saved \ {i}
      BY ONLY DropFacts
    <3> QED BY <1>6, <3>1 DEF LogoutHandler
  <2> QED BY <1>0, <2>1 DEF LoginInv, LoginTypes, StateOnce, Past, States
<1>7. CASE CleanupStates
  <2>1. DOMAIN states' \subseteq DOMAIN states /\ UNCHANGED <<logins, cb, saved, sessionsMade, live, created>>
    BY <1>7, DropFacts DEF CleanupStates
  <2> QED BY <1>0, <2>1 DEF LoginInv, LoginTypes, StateOnce, Past, States
<1>8. CASE Minute \/ UNCHANGED loginVars
  <2>1. UNCHANGED <<states, logins, cb, saved, sessionsMade, live, created>>
    BY <1>8 DEF Minute, loginVars
  <2> QED BY <1>0, <2>1 DEF LoginInv, LoginTypes, StateOnce, Past, States
<1> QED BY <1>1, <1>2, <1>3, <1>4, <1>5, <1>6, <1>7, <1>8
        DEF LoginNext, LoginHandler, LTILoginHandler, ShibbolethLoginHandler

(* A login gives at most one session, however often and however concurrently its
   callback comes back, in every flow: Validate takes the state out of the store
   under the store's lock before anything else happens. *)
THEOREM OneSession == LoginSpec => []OneSessionPerState
<1>1. LoginInv => OneSessionPerState
  BY DEF LoginInv, StateOnce, OneSessionPerState
<1> QED BY <1>1, LoginStarts, LoginStep, PTL DEF LoginSpec

-----------------------------------------------------------------------------
TokenPcs == {"idle", "load", "delete", "save"}
CallRecords == [pc : TokenPcs, tok : 0 .. MaxTokens, raced : BOOLEAN]

TokenTypes ==
    /\ made \in 0 .. MaxTokens
    /\ DOMAIN tokens \subseteq 1 .. made /\ known \subseteq 1 .. made
    /\ call \in [Callers -> CallRecords]
    /\ \A c \in Callers : call[c].pc # "idle" => call[c].tok \in known
    /\ uses \in [AllTokens -> Nat]
    /\ \A t \in DOMAIN tokens : tokens[t].raced \in BOOLEAN

(* Caller c has read token t and is about to give a pair for it. *)
HasLoaded(c, t) == call[c].pc \in {"delete", "save"} /\ call[c].tok = t

(* A token that nobody presented twice at once and whose Delete did not fail:
   as long as it is in the store, or was read by its one presenter, no pair was
   given for it; the presenter that has deleted it finds it gone. *)
TokenOnce(t) ==
    /\ uses[t] <= 1
    /\ t \in DOMAIN tokens \/ t > made => uses[t] = 0
    /\ \A c \in Callers : /\ HasLoaded(c, t) => uses[t] = 0
                          /\ HasLoaded(c, t) /\ call[c].pc = "save" => t \notin DOMAIN tokens
    /\ \A c, d \in Callers : c \in Presenting(t) /\ d \in Presenting(t) => c = d

(* After RevokeAllTokens every refresh under way and all that comes of it is
   marked. *)
RacedMarked ==
    ~loggedIn => /\ \A t \in DOMAIN tokens : tokens[t].raced
                 /\ \A c \in Callers : call[c].pc \in {"delete", "save"} => call[c].raced

TokenInv == TokenTypes /\ (\A t \in AllTokens \ overlapped : TokenOnce(t)) /\ RacedMarked

LEMMA TokenStarts == TokenInit => TokenInv
<1> SUFFICES ASSUME TokenInit PROVE TokenInv OBVIOUS
<1> USE TokenAssumption DEF TokenInit, AllTokens
<1>1. DOMAIN tokens = {}
  OBVIOUS
<1>2. NoCall \in CallRecords /\ NoCall.pc = "idle"
  BY DEF NoCall, CallRecords, TokenPcs
<1>3. TokenTypes
  BY <1>1, <1>2 DEF TokenTypes
<1>4. ASSUME NEW t \in AllTokens PROVE TokenOnce(t)
  BY <1>1, <1>2 DEF TokenOnce, HasLoaded, Presenting
<1>5. RacedMarked
  BY <1>1, <1>2 DEF RacedMarked
<1> QED BY <1>3, <1>4, <1>5 DEF TokenInv

(* The next token is new: it was not in the store, nobody holds it, nothing was
   given for it. *)
LEMMA TokenCreated ==
    ASSUME TokenInv, NEW raced \in BOOLEAN, NEW ok \in BOOLEAN, CreateTokenPair(raced, ok)
    PROVE  /\ made' = made + 1 /\ made' \in 1 .. MaxTokens
           /\ made' \notin DOMAIN tokens /\ made' \notin known
           /\ DOMAIN tokens' \subseteq DOMAIN tokens \cup {made'}
           /\ known \subseteq known' /\ known' \subseteq known \cup {made'}
           /\ \A t \in DOMAIN tokens : t \in DOMAIN tokens' /\ tokens'[t] = tokens[t]
           /\ made' \in DOMAIN tokens' => ok /\ tokens'[made'].raced = raced
           /\ \A t \in DOMAIN tokens' : tokens'[t].raced \in BOOLEAN
<1> USE TokenAssumption DEF TokenInv, TokenTypes
<1>1. made' = made + 1 /\ made' \in 1 .. MaxTokens /\ made' \notin DOMAIN tokens /\ made' \notin known
  BY DEF CreateTokenPair
<1> DEFINE rec == [exp |-> hours + Lifetime, raced |-> raced]
<1>2. CASE ok
  <2>1. tokens' = Put(tokens, made', rec) /\ known' = known \cup {made'}
    BY <1>2 DEF CreateTokenPair
  <2>a. tokens' = Put(tokens, made + 1, rec)
    BY <1>1, <2>1
  <2>2. rec.raced = raced
    OBVIOUS
  <2> DEFINE n == made + 1
  <2> HIDE DEF rec, n
  <2>3. /\ DOMAIN Put(tokens, n, rec) = DOMAIN tokens \cup {n}
        /\ Put(tokens, n, rec)[n] = rec
        /\ \A t \in DOMAIN tokens \ {n} : Put(tokens, n, rec)[t] = tokens[t]
    BY DEF Put
  <2>4. /\ DOMAIN tokens' = DOMAIN tokens \cup {made'} /\ tokens'[made'] = rec
        /\ \A t \in DOMAIN tokens \ {made'} : tokens'[t] = tokens[t]
    BY <1>1, <2>a, <2>3 DEF n
  <2> QED BY <1>1, <1>2, <2>1, <2>2, <2>4
<1>3. CASE ~ok
  BY <1>1, <1>3 DEF CreateTokenPair
<1> QED BY <1>2, <1>3

(* Every store call of a refresh, in every order with the calls of other
   refreshes, of Revoke and of RevokeAllTokens. *)
LEMMA TokenStep == TokenInv /\ [TokenNext]_tokenVars => TokenInv'
<1> SUFFICES ASSUME TokenInv, [TokenNext]_tokenVars PROVE TokenInv' OBVIOUS
<1> USE TokenAssumption DEF AllTokens
<1>0. /\ made \in 0 .. MaxTokens /\ DOMAIN tokens \subseteq 1 .. made /\ known \subseteq 1 .. made
      /\ call \in [Callers -> CallRecords] /\ uses \in [AllTokens -> Nat]
      /\ \A c \in Callers : call[c].pc # "idle" => call[c].tok \in known
      /\ NoCall \in CallRecords /\ NoCall.pc = "idle"
      /\ \A t \in DOMAIN tokens : tokens[t].raced \in BOOLEAN
  BY DEF TokenInv, TokenTypes, NoCall, CallRecords, TokenPcs
<1>1. ASSUME NEW ok \in BOOLEAN, Login(ok) PROVE TokenInv'
  <2>1. CreateTokenPair(FALSE, ok) /\ loggedIn' = (loggedIn \/ ok) /\ UNCHANGED <<call, uses, overlapped>>
    BY <1>1 DEF Login
  <2>2. /\ made' = made + 1 /\ made' \in 1 .. MaxTokens
        /\ made' \notin DOMAIN tokens /\ made' \notin known
        /\ DOMAIN tokens' \subseteq DOMAIN tokens \cup {made'}
        /\ known \subseteq known' /\ known' \subseteq known \cup {made'}
        /\ \A t \in DOMAIN tokens : t \in DOMAIN tokens' /\ tokens'[t] = tokens[t]
        /\ made' \in DOMAIN tokens' => ok
        /\ \A t \in DOMAIN tokens' : tokens'[t].raced \in BOOLEAN
    BY <2>1, TokenCreated
  <2>3. TokenTypes'
    <3>1. made' \in 0 .. MaxTokens /\ DOMAIN tokens' \subseteq 1 .. made' /\ known' \subseteq 1 .. made'
      BY <1>0, <2>2
    <3>2. \A c \in Callers : call'[c].pc # "idle" => call'[c].tok \in known'
      BY <1>0, <2>1, <2>2
    <3> QED BY <1>0, <2>1, <2>2, <3>1, <3>2 DEF TokenTypes
  <2>4. ASSUME NEW t \in AllTokens \ overlapped PROVE TokenOnce(t)'
    <3>1. TokenOnce(t)
      BY DEF TokenInv
    <3>2. \A c \in Callers : HasLoaded(c, t) => t # made'
      BY <1>0, <2>2 DEF HasLoaded
    <3> QED BY <1>0, <2>1, <2>2, <3>1, <3>2 DEF TokenOnce, HasLoaded, Presenting
  <2>5. RacedMarked'
    BY <2>1, <2>2 DEF TokenInv, RacedMarked
  <2> QED BY <2>1, <2>3, <2>4, <2>5 DEF TokenInv
<1>2. ASSUME NEW c \in Callers, NEW t \in AllTokens, Present(c, t) PROVE TokenInv'
  <2> DEFINE rec == [pc |-> "load", tok |-> t, raced |-> FALSE]
  <2>1. /\ t \in known /\ call[c].pc = "idle" /\ call' = [call EXCEPT ![c] = rec]
        /\ overlapped \subseteq overlapped'
        /\ t \notin overlapped' => Presenting(t) = {}
        /\ UNCHANGED <<tokens, known, made, uses, loggedIn>>
    BY <1>2 DEF Present
  <2>2. rec \in CallRecords /\ rec.pc = "load" /\ rec.tok = t
    BY DEF CallRecords, TokenPcs
  <2> HIDE DEF rec
  <2>3. TokenTypes'
    BY <1>0, <2>1, <2>2 DEF TokenTypes
  <2>4. ASSUME NEW u \in AllTokens \ overlapped' PROVE TokenOnce(u)'
    <3>1. TokenOnce(u)
      BY <2>1 DEF TokenInv
    <3>2. \A d \in Callers : HasLoaded(d, u)' => HasLoaded(d, u) /\ call'[d] = call[d]
      BY <1>0, <2>1, <2>2 DEF HasLoaded
    <3>3. CASE u = t
      <4>1. \A d \in Callers : d \in Presenting(u)' => d = c
        BY <1>0, <2>1, <2>2, <3>3 DEF Presenting
      <4> QED BY <2>1, <3>1, <3>2, <4>1 DEF TokenOnce
    <3>4. CASE u # t
      <4>1. \A d \in Callers : d \in Presenting(u)' => d \in Presenting(u)
        BY <1>0, <2>1, <2>2, <3>4 DEF Presenting
      <4> QED BY <2>1, <3>1, <3>2, <4>1 DEF TokenOnce
    <3> QED BY <3>3, <3>4
  <2>5. RacedMarked'
    BY <1>0, <2>1, <2>2 DEF TokenInv, RacedMarked
  <2> QED BY <2>3, <2>4, <2>5 DEF TokenInv
<1>3. ASSUME NEW c \in Callers, NEW ok \in BOOLEAN, RefreshLoad(c, ok) PROVE TokenInv'
  <2> DEFINE t == call[c].tok
             rec == [pc |-> "delete", tok |-> t, raced |-> tokens[t].raced]
  <2>1. /\ call[c].pc = "load" /\ tokens' \in {tokens, Drop(tokens, {t})}
        /\ \/ call' = [call EXCEPT ![c] = NoCall]
           \/ call' = [call EXCEPT ![c] = rec] /\ t \in DOMAIN tokens
        /\ UNCHANGED <<known, made, uses, overlapped, loggedIn>>
    <3> DEFINE found == ok /\ t \in DOMAIN tokens
               expired == found /\ hours > tokens[t].exp
    <3>1. /\ tokens' = IF expired THEN Drop(tokens, {t}) ELSE tokens
          /\ call' = [call EXCEPT ![c] = IF found /\ ~expired THEN rec ELSE NoCall]
      BY <1>3 DEF RefreshLoad, Forget
    <3>3. call[c].pc = "load" /\ UNCHANGED <<known, made, uses, overlapped, loggedIn>>
      BY <1>3 DEF RefreshLoad
    <3>4. CASE found /\ ~expired
      BY <3>1, <3>3, <3>4
    <3>5. CASE ~(found /\ ~expired)
      BY <3>1, <3>3, <3>5
    <3> QED BY <3>4, <3>5
  <2>2. t \in DOMAIN tokens => rec \in CallRecords
    BY <1>0 DEF CallRecords, TokenPcs
  <2>3. rec.pc = "delete" /\ rec.tok = t /\ rec.raced = tokens[t].raced
    OBVIOUS
  <2> HIDE DEF rec
  <2>4. DOMAIN tokens' \subseteq DOMAIN tokens /\ \A u \in DOMAIN tokens' : tokens'[u] = tokens[u]
    <3>1. /\ DOMAIN Drop(tokens, {t}) = DOMAIN tokens \ {t}
          /\ \A u \in DOMAIN tokens \ {t} : Drop(tokens, {t})[u] = tokens[u]
      BY ONLY DropFacts
    <3> HIDE DEF t
    <3> QED BY <2>1, <3>1
  <2>5. TokenTypes'
    <3> HIDE DEF t
    <3> QED BY <1>0, <2>1, <2>2, <2>3, <2>4 DEF TokenTypes, t
  <2>6. ASSUME NEW u \in AllTokens \ overlapped PROVE TokenOnce(u)'
    <3>1. TokenOnce(u)
      BY DEF TokenInv
    <3>2. \A d \in Callers : d \in Presenting(u)' => d \in Presenting(u)
      BY <1>0, <2>1, <2>3 DEF Presenting
    <3>3. \A d \in Callers : HasLoaded(d, u)' => \/ HasLoaded(d, u) /\ call'[d] = call[d]
                                                 \/ u \in DOMAIN tokens /\ call'[d].pc = "delete"
      BY <1>0, <2>1, <2>3 DEF HasLoaded
    <3> QED BY <2>1, <2>4, <3>1, <3>2, <3>3 DEF TokenOnce
  <2>7. RacedMarked'
    BY <1>0, <2>1, <2>3, <2>4 DEF TokenInv, RacedMarked
  <2> QED BY <2>1, <2>5, <2>6, <2>7 DEF TokenInv
<1>4. ASSUME NEW c \in Callers, NEW ok \in BOOLEAN, RefreshDelete(c, ok) PROVE TokenInv'
  <2> DEFINE t == call[c].tok
             rec == [pc |-> "save", tok |-> t, raced |-> call[c].raced]
  <2>1. /\ call[c].pc = "delete" /\ call' = [call EXCEPT ![c] = rec]
        /\ overlapped \subseteq overlapped'
        /\ \/ tokens' = tokens /\ t \in overlapped'
           \/ tokens' = Drop(tokens, {t})
        /\ UNCHANGED <<known, made, uses, loggedIn>>
    <3>1. [call[c] EXCEPT !.pc = "save"] = rec
      <4>1. call[c] \in CallRecords
        BY <1>0
      <4> QED BY <4>1 DEF CallRecords
    <3>2. call' = [call EXCEPT ![c] = rec]
      BY <1>4, <3>1 DEF RefreshDelete
    <3> QED BY <1>4, <3>2 DEF RefreshDelete, Forget
  <2>2. rec \in CallRecords
    BY <1>0 DEF CallRecords, TokenPcs
  <2>3. rec.pc = "save" /\ rec.tok = t /\ rec.raced = call[c].raced
    OBVIOUS
  <2> HIDE DEF rec
  <2>4. /\ DOMAIN tokens' \subseteq DOMAIN tokens /\ \A u \in DOMAIN tokens' : tokens'[u] = tokens[u]
        /\ t \notin overlapped' => t \notin DOMAIN tokens'
    <3>1. /\ DOMAIN Drop(tokens, {t}) = DOMAIN tokens \ {t}
          /\ \A u \in DOMAIN tokens \ {t} : Drop(tokens, {t})[u] = tokens[u]
      BY ONLY DropFacts
    <3> HIDE DEF t
    <3> QED BY <2>1, <3>1
  <2>5. TokenTypes'
    BY <1>0, <2>1, <2>2, <2>3, <2>4 DEF TokenTypes
  <2>6. ASSUME NEW u \in AllTokens \ overlapped' PROVE TokenOnce(u)'
    <3>1. TokenOnce(u)
      BY <2>1 DEF TokenInv
    <3>2. \A d \in Callers : d \in Presenting(u)' => d \in Presenting(u)
      BY <1>0, <2>1, <2>3 DEF Presenting
    <3>3. \A d \in Callers : HasLoaded(d, u)' => /\ HasLoaded(d, u)
                                                 /\ call'[d] = call[d] \/ u \notin DOMAIN tokens'
      BY <1>0, <2>1, <2>3, <2>4 DEF HasLoaded
    <3> QED BY <2>1, <2>4, <3>1, <3>2, <3>3 DEF TokenOnce
  <2>7. RacedMarked'
    BY <1>0, <2>1, <2>3, <2>4 DEF TokenInv, RacedMarked
  <2> QED BY <2>5, <2>6, <2>7 DEF TokenInv
<1>5. ASSUME NEW c \in Callers, NEW ok \in BOOLEAN, RefreshSave(c, ok) PROVE TokenInv'
  <2> DEFINE t == call[c].tok
  <2>1. /\ call[c].pc = "save" /\ CreateTokenPair(call[c].raced, ok)
        /\ uses' = uses \/ uses' = [uses EXCEPT ![t] = @ + 1]
        /\ call' = [call EXCEPT ![c] = NoCall]
        /\ UNCHANGED <<overlapped, loggedIn>>
    BY <1>5 DEF RefreshSave
  <2>2. t \in known /\ t \in AllTokens /\ t <= made /\ call[c].raced \in BOOLEAN
    BY <1>0, <2>1 DEF CallRecords
  <2>3. /\ made' = made + 1 /\ made' \in 1 .. MaxTokens
        /\ made' \notin DOMAIN tokens /\ made' \notin known
        /\ DOMAIN tokens' \subseteq DOMAIN tokens \cup {made'}
        /\ known \subseteq known' /\ known' \subseteq known \cup {made'}
        /\ \A u \in DOMAIN tokens : u \in DOMAIN tokens' /\ tokens'[u] = tokens[u]
        /\ made' \in DOMAIN tokens' => tokens'[made'].raced = call[c].raced
        /\ \A u \in DOMAIN tokens' : tokens'[u].raced \in BOOLEAN
    BY <2>1, <2>2, TokenCreated
  <2>4. TokenTypes'
    <3>1. uses' \in [AllTokens -> Nat]
      BY <1>0, <2>1, <2>2
    <3>2. made' \in 0 .. MaxTokens /\ DOMAIN tokens' \subseteq 1 .. made' /\ known' \subseteq 1 .. made'
      BY <1>0, <2>3
    <3>3. call' \in [Callers -> CallRecords] /\ \A d \in Callers : call'[d].pc # "idle" => call'[d].tok \in known'
      BY <1>0, <2>1, <2>3
    <3> QED BY <2>3, <3>1, <3>2, <3>3 DEF TokenTypes
  <2>5. ASSUME NEW u \in AllTokens \ overlapped PROVE TokenOnce(u)'
    <3>1. TokenOnce(u)
      BY DEF TokenInv
    <3>2. \A d \in Callers : d \in Presenting(u)' => d \in Presenting(u) /\ d # c
      BY <1>0, <2>1 DEF Presenting
    <3>3. \A d \in Callers : HasLoaded(d, u)' => HasLoaded(d, u) /\ call'[d] = call[d] /\ d # c /\ u # made'
      BY <1>0, <2>1, <2>3 DEF HasLoaded
    <3>4. CASE u = t
      <4>1. \A d \in Callers : ~HasLoaded(d, u)'
        <5>1. c \in Presenting(u) /\ \A d \in Callers : HasLoaded(d, u) => d \in Presenting(u)
          BY <2>1, <3>4 DEF HasLoaded, Presenting
        <5> QED BY <3>1, <3>3, <5>1 DEF TokenOnce
      <4>2. HasLoaded(c, u) /\ uses[u] = 0 /\ u \notin DOMAIN tokens /\ u # made' /\ u \notin DOMAIN tokens'
        BY <1>0, <2>1, <2>2, <2>3, <3>1, <3>4 DEF TokenOnce, HasLoaded
      <4>3. uses'[u] \in {0, 1} /\ u <= made'
        BY <1>0, <2>1, <2>2, <2>3, <3>4, <4>2
      <4> QED BY <2>3, <3>1, <3>2, <4>1, <4>2, <4>3 DEF TokenOnce
    <3>5. CASE u # t
      <4>1. uses'[u] = uses[u]
        BY <1>0, <2>1, <3>5
      <4> QED BY <1>0, <2>3, <3>1, <3>2, <3>3, <4>1 DEF TokenOnce
    <3> QED BY <3>4, <3>5
  <2>6. RacedMarked'
    BY <1>0, <2>1, <2>3 DEF TokenInv, RacedMarked
  <2> QED BY <2>1, <2>4, <2>5, <2>6 DEF TokenInv
<1>6. ASSUME NEW t \in AllTokens, Revoke(t) PROVE TokenInv'
  <2>1. /\ DOMAIN tokens' \subseteq DOMAIN tokens /\ \A u \in DOMAIN tokens' : tokens'[u] = tokens[u]
        /\ UNCHANGED <<known, made, call, uses, overlapped, loggedIn>>
    <3>1. tokens' = Drop(tokens, {t})
      BY <1>6 DEF Revoke, Forget
    <3>2. DOMAIN tokens' = DOMAIN tokens \ {t} /\ \A u \in DOMAIN tokens \ {t} : tokens'[u] = tokens[u]
      BY ONLY <3>1, DropFacts
    <3> QED BY <1>6, <3>2 DEF Revoke
  <2> QED BY <1>0, <2>1 DEF TokenInv, TokenTypes, TokenOnce, RacedMarked, HasLoaded, Presenting
<1>7. CASE RevokeAllTokens
  <2>1. /\ DOMAIN tokens' = {} /\ UNCHANGED <<known, made, uses, overlapped>>
        /\ call' \in [Callers -> CallRecords]
        /\ \A c \in Callers : call'[c].pc = call[c].pc /\ call'[c].tok = call[c].tok
        /\ \A c \in Callers : call[c].pc \in {"delete", "save"} => call'[c].raced
    <3>1. ASSUME NEW c \in Callers
          PROVE  /\ call'[c] \in CallRecords /\ call'[c].pc = call[c].pc /\ call'[c].tok = call[c].tok
                 /\ call[c].pc \in {"delete", "save"} => call'[c].raced
      <4> DEFINE b == call[c].raced \/ call[c].pc \in {"delete", "save"}
      <4>1. call'[c] = [pc |-> call[c].pc, tok |-> call[c].tok, raced |-> b]
        BY <1>0, <1>7 DEF RevokeAllTokens, CallRecords
      <4>2. call[c] \in CallRecords /\ b \in BOOLEAN /\ (call[c].pc \in {"delete", "save"} => b)
        BY <1>0
      <4> HIDE DEF b
      <4>3. [pc |-> call[c].pc, tok |-> call[c].tok, raced |-> b] \in CallRecords
        BY <4>2 DEF CallRecords
      <4>4. call'[c].pc = call[c].pc /\ call'[c].tok = call[c].tok /\ call'[c].raced = b
        BY <4>1
      <4> QED BY <4>1, <4>2, <4>3, <4>4
    <3>2. DOMAIN tokens' = {}
      BY <1>7 DEF RevokeAllTokens
    <3>3. UNCHANGED <<known, made, uses, overlapped>> /\ call' = [c \in Callers |-> call'[c]]
      BY <1>7 DEF RevokeAllTokens
    <3> QED BY <3>1, <3>2, <3>3
  <2>2. TokenTypes'
    BY <1>0, <2>1 DEF TokenTypes
  <2>3. ASSUME NEW u \in AllTokens \ overlapped PROVE TokenOnce(u)'
    <3>1. TokenOnce(u)
      BY DEF TokenInv
    <3> QED BY <2>1, <3>1 DEF TokenOnce, HasLoaded, Presenting
  <2>4. RacedMarked'
    BY <2>1 DEF RacedMarked
  <2> QED BY <2>1, <2>2, <2>3, <2>4 DEF TokenInv
<1>8. CASE Hour \/ UNCHANGED tokenVars
  <2>1. UNCHANGED <<tokens, known, made, call, uses, overlapped, loggedIn>>
    BY <1>8 DEF Hour, tokenVars
  <2> QED BY <2>1 DEF TokenInv, TokenTypes, TokenOnce, RacedMarked, HasLoaded, Presenting
<1> QED BY <1>1, <1>2, <1>3, <1>4, <1>5, <1>6, <1>7, <1>8 DEF TokenNext

(* A refresh token gives one pair and no more unless it was presented twice at
   once or its Delete failed, and after RevokeAllTokens the store holds only what
   refreshes under way at that moment have saved: for any number of callers,
   tokens and failing store calls. *)
THEOREM RotationSound == TokenSpec => []TokensSound
<1>1. TokenInv => TokensSound
  BY DEF TokenInv, TokenOnce, RacedMarked, TokensSound, SingleUse, RevokeAllIsFinal
<1> QED BY <1>1, TokenStarts, TokenStep, PTL DEF TokenSpec

-----------------------------------------------------------------------------
(* Arithmetic the provers do not find by themselves. *)
LEMMA Products ==
    ASSUME NEW a \in Int, NEW b \in Int, NEW c \in Int
    PROVE  /\ a * c \in Int /\ b * c \in Int
           /\ (a + b) * c = a * c + b * c
           /\ (a - b) * c = a * c - b * c
           /\ 0 <= c /\ a <= b => a * c <= b * c
           /\ 0 * c = 0
BY SMT

Times == 0 .. MaxTicks
Cap == Burst * Unit

(* What k was admitted since s and what its bucket still holds, against what the
   burst and the rate give from s to the bucket's last refill.  A key that has
   no bucket was admitted no more than the rate gives: it can have a full
   bucket now. *)
WithinRate(k) ==
    IF k \in DOMAIN buckets
    THEN \A s \in Times :
            IF s <= buckets[k].lastTime
            THEN admitted[k][s] * Unit + buckets[k].tokens <= Cap + (buckets[k].lastTime - s) * Rate
            ELSE admitted[k][s] = 0
    ELSE \A s \in Times :
            IF s <= tick THEN admitted[k][s] * Unit <= (tick - s) * Rate ELSE admitted[k][s] = 0

RateTypes ==
    /\ tick \in Times
    /\ DOMAIN buckets \subseteq Clients
    /\ \A k \in DOMAIN buckets : /\ buckets[k].tokens \in 0 .. Cap
                                 /\ buckets[k].lastTime \in 0 .. tick
                                 /\ buckets[k].lastSeen = buckets[k].lastTime
    /\ admitted \in [Clients -> [Times -> Nat]]

(* The ttl is long enough for a bucket to fill up. *)
TTLRefills == IdleTTL * Rate >= Cap

RateInv == RateTypes /\ (TTLRefills => \A k \in Clients : WithinRate(k))

LEMMA RateConstants == /\ Rate \in Nat /\ IdleTTL \in Nat /\ MaxTicks \in Nat /\ Unit \in Nat /\ Burst \in Nat
                       /\ Cap \in Nat
BY RateAssumption DEF Cap

LEMMA RateStarts == RateInit => RateInv
<1> SUFFICES ASSUME RateInit PROVE RateInv OBVIOUS
<1> USE RateConstants DEF RateInit, Times
<1>1. DOMAIN buckets = {}
  OBVIOUS
<1>2. RateTypes
  BY <1>1 DEF RateTypes
<1>3. ASSUME NEW k \in Clients PROVE WithinRate(k)
  <2>1. ASSUME NEW s \in Times, s <= tick PROVE admitted[k][s] * Unit <= (tick - s) * Rate
    <3>1. admitted[k][s] = 0 /\ tick - s = 0
      BY <2>1
    <3> QED BY <3>1, Products
  <2> QED BY <1>1, <2>1 DEF WithinRate
<1> QED BY <1>2, <1>3 DEF RateInv

(* A bucket after its refill, and what was admitted, stay within the rate up to
   now.  T: tokens before, L: last refill, R: tokens after. *)
LEMMA RefillWithin ==
    ASSUME NEW A \in Nat, NEW T \in Nat, NEW L \in Nat, NEW s \in Nat, NEW N \in Nat, NEW R \in Int,
           s <= L, L <= N, R <= T + (N - L) * Rate,
           A * Unit + T <= Cap + (L - s) * Rate
    PROVE  A * Unit + R <= Cap + (N - s) * Rate
<1> USE RateConstants
<1>1. (N - s) * Rate = (N - L) * Rate + (L - s) * Rate
  <2>1. N - s = (N - L) + (L - s) /\ N - L \in Int /\ L - s \in Int
    OBVIOUS
  <2> QED BY <2>1, Products
<1>2. (N - L) * Rate \in Int /\ (L - s) * Rate \in Int /\ A * Unit \in Int
  BY Products
<1> DEFINE x == (N - L) * Rate  y == (L - s) * Rate  z == (N - s) * Rate  a == A * Unit
<1>3. x \in Int /\ y \in Int /\ a \in Int /\ z = x + y /\ R <= T + x /\ a + T <= Cap + y
  BY <1>1, <1>2
<1> HIDE DEF x, y, z, a
<1>4. a + R <= Cap + z
  BY <1>3
<1> QED BY <1>4 DEF a, z

LEMMA RefillTypes ==
    ASSUME RateTypes, NEW k \in Clients
    PROVE  /\ Bucket(k).tokens \in 0 .. Cap /\ Bucket(k).lastTime \in 0 .. tick
           /\ Refill(Bucket(k)) \in 0 .. Cap
           /\ Refill(Bucket(k)) <= Bucket(k).tokens + (tick - Bucket(k).lastTime) * Rate
<1> USE RateConstants
<1>1. tick \in Nat
  BY DEF RateTypes, Times
<1>2. Bucket(k).tokens \in 0 .. Cap /\ Bucket(k).lastTime \in 0 .. tick
  BY <1>1 DEF RateTypes, Bucket, NewBucket, Cap
<1> DEFINE x == (tick - Bucket(k).lastTime) * Rate
<1>3. x \in Nat
  <2>1. tick - Bucket(k).lastTime \in Nat
    BY <1>1, <1>2
  <2> QED BY <2>1, Products
<1>4. Refill(Bucket(k)) = Full(Bucket(k).tokens + x)
  BY DEF Refill
<1> HIDE DEF x
<1>5. Full(Bucket(k).tokens + x) \in 0 .. Cap /\ Full(Bucket(k).tokens + x) <= Bucket(k).tokens + x
  BY <1>2, <1>3 DEF Full, Cap
<1> QED BY <1>2, <1>4, <1>5 DEF x

(* Before anything is taken out of it, a refilled bucket is within the rate. *)
LEMMA RefilledBucket ==
    ASSUME RateTypes, NEW k \in Clients, WithinRate(k), NEW s \in Times
    PROVE  IF s <= tick THEN admitted[k][s] * Unit + Refill(Bucket(k)) <= Cap + (tick - s) * Rate
                        ELSE admitted[k][s] = 0
<1> USE RateConstants
<1> DEFINE A == admitted[k][s]  T == Bucket(k).tokens  L == Bucket(k).lastTime  R == Refill(Bucket(k))
<1>1. A \in Nat /\ tick \in Nat /\ s \in Nat
  BY DEF RateTypes, Times
<1>2. T \in 0 .. Cap /\ L \in 0 .. tick /\ R \in 0 .. Cap /\ R <= T + (tick - L) * Rate
  BY RefillTypes
<1>3. s <= tick => (tick - s) * Rate \in Nat
  <2>1. s <= tick => tick - s \in Nat
    BY <1>1
  <2> QED BY <2>1, Products
<1>4. A = 0 => A * Unit = 0
  BY Products
<1>5. CASE k \in DOMAIN buckets
  <2>1. T = buckets[k].tokens /\ L = buckets[k].lastTime
    BY <1>5 DEF Bucket
  <2>2. CASE s <= L
    <3>1. A * Unit + T <= Cap + (L - s) * Rate
      BY <1>5, <2>1, <2>2 DEF WithinRate
    <3>2. T \in Nat /\ L \in Nat /\ R \in Int /\ L <= tick
      BY <1>1, <1>2
    <3> HIDE DEF A, T, L, R
    <3>3. A * Unit + R <= Cap + (tick - s) * Rate
      BY <1>1, <1>2, <2>2, <3>1, <3>2, RefillWithin
    <3>4. s <= tick
      BY <1>1, <2>2, <3>2
    <3> QED BY <3>3, <3>4 DEF A, R
  <2>3. CASE ~(s <= L)
    <3>1. A = 0
      BY <1>5, <2>1, <2>3 DEF WithinRate
    <3>2. A * Unit = 0
      BY <1>4, <3>1
    <3> DEFINE z == (tick - s) * Rate
    <3>3. s <= tick => z \in Nat
      BY <1>3
    <3> HIDE DEF z, R
    <3>4. s <= tick => 0 + R <= Cap + z
      BY <1>2, <3>3
    <3> QED BY <3>1, <3>2, <3>4 DEF z, R
  <2> QED BY <2>2, <2>3
<1>6. CASE k \notin DOMAIN buckets
  <2>1. IF s <= tick THEN A * Unit <= (tick - s) * Rate ELSE A = 0
    BY <1>6 DEF WithinRate
  <2>2. A * Unit \in Int
    <3>1. A \in Int /\ Unit \in Int
      BY <1>1
    <3> QED BY ONLY <3>1, Products
  <2> DEFINE z == (tick - s) * Rate  a == A * Unit
  <2>3. IF s <= tick THEN a <= z /\ z \in Nat ELSE A = 0
    BY <1>3, <2>1
  <2>4. a \in Int
    BY <2>2
  <2> HIDE DEF z, a, R
  <2>5. s <= tick => a + R <= Cap + z
    BY <1>2, <2>3, <2>4
  <2> QED BY <2>3, <2>5 DEF z, a, R
<1> QED BY <1>5, <1>6

(* Allow, an idle key forgotten by cleanup, and time. *)
LEMMA RateStep == RateInv /\ [RateNext]_limitVars => RateInv'
<1> SUFFICES ASSUME RateInv, [RateNext]_limitVars PROVE RateInv' OBVIOUS
<1> USE RateConstants
<1>0. RateTypes /\ tick \in Nat
  BY DEF RateInv, RateTypes, Times
<1>1. ASSUME NEW k \in Clients, NEW n \in 1 .. 2, Allow(k, n) PROVE RateInv'
  <2> DEFINE R == Refill(Bucket(k))
             d == IF R >= n * Unit THEN n ELSE 0
             rec == [tokens |-> R - d * Unit, lastTime |-> tick, lastSeen |-> tick]
  <2>1. R \in 0 .. Cap /\ d \in Nat /\ d * Unit \in Nat /\ d * Unit <= R
    <3>1. R \in 0 .. Cap
      BY <1>0, RefillTypes
    <3>2. n * Unit \in Nat /\ 0 * Unit = 0
      BY Products
    <3> HIDE DEF R
    <3> QED BY <3>1, <3>2
  <2>2. buckets' = Put(buckets, k, rec) /\ UNCHANGED tick
    <3>1. CASE R >= n * Unit
      BY <1>1, <3>1 DEF Allow
    <3>2. CASE ~(R >= n * Unit)
      <4>1. d = 0 /\ R - d * Unit = R
        BY <2>1, <3>2, Products
      <4> QED BY <1>1, <3>2, <4>1 DEF Allow
    <3> QED BY <3>1, <3>2
  <2>3. /\ DOMAIN buckets' = DOMAIN buckets \cup {k} /\ buckets'[k] = rec
        /\ \A j \in DOMAIN buckets \ {k} : buckets'[j] = buckets[j]
    <3> HIDE DEF rec
    <3> QED BY <2>2 DEF Put
  <2>4. rec.tokens = R - d * Unit /\ rec.lastTime = tick /\ rec.lastSeen = tick
    OBVIOUS
  <2>5. /\ admitted' \in [Clients -> [Times -> Nat]]
        /\ \A s \in Times : admitted'[k][s] = IF s <= tick THEN admitted[k][s] + d ELSE admitted[k][s]
        /\ \A j \in Clients \ {k} : admitted'[j] = admitted[j]
    <3>1. admitted \in [Clients -> [Times -> Nat]] /\ \A s \in Times : s \in Nat
      BY <1>0 DEF RateTypes, Times
    <3>2. CASE R >= n * Unit
      <4>1. admitted' = [admitted EXCEPT ![k] = [s \in Times |-> IF s <= tick THEN admitted[k][s] + n ELSE admitted[k][s]]]
        BY <1>1, <3>2 DEF Allow, Admit, Times
      <4>2. d = n
        BY <3>2
      <4> HIDE DEF d, R
      <4> QED BY <2>1, <3>1, <4>1, <4>2
    <3>3. CASE ~(R >= n * Unit)
      <4>1. admitted' = admitted
        BY <1>1, <3>3 DEF Allow
      <4>2. d = 0
        BY <3>3
      <4> HIDE DEF d, R
      <4> QED BY <3>1, <4>1, <4>2
    <3> QED BY <3>2, <3>3
  <2> HIDE DEF R, d, rec
  <2>6. RateTypes'
    <3>1. rec.tokens \in 0 .. Cap
      BY <2>1, <2>4
    <3> QED BY <1>0, <2>2, <2>3, <2>4, <2>5, <3>1 DEF RateTypes
  <2>7. ASSUME TTLRefills, NEW j \in Clients PROVE WithinRate(j)'
    <3>0. WithinRate(j)
      BY <2>7 DEF RateInv
    <3>1. CASE j = k
      <4> SUFFICES ASSUME NEW s \in Times
                   PROVE  IF s <= tick THEN admitted'[k][s] * Unit + rec.tokens <= Cap + (tick - s) * Rate
                                       ELSE admitted'[k][s] = 0
        BY <2>2, <2>3, <2>4, <3>1 DEF WithinRate
      <4>1. IF s <= tick THEN admitted[k][s] * Unit + R <= Cap + (tick - s) * Rate ELSE admitted[k][s] = 0
        BY <1>0, <3>0, <3>1, RefilledBucket DEF R
      <4>2. CASE s <= tick
        <5>1. admitted[k][s] \in Nat /\ admitted'[k][s] = admitted[k][s] + d
          BY <1>0, <2>5, <4>2 DEF RateTypes
        <5>2. admitted'[k][s] * Unit = admitted[k][s] * Unit + d * Unit /\ admitted[k][s] * Unit \in Int
          BY <2>1, <5>1, Products
        <5> DEFINE a == admitted[k][s] * Unit  b == d * Unit  z == (tick - s) * Rate
        <5>3. a \in Int /\ b \in Nat /\ R \in Int /\ a + R <= Cap + z /\ rec.tokens = R - b /\ admitted'[k][s] * Unit = a + b
          BY <2>1, <2>4, <4>1, <4>2, <5>2
        <5> HIDE DEF a, b, z
        <5>4. (a + b) + (R - b) <= Cap + z
          BY <5>3
        <5> QED BY <4>2, <5>3, <5>4 DEF z
      <4>3. CASE ~(s <= tick)
        BY <2>5, <4>1, <4>3
      <4> QED BY <4>2, <4>3
    <3>2. CASE j # k
      BY <2>2, <2>3, <2>5, <3>0, <3>2 DEF WithinRate
    <3> QED BY <3>1, <3>2
  <2> QED BY <2>6, <2>7 DEF RateInv, TTLRefills
<1>2. ASSUME cleanup PROVE RateInv'
  <2> DEFINE Stale == {k \in DOMAIN buckets : tick - buckets[k].lastSeen > IdleTTL}
  <2>1. buckets' = Drop(buckets, Stale) /\ UNCHANGED <<tick, admitted>>
    BY <1>2 DEF cleanup
  <2>2. /\ DOMAIN buckets' = DOMAIN buckets \ Stale
        /\ \A j \in DOMAIN buckets \ Stale : buckets'[j] = buckets[j]
    <3> HIDE DEF Stale
    <3> QED BY <2>1 DEF Drop
  <2>3. RateTypes'
    <3> HIDE DEF Stale
    <3> QED BY <1>0, <2>1, <2>2 DEF RateTypes
  <2>4. ASSUME TTLRefills, NEW j \in Clients PROVE WithinRate(j)'
    <3>0. WithinRate(j)
      BY <2>4 DEF RateInv
    <3>1. CASE j \notin Stale
      <4> HIDE DEF Stale
      <4> QED BY <2>1, <2>2, <3>0, <3>1 DEF WithinRate
    <3>2. CASE j \in Stale
      <4> DEFINE L == buckets[j].lastTime  T == buckets[j].tokens
      <4>1. L \in Nat /\ T \in Nat /\ j \in DOMAIN buckets /\ tick - L > IdleTTL /\ L <= tick
        BY <1>0, <3>2 DEF RateTypes
      <4> SUFFICES ASSUME NEW s \in Times
                   PROVE  IF s <= tick THEN admitted[j][s] * Unit <= (tick - s) * Rate ELSE admitted[j][s] = 0
        <5> HIDE DEF Stale
        <5> QED BY <2>1, <2>2, <3>2 DEF WithinRate
      <4>2. s \in Nat /\ admitted[j][s] \in Nat
        BY <1>0 DEF RateTypes, Times
      <4>3. IF s <= L THEN admitted[j][s] * Unit + T <= Cap + (L - s) * Rate ELSE admitted[j][s] = 0
        BY <3>0, <4>1 DEF WithinRate
      <4>4. CASE s <= L
        <5> DEFINE a == admitted[j][s] * Unit  x == (L - s) * Rate  y == (tick - L) * Rate  w == IdleTTL * Rate
        <5>1. (tick - s) * Rate = y + x /\ x \in Int /\ y \in Int
          <6>1. tick - s = (tick - L) + (L - s) /\ tick - L \in Int /\ L - s \in Int
            BY <1>0, <4>1, <4>2
          <6> HIDE DEF L
          <6> QED BY <6>1, Products
        <5>2. w <= y /\ w \in Int
          <6>1. IdleTTL <= tick - L /\ tick - L \in Int /\ 0 <= Rate
            BY <1>0, <4>1
          <6> HIDE DEF L
          <6> QED BY <6>1, Products
        <5>3. w >= Cap
          BY <2>4 DEF TTLRefills
        <5>4. a \in Int
          BY <4>2, Products
        <5>5. a + T <= Cap + x
          BY <4>3, <4>4
        <5>6. s <= tick
          <6> HIDE DEF L
          <6> QED BY <1>0, <4>1, <4>2, <4>4
        <5> HIDE DEF a, x, y, w, T
        <5>7. a <= y + x
          BY <4>1, <5>1, <5>2, <5>3, <5>4, <5>5
        <5> QED BY <5>1, <5>6, <5>7 DEF a
      <4>5. CASE ~(s <= L)
        <5>1. admitted[j][s] = 0 /\ 0 * Unit = 0
          BY <4>3, <4>5, Products
        <5>2. s <= tick => (tick - s) * Rate \in Nat
          <6>1. s <= tick => tick - s \in Nat
            BY <1>0, <4>2
          <6> QED BY <6>1, Products
        <5> QED BY <5>1, <5>2
      <4> QED BY <4>4, <4>5
    <3> QED BY <3>1, <3>2
  <2> QED BY <2>3, <2>4 DEF RateInv, TTLRefills
<1>3. ASSUME RateTick PROVE RateInv'
  <2>1. tick < MaxTicks /\ tick' = tick + 1 /\ UNCHANGED <<buckets, admitted>>
    BY <1>3 DEF RateTick
  <2>2. RateTypes'
    <3>1. tick' \in Times
      BY <1>0, <2>1 DEF Times
    <3>2. \A k \in DOMAIN buckets : buckets[k].lastTime \in 0 .. tick => buckets[k].lastTime \in 0 .. tick'
      BY <1>0, <2>1
    <3> QED BY <1>0, <2>1, <3>1, <3>2 DEF RateTypes
  <2>3. ASSUME TTLRefills, NEW j \in Clients PROVE WithinRate(j)'
    <3>0. WithinRate(j)
      BY <2>3 DEF RateInv
    <3>1. CASE j \in DOMAIN buckets
      BY <2>1, <3>0, <3>1 DEF WithinRate
    <3>2. CASE j \notin DOMAIN buckets
      <4> SUFFICES ASSUME NEW s \in Times
                   PROVE  IF s <= tick' THEN admitted[j][s] * Unit <= (tick' - s) * Rate ELSE admitted[j][s] = 0
        BY <2>1, <3>2 DEF WithinRate
      <4>1. s \in Nat /\ admitted[j][s] \in Nat
        BY <1>0 DEF RateTypes, Times
      <4>2. IF s <= tick THEN admitted[j][s] * Unit <= (tick - s) * Rate ELSE admitted[j][s] = 0
        BY <3>0, <3>2 DEF WithinRate
      <4>3. CASE s <= tick
        <5> DEFINE a == admitted[j][s] * Unit  x == (tick - s) * Rate  y == (tick' - s) * Rate
        <5>1. x <= y /\ x \in Int /\ y \in Int
          <6>1. tick - s \in Int /\ tick' - s \in Int /\ tick - s <= tick' - s /\ 0 <= Rate
            BY <1>0, <2>1, <4>1
          <6> QED BY <6>1, Products
        <5>2. a \in Int /\ a <= x
          BY <4>1, <4>2, <4>3, Products
        <5>3. s <= tick'
          BY <1>0, <2>1, <4>1, <4>3
        <5> HIDE DEF a, x, y
        <5>4. a <= y
          BY <5>1, <5>2
        <5> QED BY <5>3, <5>4 DEF a, y
      <4>4. CASE ~(s <= tick)
        <5>1. admitted[j][s] = 0 /\ 0 * Unit = 0
          BY <4>2, <4>4, Products
        <5>2. s <= tick' => (tick' - s) * Rate \in Nat
          <6>1. s <= tick' => tick' - s \in Nat
            BY <1>0, <2>1, <4>1
          <6> QED BY <1>0, <2>1, <6>1, Products
        <5> QED BY <5>1, <5>2
      <4> QED BY <4>3, <4>4
    <3> QED BY <3>1, <3>2
  <2> QED BY <2>2, <2>3 DEF RateInv, TTLRefills
<1>4. CASE UNCHANGED limitVars
  BY <1>4 DEF limitVars, RateInv, RateTypes, WithinRate
<1> QED BY <1>1, <1>2, <1>3, <1>4 DEF RateNext

(* Whatever the rate, the burst and the keys, no client is admitted more than
   the burst and the rate allow in any interval, although idle keys are forgotten
   and come back with a full bucket, as long as the ttl lets a bucket refill. *)
THEOREM RateBounded == RateSpec => []BurstRespected
<1>1. RateInv => BurstRespected
  <2> SUFFICES ASSUME RateInv, TTLRefills, NEW k \in Clients, NEW s \in 0 .. tick
               PROVE  admitted[k][s] * Unit <= Cap + (tick - s) * Rate
    BY DEF BurstRespected, TTLRefills, Cap
  <2> USE RateConstants
  <2>1. RateTypes /\ WithinRate(k) /\ tick \in Nat /\ s \in Times /\ s <= tick /\ s \in Nat
    BY DEF RateInv, RateTypes, Times
  <2>2. admitted[k][s] * Unit + Refill(Bucket(k)) <= Cap + (tick - s) * Rate
    BY <2>1, RefilledBucket
  <2>3. Refill(Bucket(k)) \in 0 .. Cap
    BY <2>1, RefillTypes
  <2>4. admitted[k][s] * Unit \in Int /\ (tick - s) * Rate \in Int
    <3>1. admitted[k][s] \in Int /\ tick - s \in Int
      BY <2>1 DEF RateTypes
    <3> QED BY <3>1, Products
  <2> DEFINE a == admitted[k][s] * Unit  z == (tick - s) * Rate  R == Refill(Bucket(k))
  <2>5. a \in Int /\ z \in Int /\ R \in 0 .. Cap /\ a + R <= Cap + z
    BY <2>2, <2>3, <2>4
  <2> HIDE DEF a, z, R
  <2>6. a <= Cap + z
    BY <2>5
  <2> QED BY <2>6 DEF a, z
<1> QED BY <1>1, RateStarts, RateStep, PTL DEF RateSpec

-----------------------------------------------------------------------------
(* t, a time that goes with version v, is at most ttl and one computation after
   v was replaced; before that, at most ttl from now. *)
WithinTTL(v, t) == IF v \in DOMAIN replaced THEN t <= replaced[v] + CacheTTL + Slow ELSE t <= clock + CacheTTL

(* A computation that has read version v began before v was replaced, and has not
   taken longer than Slow. *)
ReaderSound(r) ==
    /\ reader[r].since \in Nat
    /\ reader[r].pc # "idle" => reader[r].since <= clock /\ clock <= reader[r].since + Slow
    /\ reader[r].pc = "store" /\ reader[r].ver \in DOMAIN replaced => reader[r].since <= replaced[reader[r].ver]

ReplacedSound == /\ clock \in Nat /\ version \in Nat
                 /\ \A v \in DOMAIN replaced : v \in Nat /\ v < version /\ replaced[v] \in Nat /\ replaced[v] <= clock

ItemsSound == \A k \in DOMAIN items : items[k].exp \in Nat /\ WithinTTL(items[k].ver, items[k].exp)

CacheInv == /\ ReplacedSound /\ ItemsSound
            /\ DOMAIN reader = Readers /\ \A r \in Readers : ReaderSound(r)
            /\ served.at \in Nat /\ WithinTTL(served.ver, served.at)

LEMMA CacheConstants == CacheTTL \in Nat /\ Slow \in Nat
BY CacheAssumption

LEMMA CacheStarts == CacheInit => CacheInv
<1> SUFFICES ASSUME CacheInit PROVE CacheInv OBVIOUS
<1> USE CacheConstants
<1>1. items = << >> /\ replaced = << >> /\ clock = 0 /\ version = 0
  BY DEF CacheInit
<1>2. served.at = 0
  BY DEF CacheInit, NotServed
<1>3. DOMAIN reader = Readers /\ \A r \in Readers : reader[r].pc = "idle" /\ reader[r].since = 0
  BY DEF CacheInit, IdleReader
<1>4. DOMAIN items = {} /\ DOMAIN replaced = {}
  BY <1>1
<1> QED BY <1>1, <1>2, <1>3, <1>4 DEF CacheInv, ItemsSound, ReplacedSound, ReaderSound, WithinTTL

(* Time passes, or the source changes: nothing gets too old by that. *)
LEMMA Ages ==
    ASSUME ReplacedSound, NEW v, NEW t \in Nat, WithinTTL(v, t),
           \/ replaced' = replaced /\ clock' \in Nat /\ clock <= clock'
           \/ replaced' = Put(replaced, version, clock) /\ clock' = clock
    PROVE  WithinTTL(v, t)'
<1> USE CacheConstants
<1>1. CASE replaced' = replaced /\ clock' \in Nat /\ clock <= clock'
  <2>1. CASE v \in DOMAIN replaced
    BY <1>1, <2>1 DEF WithinTTL
  <2>2. CASE v \notin DOMAIN replaced
    <3>1. clock \in Nat /\ t <= clock + CacheTTL
      BY <2>2 DEF WithinTTL, ReplacedSound
    <3>2. clock' \in Nat /\ clock <= clock'
      BY <1>1
    <3>3. \A a, b, c, d \in Nat : a <= b + c /\ b <= d => a <= d + c
      OBVIOUS
    <3>4. t <= clock' + CacheTTL
      BY <3>1, <3>2, <3>3
    <3> QED BY <1>1, <2>2, <3>4 DEF WithinTTL
  <2> QED BY <2>1, <2>2
<1>2. CASE replaced' = Put(replaced, version, clock) /\ clock' = clock
  <2>1. /\ DOMAIN replaced' = DOMAIN replaced \cup {version} /\ replaced'[version] = clock
        /\ \A x \in DOMAIN replaced : x # version => replaced'[x] = replaced[x]
    BY <1>2 DEF Put
  <2>2. version \notin DOMAIN replaced /\ clock \in Nat
    BY DEF ReplacedSound
  <2>3. CASE v = version
    BY <1>2, <2>1, <2>2, <2>3 DEF WithinTTL
  <2>4. CASE v # version
    BY <1>2, <2>1, <2>2, <2>4 DEF WithinTTL
  <2> QED BY <2>3, <2>4
<1> QED BY <1>1, <1>2

(* A value stored now expires soon enough when it is the current version, or one
   that was replaced no longer than a computation ago. *)
LEMMA StoredSound ==
    ASSUME CacheInv, NEW ks, NEW v, NEW ttl \in {0, CacheTTL}, items' = SetItems(ks, v, ttl),
           v \in DOMAIN replaced => clock <= replaced[v] + Slow,
           UNCHANGED <<replaced, clock>>
    PROVE  ItemsSound'
<1> USE CacheConstants
<1> DEFINE rec == [ver |-> v, exp |-> clock + ttl, noExpiry |-> ttl = 0]
<1>1. rec.ver = v /\ rec.exp = clock + ttl
  OBVIOUS
<1>2. items' = Merge([k \in ks |-> rec], items)
  BY DEF SetItems
<1> HIDE DEF rec
<1>3. DOMAIN items' = DOMAIN items \cup ks /\ \A k \in DOMAIN items' : items'[k] = IF k \in ks THEN rec ELSE items[k]
  BY <1>2 DEF Merge
<1>4. rec.exp \in Nat /\ WithinTTL(rec.ver, rec.exp)
  BY <1>1 DEF CacheInv, ReplacedSound, WithinTTL
<1>5. ASSUME NEW k \in DOMAIN items' PROVE items'[k].exp \in Nat /\ WithinTTL(items[k].ver, items[k].exp)'
  <2>1. CASE k \in ks
    BY <1>3, <1>4, <2>1 DEF WithinTTL
  <2>2. CASE k \notin ks
    BY <1>3, <2>2 DEF WithinTTL, CacheInv, ItemsSound
  <2> QED BY <2>1, <2>2
<1> QED BY <1>5 DEF ItemsSound

(* One step per operation; what an operation leaves alone stays sound. *)
LEMMA CacheStep == CacheInv /\ [CacheNext]_cacheVars => CacheInv'
<1> SUFFICES ASSUME CacheInv, [CacheNext]_cacheVars PROVE CacheInv' OBVIOUS
<1> USE CacheConstants
<1>0. ReplacedSound /\ clock \in Nat /\ version \in Nat /\ version \notin DOMAIN replaced
  BY DEF CacheInv, ReplacedSound
<1> DEFINE ServedSound == served.at \in Nat /\ WithinTTL(served.ver, served.at)
           ReadersSound == DOMAIN reader = Readers /\ \A r \in Readers : ReaderSound(r)
           Still == UNCHANGED <<replaced, clock, version>>
<1>a. ItemsSound /\ ServedSound /\ ReadersSound
  BY DEF CacheInv
<1>b. Still => ReplacedSound'
  BY <1>0 DEF ReplacedSound
<1>c. Still /\ UNCHANGED served => ServedSound'
  BY <1>a DEF WithinTTL
<1>d. Still /\ UNCHANGED reader => ReadersSound'
  BY <1>a DEF ReaderSound
<1>e. Still /\ UNCHANGED items => ItemsSound'
  BY <1>a DEF WithinTTL, ItemsSound
<1>f. ASSUME NEW ks, Still, items' = Removed(ks) PROVE ItemsSound'
  <2>1. DOMAIN items' \subseteq DOMAIN items /\ \A k \in DOMAIN items' : items'[k] = items[k]
    BY <1>f DEF Removed, Drop
  <2> QED BY <1>a, <1>f, <2>1 DEF WithinTTL, ItemsSound
<1>g. ASSUME ReplacedSound', ItemsSound', ServedSound', ReadersSound' PROVE CacheInv'
  BY <1>g DEF CacheInv
<1>1. ASSUME NEW r \in Readers, NEW k \in CKeys, Get(r, k) PROVE CacheInv'
  <2>1. Still /\ UNCHANGED items
    BY <1>1 DEF Get
  <2>2. ServedSound'
    <3>1. CASE UNCHANGED served
      BY <1>c, <2>1, <3>1
    <3>2. CASE Live(k) /\ ~items[k].noExpiry /\ served' = [ver |-> items[k].ver, at |-> clock]
      <4>1. k \in DOMAIN items /\ clock <= items[k].exp
        BY <3>2 DEF Live
      <4>2. served'.ver = items[k].ver /\ served'.at = clock
        BY <3>2
      <4>3. items[k].exp \in Nat /\ WithinTTL(items[k].ver, items[k].exp)
        BY <1>a, <4>1 DEF ItemsSound
      <4>4. WithinTTL(items[k].ver, clock)
        BY <1>0, <4>1, <4>3 DEF WithinTTL, ReplacedSound
      <4> QED BY <1>0, <2>1, <4>2, <4>4 DEF WithinTTL
    <3> QED BY <1>1, <3>1, <3>2 DEF Get
  <2>3. ReadersSound'
    <3>1. CASE UNCHANGED reader
      BY <1>d, <2>1, <3>1
    <3>2. CASE reader' = [reader EXCEPT ![r] = [pc |-> "compute", key |-> k, ver |-> 0, since |-> clock]]
      <4>1. DOMAIN reader' = Readers /\ reader'[r].pc = "compute" /\ reader'[r].since = clock
            /\ \A x \in Readers \ {r} : reader'[x] = reader[x]
        BY <1>a, <3>2
      <4>2. ReaderSound(r)'
        BY <1>0, <2>1, <4>1 DEF ReaderSound
      <4>3. ASSUME NEW x \in Readers \ {r} PROVE ReaderSound(x)'
        BY <1>a, <2>1, <4>1 DEF ReaderSound
      <4> QED BY <4>1, <4>2, <4>3
    <3> QED BY <1>1, <3>1, <3>2 DEF Get
  <2> QED BY <1>b, <1>e, <1>g, <2>1, <2>2, <2>3
<1>2. ASSUME NEW r \in Readers, Compute(r) PROVE CacheInv'
  <2>1. Still /\ UNCHANGED <<items, served>> /\ reader[r].pc = "compute"
    BY <1>2 DEF Compute
  <2>2. DOMAIN reader' = Readers /\ reader'[r].pc = "store" /\ reader'[r].since = reader[r].since
        /\ reader'[r].ver = version /\ \A x \in Readers \ {r} : reader'[x] = reader[x]
    BY <1>a, <1>2 DEF Compute
  <2>3. ReaderSound(r)'
    BY <1>0, <1>a, <2>1, <2>2 DEF ReaderSound
  <2>4. ASSUME NEW x \in Readers \ {r} PROVE ReaderSound(x)'
    BY <1>a, <2>1, <2>2 DEF ReaderSound
  <2>5. ReadersSound'
    BY <2>2, <2>3, <2>4
  <2> QED BY <1>b, <1>c, <1>e, <1>g, <2>1, <2>5
<1>3. ASSUME NEW r \in Readers, NEW c \in BOOLEAN, Store(r, c) PROVE CacheInv'
  <2>1. Still /\ UNCHANGED served /\ reader[r].pc = "store"
    BY <1>3 DEF Store
  <2>2. ItemsSound'
    <3>1. CASE UNCHANGED items
      BY <1>e, <2>1, <3>1
    <3>2. CASE items' = SetItems({reader[r].key}, reader[r].ver, CacheTTL)
      <4>1. reader[r].ver \in DOMAIN replaced => clock <= replaced[reader[r].ver] + Slow
        BY <1>0, <1>a, <2>1 DEF ReaderSound, ReplacedSound
      <4>2. CacheTTL \in {0, CacheTTL}
        OBVIOUS
      <4> QED BY <2>1, <3>2, <4>1, <4>2, StoredSound
    <3> QED BY <1>3, <3>1, <3>2 DEF Store
  <2>3. ReadersSound'
    <3>1. DOMAIN reader' = Readers /\ reader'[r] = IdleReader /\ \A x \in Readers \ {r} : reader'[x] = reader[x]
      BY <1>3, <1>a DEF Store
    <3>2. ReaderSound(r)'
      BY <3>1 DEF ReaderSound, IdleReader
    <3>3. ASSUME NEW x \in Readers \ {r} PROVE ReaderSound(x)'
      BY <1>a, <2>1, <3>1 DEF ReaderSound
    <3> QED BY <3>1, <3>2, <3>3
  <2> QED BY <1>b, <1>c, <1>g, <2>1, <2>2, <2>3
<1>4. ASSUME NEW ks, NEW ttl \in {0, CacheTTL}, SetMulti(ks, ttl) PROVE CacheInv'
  <2>1. Still /\ UNCHANGED <<served, reader>> /\ items' = SetItems(ks, version, ttl)
    BY <1>4 DEF SetMulti
  <2>2. ItemsSound'
    BY <1>0, <2>1, StoredSound
  <2> QED BY <1>b, <1>c, <1>d, <1>g, <2>1, <2>2
<1>5. ASSUME Update PROVE CacheInv'
  <2>1. version' = version + 1 /\ replaced' = Put(replaced, version, clock) /\ UNCHANGED <<items, served, reader, clock>>
    BY <1>5 DEF Update
  <2>2. /\ DOMAIN replaced' = DOMAIN replaced \cup {version} /\ replaced'[version] = clock
        /\ \A x \in DOMAIN replaced : replaced'[x] = replaced[x]
    BY <1>0, <2>1 DEF Put
  <2>3. ReplacedSound'
    BY <1>0, <2>1, <2>2 DEF ReplacedSound
  <2>4. ItemsSound' /\ ServedSound'
    BY <1>0, <1>a, <2>1, Ages DEF ItemsSound
  <2>5. ReadersSound'
    BY <1>0, <1>a, <2>1, <2>2 DEF ReaderSound
  <2> QED BY <1>g, <2>3, <2>4, <2>5
<1>6. ASSUME CacheTick PROVE CacheInv'
  <2>1. /\ clock' = clock + 1 /\ UNCHANGED <<items, served, reader, version, replaced>>
        /\ \A r \in Readers : reader[r].pc # "idle" => clock - reader[r].since < Slow
    BY <1>6 DEF CacheTick
  <2>2. ReplacedSound'
    BY <1>0, <2>1 DEF ReplacedSound
  <2>3. clock' \in Nat /\ clock <= clock'
    BY <1>0, <2>1
  <2>4. ItemsSound' /\ ServedSound'
    BY <1>0, <1>a, <2>1, <2>3, Ages DEF ItemsSound
  <2>5. ReadersSound'
    BY <1>0, <1>a, <2>1 DEF ReaderSound
  <2> QED BY <1>g, <2>2, <2>4, <2>5
<1>7. ASSUME NEW ks, DeleteMulti(ks) PROVE CacheInv'
  <2>1. Still /\ UNCHANGED <<served, reader>> /\ items' = Removed(ks)
    BY <1>7 DEF DeleteMulti
  <2> QED BY <1>b, <1>c, <1>d, <1>f, <1>g, <2>1
<1>8. ASSUME NEW k, ClearBatch(k) PROVE CacheInv'
  <2>1. Still /\ UNCHANGED <<served, reader>> /\ items' = Removed({k})
    BY <1>8 DEF ClearBatch
  <2> QED BY <1>b, <1>c, <1>d, <1>f, <1>g, <2>1
<1>9. ASSUME ClearCache PROVE CacheInv'
  <2>1. Still /\ UNCHANGED <<served, reader>> /\ (UNCHANGED items \/ items' = << >>)
    BY <1>9 DEF ClearCache
  <2>2. ItemsSound'
    BY <1>e, <2>1 DEF ItemsSound
  <2> QED BY <1>b, <1>c, <1>d, <1>g, <2>1, <2>2
<1>10. ASSUME Cleaner PROVE CacheInv'
  <2>1. Still /\ UNCHANGED <<served, reader>>
    BY <1>10 DEF Cleaner, CleanerTick, removeExpiredItems, CleanerStops
  <2>2. CASE UNCHANGED items
    BY <1>b, <1>c, <1>d, <1>e, <1>g, <2>1, <2>2
  <2>3. CASE removeExpiredItems
    <3>1. PICK ks : items' = Removed(ks)
      BY <2>3 DEF removeExpiredItems
    <3> QED BY <1>b, <1>c, <1>d, <1>f, <1>g, <2>1, <3>1
  <2> QED BY <1>10, <2>2, <2>3 DEF Cleaner, CleanerTick, CleanerStops
<1>11. CASE CacheClose \/ CloseReturn \/ UNCHANGED cacheVars
  <2>1. Still /\ UNCHANGED <<served, reader, items>>
    BY <1>11 DEF CacheClose, CloseReturn, cacheVars
  <2> QED BY <1>b, <1>c, <1>d, <1>e, <1>g, <2>1
<1> QED BY <1>1, <1>2, <1>3, <1>4, <1>5, <1>6, <1>7, <1>8, <1>9, <1>10, <1>11 DEF CacheNext

(* GetOrSet and the response middleware serve nothing that was replaced longer
   ago than the ttl and one computation, whoever stores, deletes or clears in
   between a computation and its Set. *)
THEOREM StalenessBounded == CacheSpec => []StaleIsBounded
<1>1. CacheInv => StaleIsBounded
  BY DEF CacheInv, WithinTTL, StaleIsBounded
<1> QED BY <1>1, CacheStarts, CacheStep, PTL DEF CacheSpec

-----------------------------------------------------------------------------
Issued == 1 .. issued

ReqRecord == [pc : {"idle", "load", "check", "handler", "regenerate"}, cookie : Ids \cup {NoId},
              id : Ids \cup {NoId}, data : SUBSET Keys, exp : Nat, mod : BOOLEAN, written : BOOLEAN,
              sent : BOOLEAN, set : Ids \cup {NoId, Keep}, destroyed : BOOLEAN]

StoreTypes ==
    /\ now \in Nat /\ issued \in 0 .. MaxIds /\ spoiled \in BOOLEAN
    /\ DOMAIN sessions \subseteq Issued /\ ended \subseteq Issued /\ jar \in Issued \cup {NoId}
    /\ \A i \in DOMAIN sessions :
          sessions[i].data \subseteq Keys /\ sessions[i].exp \in Nat /\ sessions[i].exp <= now + MaxAge
    /\ left.data \subseteq Keys /\ left.exp \in Nat

RequestTypes ==
    /\ req \in [Requests -> ReqRecord]
    /\ \A r \in Requests : /\ req[r].pc \in {"check", "handler", "regenerate"} => req[r].id \in Issued
                           /\ req[r].pc = "load" => req[r].cookie \in Issued
                           /\ req[r].pc # "idle" => req[r].exp <= now + MaxAge
                           /\ req[r].set \in Issued \cup {NoId, Keep}

(* What the store has, under i, of a session with data d that expires at e: the
   session itself, or from e on an older form of it or nothing. *)
Kept(i, d, e) ==
    IF i \in DOMAIN sessions
    THEN sessions[i].exp <= e /\ (now >= e \/ (sessions[i].data = d /\ sessions[i].exp = e))
    ELSE now >= e \/ d = {}

Untouched(q) == ~q.mod /\ ~q.written /\ ~q.sent /\ ~q.destroyed /\ q.set = Keep

(* Where the browser and the store stand with a request whose handler runs. *)
CookieSound(q) ==
    /\ ~q.mod /\ ~q.destroyed => q.set = Keep /\ jar = q.id
    /\ q.written => q.sent
    /\ q.sent /\ ~q.destroyed => jar = q.id
    /\ ~q.sent /\ q.destroyed => q.set = NoId
    /\ q.sent /\ q.destroyed => jar = q.id \/ (jar = NoId /\ ~q.mod)
StoreSound(q) ==
    /\ q.destroyed => q.id \notin DOMAIN sessions
    /\ q.id \in DOMAIN sessions => sessions[q.id].exp <= q.exp
    /\ (q.written \/ ~q.mod) /\ ~q.destroyed => Kept(q.id, q.data, q.exp)

(* What holds of a request at each of its stages. *)
RequestSound(q) ==
    /\ q.pc = "load" => q.cookie = jar
    /\ q.pc \in {"load", "check"} => Untouched(q)
    /\ q.pc \in {"check", "handler"} => CookieSound(q) /\ StoreSound(q)
    /\ q.pc = "regenerate" => ~q.sent /\ ~q.written /\ q.mod /\ q.id \notin DOMAIN sessions

(* Without overlap there is one request at a time, what the last one left is
   kept, and the one under way is sound. *)
Sequential ==
    /\ \A r, s \in Busy : r = s
    /\ Busy = {} => Kept(jar, left.data, left.exp)
    /\ \A r \in Requests : RequestSound(req[r])

SessionInv == StoreTypes /\ RequestTypes /\ (~spoiled => Sequential)

(* No request yet, nothing stored. *)
LEMMA SessionStarts == SessionInit => SessionInv
<1> SUFFICES ASSUME SessionInit PROVE SessionInv OBVIOUS
<1> USE SessionAssumption
<1>1. DOMAIN sessions = {}
  BY DEF SessionInit
<1>7. /\ jar = NoId /\ req = [r \in Requests |-> Idle] /\ now = 0 /\ issued = 0 /\ ended = {}
      /\ left.data = {} /\ left.exp = 0 /\ spoiled = FALSE
  BY DEF SessionInit, Gone
<1>2. StoreTypes
  <2>1. now \in Nat /\ issued \in 0 .. MaxIds /\ left.exp \in Nat
    BY <1>7
  <2>2. spoiled \in BOOLEAN
    BY <1>7
  <2> QED BY <1>1, <1>7, <2>1, <2>2 DEF StoreTypes
<1>3. Idle \in ReqRecord
  BY DEF Idle, ReqRecord, Ids
<1>4. RequestTypes
  BY <1>3, <1>7 DEF RequestTypes, Idle
<1>8. \A r \in Requests : req[r].pc = "idle"
  BY <1>7 DEF Idle
<1>5. Sequential
  BY <1>1, <1>7, <1>8 DEF Sequential, Busy, Kept, RequestSound
<1> QED BY <1>2, <1>4, <1>5 DEF SessionInv

(* A Save leaves the session in the store, or an older form of it that has
   expired when the session has. *)
LEMMA StoredKept ==
    ASSUME StoreTypes, now' = now, NEW q \in ReqRecord, sessions' = Stored(q, TRUE),
           q.id \in DOMAIN sessions => sessions[q.id].exp <= q.exp
    PROVE  /\ Kept(q.id, q.data, q.exp)'
           /\ q.id \in DOMAIN sessions' => sessions'[q.id].exp <= q.exp
<1>1. q.exp \in Nat /\ now \in Nat
  BY DEF ReqRecord, StoreTypes
<1>2. CASE backend = "redis" /\ now >= q.exp
  <2>1. sessions' = sessions
    BY <1>2 DEF Stored
  <2> QED BY <1>1, <1>2, <2>1 DEF Kept
<1>3. CASE ~(backend = "redis" /\ now >= q.exp)
  <2> DEFINE v == [data |-> q.data, exp |-> q.exp]
  <2>1. sessions' = Put(sessions, q.id, v) /\ v.data = q.data /\ v.exp = q.exp
    BY <1>3 DEF Stored
  <2> HIDE DEF v
  <2>2. q.id \in DOMAIN sessions' /\ sessions'[q.id] = v
    <3>1. sessions' = Put(sessions, q.id, v)
      BY <2>1
    <3> QED BY ONLY <3>1 DEF Put
  <2>3. sessions'[q.id].data = q.data /\ sessions'[q.id].exp = q.exp
    BY <2>1, <2>2
  <2>4. sessions'[q.id].exp <= q.exp
    <3>1. q.exp <= q.exp
      BY <1>1
    <3> QED BY ONLY <2>3, <3>1
  <2> QED BY ONLY <2>2, <2>3, <2>4 DEF Kept
<1> QED BY <1>2, <1>3

(* A Save keeps the types of the store. *)
LEMMA StoredTypes ==
    ASSUME StoreTypes, NEW q \in ReqRecord, NEW ok \in BOOLEAN, q.id \in Issued, q.exp <= now + MaxAge
    PROVE  /\ DOMAIN Stored(q, ok) \subseteq Issued
           /\ \A i \in DOMAIN Stored(q, ok) :
                 /\ Stored(q, ok)[i].data \subseteq Keys
                 /\ Stored(q, ok)[i].exp \in Nat /\ Stored(q, ok)[i].exp <= now + MaxAge
<1>1. q.data \subseteq Keys /\ q.exp \in Nat
  BY DEF ReqRecord
<1>2. CASE Stored(q, ok) = sessions
  BY <1>2 DEF StoreTypes
<1>3. CASE Stored(q, ok) = Put(sessions, q.id, [data |-> q.data, exp |-> q.exp])
  <2> DEFINE v == [data |-> q.data, exp |-> q.exp]
  <2>0. v.data = q.data /\ v.exp = q.exp
    OBVIOUS
  <2> HIDE DEF v
  <2> DEFINE m == Put(sessions, q.id, v)
  <2>1. /\ DOMAIN m = DOMAIN sessions \cup {q.id}
        /\ m[q.id] = v
        /\ \A x \in DOMAIN sessions \ {q.id} : m[x] = sessions[x]
    BY ONLY DEF Put, m
  <2> HIDE DEF m
  <2> SUFFICES DOMAIN m \subseteq Issued /\ \A i \in DOMAIN m :
                 m[i].data \subseteq Keys /\ m[i].exp \in Nat /\ m[i].exp <= now + MaxAge
    BY <1>3 DEF m, v
  <2>2. m[q.id].data = q.data /\ m[q.id].exp = q.exp
    BY <2>0, <2>1
  <2> QED BY <1>1, <2>1, <2>2 DEF StoreTypes
<1> QED BY <1>2, <1>3 DEF Stored

(* With nothing but the past lost, the next request finds what was left. *)
LEMMA KeptIsFound ==
    ASSUME SessionInv
    PROVE  NothingLost
<1> SUFFICES ASSUME ~spoiled, Busy = {}
             PROVE  /\ now < left.exp => Found = left.data
                    /\ now > left.exp => Found = {}
  BY DEF NothingLost
<1>1. Kept(jar, left.data, left.exp)
  BY DEF SessionInv, Sequential
<1>2. now \in Nat /\ left.exp \in Nat /\ (jar \in DOMAIN sessions => sessions[jar].exp \in Nat)
  BY DEF SessionInv, StoreTypes
<1> QED BY <1>1, <1>2 DEF Kept, Found, Expired

-----------------------------------------------------------------------------
(* The fields of a request have their types. *)
LEMMA FieldTypes ==
    ASSUME RequestTypes, NEW r \in Requests
    PROVE  /\ req[r] \in ReqRecord
           /\ req[r].pc \in {"idle", "load", "check", "handler", "regenerate"}
           /\ req[r].cookie \in Ids \cup {NoId} /\ req[r].id \in Ids \cup {NoId}
           /\ req[r].data \subseteq Keys /\ req[r].exp \in Nat /\ req[r].set \in Ids \cup {NoId, Keep}
           /\ req[r].mod \in BOOLEAN /\ req[r].written \in BOOLEAN
           /\ req[r].sent \in BOOLEAN /\ req[r].destroyed \in BOOLEAN
<1>1. req[r] \in ReqRecord
  BY DEF RequestTypes
<1> QED BY <1>1 DEF ReqRecord

(* A step that replaces one request by a well-typed one. *)
LEMMA RequestMoves ==
    ASSUME RequestTypes, StoreTypes, issued' \in Nat, issued <= issued', now' = now,
           NEW r \in Requests, NEW q \in ReqRecord, req' = [req EXCEPT ![r] = q],
           q.pc \in {"check", "handler", "regenerate"} => q.id \in 1 .. issued',
           q.pc = "load" => q.cookie \in 1 .. issued',
           q.pc # "idle" => q.exp <= now + MaxAge,
           q.set \in (1 .. issued') \cup {NoId, Keep}
    PROVE  RequestTypes'
<1>1. req' \in [Requests -> ReqRecord]
  BY DEF RequestTypes
<1>2. req'[r] = q /\ \A s \in Requests \ {r} : req'[s] = req[s]
  BY DEF RequestTypes
<1>3. Issued \subseteq 1 .. issued' /\ Issued' = 1 .. issued'
  BY DEF StoreTypes, Issued
<1>4. ASSUME NEW s \in Requests
      PROVE  /\ req'[s].pc \in {"check", "handler", "regenerate"} => req'[s].id \in 1 .. issued'
             /\ req'[s].pc = "load" => req'[s].cookie \in 1 .. issued'
             /\ req'[s].pc # "idle" => req'[s].exp <= now + MaxAge
             /\ req'[s].set \in (1 .. issued') \cup {NoId, Keep}
  <2>1. CASE s = r
    BY <1>2, <2>1
  <2>2. CASE s # r
    BY <1>2, <1>3, <2>2 DEF RequestTypes
  <2> QED BY <2>1, <2>2
<1> QED BY <1>1, <1>3, <1>4 DEF RequestTypes

(* A step of the only request under way, or the arrival of one. *)
LEMMA StillSequential ==
    ASSUME Sequential, NEW r \in Requests, \A s \in Requests \ {r} : req'[s] = req[s],
           req[r].pc # "idle" \/ Busy = {}, req'[r].pc # "idle", RequestSound(req[r])'
    PROVE  Sequential'
<1>1. \A s \in Requests \ {r} : req'[s].pc = "idle"
  BY DEF Sequential, Busy
<1>2. Busy' = {r}
  BY <1>1 DEF Busy
<1>3. \A s \in Requests \ {r} : RequestSound(req[s])'
  BY <1>1 DEF RequestSound
<1> QED BY <1>2, <1>3 DEF Sequential

(* A new session has the fields New gives it. *)
LEMMA NewTyped ==
    ASSUME StoreTypes, NEW q \in ReqRecord, issued < MaxIds
    PROVE  /\ New(q) \in ReqRecord
           /\ New(q).pc = "handler" /\ New(q).id = issued + 1 /\ New(q).data = {} /\ New(q).mod
           /\ New(q).exp = now + MaxAge
           /\ New(q).set = q.set /\ New(q).sent = q.sent /\ New(q).written = q.written
           /\ New(q).destroyed = q.destroyed
<1>1. now + MaxAge \in Nat /\ issued + 1 \in Ids
  BY SessionAssumption DEF StoreTypes, Ids
<1>2. New(q) \in ReqRecord
  BY <1>1 DEF New, Fresh, ReqRecord
<1> QED BY <1>2 DEF New, Fresh, ReqRecord

(* A request with a new session. *)
LEMMA NewSound ==
    ASSUME StoreTypes, NEW q \in ReqRecord, issued < MaxIds, Untouched(q),
           NEW r \in Requests, req'[r] = New(q), DOMAIN sessions' \subseteq DOMAIN sessions
    PROVE  RequestSound(req[r])'
<1>1. /\ req'[r].pc = "handler" /\ req'[r].id = issued + 1 /\ req'[r].mod
      /\ req'[r].set = Keep /\ ~req'[r].sent /\ ~req'[r].written /\ ~req'[r].destroyed
  BY NewTyped DEF Untouched
<1>2. issued + 1 \notin DOMAIN sessions'
  BY DEF StoreTypes, Issued
<1>3. CookieSound(req[r])'
  BY <1>1 DEF CookieSound
<1>4. StoreSound(req[r])'
  BY <1>1, <1>2 DEF StoreSound
<1> QED BY <1>1, <1>3, <1>4 DEF RequestSound

(* The middleware takes a request. *)
LEMMA ArriveStep ==
    ASSUME SessionInv, NEW r \in Requests, Arrive(r)
    PROVE  SessionInv'
<1> USE SessionAssumption
<1>1. StoreTypes /\ RequestTypes
  BY DEF SessionInv
<1>2. /\ Idle \in ReqRecord /\ Untouched(Idle) /\ Idle.set = Keep
  BY DEF Idle, ReqRecord, Ids, Untouched
<1>3. /\ issued < MaxIds /\ sessions' = sessions /\ jar' = jar /\ now' = now /\ ended' = ended
      /\ left' = left /\ req[r].pc = "idle" /\ spoiled' = (spoiled \/ Busy # {} \/ ~TRUE)
  BY DEF Arrive, Busy, Spoils
<1>4. issued \in Nat /\ now \in Nat
  BY <1>1 DEF StoreTypes
<1>5. CASE jar = NoId
  <2>1. req' = [req EXCEPT ![r] = New(Idle)] /\ issued' = issued + 1
    BY <1>5 DEF Arrive, Fresh
  <2>2. RequestTypes'
    <3> DEFINE q == New(Idle)
    <3>1. q \in ReqRecord /\ q.pc = "handler" /\ q.id = issued + 1 /\ q.exp = now + MaxAge /\ q.set = Keep
      BY <1>1, <1>2, <1>3, NewTyped
    <3>2. req' = [req EXCEPT ![r] = q]
      BY <2>1
    <3> HIDE DEF q
    <3>3. issued' \in Nat /\ issued <= issued' /\ q.id \in 1 .. issued'
      BY <1>4, <2>1, <3>1
    <3>4. now' = now /\ q.exp <= now + MaxAge /\ q.pc # "load"
      BY <1>3, <1>4, <3>1
    <3>5. q.set \in (1 .. issued') \cup {NoId, Keep}
      BY <3>1
    <3> QED BY ONLY <1>1, <3>1, <3>2, <3>3, <3>4, <3>5, RequestMoves
  <2>3. StoreTypes'
    BY <1>1, <1>3, <1>4, <2>1 DEF StoreTypes, Issued
  <2>4. req'[r] = New(Idle) /\ \A s \in Requests \ {r} : req'[s] = req[s]
    BY <1>1, <2>1 DEF RequestTypes
  <2>5. RequestSound(req[r])'
    BY <1>1, <1>2, <1>3, <2>4, NewSound
  <2>6. ASSUME ~spoiled' PROVE Sequential'
    <3>1. Sequential /\ Busy = {}
      BY <1>3, <2>6, <1>1 DEF SessionInv, StoreTypes
    <3>2. req'[r].pc # "idle"
      BY <1>1, <1>2, <1>3, <2>4, NewTyped
    <3> QED BY <2>4, <2>5, <3>1, <3>2, StillSequential
  <2> QED BY <2>2, <2>3, <2>6 DEF SessionInv
<1>6. CASE jar # NoId
  <2> DEFINE q == [Idle EXCEPT !.pc = "load", !.cookie = jar]
  <2>1. req' = [req EXCEPT ![r] = q] /\ issued' = issued
    BY <1>6 DEF Arrive
  <2>2. jar \in Issued /\ jar \in Ids
    BY <1>1, <1>6 DEF StoreTypes, Issued, Ids
  <2>3. q \in ReqRecord /\ q.pc = "load" /\ q.cookie = jar /\ q.exp = 0 /\ q.set = Keep /\ Untouched(q)
    BY <2>2 DEF Idle, ReqRecord, Ids, Untouched
  <2> HIDE DEF q
  <2>4. RequestTypes'
    <3>1. issued' \in Nat /\ issued <= issued' /\ q.cookie \in 1 .. issued' /\ q.exp <= now + MaxAge
      BY <1>4, <2>1, <2>2, <2>3 DEF Issued
    <3> QED BY <1>1, <1>3, <2>1, <2>3, <3>1, RequestMoves
  <2>5. StoreTypes'
    BY <1>1, <1>3, <2>1 DEF StoreTypes, Issued
  <2>6. req'[r] = q /\ \A s \in Requests \ {r} : req'[s] = req[s]
    BY <1>1, <2>1 DEF RequestTypes
  <2>7. RequestSound(req[r])'
    BY <1>3, <2>3, <2>6 DEF RequestSound, Untouched
  <2>8. ASSUME ~spoiled' PROVE Sequential'
    <3>1. Sequential /\ Busy = {}
      BY <1>3, <2>8, <1>1 DEF SessionInv, StoreTypes
    <3> QED BY <2>3, <2>6, <2>7, <3>1, StillSequential
  <2> QED BY <2>4, <2>5, <2>8 DEF SessionInv
<1> QED BY <1>5, <1>6

(* What is stored after one session was deleted. *)
LEMMA WithoutFacts ==
    ASSUME NEW i
    PROVE  /\ DOMAIN Without(i) = DOMAIN sessions \ {i}
           /\ \A j \in DOMAIN sessions \ {i} : Without(i)[j] = sessions[j]
BY DEF Without, Drop

(* The types of the store after a step. *)
LEMMA StoreMoves ==
    ASSUME StoreTypes, now' = now, issued' \in {issued, issued + 1}, issued' <= MaxIds,
           spoiled' \in BOOLEAN, DOMAIN sessions' \subseteq 1 .. issued', ended' \subseteq 1 .. issued',
           jar' \in (1 .. issued') \cup {NoId}, left'.data \subseteq Keys, left'.exp \in Nat,
           \A i \in DOMAIN sessions' : /\ sessions'[i].data \subseteq Keys /\ sessions'[i].exp \in Nat
                                       /\ sessions'[i].exp <= now + MaxAge
    PROVE  StoreTypes'
<1>1. issued' \in 0 .. MaxIds /\ now' \in Nat
  BY SessionAssumption DEF StoreTypes
<1> QED BY <1>1 DEF StoreTypes, Issued

(* A step of a request under way that keeps it under way. *)
LEMMA RequestGoesOn ==
    ASSUME SessionInv, StoreTypes', NEW r \in Requests, NEW q \in ReqRecord,
           req' = [req EXCEPT ![r] = q], req[r].pc # "idle", q.pc # "idle",
           now' = now, issued <= issued', q.pc = "load" => q.cookie \in 1 .. issued',
           q.pc \in {"check", "handler", "regenerate"} => q.id \in 1 .. issued',
           q.exp <= now + MaxAge, q.set \in (1 .. issued') \cup {NoId, Keep},
           ~spoiled' => ~spoiled,
           ~spoiled' /\ RequestSound(req[r]) => RequestSound(req[r])'
    PROVE  SessionInv'
<1>1. StoreTypes /\ RequestTypes
  BY DEF SessionInv
<1>2. issued' \in Nat
  BY DEF StoreTypes
<1>3. RequestTypes'
  BY <1>1, <1>2, RequestMoves
<1>4. req'[r] = q /\ \A s \in Requests \ {r} : req'[s] = req[s]
  BY <1>1 DEF RequestTypes
<1>5. ASSUME ~spoiled' PROVE Sequential'
  <2>1. Sequential
    BY <1>5 DEF SessionInv
  <2>2. RequestSound(req[r])'
    BY <1>5, <2>1 DEF Sequential
  <2> QED BY <1>4, <2>1, <2>2, StillSequential
<1> QED BY <1>3, <1>5 DEF SessionInv

(* Manager.Get finds the session of the cookie or makes a new one. *)
LEMMA LoadStep ==
    ASSUME SessionInv, NEW r \in Requests, NEW ok \in BOOLEAN, Load(r, ok)
    PROVE  SessionInv'
<1> USE SessionAssumption
<1> DEFINE c == req[r].cookie
           found == ok /\ c \in DOMAIN sessions /\ ~Expired(sessions[c].exp)
           p == [req[r] EXCEPT !.pc = "check", !.id = c, !.data = sessions[c].data, !.exp = sessions[c].exp]
<1>1. StoreTypes /\ RequestTypes
  BY DEF SessionInv
<1>2. /\ req[r].pc = "load" /\ issued < MaxIds /\ sessions' = sessions /\ jar' = jar /\ now' = now
      /\ ended' = ended /\ left' = left /\ spoiled' = (spoiled \/ FALSE \/ ~ok)
      /\ req' = [req EXCEPT ![r] = IF found THEN p ELSE New(req[r])]
      /\ issued' = IF found THEN issued ELSE issued + 1
  BY DEF Load, Spoils, Fresh
<1>3. issued \in Nat /\ now \in Nat /\ MaxIds \in Nat /\ spoiled \in BOOLEAN
  BY <1>1 DEF StoreTypes
<1>4. /\ req[r] \in ReqRecord /\ c \in Issued /\ req[r].exp \in Nat /\ req[r].exp <= now + MaxAge
      /\ req[r].set \in Issued \cup {NoId, Keep}
  BY <1>1, <1>2, FieldTypes DEF RequestTypes
<1>5. ~spoiled' => ~spoiled
  BY <1>2, <1>3
<1>6. req'[r] = (IF found THEN p ELSE New(req[r]))
  BY <1>1, <1>2 DEF RequestTypes
<1>7. StoreTypes'
  <2>1. issued' \in {issued, issued + 1} /\ issued' <= MaxIds
    BY <1>2, <1>3
  <2>2. spoiled' \in BOOLEAN
    BY <1>2, <1>3
  <2>3. Issued \subseteq 1 .. issued'
    BY <1>3, <2>1 DEF Issued
  <2> HIDE DEF found
  <2> QED BY <1>1, <1>2, <2>1, <2>2, <2>3, StoreMoves DEF StoreTypes
<1>8. CASE found
  <2> DEFINE e == sessions[c].exp
  <2>1. c \in DOMAIN sessions /\ sessions[c].data \subseteq Keys /\ e \in Nat /\ e <= now + MaxAge /\ c \in Ids
    BY <1>1, <1>8 DEF StoreTypes, Issued, Ids
  <2>2. /\ p \in ReqRecord /\ p.pc = "check" /\ p.id = c /\ p.data = sessions[c].data /\ p.exp = e
        /\ p.set = req[r].set /\ p.mod = req[r].mod /\ p.written = req[r].written /\ p.sent = req[r].sent
        /\ p.destroyed = req[r].destroyed
    BY <1>4, <2>1 DEF ReqRecord
  <2>3. req' = [req EXCEPT ![r] = p] /\ req'[r] = p /\ issued' = issued
    BY <1>2, <1>6, <1>8
  <2> HIDE DEF p, found
  <2>4. ASSUME RequestSound(req[r]) PROVE RequestSound(req[r])'
    <3>1. Untouched(req[r]) /\ c = jar
      BY <1>2, <2>4 DEF RequestSound
    <3>2. Untouched(req[r])'
      BY <2>2, <2>3, <3>1 DEF Untouched
    <3>3. CookieSound(req[r])'
      BY <1>2, <2>2, <2>3, <3>1, <3>2 DEF CookieSound, Untouched
    <3>4. StoreSound(req[r])'
      <4>1. /\ req'[r].id = c /\ req'[r].data = sessions[c].data /\ req'[r].exp = e
            /\ c \in DOMAIN sessions' /\ sessions'[c] = sessions[c]
        BY <1>2, <2>1, <2>2, <2>3
      <4> HIDE DEF c
      <4>2. Kept(req[r].id, req[r].data, req[r].exp)'
        BY <2>1, <4>1 DEF Kept
      <4>3. sessions'[req'[r].id].exp <= req'[r].exp
        BY <2>1, <4>1
      <4> QED BY <3>2, <4>2, <4>3 DEF StoreSound, Untouched
    <3> QED BY <2>2, <2>3, <3>2, <3>3, <3>4 DEF RequestSound
  <2>5. p.id \in 1 .. issued' /\ p.exp <= now + MaxAge /\ p.set \in (1 .. issued') \cup {NoId, Keep}
    BY <1>4, <2>1, <2>2, <2>3 DEF Issued
  <2>6. issued <= issued' /\ p.pc # "idle" /\ p.pc # "load" /\ req[r].pc # "idle"
    BY <1>2, <1>3, <2>2, <2>3
  <2> QED BY <1>2, <1>5, <1>7, <2>2, <2>3, <2>4, <2>5, <2>6, RequestGoesOn
<1>9. CASE ~found
  <2> DEFINE q == New(req[r])
  <2>1. req' = [req EXCEPT ![r] = q] /\ req'[r] = q /\ issued' = issued + 1
    BY <1>2, <1>6, <1>9
  <2>2. q \in ReqRecord /\ q.pc = "handler" /\ q.id = issued + 1 /\ q.exp = now + MaxAge /\ q.set = req[r].set
    BY <1>1, <1>2, <1>4, NewTyped
  <2> HIDE DEF p, found
  <2>3. ASSUME RequestSound(req[r]) PROVE RequestSound(req[r])'
    <3>1. Untouched(req[r])
      BY <1>2, <2>3 DEF RequestSound
    <3> QED BY <1>1, <1>2, <1>4, <2>1, <3>1, NewSound
  <2> HIDE DEF q
  <2>4. q.id \in 1 .. issued' /\ q.exp <= now + MaxAge /\ q.set \in (1 .. issued') \cup {NoId, Keep}
    BY <1>3, <1>4, <2>1, <2>2 DEF Issued
  <2>5. issued <= issued' /\ q.pc # "idle" /\ q.pc # "load" /\ req[r].pc # "idle"
    BY <1>2, <1>3, <2>1, <2>2
  <2> QED BY <1>2, <1>5, <1>7, <2>1, <2>2, <2>3, <2>4, <2>5, RequestGoesOn
<1> QED BY <1>8, <1>9

(* Get looks at the expiry again. *)
LEMMA CheckStep ==
    ASSUME SessionInv, NEW r \in Requests, Check(r)
    PROVE  SessionInv'
<1> USE SessionAssumption
<1>1. StoreTypes /\ RequestTypes
  BY DEF SessionInv
<1>2. /\ req[r].pc = "check" /\ issued < MaxIds /\ jar' = jar /\ now' = now /\ ended' = ended
      /\ left' = left /\ spoiled' = spoiled
  BY DEF Check
<1>3. issued \in Nat /\ now \in Nat /\ MaxIds \in Nat /\ spoiled \in BOOLEAN
  BY <1>1 DEF StoreTypes
<1>4. /\ req[r] \in ReqRecord /\ req[r].exp \in Nat /\ req[r].exp <= now + MaxAge
      /\ req[r].id \in Issued /\ req[r].set \in Issued \cup {NoId, Keep}
  BY <1>1, <1>2, FieldTypes DEF RequestTypes
<1>5. CASE Expired(req[r].exp)
  <2> DEFINE q == New(req[r])
             i == req[r].cookie
  <2>1. req' = [req EXCEPT ![r] = q] /\ issued' = issued + 1 /\ sessions' = Without(i)
    BY <1>5 DEF Check, Fresh
  <2>2. req'[r] = q
    BY <1>1, <2>1 DEF RequestTypes
  <2>3. q \in ReqRecord /\ q.pc = "handler" /\ q.id = issued + 1 /\ q.exp = now + MaxAge /\ q.set = req[r].set
    BY <1>1, <1>2, <1>4, NewTyped
  <2>4. DOMAIN sessions' \subseteq DOMAIN sessions /\ \A j \in DOMAIN sessions' : sessions'[j] = sessions[j]
    BY <2>1, WithoutFacts
  <2>5. ASSUME RequestSound(req[r]) PROVE RequestSound(req[r])'
    <3>1. Untouched(req[r])
      BY <1>2, <2>5 DEF RequestSound
    <3> QED BY <1>1, <1>2, <1>4, <2>2, <2>4, <3>1, NewSound
  <2> HIDE DEF q, i
  <2>6. q.id \in 1 .. issued' /\ q.exp <= now + MaxAge /\ q.set \in (1 .. issued') \cup {NoId, Keep}
    BY <1>3, <1>4, <2>1, <2>3 DEF Issued
  <2>7. issued <= issued' /\ q.pc # "idle" /\ q.pc # "load" /\ req[r].pc # "idle"
    BY <1>2, <1>3, <2>1, <2>3
  <2>8. StoreTypes'
    <3>1. issued' \in {issued, issued + 1} /\ issued' <= MaxIds /\ Issued \subseteq 1 .. issued'
      BY <1>2, <1>3, <2>1 DEF Issued
    <3> QED BY <1>1, <1>2, <1>3, <2>4, <3>1, StoreMoves DEF StoreTypes
  <2> QED BY <1>2, <2>1, <2>3, <2>5, <2>6, <2>7, <2>8, RequestGoesOn
<1>6. CASE ~Expired(req[r].exp)
  <2> DEFINE q == [req[r] EXCEPT !.pc = "handler"]
  <2>1. req' = [req EXCEPT ![r] = q] /\ issued' = issued /\ sessions' = sessions
    BY <1>6 DEF Check
  <2>2. req'[r] = q
    BY <1>1, <2>1 DEF RequestTypes
  <2>3. /\ q \in ReqRecord /\ q.pc = "handler" /\ q.id = req[r].id /\ q.exp = req[r].exp
        /\ q.data = req[r].data /\ q.set = req[r].set /\ q.mod = req[r].mod
        /\ q.written = req[r].written /\ q.sent = req[r].sent /\ q.destroyed = req[r].destroyed
    BY <1>4 DEF ReqRecord
  <2> HIDE DEF q
  <2>4. ASSUME RequestSound(req[r]) PROVE RequestSound(req[r])'
    <3>1. CookieSound(req[r]) /\ StoreSound(req[r])
      BY <1>2, <2>4 DEF RequestSound
    <3>2. CookieSound(req[r])'
      BY <1>2, <2>2, <2>3, <3>1 DEF CookieSound
    <3>3. StoreSound(req[r])'
      BY <1>2, <2>1, <2>2, <2>3, <3>1 DEF StoreSound, Kept
    <3> QED BY <2>2, <2>3, <3>2, <3>3 DEF RequestSound
  <2>5. StoreTypes'
    BY <1>1, <1>2, <2>1 DEF StoreTypes, Issued
  <2>6. issued <= issued' /\ q.pc # "idle" /\ q.pc # "load" /\ req[r].pc # "idle"
    BY <1>2, <1>3, <2>1, <2>3
  <2>7. q.id \in 1 .. issued' /\ q.exp <= now + MaxAge /\ q.set \in (1 .. issued') \cup {NoId, Keep}
    BY <1>4, <2>1, <2>3 DEF Issued
  <2> QED BY <1>2, <2>1, <2>3, <2>4, <2>5, <2>6, <2>7, RequestGoesOn
<1> QED BY <1>5, <1>6

(* What is known of a request in a handler or in Regenerate. *)
LEMMA InHandler ==
    ASSUME SessionInv, NEW r \in Requests, req[r].pc \in {"handler", "regenerate"}
    PROVE  /\ StoreTypes /\ RequestTypes /\ req[r] \in ReqRecord /\ req[r].pc # "idle"
           /\ issued \in Nat /\ now \in Nat /\ MaxAge \in Nat /\ MaxIds \in Nat /\ issued <= MaxIds
           /\ req[r].id \in Issued /\ req[r].id \in Ids /\ req[r].id # Keep /\ req[r].id # NoId
           /\ req[r].exp \in Nat /\ req[r].exp <= now + MaxAge
           /\ req[r].set \in Issued \cup {NoId, Keep} /\ req[r].data \subseteq Keys
<1>1. StoreTypes /\ RequestTypes
  BY DEF SessionInv
<1>2. issued \in Nat /\ now \in Nat /\ MaxAge \in Nat /\ MaxIds \in Nat /\ issued <= MaxIds
  BY <1>1, SessionAssumption DEF StoreTypes
<1>3. /\ req[r].id \in Issued /\ req[r].exp \in Nat /\ req[r].exp <= now + MaxAge
      /\ req[r].set \in Issued \cup {NoId, Keep} /\ req[r] \in ReqRecord /\ req[r].data \subseteq Keys
  BY <1>1, FieldTypes DEF RequestTypes
<1>4. req[r].id \in Ids
  BY <1>2, <1>3 DEF Issued, Ids
<1> QED BY <1>1, <1>2, <1>3, <1>4, SessionAssumption

(* The handler changes its copy: nothing has been written yet, or the step spoils. *)
LEMMA ChangeStep ==
    ASSUME SessionInv, NEW r \in Requests, NEW d \in SUBSET Keys, Change(r, d)
    PROVE  SessionInv'
<1> DEFINE q == [req[r] EXCEPT !.data = d, !.mod = TRUE]
<1>1. /\ req[r].pc = "handler" /\ sessions' = sessions /\ jar' = jar /\ now' = now /\ issued' = issued
      /\ ended' \subseteq ended /\ left' = left /\ spoiled' = (spoiled \/ Late(req[r]) \/ ~TRUE)
      /\ req' = [req EXCEPT ![r] = q]
  BY DEF Change, Operates, Spoils, TakesUp
<1>2. /\ StoreTypes /\ RequestTypes /\ req[r] \in ReqRecord /\ req[r].pc # "idle"
      /\ issued \in Nat /\ now \in Nat /\ req[r].id \in Issued
      /\ req[r].exp \in Nat /\ req[r].exp <= now + MaxAge /\ req[r].set \in Issued \cup {NoId, Keep}
  BY <1>1, InHandler
<1>3. /\ q \in ReqRecord /\ q.pc = "handler" /\ q.id = req[r].id /\ q.exp = req[r].exp
      /\ q.set = req[r].set /\ q.mod /\ q.written = req[r].written /\ q.sent = req[r].sent
      /\ q.destroyed = req[r].destroyed
  BY <1>1, <1>2 DEF ReqRecord
<1>4. req'[r] = q
  BY <1>1, <1>2 DEF RequestTypes
<1>5. spoiled \in BOOLEAN /\ req[r].written \in BOOLEAN /\ req[r].sent \in BOOLEAN /\ req[r].destroyed \in BOOLEAN
  BY <1>2, FieldTypes DEF StoreTypes
<1>6. spoiled' \in BOOLEAN /\ (~spoiled' => ~spoiled /\ ~Late(req[r]))
  BY <1>1, <1>5 DEF Late
<1> HIDE DEF q
<1>7. StoreTypes'
  BY <1>1, <1>2, <1>6 DEF StoreTypes, Issued
<1>8. ASSUME ~spoiled', RequestSound(req[r]) PROVE RequestSound(req[r])'
  <2>1. CookieSound(req[r]) /\ StoreSound(req[r]) /\ ~Late(req[r])
    BY <1>1, <1>6, <1>8 DEF RequestSound
  <2>2. CookieSound(req[r])'
    BY <1>1, <1>3, <1>4, <2>1 DEF CookieSound, Late
  <2>3. StoreSound(req[r])'
    BY <1>1, <1>3, <1>4, <2>1 DEF StoreSound, Late
  <2> QED BY <1>3, <1>4, <2>2, <2>3 DEF RequestSound
<1>9. q.id \in 1 .. issued' /\ q.exp <= now + MaxAge /\ q.set \in (1 .. issued') \cup {NoId, Keep} /\ issued <= issued'
  BY <1>1, <1>2, <1>3 DEF Issued
<1>10. q.pc # "idle" /\ q.pc # "load"
  BY <1>3
<1> QED BY <1>1, <1>2, <1>3, <1>6, <1>7, <1>8, <1>9, <1>10, RequestGoesOn

(* A session after Save. *)
LEMMA SavedFacts ==
    ASSUME NEW q \in ReqRecord, q.id \in Ids
    PROVE  /\ Saved(q, FALSE) = q /\ Saved(q, TRUE) \in ReqRecord /\ Saved(q, TRUE).pc = q.pc
           /\ Saved(q, TRUE).set = q.id /\ Saved(q, TRUE).destroyed = FALSE /\ Saved(q, TRUE).id = q.id
           /\ Saved(q, TRUE).data = q.data /\ Saved(q, TRUE).exp = q.exp /\ Saved(q, TRUE).mod = q.mod
           /\ Saved(q, TRUE).written = q.written /\ Saved(q, TRUE).sent = q.sent
BY DEF Saved, ReqRecord

(* The cookie a response leaves with the browser. *)
LEMMA DeliveredTyped ==
    ASSUME StoreTypes, NEW q, q.set \in Issued \cup {NoId, Keep}
    PROVE  Delivered(q) \in Issued \cup {NoId}
BY DEF Delivered, StoreTypes

(* The part of a step that the store sees: it holds, and the browser has, what
   is typed. *)
LEMMA StoreKeeps ==
    ASSUME StoreTypes, UNCHANGED <<now, issued, left>>, ended' \subseteq ended, NEW q \in ReqRecord, NEW ok \in BOOLEAN,
           sessions' = sessions \/ sessions' = Stored(q, ok), q.id \in Issued, q.exp <= now + MaxAge,
           spoiled' \in BOOLEAN, jar' \in Issued \cup {NoId}
    PROVE  StoreTypes'
<1>1. /\ DOMAIN sessions' \subseteq Issued
      /\ \A i \in DOMAIN sessions' : /\ sessions'[i].data \subseteq Keys /\ sessions'[i].exp \in Nat
                                     /\ sessions'[i].exp <= now + MaxAge
  <2>1. CASE sessions' = sessions
    BY <2>1 DEF StoreTypes
  <2>2. CASE sessions' = Stored(q, ok)
    BY <2>2, StoredTypes
  <2> QED BY <2>1, <2>2
<1>2. Issued' = Issued
  BY DEF Issued
<1> QED BY <1>1, <1>2 DEF StoreTypes

(* The response begins: store and browser get what the handler has by now. *)
LEMMA WriteStep ==
    ASSUME SessionInv, NEW r \in Requests, NEW ok \in BOOLEAN, Write(r, ok)
    PROVE  SessionInv'
<1> DEFINE saves == ~req[r].written /\ req[r].mod
           w == IF saves THEN [Saved(req[r], ok) EXCEPT !.written = TRUE] ELSE req[r]
           q == [w EXCEPT !.sent = TRUE]
<1>1. /\ req[r].pc = "handler" /\ now' = now /\ issued' = issued /\ ended' = ended /\ left' = left
      /\ spoiled' = (spoiled \/ FALSE \/ ~ok) /\ jar' = Delivered(w)
      /\ sessions' = (IF saves THEN Stored(req[r], ok) ELSE sessions)
      /\ req' = [req EXCEPT ![r] = q]
  BY DEF Write, Operates, Spoils
<1>2. /\ StoreTypes /\ RequestTypes /\ req[r] \in ReqRecord /\ req[r].pc # "idle"
      /\ issued \in Nat /\ now \in Nat /\ MaxAge \in Nat /\ req[r].id \in Issued /\ req[r].id \in Ids
      /\ req[r].id # Keep /\ req[r].exp \in Nat /\ req[r].exp <= now + MaxAge
      /\ req[r].set \in Issued \cup {NoId, Keep}
  BY <1>1, InHandler
<1>3. /\ w \in ReqRecord /\ w.pc = "handler" /\ w.id = req[r].id /\ w.exp = req[r].exp /\ w.data = req[r].data
      /\ w.mod = req[r].mod /\ w.sent = req[r].sent /\ w.set \in Issued \cup {NoId, Keep}
      /\ ~saves => w = req[r]
      /\ saves => w.written
      /\ saves /\ ok => w.set = req[r].id /\ ~w.destroyed
  <2>1. CASE saves /\ ok
    <3>1. w = [Saved(req[r], TRUE) EXCEPT !.written = TRUE]
      BY <2>1
    <3>2. Saved(req[r], TRUE) \in ReqRecord
      BY <1>2, SavedFacts
    <3>3. /\ w \in ReqRecord /\ w.written /\ w.pc = Saved(req[r], TRUE).pc /\ w.id = Saved(req[r], TRUE).id
          /\ w.exp = Saved(req[r], TRUE).exp /\ w.data = Saved(req[r], TRUE).data /\ w.mod = Saved(req[r], TRUE).mod
          /\ w.sent = Saved(req[r], TRUE).sent /\ w.set = Saved(req[r], TRUE).set
          /\ w.destroyed = Saved(req[r], TRUE).destroyed
      BY <3>1, <3>2 DEF ReqRecord
    <3> HIDE DEF w
    <3>4. /\ w.pc = "handler" /\ w.id = req[r].id /\ w.exp = req[r].exp /\ w.data = req[r].data
          /\ w.mod = req[r].mod /\ w.sent = req[r].sent /\ w.set = req[r].id /\ w.destroyed = FALSE
      BY <1>1, <1>2, <3>3, SavedFacts
    <3> QED BY <1>2, <2>1, <3>3, <3>4
  <2>2. CASE saves /\ ~ok
    <3>1. w = [req[r] EXCEPT !.written = TRUE]
      BY <1>2, <2>2 DEF Saved
    <3>2. /\ w \in ReqRecord /\ w.written /\ w.pc = req[r].pc /\ w.id = req[r].id
          /\ w.exp = req[r].exp /\ w.data = req[r].data /\ w.mod = req[r].mod
          /\ w.sent = req[r].sent /\ w.set = req[r].set
      BY <1>2, <3>1 DEF ReqRecord
    <3> HIDE DEF w
    <3> QED BY <1>1, <1>2, <2>2, <3>2
  <2>3. CASE ~saves
    <3>1. w = req[r]
      BY <2>3
    <3> HIDE DEF w
    <3> QED BY <1>1, <1>2, <2>3, <3>1
  <2> QED BY <2>1, <2>2, <2>3
<1> HIDE DEF w
<1>4. /\ q \in ReqRecord /\ q.pc = w.pc /\ q.id = w.id /\ q.exp = w.exp /\ q.data = w.data /\ q.mod = w.mod
      /\ q.written = w.written /\ q.sent = TRUE /\ q.set = w.set /\ q.destroyed = w.destroyed
  BY <1>3 DEF ReqRecord
<1> HIDE DEF q
<1>5. req'[r] = q
  BY <1>1, <1>2 DEF RequestTypes
<1>6. spoiled' \in BOOLEAN /\ (~spoiled' => ~spoiled /\ ok)
  BY <1>1, <1>2 DEF StoreTypes
<1>7. StoreTypes'
  <2>1. jar' \in Issued \cup {NoId}
    BY <1>1, <1>2, <1>3, DeliveredTyped
  <2> HIDE DEF saves
  <2> QED BY <1>1, <1>2, <1>6, <2>1, StoreKeeps
<1>8. ASSUME ~spoiled', RequestSound(req[r]) PROVE RequestSound(req[r])'
  <2>1. CookieSound(req[r]) /\ StoreSound(req[r]) /\ ok
    BY <1>1, <1>6, <1>8 DEF RequestSound
  <2>t. /\ req[r].written \in BOOLEAN /\ req[r].sent \in BOOLEAN /\ req[r].destroyed \in BOOLEAN
        /\ req[r].mod \in BOOLEAN
    BY <1>2, FieldTypes
  <2>2. CASE saves
    <3>1. /\ q.set = req[r].id /\ ~q.destroyed /\ q.mod /\ q.written /\ q.sent /\ q.id = req[r].id
          /\ q.pc = "handler" /\ q.data = req[r].data /\ q.exp = req[r].exp
      BY <1>3, <1>4, <2>1, <2>2
    <3>2. jar' = (IF ~req[r].sent THEN req[r].id ELSE jar)
      BY <1>1, <1>2, <1>3, <1>4, <3>1 DEF Delivered
    <3>3. jar' = req[r].id
      BY <2>1, <2>2, <3>2, <2>t DEF CookieSound
    <3>4. CookieSound(req[r])'
      BY <1>5, <3>1, <3>3 DEF CookieSound
    <3>5. sessions' = Stored(req[r], TRUE)
      BY <1>1, <2>1, <2>2
    <3>6. /\ Kept(req[r].id, req[r].data, req[r].exp)'
          /\ req'[r].id \in DOMAIN sessions' => sessions'[req'[r].id].exp <= req'[r].exp
      <4>1. req[r].id \in DOMAIN sessions => sessions[req[r].id].exp <= req[r].exp
        BY <2>1 DEF StoreSound
      <4> QED BY <1>1, <1>2, <1>5, <3>1, <3>5, <4>1, StoredKept DEF Kept
    <3>7. StoreSound(req[r])'
      BY <1>5, <3>1, <3>6 DEF StoreSound
    <3> QED BY <1>5, <3>1, <3>4, <3>7 DEF RequestSound
  <2>3. CASE ~saves
    <3>1. w = req[r] /\ sessions' = sessions
      BY <1>1, <1>3, <2>3
    <3>2. jar' = (IF req[r].set # Keep /\ ~req[r].sent THEN req[r].set ELSE jar)
      BY <1>1, <3>1 DEF Delivered
    <3>3. CookieSound(req[r])'
      <4>1. ~req[r].written => ~req[r].mod
        BY <2>3, <2>t
      <4> QED BY <1>4, <1>5, <2>1, <3>1, <3>2, <4>1, <2>t, SessionAssumption DEF CookieSound
    <3>4. StoreSound(req[r])'
      BY <1>1, <1>4, <1>5, <2>1, <3>1 DEF StoreSound, Kept
    <3>5. q.pc = "handler"
      BY <1>3, <1>4
    <3> QED BY <1>5, <3>3, <3>4, <3>5 DEF RequestSound
  <2> QED BY <2>2, <2>3
<1>9. q.id \in 1 .. issued' /\ q.exp <= now + MaxAge /\ q.set \in (1 .. issued') \cup {NoId, Keep} /\ issued <= issued'
  BY <1>1, <1>2, <1>3, <1>4 DEF Issued
<1>10. q.pc # "idle" /\ q.pc # "load"
  BY <1>3, <1>4
<1> HIDE DEF saves
<1> QED BY <1>1, <1>2, <1>4, <1>6, <1>7, <1>8, <1>9, <1>10, RequestGoesOn

(* Destroy: the store forgets the id, the browser is told if it still can be. *)
LEMMA DestroyStep ==
    ASSUME SessionInv, NEW r \in Requests, NEW ok \in BOOLEAN, Destroy(r, ok)
    PROVE  SessionInv'
<1>1. /\ req[r].pc = "handler" /\ jar' = jar /\ now' = now /\ issued' = issued /\ left' = left
      /\ spoiled' = (spoiled \/ Unsaved(req[r]) \/ ~ok)
  BY DEF Destroy, Operates, Spoils
<1>2. /\ StoreTypes /\ RequestTypes /\ req[r] \in ReqRecord /\ req[r].pc # "idle"
      /\ issued \in Nat /\ now \in Nat /\ req[r].id \in Issued
      /\ req[r].exp \in Nat /\ req[r].exp <= now + MaxAge
  BY <1>1, InHandler
<1>3. spoiled' \in BOOLEAN /\ (~spoiled' => ~spoiled /\ ok)
  <2>1. spoiled \in BOOLEAN /\ req[r].mod \in BOOLEAN /\ req[r].written \in BOOLEAN
    BY <1>2, FieldTypes DEF StoreTypes
  <2> QED BY <1>1, <2>1 DEF Unsaved
<1>4. CASE ok
  <2> DEFINE q == [req[r] EXCEPT !.set = NoId, !.destroyed = TRUE]
  <2>1. sessions' = Without(req[r].id) /\ ended' \subseteq ended \cup {req[r].id} /\ req' = [req EXCEPT ![r] = q]
    BY <1>4 DEF Destroy
  <2>2. /\ q \in ReqRecord /\ q.pc = "handler" /\ q.id = req[r].id /\ q.exp = req[r].exp /\ q.set = NoId
        /\ q.destroyed = TRUE /\ q.mod = req[r].mod /\ q.written = req[r].written /\ q.sent = req[r].sent
    BY <1>1, <1>2 DEF ReqRecord
  <2> HIDE DEF q
  <2>3. req'[r] = q
    BY <1>2, <2>1 DEF RequestTypes
  <2>4. DOMAIN sessions' = DOMAIN sessions \ {req[r].id} /\ \A j \in DOMAIN sessions' : sessions'[j] = sessions[j]
    BY <2>1, WithoutFacts
  <2>5. StoreTypes'
    <3>1. Issued' = Issued
      BY <1>1 DEF Issued
    <3> QED BY <1>1, <1>2, <1>3, <2>1, <2>4, <3>1 DEF StoreTypes
  <2>6. ASSUME RequestSound(req[r]) PROVE RequestSound(req[r])'
    <3>1. CookieSound(req[r])
      BY <1>1, <2>6 DEF RequestSound
    <3>t. req[r].written \in BOOLEAN /\ req[r].sent \in BOOLEAN /\ req[r].destroyed \in BOOLEAN /\ req[r].mod \in BOOLEAN
      BY <1>2, FieldTypes
    <3>2. CookieSound(req[r])'
      BY <1>1, <2>2, <2>3, <3>1, <3>t DEF CookieSound
    <3>3. req'[r].id \notin DOMAIN sessions' /\ req'[r].destroyed
      BY <2>2, <2>3, <2>4
    <3>4. StoreSound(req[r])'
      BY <3>3 DEF StoreSound
    <3> QED BY <2>2, <2>3, <3>2, <3>4 DEF RequestSound
  <2>7. q.id \in 1 .. issued' /\ q.exp <= now + MaxAge /\ q.set \in (1 .. issued') \cup {NoId, Keep} /\ issued <= issued'
    BY <1>1, <1>2, <2>2 DEF Issued
  <2>8. q.pc # "idle" /\ q.pc # "load"
    BY <2>2
  <2> QED BY <1>1, <1>2, <1>3, <2>1, <2>2, <2>5, <2>6, <2>7, <2>8, RequestGoesOn
<1>5. CASE ~ok
  <2>1. sessions' = sessions /\ ended' = ended /\ req' = req
    BY <1>5 DEF Destroy
  <2>2. StoreTypes'
    BY <1>1, <1>2, <1>3, <2>1 DEF StoreTypes, Issued
  <2>3. RequestTypes'
    BY <1>1, <1>2, <2>1 DEF RequestTypes, Issued
  <2> QED BY <1>3, <1>5, <2>2, <2>3 DEF SessionInv
<1> QED BY <1>4, <1>5

(* Regenerate: the old id goes before the new one is stored. *)
LEMMA RegenerateStep ==
    ASSUME SessionInv, NEW r \in Requests, NEW ok \in BOOLEAN, Regenerate(r, ok)
    PROVE  SessionInv'
<1> DEFINE q == [req[r] EXCEPT !.pc = "regenerate", !.id = issued + 1, !.mod = TRUE]
<1>1. /\ req[r].pc = "handler" /\ jar' = jar /\ now' = now /\ issued' = issued + 1 /\ left' = left
      /\ issued < MaxIds /\ spoiled' = (spoiled \/ req[r].sent \/ ~ok) /\ req' = [req EXCEPT ![r] = q]
      /\ sessions' = (IF ok THEN Without(req[r].id) ELSE sessions)
      /\ ended' \subseteq ended \cup {req[r].id}
  BY DEF Regenerate, Operates, Spoils, Fresh
<1>2. /\ StoreTypes /\ RequestTypes /\ req[r] \in ReqRecord /\ req[r].pc # "idle"
      /\ issued \in Nat /\ now \in Nat /\ MaxIds \in Nat /\ req[r].id \in Issued
      /\ req[r].exp \in Nat /\ req[r].exp <= now + MaxAge /\ req[r].set \in Issued \cup {NoId, Keep}
  BY <1>1, InHandler
<1>3. issued + 1 \in Ids /\ Issued \subseteq 1 .. issued' /\ Issued' = 1 .. issued'
  BY <1>1, <1>2 DEF Ids, Issued
<1>4. /\ q \in ReqRecord /\ q.pc = "regenerate" /\ q.id = issued + 1 /\ q.exp = req[r].exp /\ q.set = req[r].set
      /\ q.mod = TRUE /\ q.written = req[r].written /\ q.sent = req[r].sent
  BY <1>1, <1>2, <1>3 DEF ReqRecord
<1> HIDE DEF q
<1>5. req'[r] = q
  BY <1>1, <1>2 DEF RequestTypes
<1>6. req[r].sent \in BOOLEAN /\ req[r].written \in BOOLEAN /\ spoiled \in BOOLEAN
  BY <1>2, FieldTypes DEF StoreTypes
<1>7. spoiled' \in BOOLEAN /\ (~spoiled' => ~spoiled /\ ok /\ ~req[r].sent)
  BY <1>1, <1>6
<1>8. DOMAIN sessions' \subseteq DOMAIN sessions /\ \A j \in DOMAIN sessions' : sessions'[j] = sessions[j]
  <2>1. CASE ok
    BY <1>1, <2>1, WithoutFacts
  <2>2. CASE ~ok
    BY <1>1, <2>2
  <2> QED BY <2>1, <2>2
<1>9. StoreTypes'
  <2>1. ended' \subseteq 1 .. issued' /\ DOMAIN sessions' \subseteq 1 .. issued' /\ jar' \in (1 .. issued') \cup {NoId}
    BY <1>1, <1>2, <1>3, <1>8 DEF StoreTypes
  <2>2. issued' \in {issued, issued + 1} /\ issued' <= MaxIds
    BY <1>1, <1>2
  <2> QED BY <1>1, <1>2, <1>7, <1>8, <2>1, <2>2, StoreMoves DEF StoreTypes
<1>10. ASSUME ~spoiled', RequestSound(req[r]) PROVE RequestSound(req[r])'
  <2>1. ~req[r].written
    BY <1>1, <1>6, <1>7, <1>10 DEF RequestSound, CookieSound
  <2>2. issued + 1 \notin DOMAIN sessions'
    BY <1>2, <1>8 DEF StoreTypes, Issued
  <2> QED BY <1>4, <1>5, <1>7, <1>10, <2>1, <2>2 DEF RequestSound
<1>11. q.id \in 1 .. issued' /\ q.exp <= now + MaxAge /\ q.set \in (1 .. issued') \cup {NoId, Keep} /\ issued <= issued'
  <2>1. q.id \in 1 .. issued' /\ issued <= issued'
    BY <1>1, <1>2, <1>4
  <2> QED BY <1>2, <1>3, <1>4, <2>1
<1>12. q.pc # "idle" /\ q.pc # "load"
  BY <1>4
<1> QED BY <1>1, <1>2, <1>4, <1>7, <1>9, <1>10, <1>11, <1>12, RequestGoesOn

(* Regenerate stores the session under its new id. *)
LEMMA RegenerateSaveStep ==
    ASSUME SessionInv, NEW r \in Requests, NEW ok \in BOOLEAN, RegenerateSave(r, ok)
    PROVE  SessionInv'
<1> DEFINE s == Saved(req[r], ok)
           q == [s EXCEPT !.pc = "handler"]
<1>1. /\ req[r].pc = "regenerate" /\ jar' = jar /\ now' = now /\ issued' = issued /\ left' = left
      /\ ended' = ended /\ spoiled' = (spoiled \/ FALSE \/ ~ok)
      /\ req' = [req EXCEPT ![r] = q] /\ sessions' = Stored(req[r], ok)
  BY DEF RegenerateSave, Spoils
<1>2. /\ StoreTypes /\ RequestTypes /\ req[r] \in ReqRecord /\ req[r].pc # "idle"
      /\ issued \in Nat /\ now \in Nat /\ req[r].id \in Issued /\ req[r].id \in Ids
      /\ req[r].exp \in Nat /\ req[r].exp <= now + MaxAge /\ req[r].set \in Issued \cup {NoId, Keep}
  BY <1>1, InHandler
<1>3. /\ s \in ReqRecord /\ s.id = req[r].id /\ s.exp = req[r].exp /\ s.set \in Issued \cup {NoId, Keep}
      /\ s.mod = req[r].mod /\ s.written = req[r].written /\ s.sent = req[r].sent
      /\ ok => ~s.destroyed
  <2>1. CASE ok
    <3>1. s = Saved(req[r], TRUE)
      BY <2>1
    <3> HIDE DEF s
    <3>2. s.set = req[r].id /\ s.destroyed = FALSE
      BY <1>2, <3>1, SavedFacts
    <3> QED BY <1>2, <3>1, <3>2, SavedFacts
  <2>2. CASE ~ok
    <3>1. s = req[r]
      BY <1>2, <2>2 DEF Saved
    <3> QED BY <1>2, <2>2, <3>1
  <2> QED BY <2>1, <2>2
<1> HIDE DEF s
<1>4. /\ q \in ReqRecord /\ q.pc = "handler" /\ q.id = s.id /\ q.exp = s.exp /\ q.set = s.set
      /\ q.mod = s.mod /\ q.written = s.written /\ q.sent = s.sent /\ q.destroyed = s.destroyed
  BY <1>3 DEF ReqRecord
<1> HIDE DEF q
<1>5. req'[r] = q
  BY <1>1, <1>2 DEF RequestTypes
<1>6. spoiled' \in BOOLEAN /\ (~spoiled' => ~spoiled /\ ok)
  BY <1>1, <1>2 DEF StoreTypes
<1>7. StoreTypes'
  <2>1. jar' \in Issued \cup {NoId}
    BY <1>1, <1>2 DEF StoreTypes
  <2> QED BY <1>1, <1>2, <1>6, <2>1, StoreKeeps
<1>8. ASSUME ~spoiled', RequestSound(req[r]) PROVE RequestSound(req[r])'
  <2>1. ~req[r].sent /\ ~req[r].written /\ req[r].mod /\ req[r].id \notin DOMAIN sessions
    BY <1>1, <1>8 DEF RequestSound
  <2>2. ~req'[r].sent /\ ~req'[r].written /\ req'[r].mod /\ ~req'[r].destroyed /\ req'[r].pc = "handler"
    BY <1>3, <1>4, <1>5, <1>6, <1>8, <2>1
  <2>3. CookieSound(req[r])'
    BY <2>2 DEF CookieSound
  <2>4. sessions' = Stored(req[r], TRUE)
    BY <1>1, <1>6, <1>8
  <2>5. req'[r].id \in DOMAIN sessions' => sessions'[req'[r].id].exp <= req'[r].exp
    BY <1>1, <1>2, <1>3, <1>4, <1>5, <2>1, <2>4, StoredKept
  <2>6. StoreSound(req[r])'
    BY <2>2, <2>5 DEF StoreSound
  <2> QED BY <2>2, <2>3, <2>6 DEF RequestSound
<1>9. q.id \in 1 .. issued' /\ q.exp <= now + MaxAge /\ q.set \in (1 .. issued') \cup {NoId, Keep} /\ issued <= issued'
  BY <1>1, <1>2, <1>3, <1>4 DEF Issued
<1>10. q.pc # "idle" /\ q.pc # "load"
  BY <1>4
<1> QED BY <1>1, <1>2, <1>4, <1>6, <1>7, <1>8, <1>9, <1>10, RequestGoesOn

(* Refresh stores the session with a later expiry. *)
LEMMA RefreshStep ==
    ASSUME SessionInv, NEW r \in Requests, NEW ok \in BOOLEAN, Refresh(r, ok)
    PROVE  SessionInv'
<1> DEFINE f == [req[r] EXCEPT !.exp = now + MaxAge, !.mod = TRUE]
           q == Saved(f, ok)
<1>1. /\ req[r].pc = "handler" /\ jar' = jar /\ now' = now /\ issued' = issued /\ left' = left
      /\ ended' \subseteq ended /\ spoiled' = (spoiled \/ req[r].destroyed \/ ~ok)
      /\ req' = [req EXCEPT ![r] = q] /\ sessions' = Stored(f, ok)
  BY DEF Refresh, Operates, Spoils, TakesUp
<1>2. /\ StoreTypes /\ RequestTypes /\ req[r] \in ReqRecord /\ req[r].pc # "idle"
      /\ issued \in Nat /\ now \in Nat /\ MaxAge \in Nat /\ req[r].id \in Issued /\ req[r].id \in Ids
      /\ req[r].set \in Issued \cup {NoId, Keep}
  BY <1>1, InHandler
<1>3. now + MaxAge \in Nat
  BY <1>2
<1>4. /\ f \in ReqRecord /\ f.pc = "handler" /\ f.id = req[r].id /\ f.exp = now + MaxAge
      /\ f.set = req[r].set /\ f.mod = TRUE /\ f.written = req[r].written /\ f.sent = req[r].sent
  BY <1>1, <1>2, <1>3 DEF ReqRecord
<1> HIDE DEF f
<1>5. /\ q \in ReqRecord /\ q.pc = "handler" /\ q.id = req[r].id /\ q.exp = now + MaxAge /\ q.data = f.data
      /\ q.set \in Issued \cup {NoId, Keep}
      /\ q.mod = TRUE /\ q.written = req[r].written /\ q.sent = req[r].sent /\ (ok => ~q.destroyed)
  <2>1. CASE ok
    <3>1. q = Saved(f, TRUE)
      BY <2>1
    <3> HIDE DEF q
    <3>2. q.set = f.id /\ q.destroyed = FALSE
      BY <1>2, <1>4, <3>1, SavedFacts
    <3> QED BY <1>2, <1>4, <3>1, <3>2, SavedFacts
  <2>2. CASE ~ok
    <3>1. q = f
      BY <1>2, <1>4, <2>2 DEF Saved
    <3> QED BY <1>2, <1>4, <2>2, <3>1
  <2> QED BY <2>1, <2>2
<1> HIDE DEF q
<1>6. req'[r] = q
  BY <1>1, <1>2 DEF RequestTypes
<1>7. req[r].sent \in BOOLEAN /\ req[r].destroyed \in BOOLEAN /\ req[r].written \in BOOLEAN /\ spoiled \in BOOLEAN
  BY <1>2, FieldTypes DEF StoreTypes
<1>8. spoiled' \in BOOLEAN /\ (~spoiled' => ~spoiled /\ ok /\ ~req[r].destroyed)
  BY <1>1, <1>7
<1>9. f.id \in Issued /\ f.exp <= now + MaxAge
  BY <1>2, <1>3, <1>4
<1>10. StoreTypes'
  <2>1. jar' \in Issued \cup {NoId}
    BY <1>1, <1>2 DEF StoreTypes
  <2> QED BY <1>1, <1>2, <1>4, <1>8, <1>9, <2>1, StoreKeeps
<1>11. ASSUME ~spoiled', RequestSound(req[r]) PROVE RequestSound(req[r])'
  <2>1. CookieSound(req[r]) /\ ok /\ ~req[r].destroyed
    BY <1>1, <1>8, <1>11 DEF RequestSound
  <2>2. CookieSound(req[r])'
    BY <1>1, <1>5, <1>6, <1>7, <2>1 DEF CookieSound
  <2>3. sessions' = Stored(f, TRUE)
    BY <1>1, <2>1
  <2>4. f.id \in DOMAIN sessions => sessions[f.id].exp <= f.exp
    BY <1>2, <1>4 DEF StoreTypes
  <2>5. /\ Kept(req[r].id, req[r].data, req[r].exp)'
        /\ req'[r].id \in DOMAIN sessions' => sessions'[req'[r].id].exp <= req'[r].exp
    <3>1. req'[r].id = f.id /\ req'[r].data = f.data /\ req'[r].exp = f.exp
      BY <1>4, <1>5, <1>6
    <3>2. PICK p \in ReqRecord : p = f
      BY <1>4
    <3>3. sessions' = Stored(p, TRUE) /\ (p.id \in DOMAIN sessions => sessions[p.id].exp <= p.exp)
      BY <2>3, <2>4, <3>2
    <3>4. Kept(p.id, p.data, p.exp)' /\ (p.id \in DOMAIN sessions' => sessions'[p.id].exp <= p.exp)
      BY ONLY <1>1, <1>2, <3>3, StoredKept
    <3> QED BY ONLY <3>1, <3>2, <3>4 DEF Kept
  <2>6. StoreSound(req[r])'
    BY <1>5, <1>6, <2>1, <2>5 DEF StoreSound
  <2> QED BY <1>5, <1>6, <2>2, <2>6 DEF RequestSound
<1>12. q.id \in 1 .. issued' /\ q.exp <= now + MaxAge /\ q.set \in (1 .. issued') \cup {NoId, Keep} /\ issued <= issued'
  BY <1>1, <1>2, <1>3, <1>5 DEF Issued
<1>13. q.pc # "idle" /\ q.pc # "load"
  BY <1>5
<1> QED BY <1>1, <1>2, <1>5, <1>8, <1>10, <1>11, <1>12, <1>13, RequestGoesOn

(* The middleware saves what was not written: from then on the next request
   finds it. *)
LEMMA ReturnStep ==
    ASSUME SessionInv, NEW r \in Requests, NEW ok \in BOOLEAN, Return(r, ok)
    PROVE  SessionInv'
<1> DEFINE saves == ~req[r].written /\ req[r].mod
           q == IF saves THEN Saved(req[r], ok) ELSE req[r]
<1>1. /\ req[r].pc = "handler" /\ now' = now /\ issued' = issued /\ ended' = ended
      /\ spoiled' = (spoiled \/ FALSE \/ ~ok) /\ jar' = Delivered(q)
      /\ sessions' = (IF saves THEN Stored(req[r], ok) ELSE sessions)
      /\ left' = (IF q.destroyed THEN Gone ELSE [data |-> q.data, exp |-> q.exp])
      /\ req' = [req EXCEPT ![r] = Idle]
  BY DEF Return, Spoils
<1>2. /\ StoreTypes /\ RequestTypes /\ req[r] \in ReqRecord /\ req[r].pc # "idle"
      /\ issued \in Nat /\ now \in Nat /\ MaxAge \in Nat /\ req[r].id \in Issued /\ req[r].id \in Ids
      /\ req[r].id # Keep /\ req[r].exp \in Nat /\ req[r].exp <= now + MaxAge /\ req[r].data \subseteq Keys
      /\ req[r].set \in Issued \cup {NoId, Keep}
  BY <1>1, InHandler
<1>3. /\ q.exp = req[r].exp /\ q.data = req[r].data /\ q.sent = req[r].sent
      /\ q.set \in Issued \cup {NoId, Keep}
      /\ ~saves => q = req[r]
      /\ saves /\ ok => q.set = req[r].id /\ q.destroyed = FALSE
  <2>1. CASE saves /\ ok
    <3>1. q = Saved(req[r], TRUE)
      BY <2>1
    <3> HIDE DEF q
    <3>2. q.set = req[r].id /\ q.destroyed = FALSE /\ q.exp = req[r].exp /\ q.data = req[r].data /\ q.sent = req[r].sent
      BY <1>2, <3>1, SavedFacts
    <3> QED BY <1>2, <2>1, <3>2
  <2>2. CASE ~(saves /\ ok)
    <3>1. q = req[r]
      BY <2>2 DEF Saved
    <3> HIDE DEF q, saves
    <3> QED BY <1>2, <2>2, <3>1
  <2> QED BY <2>1, <2>2
<1> HIDE DEF q
<1>4. left'.data \subseteq Keys /\ left'.exp \in Nat
  <2>1. CASE q.destroyed
    BY <1>1, <2>1 DEF Gone
  <2>2. CASE ~q.destroyed
    BY <1>1, <1>2, <1>3, <2>2
  <2> QED BY <2>1, <2>2
<1>5. spoiled' \in BOOLEAN /\ (~spoiled' => ~spoiled /\ ok)
  BY <1>1, <1>2 DEF StoreTypes
<1>6. jar' \in Issued \cup {NoId}
  BY <1>1, <1>2, <1>3, DeliveredTyped
<1>7. StoreTypes'
  <2>1. /\ DOMAIN sessions' \subseteq Issued
        /\ \A i \in DOMAIN sessions' : /\ sessions'[i].data \subseteq Keys /\ sessions'[i].exp \in Nat
                                       /\ sessions'[i].exp <= now + MaxAge
    <3>1. CASE saves
      <4>1. sessions' = Stored(req[r], ok)
        BY <1>1, <3>1
      <4> QED BY <1>2, <4>1, StoredTypes
    <3>2. CASE ~saves
      <4>1. sessions' = sessions
        BY <1>1, <3>2
      <4> QED BY <1>2, <4>1 DEF StoreTypes
    <3> QED BY <3>1, <3>2
  <2>2. Issued' = Issued
    BY <1>1 DEF Issued
  <2> HIDE DEF saves
  <2> QED BY <1>1, <1>2, <1>4, <1>5, <1>6, <2>1, <2>2 DEF StoreTypes
<1>8. Idle \in ReqRecord /\ Idle.pc = "idle" /\ Idle.set = Keep
  BY DEF Idle, ReqRecord
<1>9. RequestTypes'
  <2>1. issued' \in Nat /\ issued <= issued'
    BY <1>1, <1>2
  <2>2. Idle.set \in (1 .. issued') \cup {NoId, Keep}
    BY <1>8
  <2>3. Idle.pc \notin {"check", "handler", "regenerate", "load"}
    BY <1>8
  <2> QED BY <1>1, <1>2, <1>8, <2>1, <2>2, <2>3, RequestMoves
<1>10. ASSUME ~spoiled' PROVE Sequential'
  <2>1. ok /\ Sequential
    BY <1>5, <1>10 DEF SessionInv
  <2>2. CookieSound(req[r]) /\ StoreSound(req[r])
    BY <1>1, <2>1 DEF Sequential, RequestSound
  <2>3. \A s \in Requests : req'[s].pc = "idle"
    <3>1. \A s \in Requests \ {r} : req[s].pc = "idle"
      BY <1>2, <2>1 DEF Sequential, Busy
    <3> QED BY <1>1, <1>2, <1>8, <3>1 DEF RequestTypes
  <2>4. Busy' = {} /\ \A s \in Requests : RequestSound(req[s])'
    BY <2>3 DEF Busy, RequestSound
  <2>5. req[r].written \in BOOLEAN /\ req[r].sent \in BOOLEAN /\ req[r].destroyed \in BOOLEAN /\ req[r].mod \in BOOLEAN
    BY <1>2, FieldTypes
  <2>6. Kept(jar, left.data, left.exp)'
    <3>1. CASE saves
      <4>1. ~q.destroyed /\ left'.data = req[r].data /\ left'.exp = req[r].exp
        BY <1>1, <1>3, <2>1, <3>1
      <4>2. jar' = (IF ~req[r].sent THEN req[r].id ELSE jar)
        BY <1>1, <1>2, <1>3, <2>1, <3>1 DEF Delivered
      <4>3. jar' = req[r].id
        BY <2>2, <2>5, <3>1, <4>2 DEF CookieSound
      <4>4. PICK p \in ReqRecord : p = req[r]
        BY <1>2
      <4>5. sessions' = Stored(p, TRUE) /\ (p.id \in DOMAIN sessions => sessions[p.id].exp <= p.exp)
        BY <1>1, <2>1, <2>2, <3>1, <4>4 DEF StoreSound
      <4>6. Kept(p.id, p.data, p.exp)'
        BY ONLY <1>1, <1>2, <4>5, StoredKept
      <4> QED BY ONLY <4>1, <4>3, <4>4, <4>6 DEF Kept
    <3>2. CASE ~saves
      <4>1. q = req[r] /\ sessions' = sessions
        BY <1>1, <1>3, <3>2
      <4>2. jar' = (IF req[r].set # Keep /\ ~req[r].sent THEN req[r].set ELSE jar)
        BY <1>1, <4>1 DEF Delivered
      <4>3. CASE req[r].destroyed
        <5>1. left'.data = {} /\ left'.exp = 0
          BY <1>1, <4>1, <4>3 DEF Gone
        <5>2. jar' \in {req[r].id, NoId}
          BY <2>2, <2>5, <4>2, <4>3, SessionAssumption DEF CookieSound
        <5>3. jar' \notin DOMAIN sessions'
          BY <1>2, <2>2, <4>1, <4>3, <5>2, SessionAssumption DEF StoreSound, StoreTypes, Issued, Ids
        <5> QED BY ONLY <5>1, <5>3 DEF Kept
      <4>4. CASE ~req[r].destroyed
        <5>1. left'.data = req[r].data /\ left'.exp = req[r].exp
          BY <1>1, <4>1, <4>4
        <5>2. jar' = req[r].id /\ (req[r].written \/ ~req[r].mod)
          BY <2>2, <2>5, <3>2, <4>2, <4>4 DEF CookieSound
        <5>3. Kept(req[r].id, req[r].data, req[r].exp)
          BY <2>2, <4>4, <5>2 DEF StoreSound
        <5> QED BY ONLY <1>1, <4>1, <5>1, <5>2, <5>3 DEF Kept
      <4> QED BY <2>5, <4>3, <4>4
    <3> QED BY <3>1, <3>2
  <2> QED BY <2>4, <2>6 DEF Sequential
<1> QED BY <1>7, <1>9, <1>10 DEF SessionInv

(* Time passing, and expired sessions going, take nothing that is still due. *)
LEMMA KeptLater ==
    ASSUME StoreTypes, now' \in Nat, now <= now', DOMAIN sessions' \subseteq DOMAIN sessions,
           \A i \in DOMAIN sessions' : sessions'[i] = sessions[i],
           \A i \in DOMAIN sessions \ DOMAIN sessions' : sessions[i].exp <= now',
           NEW i, NEW d, NEW e \in Nat, Kept(i, d, e)
    PROVE  Kept(i, d, e)'
<1>1. now \in Nat /\ (i \in DOMAIN sessions => sessions[i].exp \in Nat)
  BY DEF StoreTypes
<1>2. CASE i \in DOMAIN sessions'
  <2>1. i \in DOMAIN sessions /\ sessions'[i] = sessions[i]
    BY <1>2
  <2> QED BY <1>1, <1>2, <2>1 DEF Kept
<1>3. CASE i \notin DOMAIN sessions' /\ i \in DOMAIN sessions
  <2>1. sessions[i].exp <= now'
    BY <1>3
  <2>2. now >= e \/ sessions[i].exp = e
    BY <1>3 DEF Kept
  <2>3. now' >= e
    BY <1>1, <1>3, <2>1, <2>2
  <2> QED BY ONLY <1>3, <2>3 DEF Kept
<1>4. CASE i \notin DOMAIN sessions
  BY <1>1, <1>4 DEF Kept
<1> QED BY <1>2, <1>3, <1>4

(* A tick, or the removal of expired sessions. *)
LEMMA TimeStep ==
    ASSUME SessionInv, now' \in Nat, now <= now', DOMAIN sessions' \subseteq DOMAIN sessions,
           \A i \in DOMAIN sessions' : sessions'[i] = sessions[i],
           \A i \in DOMAIN sessions \ DOMAIN sessions' : sessions[i].exp <= now',
           UNCHANGED <<jar, req, issued, ended, left, spoiled>>
    PROVE  SessionInv'
<1> USE SessionAssumption
<1>1. StoreTypes /\ RequestTypes /\ Issued' = Issued /\ now \in Nat
  BY DEF SessionInv, StoreTypes, Issued
<1>2. StoreTypes'
  BY <1>1 DEF StoreTypes
<1>3. RequestTypes'
  <2>1. \A r \in Requests : req[r].exp \in Nat
    BY <1>1, FieldTypes
  <2> QED BY <1>1, <2>1 DEF RequestTypes
<1>4. ASSUME ~spoiled PROVE Sequential'
  <2>1. Sequential /\ Busy' = Busy
    BY <1>4 DEF SessionInv, Busy
  <2>2. Busy = {} => Kept(jar, left.data, left.exp)'
    <3> SUFFICES ASSUME Busy = {} PROVE Kept(jar, left.data, left.exp)'
      OBVIOUS
    <3>1. PICK i, d, e : i = jar /\ d = left.data /\ e = left.exp
      OBVIOUS
    <3>2. Kept(i, d, e) /\ e \in Nat
      BY <1>1, <2>1, <3>1 DEF Sequential, StoreTypes
    <3>3. Kept(i, d, e)'
      BY ONLY <1>1, <3>2, KeptLater, SessionInv, now' \in Nat, now <= now', DOMAIN sessions' \subseteq DOMAIN sessions,
              \A j \in DOMAIN sessions' : sessions'[j] = sessions[j],
              \A j \in DOMAIN sessions \ DOMAIN sessions' : sessions[j].exp <= now'
    <3> QED BY ONLY <3>1, <3>3, UNCHANGED <<jar, left>> DEF Kept
  <2>3. ASSUME NEW r \in Requests PROVE RequestSound(req[r])'
    <3>0. RequestSound(req[r]) /\ req'[r] = req[r]
      BY <2>1 DEF Sequential
    <3>1. PICK i, d, e : i = req[r].id /\ d = req[r].data /\ e = req[r].exp
      OBVIOUS
    <3>2. e \in Nat
      BY <1>1, <3>1, FieldTypes
    <3>3. Kept(i, d, e) => Kept(i, d, e)'
      BY ONLY <1>1, <3>2, KeptLater, now' \in Nat, now <= now', DOMAIN sessions' \subseteq DOMAIN sessions,
              \A j \in DOMAIN sessions' : sessions'[j] = sessions[j],
              \A j \in DOMAIN sessions \ DOMAIN sessions' : sessions[j].exp <= now'
    <3>4. Kept(req[r].id, req[r].data, req[r].exp) => Kept(req[r].id, req[r].data, req[r].exp)'
      BY ONLY <3>0, <3>1, <3>3 DEF Kept
    <3>5. StoreSound(req[r]) => StoreSound(req[r])'
      BY <3>0, <3>4 DEF StoreSound
    <3>6. CookieSound(req[r]) => CookieSound(req[r])'
      BY <3>0 DEF CookieSound
    <3> QED BY <3>0, <3>5, <3>6 DEF RequestSound, Untouched
  <2> QED BY <2>1, <2>2, <2>3 DEF Sequential
<1> QED BY <1>2, <1>3, <1>4 DEF SessionInv

(* Every step of requests, handlers, stores and time keeps SessionInv. *)
LEMMA SessionStep == SessionInv /\ [SessionNext]_sessionVars => SessionInv'
<1> SUFFICES ASSUME SessionInv, [SessionNext]_sessionVars PROVE SessionInv'
  OBVIOUS
<1>0. now \in Nat
  BY DEF SessionInv, StoreTypes
<1>1. ASSUME NEW r \in Requests, Arrive(r) PROVE SessionInv'
  BY <1>1, ArriveStep
<1>2. ASSUME NEW r \in Requests, Check(r) PROVE SessionInv'
  BY <1>2, CheckStep
<1>3. ASSUME NEW r \in Requests, Clear(r) \/ \E k \in Keys : Set(r, k) \/ Delete(r, k) PROVE SessionInv'
  <2>1. req[r].data \subseteq Keys
    BY FieldTypes DEF SessionInv
  <2>2. PICK d \in SUBSET Keys : Change(r, d)
    BY <1>3, <2>1 DEF Clear, Set, Delete
  <2> QED BY <2>2, ChangeStep
<1>4. ASSUME NEW r \in Requests, NEW ok \in BOOLEAN, Load(r, ok) PROVE SessionInv'
  BY <1>4, LoadStep
<1>5. ASSUME NEW r \in Requests, NEW ok \in BOOLEAN, Write(r, ok) PROVE SessionInv'
  BY <1>5, WriteStep
<1>6. ASSUME NEW r \in Requests, NEW ok \in BOOLEAN, Destroy(r, ok) PROVE SessionInv'
  BY <1>6, DestroyStep
<1>7. ASSUME NEW r \in Requests, NEW ok \in BOOLEAN, Refresh(r, ok) PROVE SessionInv'
  BY <1>7, RefreshStep
<1>8. ASSUME NEW r \in Requests, NEW ok \in BOOLEAN, Regenerate(r, ok) PROVE SessionInv'
  BY <1>8, RegenerateStep
<1>9. ASSUME NEW r \in Requests, NEW ok \in BOOLEAN, RegenerateSave(r, ok) PROVE SessionInv'
  BY <1>9, RegenerateSaveStep
<1>10. ASSUME NEW r \in Requests, NEW ok \in BOOLEAN, Return(r, ok) PROVE SessionInv'
  BY <1>10, ReturnStep
<1>11. CASE SessionTick
  <2>1. now' \in Nat /\ now <= now' /\ sessions' = sessions /\ UNCHANGED <<jar, req, issued, ended, left, spoiled>>
    BY <1>0, <1>11 DEF SessionTick
  <2> QED BY <2>1, TimeStep
<1>12. CASE removeExpired
  <2>1. /\ now' = now /\ UNCHANGED <<jar, req, issued, ended, left, spoiled>>
        /\ sessions' = [i \in {j \in DOMAIN sessions : ~Expired(sessions[j].exp)} |-> sessions[i]]
    BY <1>12 DEF removeExpired
  <2>2. /\ DOMAIN sessions' \subseteq DOMAIN sessions /\ \A i \in DOMAIN sessions' : sessions'[i] = sessions[i]
        /\ \A i \in DOMAIN sessions \ DOMAIN sessions' : now > sessions[i].exp
    BY <2>1 DEF Expired
  <2>3. \A i \in DOMAIN sessions \ DOMAIN sessions' : sessions[i].exp <= now'
    BY <1>0, <2>1, <2>2 DEF SessionInv, StoreTypes
  <2>4. now' \in Nat /\ now <= now'
    BY <1>0, <2>1
  <2> QED BY <2>1, <2>2, <2>3, <2>4, TimeStep
<1>13. CASE UNCHANGED sessionVars
  BY <1>0, <1>13, TimeStep DEF sessionVars
<1> QED BY <1>1, <1>2, <1>3, <1>4, <1>5, <1>6, <1>7, <1>8, <1>9, <1>10, <1>11, <1>12, <1>13 DEF SessionNext

(* An id that was ended for good is not stored, and a request that still holds it
   has destroyed it and has nothing to save. *)
Finished(q) == q.pc = "handler" /\ q.destroyed /\ ~Unsaved(q)
Apart == \A i \in ended : i \notin DOMAIN sessions /\ \A s \in Requests : Holds(s, i) => Finished(req[s])

(* A step of request r stores no ended id and takes none up. *)
LEMMA NothingRevived ==
    ASSUME Apart, NEW r \in Requests, \A s \in Requests \ {r} : req'[s] = req[s],
           \A i \in ended' : /\ i \in ended \/ \A s \in Requests \ {r} : ~Holds(s, i)
                             /\ i \notin DOMAIN sessions'
                             /\ req'[r].pc # "idle" /\ req'[r].id = i => Finished(req'[r])
    PROVE  Apart'
<1> SUFFICES ASSUME NEW i \in ended' PROVE i \notin DOMAIN sessions' /\ \A s \in Requests : Holds(s, i)' => Finished(req[s])'
  BY DEF Apart
<1>1. Holds(r, i)' => Finished(req[r])'
  BY DEF Holds, Finished, Unsaved
<1>2. ASSUME NEW s \in Requests \ {r}, Holds(s, i)' PROVE Finished(req[s])'
  <2>1. Holds(s, i) /\ req'[s] = req[s]
    BY <1>2 DEF Holds
  <2>2. i \in ended
    BY <2>1
  <2>3. Finished(req[s])
    BY <2>1, <2>2 DEF Apart
  <2> QED BY <2>1, <2>3 DEF Finished, Unsaved
<1> QED BY <1>1, <1>2

(* What Save does to the set of stored ids. *)
LEMMA StoredDomain ==
    ASSUME NEW q, NEW ok
    PROVE  DOMAIN Stored(q, ok) \subseteq DOMAIN sessions \cup {q.id}
BY DEF Stored, Put

(* No step takes up an ended id. *)
LEMMA EndedStep == SessionInv /\ Apart /\ [SessionNext]_sessionVars => Apart'
<1> SUFFICES ASSUME SessionInv, Apart, [SessionNext]_sessionVars PROVE Apart'
  OBVIOUS
<1>0. req \in [Requests -> ReqRecord] /\ \A i \in ended : i # NoId /\ i # issued + 1
  <2>1. \A i \in ended : i \in Issued
    BY DEF SessionInv, StoreTypes
  <2>2. issued \in Nat /\ \A i \in Issued : i \in Ids
    BY SessionAssumption DEF SessionInv, StoreTypes, Issued, Ids
  <2>3. \A i \in Issued : i # issued + 1
    BY <2>2 DEF Issued
  <2> QED BY <2>1, <2>2, <2>3, SessionAssumption DEF SessionInv, RequestTypes
<1>00. ASSUME NEW r \in Requests, req[r].pc # "idle", ~Finished(req[r]) PROVE req[r].id \notin ended
  BY <1>00 DEF Apart, Holds
<1>1. ASSUME NEW r \in Requests, Arrive(r) PROVE Apart'
  <2>1. /\ \A s \in Requests \ {r} : req'[s] = req[s]
        /\ sessions' = sessions /\ ended' = ended
        /\ req'[r] = (IF jar = NoId THEN New(Idle) ELSE [Idle EXCEPT !.pc = "load", !.cookie = jar])
    BY <1>0, <1>1 DEF Arrive
  <2>2. New(Idle).id = issued + 1 /\ [Idle EXCEPT !.pc = "load", !.cookie = jar].id = NoId
    BY DEF New, Idle, Fresh
  <2>3. req'[r].id \in {NoId, issued + 1}
    BY <2>1, <2>2
  <2>4. req'[r].id \notin ended
    BY <1>0, <2>3
  <2> QED BY <2>1, <2>4, NothingRevived DEF Apart
<1>2. ASSUME NEW r \in Requests, Check(r) PROVE Apart'
  <2>1. DOMAIN sessions' \subseteq DOMAIN sessions
    <3>1. sessions' = sessions \/ sessions' = Without(req[r].cookie)
      BY <1>2 DEF Check
    <3> QED BY <3>1, WithoutFacts
  <2>2. /\ \A s \in Requests \ {r} : req'[s] = req[s]
        /\ req[r].pc = "check" /\ (req'[r].id = req[r].id \/ req'[r].id = issued + 1) /\ ended' = ended
    BY <1>0, <1>2 DEF Check, New, Fresh, ReqRecord
  <2>3. req'[r].id \notin ended
    BY <1>0, <1>00, <2>2 DEF Finished
  <2> QED BY <2>1, <2>2, <2>3, NothingRevived DEF Apart
<1>3. ASSUME NEW r \in Requests, Clear(r) \/ \E k \in Keys : Set(r, k) \/ Delete(r, k) PROVE Apart'
  <2>1. PICK d : Change(r, d)
    BY <1>3 DEF Clear, Set, Delete
  <2>2. /\ \A s \in Requests \ {r} : req'[s] = req[s]
        /\ sessions' = sessions /\ req[r].pc # "idle" /\ req'[r].id = req[r].id
        /\ ended' = (IF req[r].destroyed THEN ended \ {req[r].id} ELSE ended)
    BY <1>0, <2>1 DEF Change, Operates, ReqRecord, TakesUp
  <2>3. req'[r].id \notin ended' /\ ended' \subseteq ended
    BY <1>00, <2>2 DEF Finished
  <2> QED BY <2>2, <2>3, NothingRevived DEF Apart
<1>4. ASSUME NEW r \in Requests, NEW ok \in BOOLEAN, Load(r, ok) PROVE Apart'
  <2>1. /\ \A s \in Requests \ {r} : req'[s] = req[s]
        /\ sessions' = sessions /\ req'[r].id \in DOMAIN sessions \cup {issued + 1} /\ ended' = ended
    BY <1>0, <1>4 DEF Load, New, Fresh, ReqRecord
  <2>2. req'[r].id \notin ended
    BY <1>0, <2>1 DEF Apart
  <2> QED BY <2>1, <2>2, NothingRevived DEF Apart
<1>5. ASSUME NEW r \in Requests, NEW ok \in BOOLEAN, Write(r, ok) PROVE Apart'
  <2>1. /\ \A s \in Requests \ {r} : req'[s] = req[s]
        /\ req[r].pc = "handler" /\ req'[r].id = req[r].id /\ ended' = ended
    BY <1>0, <1>5 DEF Write, Operates, Saved, ReqRecord
  <2>2. CASE Unsaved(req[r])
    <3>1. sessions' = Stored(req[r], ok)
      BY <1>5, <2>2 DEF Write, Unsaved
    <3>2. DOMAIN sessions' \subseteq DOMAIN sessions \cup {req[r].id}
      BY <3>1, StoredDomain
    <3>3. req[r].id \notin ended
      BY <1>00, <2>1, <2>2 DEF Finished
    <3>4. \A i \in ended : i \notin DOMAIN sessions' /\ i # req'[r].id
      BY <2>1, <3>2, <3>3 DEF Apart
    <3> QED BY <2>1, <3>4, NothingRevived
  <2>3. CASE ~Unsaved(req[r])
    <3>1. sessions' = sessions /\ req'[r] = [req[r] EXCEPT !.sent = TRUE]
      BY <1>0, <1>5, <2>3 DEF Write, Unsaved
    <3>2. /\ req'[r].pc = req[r].pc /\ req'[r].destroyed = req[r].destroyed
          /\ req'[r].mod = req[r].mod /\ req'[r].written = req[r].written
      BY <1>0, <3>1 DEF ReqRecord
    <3>3. ASSUME req[r].id \in ended PROVE Finished(req'[r])
      <4>1. Finished(req[r])
        BY <1>00, <2>1, <3>3
      <4> QED BY <3>2, <4>1 DEF Finished, Unsaved
    <3>4. \A i \in ended : i \notin DOMAIN sessions'
      BY <3>1 DEF Apart
    <3>5. \A i \in ended : req'[r].id = i => Finished(req'[r])
      BY <2>1, <3>3
    <3> QED BY <2>1, <3>4, <3>5, NothingRevived
  <2> QED BY <2>2, <2>3
<1>6. ASSUME NEW r \in Requests, NEW ok \in BOOLEAN, Destroy(r, ok) PROVE Apart'
  <2>1. CASE ok
    <3>1. /\ sessions' = Without(req[r].id) /\ req[r].pc = "handler"
          /\ req' = [req EXCEPT ![r] = [req[r] EXCEPT !.set = NoId, !.destroyed = TRUE]]
          /\ ended' = ended \/ (ended' = ended \cup {req[r].id} /\ Alone(r) /\ ~Unsaved(req[r]))
      BY <1>6, <2>1 DEF Destroy, Operates
    <3>2. /\ \A s \in Requests \ {r} : req'[s] = req[s]
          /\ req'[r].pc = "handler" /\ req'[r].id = req[r].id /\ req'[r].destroyed
          /\ req'[r].mod = req[r].mod /\ req'[r].written = req[r].written
      BY <1>0, <3>1 DEF ReqRecord
    <3>3. DOMAIN sessions' = DOMAIN sessions \ {req[r].id}
      BY <3>1, WithoutFacts
    <3>4. ASSUME req[r].id \in ended' PROVE Finished(req'[r])
      <4>1. ~Unsaved(req[r])
        BY <1>00, <3>1, <3>4 DEF Finished
      <4> QED BY <3>2, <4>1 DEF Finished, Unsaved
    <3>5. \A i \in ended' : i \in ended \/ \A s \in Requests \ {r} : ~Holds(s, i)
      BY <3>1 DEF Alone
    <3>6. \A i \in ended' : i \notin DOMAIN sessions'
      BY <3>1, <3>3 DEF Apart
    <3> QED BY <3>2, <3>4, <3>5, <3>6, NothingRevived
  <2>2. CASE ~ok
    BY <1>6, <2>2 DEF Destroy, Apart, Holds, Finished, Unsaved
  <2> QED BY <2>1, <2>2
<1>7. ASSUME NEW r \in Requests, NEW ok \in BOOLEAN, Refresh(r, ok) PROVE Apart'
  <2> DEFINE f == [req[r] EXCEPT !.exp = now + MaxAge, !.mod = TRUE]
  <2>1. /\ \A s \in Requests \ {r} : req'[s] = req[s]
        /\ req[r].pc # "idle" /\ req'[r].id = req[r].id /\ f.id = req[r].id
        /\ ended' = (IF req[r].destroyed THEN ended \ {req[r].id} ELSE ended)
    BY <1>0, <1>7 DEF Refresh, Operates, Saved, ReqRecord, TakesUp
  <2>2. sessions' = Stored(f, ok)
    BY <1>7 DEF Refresh
  <2> HIDE DEF f
  <2>3. DOMAIN sessions' \subseteq DOMAIN sessions \cup {req[r].id}
    BY <2>1, <2>2, StoredDomain
  <2>4. req[r].id \notin ended' /\ ended' \subseteq ended
    BY <1>00, <2>1 DEF Finished
  <2> QED BY <2>1, <2>3, <2>4, NothingRevived DEF Apart
<1>8. ASSUME NEW r \in Requests, NEW ok \in BOOLEAN, Regenerate(r, ok) PROVE Apart'
  <2>1. /\ \A s \in Requests \ {r} : req'[s] = req[s]
        /\ req'[r].id = issued + 1 /\ req[r].pc = "handler" /\ req[r].id \in Issued
    BY <1>0, <1>8, InHandler DEF Regenerate, Operates, Fresh, ReqRecord
  <2>2. req[r].id # issued + 1
    BY <2>1 DEF Issued, SessionInv, StoreTypes
  <2>3. CASE ok
    <3>1. sessions' = Without(req[r].id) /\ (ended' = ended \/ (ended' = ended \cup {req[r].id} /\ Alone(r)))
      BY <1>8, <2>3 DEF Regenerate
    <3>2. DOMAIN sessions' = DOMAIN sessions \ {req[r].id}
      BY <3>1, WithoutFacts
    <3>3. \A i \in ended' : i \in ended \/ \A s \in Requests \ {r} : ~Holds(s, i)
      BY <3>1 DEF Alone
    <3>4. \A i \in ended' : i \notin DOMAIN sessions' /\ i # req'[r].id
      BY <1>0, <2>1, <2>2, <3>1, <3>2 DEF Apart
    <3> QED BY <2>1, <3>3, <3>4, NothingRevived
  <2>4. CASE ~ok
    <3>1. sessions' = sessions /\ ended' = ended
      BY <1>8, <2>4 DEF Regenerate
    <3> QED BY <1>0, <2>1, <3>1, NothingRevived DEF Apart
  <2> QED BY <2>3, <2>4
<1>9. ASSUME NEW r \in Requests, NEW ok \in BOOLEAN, RegenerateSave(r, ok) PROVE Apart'
  <2>1. /\ \A s \in Requests \ {r} : req'[s] = req[s] /\ ended' = ended
        /\ req[r].pc = "regenerate" /\ req'[r].id = req[r].id /\ sessions' = Stored(req[r], ok)
    BY <1>0, <1>9 DEF RegenerateSave, Saved, ReqRecord
  <2>2. DOMAIN sessions' \subseteq DOMAIN sessions \cup {req[r].id}
    BY <2>1, StoredDomain
  <2>3. req[r].id \notin ended /\ ended' = ended
    BY <1>9, <1>00, <2>1 DEF Finished, RegenerateSave
  <2> QED BY <2>1, <2>2, <2>3, NothingRevived DEF Apart
<1>10. ASSUME NEW r \in Requests, NEW ok \in BOOLEAN, Return(r, ok) PROVE Apart'
  <2>1. /\ \A s \in Requests \ {r} : req'[s] = req[s]
        /\ req[r].pc = "handler" /\ req'[r].pc = "idle" /\ ended' = ended
    BY <1>0, <1>10 DEF Return, Idle
  <2>2. CASE Unsaved(req[r])
    <3>1. sessions' = Stored(req[r], ok)
      BY <1>10, <2>2 DEF Return, Unsaved
    <3>2. DOMAIN sessions' \subseteq DOMAIN sessions \cup {req[r].id}
      BY <3>1, StoredDomain
    <3>3. req[r].id \notin ended
      BY <1>00, <2>1, <2>2 DEF Finished
    <3> QED BY <2>1, <3>2, <3>3, NothingRevived DEF Apart
  <2>3. CASE ~Unsaved(req[r])
    <3>1. sessions' = sessions
      BY <1>10, <2>3 DEF Return, Unsaved
    <3> QED BY <2>1, <3>1, NothingRevived DEF Apart
  <2> QED BY <2>2, <2>3
<1>11. CASE SessionTick
  BY <1>11 DEF SessionTick, Apart, Holds, Finished, Unsaved
<1>12. CASE removeExpired
  BY <1>12 DEF removeExpired, Apart, Holds, Finished, Unsaved
<1>13. CASE UNCHANGED sessionVars
  BY <1>13 DEF sessionVars, Apart, Holds, Finished, Unsaved
<1> QED BY <1>1, <1>2, <1>3, <1>4, <1>5, <1>6, <1>7, <1>8, <1>9, <1>10, <1>11, <1>12, <1>13 DEF SessionNext

(* Between requests that do not overlap nothing is lost: the next one finds,
   under the browser's cookie, what the last handler left, unless it destroyed a
   session it had changed.  And an id that Destroy or Regenerate deleted never names
   a session again, however requests overlap and store calls fail, unless a request
   had it in hand with something to save: another one, or the handler that called
   Destroy on a session it had changed, or changed or refreshed it afterwards. *)
THEOREM SessionsKept == SessionSpec => []SessionsSound
<1>1. SessionInv => NothingLost
  BY KeptIsFound
<1>2. SessionInv /\ [SessionNext]_sessionVars => SessionInv'
  BY SessionStep
<1>3. SessionInit => SessionInv /\ Apart
  BY SessionStarts DEF SessionInit, Apart
<1>4. Apart => EndedStaysEnded
  BY DEF Apart, EndedStaysEnded
<1>5. SessionInv /\ Apart => SessionsSound
  BY <1>1, <1>4 DEF SessionsSound
<1> QED BY <1>2, <1>3, <1>5, EndedStep, PTL DEF SessionSpec

-----------------------------------------------------------------------------
(* Two maps agree on a set of keys. *)
Same(S, m, n) == \A k \in S : k \in DOMAIN m /\ k \in DOMAIN n /\ m[k] = n[k]
(* The map whose objects a store hands out. *)
OwnMap == IF flagStore = "memory" THEN primary ELSE fallback
HandsOut == flagStore \in {"memory", "map", "composite"}

(* Over a file or a MemoryStore the manager, the store and what a Reload under
   way has read are one and the same map, until a Save fails or a change overtakes
   a Reload; and a key that shares its object has one value on both sides. *)
FeatureInv ==
    /\ apart \in BOOLEAN /\ readable \in BOOLEAN /\ reload.pending \in BOOLEAN
    /\ reload = [pending |-> reload.pending, read |-> reload.read, shared |-> reload.shared]
    /\ primary = [k \in DOMAIN primary |-> primary[k]]
    /\ ~InFile => readable
    /\ flagStore \in {"file", "memory"} =>
          /\ DOMAIN fallback = {}
          /\ ~apart => readable /\ flags = primary /\ (reload.pending => reload.read = primary)
    /\ ~HandsOut => shared = {} /\ reload.shared = {}
    /\ Same(shared, flags, OwnMap)
    /\ Same(reload.shared, reload.read, OwnMap)

(* An empty second store adds nothing. *)
LEMMA MergeNothing ==
    ASSUME NEW m, m = [k \in DOMAIN m |-> m[k]], NEW n, DOMAIN n = {}
    PROVE  Merge(n, m) = m
BY DEF Merge

(* An entry written to both maps, or to one of them at a key outside the set,
   and one removed from the set, leave the maps agreeing. *)
LEMMA SamePuts ==
    ASSUME NEW S, NEW m, NEW n, NEW k, NEW f, Same(S, m, n)
    PROVE  /\ Same(S \cup {k}, Put(m, k, f), Put(n, k, f)) /\ Same(S, Put(m, k, f), Put(n, k, f))
           /\ Same(S \ {k}, Put(m, k, f), n) /\ Same(S \ {k}, m, Put(n, k, f)) /\ Same(S \ {k}, m, n)
           /\ Same(S \ {k}, DropFlag(m, k), n) /\ Same(S \ {k}, m, DropFlag(n, k))
           /\ Same(S \ {k}, DropFlag(m, k), DropFlag(n, k))
BY DEF Same, Put, DropFlag, Drop

(* A map agrees with itself, and with what Merge puts under it. *)
LEMMA SameSelf ==
    ASSUME NEW m, NEW n
    PROVE  Same(DOMAIN m, m, m) /\ Same(DOMAIN n, Merge(n, m), n) /\ Same({}, m, n)
BY DEF Same, Merge

(* What LoadAll gives agrees with the store on the store's own objects. *)
LEMMA LoadedIsOwn ==
    ASSUME ~InFile => readable, DOMAIN fallback = {} \/ flagStore # "memory",
           primary = [k \in DOMAIN primary |-> primary[k]]
    PROVE  Same(OwnObjects, LoadAll, OwnMap) /\ (~HandsOut => OwnObjects = {})
<1>1. CASE flagStore = "memory"
  <2>1. LoadAll = primary /\ OwnObjects = DOMAIN primary /\ OwnMap = primary /\ HandsOut
    BY <1>1, MergeNothing DEF LoadAll, OwnObjects, OwnMap, HandsOut, InFile
  <2> QED BY <2>1, SameSelf
<1>2. CASE flagStore \in {"map", "composite"}
  <2> DEFINE q == IF readable THEN primary ELSE NoFlags
  <2>1. LoadAll = Merge(fallback, q) /\ OwnObjects = DOMAIN fallback /\ OwnMap = fallback /\ HandsOut
    BY <1>2 DEF LoadAll, OwnObjects, OwnMap, HandsOut
  <2> HIDE DEF q
  <2> QED BY <2>1, SameSelf
<1>3. CASE flagStore \notin {"memory", "map", "composite"}
  <2>1. OwnObjects = {}
    BY <1>3 DEF OwnObjects
  <2> QED BY <2>1, SameSelf
<1> QED BY <1>1, <1>2, <1>3

(* The initial flags satisfy the invariant. *)
LEMMA FeatureStarts == FeatureInit => FeatureInv
<1> SUFFICES ASSUME FeatureInit PROVE FeatureInv
  OBVIOUS
<1>1. DOMAIN NoFlags = {} /\ NoFlags = [k \in DOMAIN NoFlags |-> NoFlags[k]]
  BY DEF NoFlags
<1>2. apart = FALSE /\ readable = TRUE /\ reload = NoReload /\ shared = OwnObjects
  BY DEF FeatureInit
<1>3. primary = NoFlags /\ flags = LoadAll /\ (flagStore \in {"file", "memory"} => fallback = NoFlags)
  BY DEF FeatureInit, Fixed
<1>4. Same(OwnObjects, LoadAll, OwnMap) /\ (~HandsOut => OwnObjects = {})
  BY <1>1, <1>2, <1>3, LoadedIsOwn
<1>5. flagStore \in {"file", "memory"} => LoadAll = primary
  BY <1>1, <1>2, <1>3, MergeNothing DEF LoadAll
<1>6. reload.pending = FALSE /\ reload.shared = {} /\ reload = [pending |-> reload.pending, read |-> reload.read, shared |-> reload.shared]
  BY <1>2 DEF NoReload
<1>7. Same({}, reload.read, OwnMap)
  BY SameSelf
<1> QED BY <1>1, <1>2, <1>3, <1>4, <1>5, <1>6, <1>7 DEF FeatureInv

(* What a Save does to the store: it takes the change, or sets map and store
   apart. *)
LEMMA SaveKeeps ==
    ASSUME FeatureInv, NEW end, NEW m, NEW p, p = [k \in DOMAIN p |-> p[k]],
           flags = primary => m = p, flags' = m, SaveEnds(end, p), UNCHANGED <<flagStore>>,
           flagStore # "memory" => DOMAIN fallback' = DOMAIN fallback \/ flagStore # "file",
           flagStore = "memory" => fallback' = fallback,
           reload'.pending = reload.pending
    PROVE  /\ apart' \in BOOLEAN /\ readable' \in BOOLEAN
           /\ primary' = [k \in DOMAIN primary' |-> primary'[k]]
           /\ (~InFile => readable)'
           /\ flagStore = "memory" => primary' = p
           /\ (flagStore \in {"file", "memory"} =>
                 /\ DOMAIN fallback = {}
                 /\ ~apart => readable /\ flags = primary /\ (reload.pending => reload.read = primary))'
<1>1. apart' \in BOOLEAN /\ (~apart' => ~apart /\ end = "ok" /\ ~reload.pending)
  BY DEF FeatureInv, SaveEnds
<1>2. readable' \in BOOLEAN /\ (end = "ok" => readable' = readable)
  BY DEF FeatureInv, SaveEnds
<1>3. primary' = [k \in DOMAIN primary' |-> primary'[k]]
  <2>1. primary' = p \/ primary' = primary
    BY DEF SaveEnds
  <2> QED BY <2>1 DEF FeatureInv
<1>4. ~InFile => end = "ok"
  BY DEF SaveEnds
<1>5. (~InFile => readable)'
  BY <1>2, <1>4 DEF FeatureInv, InFile
<1>6. flagStore = "memory" => primary' = p
  BY <1>4 DEF SaveEnds, InFile
<1>7. flagStore \in {"file", "memory"} /\ ~apart' => readable' /\ flags' = primary' /\ ~reload'.pending
  BY <1>1, <1>2 DEF FeatureInv, SaveEnds
<1>8. flagStore \in {"file", "memory"} => DOMAIN fallback' = {}
  BY DEF FeatureInv
<1> QED BY <1>1, <1>2, <1>3, <1>5, <1>6, <1>7, <1>8

(* Registering a flag. *)
LEMMA RegisterKeeps ==
    ASSUME FeatureInv, NEW k, NEW f, NEW end, Register(k, f, end)
    PROVE  FeatureInv'
<1> DEFINE m == Put(flags, k, f)
           p == Put(primary, k, f)
<1>1. p = [x \in DOMAIN p |-> p[x]] /\ (flags = primary => m = p)
  BY DEF Put
<1>2. /\ flags' = m /\ SaveEnds(end, p) /\ UNCHANGED <<flagStore, fallback>>
      /\ IF flagStore = "memory"
         THEN shared' = shared \cup {k} /\ reload' = [reload EXCEPT !.shared = @ \ {k}]
         ELSE shared' = shared \ {k} /\ reload' = reload
  BY DEF Register
<1>3. /\ reload'.pending = reload.pending /\ reload'.read = reload.read
      /\ reload' = [pending |-> reload'.pending, read |-> reload'.read, shared |-> reload'.shared]
      /\ reload'.shared = IF flagStore = "memory" THEN reload.shared \ {k} ELSE reload.shared
  BY <1>2 DEF FeatureInv
<1>4. Same(shared, flags, OwnMap) /\ Same(reload.shared, reload.read, OwnMap)
  BY DEF FeatureInv
<1>5. Same(shared', flags', OwnMap') /\ Same(reload'.shared, reload'.read, OwnMap')
  <2>1. CASE flagStore = "memory"
    <3>1. primary' = p /\ OwnMap = primary /\ OwnMap' = primary'
      BY <2>1, <1>2 DEF SaveEnds, InFile, OwnMap
    <3>2. Same(shared \cup {k}, m, p) /\ Same(reload.shared \ {k}, reload.read, p)
      BY <1>4, <3>1, SamePuts
    <3> HIDE DEF m, p
    <3> QED BY <1>2, <1>3, <2>1, <3>1, <3>2
  <2>2. CASE flagStore # "memory"
    <3>1. OwnMap' = OwnMap
      BY <2>2, <1>2 DEF OwnMap
    <3>2. Same(shared \ {k}, m, OwnMap)
      BY <1>4, SamePuts
    <3> HIDE DEF m, p
    <3> QED BY <1>2, <1>3, <1>4, <2>2, <3>1, <3>2
  <2> QED BY <2>1, <2>2
<1>6. ~HandsOut' => shared' = {} /\ reload'.shared = {}
  BY <1>2, <1>3 DEF FeatureInv, HandsOut
<1> HIDE DEF m, p
<1>7. /\ apart' \in BOOLEAN /\ readable' \in BOOLEAN
      /\ primary' = [x \in DOMAIN primary' |-> primary'[x]]
      /\ (~InFile => readable)'
      /\ (flagStore \in {"file", "memory"} =>
             /\ DOMAIN fallback = {}
             /\ ~apart => readable /\ flags = primary /\ (reload.pending => reload.read = primary))'
  BY <1>1, <1>2, <1>3, SaveKeeps
<1> QED BY <1>3, <1>5, <1>6, <1>7 DEF FeatureInv

(* Changing a flag in place. *)
LEMMA ChangeKeeps ==
    ASSUME FeatureInv, NEW k, NEW f, NEW end, ChangeFlag(k, f, end)
    PROVE  FeatureInv'
<1> DEFINE m == Put(flags, k, f)
           p == Put(primary, k, f)
           q == Put(fallback, k, f)
<1>1. p = [x \in DOMAIN p |-> p[x]] /\ (flags = primary => m = p)
  BY DEF Put
<1>2. flags' = m /\ SaveEnds(end, p) /\ flagStore' = flagStore
  BY DEF ChangeFlag
<1>3. /\ k \in shared => /\ reload' = [reload EXCEPT !.read = IF k \in reload.shared THEN Put(@, k, f) ELSE @]
                         /\ fallback' = (IF flagStore = "memory" THEN fallback ELSE q) /\ shared' = shared
      /\ k \notin shared => fallback' = fallback
      /\ k \notin shared /\ flagStore = "memory" => shared' = shared \cup {k} /\ reload' = [reload EXCEPT !.shared = @ \ {k}]
      /\ k \notin shared /\ flagStore # "memory" => shared' = shared /\ reload' = reload
  BY DEF ChangeFlag
<1>4. Same(shared, flags, OwnMap) /\ Same(reload.shared, reload.read, OwnMap)
  BY DEF FeatureInv
<1>5. k \in shared => HandsOut
  BY DEF FeatureInv
<1>6. /\ reload'.pending = reload.pending
      /\ reload' = [pending |-> reload'.pending, read |-> reload'.read, shared |-> reload'.shared]
  <2>1. reload = [pending |-> reload.pending, read |-> reload.read, shared |-> reload.shared]
    BY DEF FeatureInv
  <2>2. CASE k \in shared
    BY <2>1, <2>2, <1>3
  <2>3. CASE k \notin shared /\ flagStore = "memory"
    BY <2>1, <2>3, <1>3
  <2>4. CASE k \notin shared /\ flagStore # "memory"
    BY <2>1, <2>4, <1>3
  <2> QED BY <2>2, <2>3, <2>4
<1>7. flagStore = "memory" => fallback' = fallback /\ primary' = p
  <2>1. flagStore = "memory" => end = "ok"
    BY <1>2 DEF SaveEnds, InFile
  <2> QED BY <1>2, <1>3, <2>1 DEF SaveEnds
<1>8. flagStore = "file" => fallback' = fallback
  BY <1>3, <1>5 DEF HandsOut
<1>9. /\ Same(shared', flags', OwnMap') /\ Same(reload'.shared, reload'.read, OwnMap')
      /\ ~HandsOut => shared' = {} /\ reload'.shared = {}
  <2>1. CASE k \in shared
    <3>1. OwnMap' = Put(OwnMap, k, f)
      BY <2>1, <1>2, <1>3, <1>7 DEF OwnMap
    <3>2. shared' = shared /\ Same(shared, m, Put(OwnMap, k, f))
      BY <2>1, <1>3, <1>4, SamePuts
    <3>3. reload'.shared = reload.shared
      BY <2>1, <1>3 DEF FeatureInv
    <3>4. CASE k \in reload.shared
      <4>1. reload'.read = Put(reload.read, k, f)
        BY <2>1, <3>4, <1>3 DEF FeatureInv
      <4>2. Same(reload.shared, Put(reload.read, k, f), Put(OwnMap, k, f))
        BY <1>4, SamePuts
      <4> QED BY <1>2, <1>5, <2>1, <3>1, <3>2, <3>3, <4>1, <4>2
    <3>5. CASE k \notin reload.shared
      <4>1. reload'.read = reload.read /\ reload.shared \ {k} = reload.shared
        BY <2>1, <3>5, <1>3 DEF FeatureInv
      <4>2. Same(reload.shared \ {k}, reload.read, Put(OwnMap, k, f))
        BY <1>4, SamePuts
      <4> QED BY <1>2, <1>5, <2>1, <3>1, <3>2, <3>3, <4>1, <4>2
    <3> QED BY <3>4, <3>5
  <2>2. CASE k \notin shared /\ flagStore = "memory"
    <3>1. OwnMap = primary /\ OwnMap' = p /\ HandsOut
      BY <2>2, <1>2, <1>7 DEF OwnMap, HandsOut
    <3>2. shared' = shared \cup {k} /\ reload'.shared = reload.shared \ {k} /\ reload'.read = reload.read
      BY <2>2, <1>3 DEF FeatureInv
    <3>3. Same(shared \cup {k}, m, p) /\ Same(reload.shared \ {k}, reload.read, p)
      BY <1>4, <3>1, SamePuts
    <3> HIDE DEF m, p
    <3> QED BY <1>2, <3>1, <3>2, <3>3
  <2>3. CASE k \notin shared /\ flagStore # "memory"
    <3>1. OwnMap' = OwnMap
      BY <2>3, <1>2, <1>3 DEF OwnMap
    <3>2. Same(shared \ {k}, m, OwnMap) /\ shared \ {k} = shared /\ shared' = shared /\ reload' = reload
      BY <1>3, <1>4, <2>3, SamePuts
    <3>3. ~HandsOut => shared = {} /\ reload.shared = {}
      BY DEF FeatureInv
    <3> HIDE DEF m
    <3> QED BY <1>2, <1>4, <3>1, <3>2, <3>3
  <2> QED BY <2>1, <2>2, <2>3
<1>10. HandsOut' = HandsOut
  BY <1>2 DEF HandsOut
<1> HIDE DEF m, p, q
<1>11. /\ apart' \in BOOLEAN /\ readable' \in BOOLEAN
       /\ primary' = [x \in DOMAIN primary' |-> primary'[x]]
       /\ (~InFile => readable)'
       /\ (flagStore \in {"file", "memory"} =>
              /\ DOMAIN fallback = {}
              /\ ~apart => readable /\ flags = primary /\ (reload.pending => reload.read = primary))'
  BY <1>1, <1>2, <1>6, <1>7, <1>8, SaveKeeps
<1>12. reload'.pending \in BOOLEAN
  BY <1>6 DEF FeatureInv
<1> QED BY <1>6, <1>9, <1>10, <1>11, <1>12 DEF FeatureInv

(* Deleting a flag. *)
LEMMA DeleteKeeps ==
    ASSUME FeatureInv, NEW k, NEW end, DeleteFlag(k, end)
    PROVE  FeatureInv'
<1> DEFINE m == DropFlag(flags, k)
           p == DropFlag(primary, k)
<1>1. p = [x \in DOMAIN p |-> p[x]] /\ (flags = primary => m = p)
  BY DEF DropFlag, Drop
<1>2. /\ flags' = m /\ SaveEnds(end, p) /\ UNCHANGED <<flagStore, fallback>> /\ shared' = shared \ {k}
      /\ reload' = IF flagStore = "memory" THEN [reload EXCEPT !.shared = @ \ {k}] ELSE reload
  BY DEF DeleteFlag
<1>3. /\ reload'.pending = reload.pending /\ reload'.read = reload.read
      /\ reload' = [pending |-> reload'.pending, read |-> reload'.read, shared |-> reload'.shared]
      /\ reload'.shared = IF flagStore = "memory" THEN reload.shared \ {k} ELSE reload.shared
  BY <1>2 DEF FeatureInv
<1>4. Same(shared, flags, OwnMap) /\ Same(reload.shared, reload.read, OwnMap)
  BY DEF FeatureInv
<1>5. Same(shared', flags', OwnMap') /\ Same(reload'.shared, reload'.read, OwnMap')
  <2>1. CASE flagStore = "memory"
    <3>1. primary' = p /\ OwnMap = primary /\ OwnMap' = primary'
      BY <2>1, <1>2 DEF SaveEnds, InFile, OwnMap
    <3>2. Same(shared \ {k}, m, p) /\ Same(reload.shared \ {k}, reload.read, p)
      BY <1>4, <3>1, SamePuts
    <3> HIDE DEF m, p
    <3> QED BY <1>2, <1>3, <2>1, <3>1, <3>2
  <2>2. CASE flagStore # "memory"
    <3>1. OwnMap' = OwnMap
      BY <2>2, <1>2 DEF OwnMap
    <3>2. Same(shared \ {k}, m, OwnMap)
      BY <1>4, SamePuts
    <3> HIDE DEF m, p
    <3> QED BY <1>2, <1>3, <1>4, <2>2, <3>1, <3>2
  <2> QED BY <2>1, <2>2
<1>6. ~HandsOut' => shared' = {} /\ reload'.shared = {}
  BY <1>2, <1>3 DEF FeatureInv, HandsOut
<1> HIDE DEF m, p
<1>7. /\ apart' \in BOOLEAN /\ readable' \in BOOLEAN
      /\ primary' = [x \in DOMAIN primary' |-> primary'[x]]
      /\ (~InFile => readable)'
      /\ (flagStore \in {"file", "memory"} =>
             /\ DOMAIN fallback = {}
             /\ ~apart => readable /\ flags = primary /\ (reload.pending => reload.read = primary))'
  BY <1>1, <1>2, <1>3, SaveKeeps
<1> QED BY <1>3, <1>5, <1>6, <1>7 DEF FeatureInv

(* What the stores hold at rest is what LoadAll gives back. *)
LEMMA LoadedIsHeld ==
    ASSUME FeatureInv
    PROVE  /\ flagStore \in {"file", "memory"} /\ readable => LoadAll = primary
           /\ Same(OwnObjects, LoadAll, OwnMap) /\ (~HandsOut => OwnObjects = {})
<1>1. flagStore \in {"file", "memory"} => DOMAIN fallback = {}
  BY DEF FeatureInv
<1>2. primary = [k \in DOMAIN primary |-> primary[k]] /\ (~InFile => readable)
  BY DEF FeatureInv
<1>3. flagStore \in {"file", "memory"} /\ readable => LoadAll = primary
  BY <1>1, <1>2, MergeNothing DEF LoadAll
<1> QED BY <1>1, <1>2, <1>3, LoadedIsOwn

(* Reload and restart. *)
LEMMA ReadsKeep ==
    ASSUME FeatureInv, ReloadRead \/ ReloadApply \/ Restart
    PROVE  FeatureInv'
<1>0. Same({}, NoFlags, OwnMap') /\ NoReload.pending = FALSE /\ NoReload.shared = {} /\ NoReload.read = NoFlags
  BY SameSelf DEF NoReload
<1>1. CASE ReloadRead
  <2>1. UNCHANGED <<flagStore, flags, primary, fallback, readable, shared, apart>> /\ OwnMap' = OwnMap
    BY <1>1 DEF ReloadRead, OwnMap
  <2>2. CASE LoadFails
    <3>1. reload' = reload
      BY <1>1, <2>2 DEF ReloadRead
    <3> QED BY <2>1, <3>1 DEF FeatureInv, HandsOut, InFile
  <2>3. CASE ~LoadFails
    <3>1. reload' = [pending |-> TRUE, read |-> LoadAll, shared |-> OwnObjects]
      BY <1>1, <2>3 DEF ReloadRead
    <3>2. reload'.pending = TRUE /\ reload'.read = LoadAll /\ reload'.shared = OwnObjects
      BY <3>1
    <3>3. Same(reload'.shared, reload'.read, OwnMap') /\ (~HandsOut => reload'.shared = {})
      BY <2>1, <3>2, LoadedIsHeld
    <3>4. flagStore \in {"file", "memory"} /\ ~apart => reload'.read = primary
      BY <3>2, LoadedIsHeld DEF FeatureInv
    <3> QED BY <2>1, <3>1, <3>2, <3>3, <3>4 DEF FeatureInv, HandsOut, InFile
  <2> QED BY <2>2, <2>3
<1>2. CASE ReloadApply
  <2>1. /\ UNCHANGED <<flagStore, primary, fallback, readable, apart>> /\ OwnMap' = OwnMap
        /\ reload.pending /\ flags' = reload.read /\ shared' = reload.shared /\ reload' = NoReload
    BY <1>2 DEF ReloadApply, OwnMap
  <2>2. reload' = [pending |-> reload'.pending, read |-> reload'.read, shared |-> reload'.shared]
    BY <2>1 DEF NoReload
  <2> QED BY <1>0, <2>1, <2>2 DEF FeatureInv, HandsOut, InFile
<1>3. CASE Restart
  <2>1. /\ UNCHANGED <<flagStore, readable>> /\ fallback' = Fixed /\ reload' = NoReload
        /\ primary' = IF InFile THEN primary ELSE NoFlags
        /\ flags' = IF LoadFails THEN NoFlags ELSE LoadAll'
        /\ shared' = OwnObjects' /\ apart' = ~readable
    BY <1>3 DEF Restart
  <2>2. primary' = [k \in DOMAIN primary' |-> primary'[k]]
    BY <2>1 DEF FeatureInv, NoFlags
  <2>3. flagStore \in {"file", "memory"} => DOMAIN fallback' = {}
    BY <2>1 DEF Fixed, NoFlags
  <2>4. (~InFile => readable)'
    BY <2>1 DEF FeatureInv, InFile
  <2>5. (flagStore' = "memory" => DOMAIN fallback' = {}) /\ flagStore' = flagStore
    BY <2>1, <2>3
  <2>6. Same(OwnObjects', LoadAll', OwnMap') /\ (~HandsOut' => OwnObjects' = {})
    <3>1. CASE flagStore = "memory"
      <4>1. LoadAll' = primary' /\ OwnObjects' = DOMAIN primary' /\ OwnMap' = primary' /\ HandsOut'
        BY <2>2, <2>3, <2>4, <2>5, <3>1, MergeNothing DEF LoadAll, OwnObjects, OwnMap, HandsOut, InFile
      <4> QED BY <4>1, SameSelf
    <3>2. CASE flagStore \in {"map", "composite"}
      <4> DEFINE r == IF readable' THEN primary' ELSE NoFlags
      <4>1. LoadAll' = Merge(fallback', r) /\ OwnObjects' = DOMAIN fallback' /\ OwnMap' = fallback' /\ HandsOut'
        BY <2>5, <3>2 DEF LoadAll, OwnObjects, OwnMap, HandsOut
      <4> HIDE DEF r
      <4> QED BY <4>1, SameSelf
    <3>3. CASE flagStore \notin {"memory", "map", "composite"}
      <4>1. OwnObjects' = {}
        BY <2>5, <3>3 DEF OwnObjects
      <4> QED BY <4>1, SameSelf
    <3> QED BY <3>1, <3>2, <3>3
  <2>7. CASE LoadFails
    <3>1. flags' = NoFlags /\ OwnObjects' = {} /\ ~readable /\ apart' = TRUE
      BY <2>1, <2>5, <2>7 DEF LoadFails, OwnObjects
    <3> QED BY <1>0, <2>1, <2>2, <2>3, <2>4, <2>6, <3>1 DEF FeatureInv, NoReload
  <2>8. CASE ~LoadFails
    <3>1. flagStore \in {"file", "memory"} /\ readable => LoadAll' = primary'
      BY <2>1, <2>2, <2>3, MergeNothing DEF LoadAll
    <3>2. flags' = LoadAll' /\ apart' \in BOOLEAN /\ (~apart' => readable)
      BY <2>1, <2>8
    <3> QED BY <1>0, <2>1, <2>2, <2>3, <2>4, <2>6, <3>1, <3>2 DEF FeatureInv, NoReload
  <2> QED BY <2>7, <2>8
<1> QED BY <1>1, <1>2, <1>3

(* Every operation of the manager keeps the invariant. *)
LEMMA FeatureStep == FeatureInv /\ [FeatureNext]_featureVars => FeatureInv'
<1> SUFFICES ASSUME FeatureInv, [FeatureNext]_featureVars PROVE FeatureInv'
  OBVIOUS
<1>1. ASSUME NEW k \in FlagKeys, NEW end \in SaveOutcomes, Register(k, Simple, end) PROVE FeatureInv'
  BY <1>1, RegisterKeeps
<1>2. ASSUME NEW k \in FlagKeys, NEW end \in SaveOutcomes, NEW b \in BOOLEAN, SetEnabled(k, b, end) PROVE FeatureInv'
  BY <1>2, ChangeKeeps DEF SetEnabled
<1>3. ASSUME NEW k \in FlagKeys, NEW end \in SaveOutcomes, NEW p \in 0 .. Buckets, SetPercentage(k, p, end) PROVE FeatureInv'
  BY <1>3, ChangeKeeps DEF SetPercentage
<1>4. ASSUME NEW k \in FlagKeys, NEW end \in SaveOutcomes, DeleteFlag(k, end) PROVE FeatureInv'
  BY <1>4, DeleteKeeps
<1>5. CASE ReloadRead \/ ReloadApply \/ Restart
  BY <1>5, ReadsKeep
<1>6. CASE UNCHANGED featureVars
  BY <1>6 DEF featureVars, FeatureInv, HandsOut, OwnMap, InFile
<1> QED BY <1>1, <1>2, <1>3, <1>4, <1>5, <1>6 DEF FeatureNext

(* The invariant says what a Reload would bring back. *)
LEMMA ReloadKeeps == FeatureInv => ReloadKeepsChanges
<1> SUFFICES ASSUME FeatureInv PROVE ReloadKeepsChanges
  OBVIOUS
<1>1. flagStore \in {"file", "memory"} /\ ~apart => ~LoadFails /\ LoadAll = flags
  BY LoadedIsHeld DEF FeatureInv, LoadFails
<1>2. ASSUME NEW k \in shared PROVE k \in DOMAIN LoadAll /\ LoadAll[k] = flags[k]
  <2>1. HandsOut /\ k \in DOMAIN flags /\ k \in DOMAIN OwnMap /\ flags[k] = OwnMap[k]
    BY <1>2 DEF FeatureInv, Same
  <2>2. k \in OwnObjects /\ Same(OwnObjects, LoadAll, OwnMap)
    BY <2>1, LoadedIsHeld DEF HandsOut, OwnObjects, OwnMap
  <2> QED BY <2>1, <2>2 DEF Same
<1> QED BY <1>1, <1>2 DEF ReloadKeepsChanges

(* A rollout only grows: no rule looks at the percentage, and a bucket inside a
   percentage is inside every larger one. *)
LEMMA RolloutOnlyGrows == RolloutGrows
<1> SUFFICES ASSUME NEW on \in BOOLEAN, NEW inGroup \in BOOLEAN, NEW hasUser \in BOOLEAN,
                    NEW bucket \in 0 .. Buckets - 1, NEW p \in 0 .. Buckets, NEW q \in 0 .. Buckets,
                    NEW rules \in UNION {[1 .. n -> [matches : BOOLEAN, on : BOOLEAN]] : n \in 0 .. MaxRules}
             PROVE  LET enabled(pct) == evaluate([on |-> on, pct |-> pct], rules, inGroup, hasUser, bucket)
                    IN  /\ p <= q /\ enabled(p) => enabled(q)
                        /\ hasUser /\ (\A i \in DOMAIN rules : ~rules[i].matches) => enabled(Buckets)
  BY DEF RolloutGrows
<1> DEFINE enabled(pct) == evaluate([on |-> on, pct |-> pct], rules, inGroup, hasUser, bucket)
           hit == {i \in DOMAIN rules : rules[i].matches}
           first == rules[CHOOSE i \in hit : \A j \in hit : i <= j].on
           inside(pct) == inGroup \/ (hasUser /\ inPercentage(bucket, pct)) \/ on
<1>1. Buckets \in Nat /\ bucket \in Int /\ p \in Int /\ q \in Int /\ bucket < Buckets
  BY FeatureAssumption
<1>2. ASSUME NEW pct PROVE enabled(pct) = IF hit # {} THEN first ELSE inside(pct)
  BY DEF evaluate
<1>3. p <= q /\ inPercentage(bucket, p) => inPercentage(bucket, q)
  BY <1>1 DEF inPercentage
<1>4. inPercentage(bucket, Buckets)
  BY <1>1 DEF inPercentage
<1>5. (\A i \in DOMAIN rules : ~rules[i].matches) => hit = {}
  OBVIOUS
<1>6. p <= q /\ inside(p) => inside(q)
  BY <1>3
<1>7. hasUser => inside(Buckets)
  BY <1>4
<1> HIDE DEF enabled, hit, first, inside
<1>8. p <= q /\ enabled(p) => enabled(q)
  BY <1>2, <1>6
<1>9. hasUser /\ (\A i \in DOMAIN rules : ~rules[i].matches) => enabled(Buckets)
  BY <1>2, <1>5, <1>7
<1> QED BY <1>8, <1>9 DEF enabled

(* The sums of weights that selectVariant divides the hashes by. *)
LEMMA TotalSteps ==
    ASSUME NEW n \in Nat, NEW ws \in [1 .. n -> Int]
    PROVE  /\ Len(ws) = n /\ DOMAIN ws = 1 .. n
           /\ \A i \in 1 .. n : Weight(ws[i]) \in Nat /\ Weight(ws[i]) > 0
           /\ Total(ws)[0] = 0
           /\ \A i \in 1 .. n : Total(ws)[i] = Total(ws)[i - 1] + Weight(ws[i])
<1>0. Len(ws) = n /\ DOMAIN ws = 1 .. n
  OBVIOUS
<1>9. \A i \in 1 .. n : Weight(ws[i]) \in Nat /\ Weight(ws[i]) > 0
  BY DEF Weight
<1> DEFINE step(f, i) == f[i - 1] + Weight(ws[i])
           body(f) == [i \in 0 .. n |-> IF i = 0 THEN 0 ELSE step(f, i)]
           upTo(f, m) == f[0] = 0 /\ \A i \in 1 .. m : f[i] = step(f, i)
           T == {m \in 0 .. n : \E f : upTo(f, m)}
<1>1. 0 \in T
  <2> DEFINE z == [i \in {0} |-> 0]
  <2>1. upTo(z, 0)
    OBVIOUS
  <2> HIDE DEF upTo, z
  <2> QED BY <2>1
<1>2. ASSUME NEW m \in 1 .. n, m - 1 \in T PROVE m \in T
  <2>1. PICK f : upTo(f, m - 1)
    BY <1>2
  <2> DEFINE g == [i \in 0 .. m |-> IF i = m THEN step(f, m) ELSE f[i]]
  <2>2. g[0] = 0
    BY <2>1
  <2>3. ASSUME NEW i \in 1 .. m PROVE g[i] = step(g, i)
    <3>1. g[i - 1] = f[i - 1]
      OBVIOUS
    <3>2. CASE i = m
      <4>1. g[i] = step(f, i)
        BY <3>2
      <4> HIDE DEF g
      <4> QED BY <3>1, <4>1
    <3>3. CASE i # m
      <4>1. g[i] = f[i] /\ i \in 1 .. m - 1
        BY <3>3
      <4> HIDE DEF g
      <4> QED BY <2>1, <3>1, <4>1
    <3> QED BY <3>2, <3>3
  <2>4. upTo(g, m)
    BY <2>2, <2>3
  <2> HIDE DEF g, upTo
  <2> QED BY <2>4
<1>3. PICK f : upTo(f, n)
  <2> HIDE DEF T, upTo
  <2>0. \A i \in 1 .. n : i - 1 \in T => i \in T
    BY <1>2
  <2>1. \A i \in 0 .. n : i \in T
    BY <1>1, <2>0, CountingUp, Zenon
  <2>2. n \in T
    BY <2>1
  <2> QED BY <2>2 DEF T
<1>4. \E g : g = body(g)
  <2> DEFINE g == [i \in 0 .. n |-> f[i]]
  <2>1. ASSUME NEW i \in 0 .. n PROVE g[i] = body(g)[i]
    <3>1. CASE i = 0
      BY <1>3, <3>1
    <3>2. CASE i # 0
      <4>1. i \in 1 .. n /\ i - 1 \in 0 .. n
        BY <3>2
      <4>2. g[i] = step(f, i) /\ g[i - 1] = f[i - 1]
        BY <1>3, <4>1
      <4>3. body(g)[i] = step(g, i)
        BY <4>1
      <4> HIDE DEF g, body
      <4> QED BY <4>2, <4>3
    <3> QED BY <3>1, <3>2
  <2>2. g = body(g)
    BY <2>1
  <2> HIDE DEF g, body
  <2> QED BY <2>2
<1> DEFINE t == Total(ws)
<1>5. t = body(t)
  <2>1. t = CHOOSE g : g = body(g)
    BY <1>0 DEF Total
  <2> HIDE DEF body, t
  <2> QED BY <1>4, <2>1
<1> HIDE DEF t
<1>6. t[0] = 0
  <2>1. body(t)[0] = 0
    OBVIOUS
  <2> HIDE DEF body
  <2> QED BY <1>5, <2>1
<1>7. ASSUME NEW i \in 1 .. n PROVE t[i] = step(t, i)
  <2>1. body(t)[i] = step(t, i)
    OBVIOUS
  <2> HIDE DEF body, step
  <2> QED BY <1>5, <2>1
<1> QED BY <1>0, <1>6, <1>7, <1>9 DEF t

(* A hash of the second round, less the first round. *)
LEMMA SecondRound ==
    ASSUME NEW total \in Nat, total > 0, NEW h \in total .. 2 * total - 1
    PROVE  h % total = h - total
<1> DEFINE q == h \div total
           r == h % total
           x == q * total
<1>1. h \in Int /\ h >= total /\ h < 2 * total
  OBVIOUS
<1>2. q \in Int /\ r \in 0 .. total - 1 /\ h = x + r /\ x \in Int
  BY <1>1
<1>3. q >= 1
  <2>1. q <= 0 => x <= 0
    BY <1>2
  <2> HIDE DEF q, r, x
  <2> QED BY <1>1, <1>2, <2>1
<1>4. q <= 1
  <2>1. q >= 2 => x >= 2 * total
    BY <1>2
  <2> HIDE DEF q, r, x
  <2> QED BY <1>1, <1>2, <2>1
<1>5. q = 1
  <2> HIDE DEF q
  <2> QED BY <1>2, <1>3, <1>4
<1>6. x = total
  <2> HIDE DEF q
  <2> QED BY <1>5
<1> QED
  <2> HIDE DEF q, x, r
  <2>1. r = h - total
    BY <1>1, <1>2, <1>6
  <2> QED BY <2>1 DEF r

(* The shares follow one another from nothing to the total weight. *)
LEMMA SharesInOrder ==
    ASSUME NEW n \in Nat, n > 0, NEW ws \in [1 .. n -> Int]
    PROVE  /\ \A i \in 0 .. n : Total(ws)[i] \in 0 .. Total(ws)[n]
           /\ Total(ws)[n] \in Nat /\ Total(ws)[n] > 0
           /\ \A i, j \in 1 .. n : i < j => Total(ws)[i] <= Total(ws)[j - 1]
<1> DEFINE t == Total(ws)
           w(i) == Weight(ws[i])
<1>1. t[0] = 0 /\ \A i \in 1 .. n : t[i] = t[i - 1] + w(i) /\ w(i) \in Nat /\ w(i) > 0
  BY TotalSteps
<1> HIDE DEF t, w
<1>2. \A m \in 0 .. n : t[m] \in Nat
  <2> DEFINE T == {m \in 0 .. n : t[m] \in Nat}
  <2>1. 0 \in T
    BY <1>1
  <2>2. ASSUME NEW i \in 1 .. n, i - 1 \in T PROVE i \in T
    <3>1. t[i] = t[i - 1] + w(i) /\ t[i - 1] \in Nat /\ w(i) \in Nat /\ i \in 0 .. n
      BY <1>1, <2>2
    <3> QED BY <3>1
  <2>3. \A i \in 1 .. n : i - 1 \in T => i \in T
    BY <2>2
  <2> HIDE DEF T
  <2>4. \A i \in 0 .. n : i \in T
    BY <2>1, <2>3, CountingUp, Zenon
  <2> QED BY <2>4 DEF T
<1>3. ASSUME NEW a \in 0 .. n PROVE \A b \in 0 .. n : a <= b => t[a] <= t[b]
  <2> DEFINE T == {b \in 0 .. n : a <= b => t[a] <= t[b]}
  <2>1. 0 \in T
    <3>1. a <= 0 => a = 0
      OBVIOUS
    <3>2. t[0] <= t[0] /\ 0 \in 0 .. n
      BY <1>1
    <3> QED BY <3>1, <3>2
  <2>2. ASSUME NEW i \in 1 .. n, i - 1 \in T PROVE i \in T
    <3>1. t[i] = t[i - 1] + w(i) /\ i - 1 \in 0 .. n /\ i \in 0 .. n /\ w(i) \in Nat
      BY <1>1, <2>2
    <3>2. t[i] \in Nat /\ t[i - 1] \in Nat /\ t[a] \in Nat
      BY <1>2, <3>1
    <3>3. a <= i - 1 => t[a] <= t[i - 1]
      BY <2>2
    <3>4. a <= i => a <= i - 1 \/ a = i
      OBVIOUS
    <3>5. CASE a = i
      BY <3>1, <3>2, <3>5
    <3>6. CASE a <= i - 1
      BY <3>1, <3>2, <3>3, <3>6
    <3> QED BY <3>1, <3>4, <3>5, <3>6
  <2>3. \A i \in 1 .. n : i - 1 \in T => i \in T
    BY <2>2
  <2> HIDE DEF T
  <2>4. \A i \in 0 .. n : i \in T
    BY <2>1, <2>3, CountingUp, Zenon
  <2> QED BY <2>4 DEF T
<1>4. t[n] \in Nat /\ t[n] > 0
  <2>1. t[n] = t[n - 1] + w(n) /\ n \in 0 .. n /\ n - 1 \in 0 .. n /\ w(n) \in Nat /\ w(n) > 0
    BY <1>1
  <2>2. t[n - 1] \in Nat
    BY <1>2, <2>1
  <2> QED BY <2>1, <2>2
<1>5. \A i \in 0 .. n : t[i] \in 0 .. t[n]
  <2> SUFFICES ASSUME NEW i \in 0 .. n PROVE t[i] \in 0 .. t[n]
    OBVIOUS
  <2>1. n \in 0 .. n /\ i <= n
    OBVIOUS
  <2>2. t[i] <= t[n] /\ t[i] \in Nat
    BY <1>2, <1>3, <2>1
  <2> QED BY <1>4, <2>2
<1>6. \A i, j \in 1 .. n : i < j => t[i] <= t[j - 1]
  <2> SUFFICES ASSUME NEW i \in 1 .. n, NEW j \in 1 .. n, i < j PROVE t[i] <= t[j - 1]
    OBVIOUS
  <2>1. i \in 0 .. n /\ j - 1 \in 0 .. n /\ i <= j - 1
    OBVIOUS
  <2> QED BY <1>3, <2>1
<1> QED BY <1>4, <1>5, <1>6 DEF t

(* Of one round of hashes every variant gets its weight. *)
LEMMA SharesAreWeights == VariantShares
<1> SUFFICES ASSUME NEW n \in 1 .. MaxVariants, NEW ws \in [1 .. n -> Weights], NEW i \in DOMAIN ws
             PROVE  LET total == Total(ws)[Len(ws)]
                    IN  Cardinality({h \in total .. 2 * total - 1 : selectVariant(ws, h) = i}) = Weight(ws[i])
  BY DEF VariantShares
<1> DEFINE t == Total(ws)
           total == t[n]
           share == (total + t[i - 1]) .. (total + t[i] - 1)
<1>0. n \in Nat /\ n > 0 /\ ws \in [1 .. n -> Int]
  <2>1. MaxVariants \in Nat /\ Weights \subseteq Int
    BY FeatureAssumption
  <2>2. n \in Nat /\ n > 0
    BY <2>1
  <2>3. \A j \in 1 .. n : ws[j] \in Int
    BY <2>1
  <2> QED BY <2>2, <2>3
<1>1. Len(ws) = n /\ DOMAIN ws = 1 .. n /\ i \in 1 .. n
  BY <1>0, TotalSteps
<1>2. /\ \A j \in 0 .. n : t[j] \in 0 .. total
      /\ total \in Nat /\ total > 0
      /\ \A j, k \in 1 .. n : j < k => t[j] <= t[k - 1]
      /\ t[0] = 0
      /\ t[i] = t[i - 1] + Weight(ws[i]) /\ Weight(ws[i]) \in Nat /\ Weight(ws[i]) > 0
  <2>1. /\ \A j \in 0 .. n : t[j] \in 0 .. total
        /\ total \in Nat /\ total > 0
        /\ \A j, k \in 1 .. n : j < k => t[j] <= t[k - 1]
    BY <1>0, SharesInOrder, Zenon
  <2>2. /\ t[0] = 0
        /\ \A j \in 1 .. n : t[j] = t[j - 1] + Weight(ws[j])
        /\ \A j \in 1 .. n : Weight(ws[j]) \in Nat /\ Weight(ws[j]) > 0
    BY <1>0, TotalSteps, Zenon
  <2> HIDE DEF t
  <2> QED BY <1>1, <2>1, <2>2
<1>3. ASSUME NEW h \in total .. 2 * total - 1
      PROVE  selectVariant(ws, h) = CHOOSE j \in 1 .. n : h - total < t[j] /\ h - total >= t[j - 1]
  <2>1. h % total = h - total
    <3> HIDE DEF t
    <3> QED BY <1>2, SecondRound
  <2> QED BY <1>1, <2>1 DEF selectVariant
<1> HIDE DEF t
<1>4. ASSUME NEW h \in total .. 2 * total - 1
      PROVE  selectVariant(ws, h) = i <=> h \in share
  <2> DEFINE in(j) == h - total < t[j] /\ h - total >= t[j - 1]
  <2>1. \A j, k \in 1 .. n : in(j) /\ in(k) => j = k
    <3>1. ASSUME NEW j \in 1 .. n, NEW k \in 1 .. n, in(j), in(k), j < k PROVE FALSE
      <4>1. j \in 0 .. n /\ k - 1 \in 0 .. n
        BY <1>0
      <4>2. t[j] \in Int /\ t[k - 1] \in Int /\ total \in Int
        BY <1>2, <4>1
      <4>3. t[j] <= t[k - 1]
        BY <1>2, <3>1
      <4> QED BY <3>1, <4>2, <4>3
    <3> HIDE DEF in
    <3>2. \A j, k \in 1 .. n : j = k \/ j < k \/ k < j
      BY <1>0
    <3> QED BY <3>1, <3>2
  <2>2. \E j \in 1 .. n : in(j)
    <3> DEFINE d == h - total
               T == {m \in 0 .. n : d < t[m]}
    <3>1. d \in Int /\ d >= 0 /\ d < t[n] /\ \A j \in 0 .. n : t[j] \in Int
      BY <1>2
    <3> HIDE DEF d
    <3>2. T # {} /\ T \subseteq Nat
      <4>1. n \in T
        BY <1>0, <3>1
      <4> QED BY <1>0, <4>1
    <3>3. PICK x \in T : \A y \in T : x <= y
      <4> HIDE DEF T
      <4> QED BY <3>2, LeastOf, Zenon
    <3>4. x \in 0 .. n /\ d < t[x]
      OBVIOUS
    <3>5. x # 0
      BY <1>2, <3>1, <3>4
    <3>6. x \in 1 .. n /\ x - 1 \in 0 .. n /\ ~(x <= x - 1)
      BY <1>0, <3>4, <3>5
    <3>7. x - 1 \notin T
      <4> HIDE DEF T
      <4> QED BY <3>3, <3>6
    <3>8. d >= t[x - 1]
      <4>1. ~(d < t[x - 1]) /\ t[x - 1] \in Int
        BY <3>1, <3>6, <3>7
      <4> QED BY <3>1, <4>1
    <3> QED BY <3>4, <3>6, <3>8 DEF d
  <2>3. in(i) <=> h \in share
    <3>1. t[i] \in Int /\ t[i - 1] \in Int /\ total \in Int /\ h \in Int
      BY <1>0, <1>1, <1>2
    <3> HIDE DEF total
    <3> QED BY <3>1
  <2>4. selectVariant(ws, h) = CHOOSE j \in 1 .. n : in(j)
    BY <1>3
  <2> HIDE DEF in, share
  <2>5. in(selectVariant(ws, h)) /\ selectVariant(ws, h) \in 1 .. n
    BY <2>2, <2>4
  <2> QED BY <1>1, <2>1, <2>3, <2>5
<1>5. {h \in total .. 2 * total - 1 : selectVariant(ws, h) = i} = share
  <2>1. share \subseteq total .. 2 * total - 1
    <3>1. i - 1 \in 0 .. n /\ i \in 0 .. n
      BY <1>0, <1>1
    <3>2. t[i - 1] \in 0 .. total /\ t[i] \in 0 .. total
      BY <1>2, <3>1
    <3> HIDE DEF total
    <3> QED BY <1>2, <3>2
  <2> HIDE DEF share, total
  <2> QED BY <1>4, <2>1
<1>6. Cardinality(share) = Weight(ws[i])
  <2>1. t[i - 1] \in Int /\ t[i] \in Int /\ total \in Int
    BY <1>0, <1>1, <1>2
  <2>2. total + t[i - 1] <= total + t[i] - 1 /\ total + t[i - 1] \in Int /\ total + t[i] - 1 \in Int
    BY <1>2, <2>1
  <2>3. Cardinality(share) = (total + t[i] - 1) - (total + t[i - 1]) + 1
    BY <2>2, FS_Interval
  <2> QED BY <1>2, <2>1, <2>3
<1> QED BY <1>1, <1>5, <1>6 DEF t

(* Over a file or a MemoryStore a Reload keeps every change unless a Save failed
   or the Reload was overtaken; over any store it keeps what was changed in a flag
   the store shares; and a rollout and its variants give every user what the
   percentages and weights say (Manager.Reload, evaluate, selectVariant). *)
THEOREM FlagsKept == FeatureSpec => []FlagsSound
<1>1. FeatureInv => FlagsSound
  BY ReloadKeeps, RolloutOnlyGrows, SharesAreWeights DEF FlagsSound
<1> QED BY <1>1, FeatureStarts, FeatureStep, PTL DEF FeatureSpec
=============================================================================
