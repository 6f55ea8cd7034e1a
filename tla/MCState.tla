------------------------------ MODULE MCState ------------------------------
(* The components that keep state for requests and jobs (sessions, the login
   flow, refresh tokens, rate limits, the cache, the feature flags, the audit
   log, the job history and the job locks) and the algorithms behind them
   (sign-in providers, their API clients and the push clients, cron expressions).  They do not
   touch each other; "part" says which one runs, the others stand still in one
   of their initial states. *)
EXTENDS Session, LoginFlow, TokenService, RateLimit, Cache, Feature, Audit, JobHistory,
        JobLock, Providers, ProviderClients, Push, Cron

CONSTANTS Parts, r1, r2, k1, k2, a1, a2, a3

VARIABLE part

requestVars == <<sessionVars, loginVars, tokenVars, limitVars>>
storageVars == <<cacheVars, featureVars, auditVars>>
jobVars == <<historyVars, vars, cronVars>>
serviceVars == <<providerVars, clientVars, pushVars>>
stateVars == <<part, requestVars, storageVars, jobVars, serviceVars>>

OneEach == (a1 :> r1) @@ (a2 :> r2) @@ (a3 :> k1)    \* executions on instances of their own
ShortYear == <<3, 2>>                                \* months of three and two days
ZoneAt(o) == [at |-> << >>, offset |-> <<o>>]
SomeZones == {ZoneAt(0), ZoneAt(1),                  \* one half an hour ahead
              [at |-> <<22>>, offset |-> <<-2, 0>>],  \* an hour forward, west of UTC
              [at |-> <<6, 33>>, offset |-> <<2, 0, 2>>]}   \* back and forward, east
SmallWeights == -1 .. 2

(* Where the algorithms stand still. *)
ProviderIdle == /\ provider = "google" /\ given = FieldsOf("google") /\ account = AttributesOf("google")
                /\ mails = << >> /\ saml = << >> /\ claims = NoClaims /\ stage = "new" /\ todo = << >> /\ facts = {}
                /\ roleKnown = TRUE /\ users = {} /\ signIns = 0
ClientIdle == /\ method = <<"okta", "GetUserGroups">> /\ held = <<0>> /\ page = 1 /\ clientCall = "made"
              /\ ctxDone = FALSE /\ asks = {1} /\ heard = << >> /\ gathered = 0
CronIdle == /\ expr = [minute |-> {0}, hour |-> {0}, day |-> {1}, month |-> {1}, weekday |-> 0 .. DaysPerWeek - 1]
            /\ zone \in Zones /\ zone = ZoneAt(0) /\ since = 0 /\ candidate = 1 /\ rough = FALSE /\ search = "on"

StateInit ==
    /\ part \in Parts
    /\ SessionInit   /\ (part # "session" => backend = "memory")
    /\ LoginInit     /\ (part # "login" => flow = "oauth2")
    /\ TokenInit
    /\ RateInit
    /\ CacheInit     /\ (part # "cache" => kind = "redis")
    /\ FeatureInit   /\ (part # "feature" => flagStore = "file")
    /\ AuditInit
    /\ HistoryInit   /\ (part # "history" => hKind = "memory")
    /\ Init          /\ (part # "lock" => locker = "redis" /\ history = "none")
    /\ PushInit      /\ (part # "push" => service = "webpush")
    /\ IF part = "providers" THEN ProvidersInit ELSE ProviderIdle
    /\ IF part = "clients" THEN ClientsInit ELSE ClientIdle
    /\ IF part = "cron" THEN CronInit ELSE CronIdle

StateNext ==
    \/ /\ part = "session" /\ SessionNext
       /\ UNCHANGED <<part, loginVars, tokenVars, limitVars, storageVars, jobVars, serviceVars>>
    \/ /\ part = "login" /\ LoginNext
       /\ UNCHANGED <<part, sessionVars, tokenVars, limitVars, storageVars, jobVars, serviceVars>>
    \/ /\ part = "token" /\ TokenNext
       /\ UNCHANGED <<part, sessionVars, loginVars, limitVars, storageVars, jobVars, serviceVars>>
    \/ /\ part = "rate" /\ RateNext
       /\ UNCHANGED <<part, sessionVars, loginVars, tokenVars, storageVars, jobVars, serviceVars>>
    \/ /\ part = "cache" /\ CacheNext
       /\ UNCHANGED <<part, requestVars, featureVars, auditVars, jobVars, serviceVars>>
    \/ /\ part = "feature" /\ FeatureNext
       /\ UNCHANGED <<part, requestVars, cacheVars, auditVars, jobVars, serviceVars>>
    \/ /\ part = "audit" /\ AuditNext
       /\ UNCHANGED <<part, requestVars, cacheVars, featureVars, jobVars, serviceVars>>
    \/ /\ part = "history" /\ HistoryNext
       /\ UNCHANGED <<part, requestVars, storageVars, vars, cronVars, serviceVars>>
    \/ /\ part = "lock" /\ Next
       /\ UNCHANGED <<part, requestVars, storageVars, historyVars, cronVars, serviceVars>>
    \/ /\ part = "providers" /\ ProvidersNext
       /\ UNCHANGED <<part, requestVars, storageVars, jobVars, clientVars, pushVars>>
    \/ /\ part = "clients" /\ ClientsNext
       /\ UNCHANGED <<part, requestVars, storageVars, jobVars, providerVars, pushVars>>
    \/ /\ part = "push" /\ PushNext
       /\ UNCHANGED <<part, requestVars, storageVars, jobVars, providerVars, clientVars>>
    \/ /\ part = "cron" /\ CronNext
       /\ UNCHANGED <<part, requestVars, storageVars, historyVars, vars, serviceVars>>

(* The cleanup goroutine runs and Close goes on when it can; the rest of the
   system owes nothing. *)
InCache(A) == /\ part = "cache" /\ A
              /\ UNCHANGED <<part, requestVars, featureVars, auditVars, jobVars, serviceVars>>
StateSpec == StateInit /\ [][StateNext]_stateVars
FairSpec == StateSpec /\ WF_stateVars(InCache(Cleaner)) /\ WF_stateVars(InCache(CloseReturn))
                      /\ SF_stateVars(InCache(CleanerStops))

(* What the history says agrees with what the executions did: its records, its
   counters and its index with each other (history.go), and every ended execution
   has a record of its end (executeJob, recordComplete). *)
RecordsAgree == HistoryAgrees /\ EndedIsRecorded

(* What the clients of other services report is what the service said: an API
   method's success has its answer behind it, of a list the first page
   (ProviderClients), and a push client uses tokens sparingly and, if its timeout
   allows, only live ones, and reports every target truly, unless a nil
   notification has it panic (Push). *)
RepliesSound == SuccessIsAnswered /\ PushSound
=============================================================================
