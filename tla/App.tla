-------------------------------- MODULE App --------------------------------
(* app/app.go: Run calls the application's hooks in a fixed order, serves, and
   then runs the Shutdown hook unless its context is cancelled.  A hook that
   fails before serving ends the process with os.Exit(1).  WithShutdownSignals
   cancels the context on the first signal and then gives the signals back to
   the runtime, so that the next one kills the process. *)
EXTENDS Server

CONSTANT Optional   \* the optional hooks this application has

VARIABLES hook,     \* hook Run is in: a name of Sequence, "serve", "returned", "exit", "killed"
          db,       \* what ConnectDB opened is open
          notified, \* signal.Notify is in effect
          hookRan   \* the Shutdown hook was called

appVars == <<hook, db, notified, hookRan>>

Sequence == <<"LoadConfig", "ValidateConfig", "ConnectDB", "EnsureSchema", "Startup",
              "BuildHandler", "OnReady">>
Gone == {"returned", "exit", "killed"}

AppTypeOK == /\ ServerTypeOK
             /\ hook \in {Sequence[i] : i \in DOMAIN Sequence} \cup {"serve", "Shutdown"} \cup Gone
             /\ db \in BOOLEAN /\ notified \in BOOLEAN /\ hookRan \in BOOLEAN

AppInit == /\ ServerInit
           /\ hook = "LoadConfig" /\ db = FALSE /\ notified = FALSE /\ hookRan = FALSE

-----------------------------------------------------------------------------
Has(h) == h \in {"LoadConfig", "ConnectDB", "BuildHandler"} \cup Optional

(* The hook after h that this application has, or the server. *)
After(h) == LET i == CHOOSE i \in DOMAIN Sequence : Sequence[i] = h
                rest == {j \in i + 1 .. Len(Sequence) : Has(Sequence[j])}
            IN  IF rest = {} THEN "serve"
                ELSE Sequence[CHOOSE j \in rest : \A k \in rest : j <= k]

(* One hook of the sequence returns.  OnReady cannot fail, and is called
   before the server listens.  The signals are wired after the configuration. *)
Hook(ok) ==
    /\ hook \in {Sequence[i] : i \in DOMAIN Sequence}
    /\ hook' = IF ok THEN After(hook) ELSE "exit"
    /\ hook = "OnReady" => ok
    /\ db' = (db \/ (hook = "ConnectDB" /\ ok))
    /\ notified' = (ok /\ After(hook) \notin {"LoadConfig", "ValidateConfig"})
    /\ serve' = IF hook' = "serve" THEN "start" ELSE serve
    /\ UNCHANGED <<hookRan, mode, prod, ctxDone, primary, aux, serveErr, auxErr, listening,
                   active, auxActive, bg, timedOut, result>>

(* ListenAndServeWithContext returned: the Shutdown hook, or not; its own error
   is returned when the server had none. *)
Shutdown ==
    /\ hook = "serve" /\ serve = "returned"
    /\ IF Has("Shutdown") /\ ~ctxDone
       THEN hook' = "Shutdown" /\ hookRan' = TRUE
       ELSE hook' = "returned" /\ UNCHANGED hookRan
    /\ UNCHANGED <<db, notified, serverVars>>
ShutdownReturns(ok) ==
    /\ hook = "Shutdown" /\ hook' = "returned" /\ db' = (db /\ ~ok)
    /\ result' = IF result = "nil" /\ ~ok THEN "err" ELSE result
    /\ UNCHANGED <<notified, hookRan, mode, prod, serve, ctxDone, primary, aux, serveErr,
                   auxErr, listening, active, auxActive, bg, timedOut>>

(* WithShutdownSignals: the goroutine takes one signal and calls signal.Stop. *)
Signal ==
    /\ hook \notin Gone
    /\ IF notified /\ ~ctxDone THEN ctxDone' = TRUE /\ UNCHANGED hook
                               ELSE hook' = "killed" /\ UNCHANGED ctxDone
    /\ UNCHANGED <<db, notified, hookRan, mode, prod, serve, primary, aux, serveErr, auxErr,
                   listening, active, auxActive, bg, timedOut, result>>

(* The parent context is cancelled: Stop of the Windows service program. *)
Stop == /\ hook \notin Gone /\ ~ctxDone /\ ctxDone' = TRUE
        /\ UNCHANGED <<appVars, mode, prod, serve, primary, aux, serveErr, auxErr,
                       listening, active, auxActive, bg, timedOut, result>>

Run == \/ \E ok \in BOOLEAN : Hook(ok) \/ ShutdownReturns(ok)
       \/ Shutdown
       \/ hook = "serve" /\ ListenAndServe /\ UNCHANGED appVars

AppNext == \/ Run \/ Signal \/ Stop
           \/ hook \notin Gone /\ ServerGoroutines /\ UNCHANGED appVars

AppSpec == AppInit /\ [][AppNext]_<<appVars, serverVars>>

-----------------------------------------------------------------------------
(* After a signal the process ends: no wait in the startup hooks, in either
   shutdown path or for a background renewal keeps Run from returning. *)
SignalEndsRun == ctxDone ~> hook \in Gone

(* What Hooks.Shutdown promises: it is called once the server has stopped, so
   a Run that returns has given the application its chance to clean up. *)
ShutdownHookRuns == hook = "returned" /\ Has("Shutdown") => hookRan
=============================================================================
