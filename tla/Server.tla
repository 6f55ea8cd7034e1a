------------------------------ MODULE Server -------------------------------
(* server/server.go: ListenAndServeWithContext starts the primary server and,
   with HTTPS, an auxiliary one on port 80, waits for the context or for either
   server to end, and stops what is still running.

   "serve" is the position of its goroutine; servePrimary and serveAuxiliary
   are goroutines of their own that report through channels of size one.
   Certificates by DNS-01 come with a background goroutine (CertRenewal has the
   details): here it is off, idle, or busy with a renewal. *)
EXTENDS Naturals, Sequences

CONSTANTS Modes,       \* subset of {"http", "http01", "dns01", "manual"}
          MaxRequests  \* bound: requests in flight at a time

VARIABLES mode, prod,
          serve,       \* position in ListenAndServeWithContext
          ctxDone,     \* the context is cancelled
          primary, aux,    \* "none", "starting", "serving", "closing", "ended"
          serveErr, auxErr, \* the two channels: sequences of "nil" and "err"
          listening,   \* baseLn is open
          active, auxActive,  \* requests in flight on the two servers
          bg,          \* background renewal: "off", "idle", "busy"
          timedOut,    \* the shutdown context has expired
          result       \* what is going to be returned: "none", "nil", "err"

serverVars == <<mode, prod, serve, ctxDone, primary, aux, serveErr, auxErr, listening,
                active, auxActive, bg, timedOut, result>>

Servers == {"none", "starting", "serving", "closing", "ended"}

ServerTypeOK ==
    /\ mode \in Modes /\ prod \in BOOLEAN /\ ctxDone \in BOOLEAN
    /\ serve \in {"off", "start", "warm", "wait", "load", "listen", "loop", "abort",
                  "drainAux", "drain", "stopBg", "returned"}
    /\ primary \in Servers /\ aux \in Servers
    /\ serveErr \in Seq({"nil", "err"}) /\ auxErr \in Seq({"nil", "err"})
    /\ Len(serveErr) <= 1 /\ Len(auxErr) <= 1
    /\ listening \in BOOLEAN /\ active \in 0 .. MaxRequests /\ auxActive \in 0 .. 1
    /\ bg \in {"off", "idle", "busy"} /\ timedOut \in BOOLEAN
    /\ result \in {"none", "nil", "err"}

ServerInit ==
    /\ mode \in Modes /\ prod \in BOOLEAN /\ serve = "off" /\ ctxDone = FALSE
    /\ primary = "none" /\ aux = "none" /\ serveErr = <<>> /\ auxErr = <<>>
    /\ listening = FALSE /\ active = 0 /\ auxActive = 0 /\ bg = "off"
    /\ timedOut = FALSE /\ result = "none"

-----------------------------------------------------------------------------
(* Leaving: result is settled and the deferred StopBackgroundRenewal runs. *)
Leave(r) == serve' = "stopBg" /\ result' = r

(* Everything that can fail before the auxiliary server exists: net.Listen in
   HTTP mode, NewDNS01Manager and PreWarm, the checks of the TLS files. *)
ListenHTTP(ok) ==
    /\ serve = "start" /\ mode = "http"
    /\ IF ok THEN listening' = TRUE /\ primary' = "serving" /\ serve' = "loop" /\ UNCHANGED result
             ELSE Leave("err") /\ UNCHANGED <<listening, primary>>
    /\ UNCHANGED <<mode, prod, ctxDone, aux, serveErr, auxErr, active, auxActive, bg, timedOut>>

NewDNS01Manager(ok) ==
    /\ serve = "start" /\ mode = "dns01"
    /\ IF ok THEN serve' = "warm" /\ UNCHANGED result ELSE Leave("err")
    /\ UNCHANGED <<mode, prod, ctxDone, primary, aux, serveErr, auxErr, listening,
                   active, auxActive, bg, timedOut>>

(* PreWarm; then StartBackgroundRenewal and the redirect server. *)
PreWarm(ok) ==
    /\ serve = "warm"
    /\ IF ok THEN bg' = "idle" /\ aux' = "starting" /\ serve' = "listen" /\ UNCHANGED result
             ELSE Leave("err") /\ UNCHANGED <<bg, aux>>
    /\ UNCHANGED <<mode, prod, ctxDone, primary, serveErr, auxErr, listening,
                   active, auxActive, timedOut>>

(* autocert: the challenge server first, then waitForCert, whose failure or
   timeout is only logged. *)
StartACMEServer ==
    /\ serve = "start" /\ mode = "http01" /\ aux' = "starting" /\ serve' = "wait"
    /\ UNCHANGED <<mode, prod, ctxDone, primary, serveErr, auxErr, listening,
                   active, auxActive, bg, timedOut, result>>
waitForCert ==
    /\ serve = "wait" /\ serve' = "listen"
    /\ UNCHANGED <<mode, prod, ctxDone, primary, aux, serveErr, auxErr, listening,
                   active, auxActive, bg, timedOut, result>>

(* validateTLSFiles: a loosely protected key is fatal in prod only. *)
validateTLSFiles(problem) ==
    /\ serve = "start" /\ mode = "manual"
    /\ IF problem = "files" \/ (problem = "permissions" /\ prod)
       THEN Leave("err") /\ UNCHANGED aux
       ELSE aux' = "starting" /\ serve' = "load" /\ UNCHANGED result
    /\ UNCHANGED <<mode, prod, ctxDone, primary, serveErr, auxErr, listening,
                   active, auxActive, bg, timedOut>>

(* shutdownAux closes the auxiliary server's listener, or keeps it from
   opening one, and then waits for its requests. *)
shutdownAux == aux' = IF aux \in {"starting", "serving"} THEN "closing" ELSE aux

LoadX509KeyPair(ok) ==
    /\ serve = "load"
    /\ IF ok THEN serve' = "listen" /\ UNCHANGED <<aux, result>>
             ELSE serve' = "abort" /\ result' = "err" /\ shutdownAux
    /\ UNCHANGED <<mode, prod, ctxDone, primary, serveErr, auxErr, listening,
                   active, auxActive, bg, timedOut>>
ListenTLS(ok) ==
    /\ serve = "listen"
    /\ IF ok THEN /\ listening' = TRUE /\ primary' = "serving" /\ serve' = "loop"
                  /\ UNCHANGED <<aux, result>>
             ELSE /\ serve' = "abort" /\ result' = "err" /\ shutdownAux
                  /\ UNCHANGED <<listening, primary>>
    /\ UNCHANGED <<mode, prod, ctxDone, serveErr, auxErr, active, auxActive, bg, timedOut>>

-----------------------------------------------------------------------------
(* srv.Shutdown and srv.Close: Serve will return http.ErrServerClosed. *)
closePrimary == primary' = IF primary = "serving" THEN "closing" ELSE primary

(* The select: cancelled context. *)
OnContext ==
    /\ serve = "loop" /\ ctxDone /\ serve' = "drainAux" /\ shutdownAux
    /\ UNCHANGED <<mode, prod, ctxDone, primary, serveErr, auxErr, listening,
                   active, auxActive, bg, timedOut, result>>

(* Mutant: the auxiliary server is left running. *)
OnServeErrOnly ==
    /\ serve = "loop" /\ serveErr # <<>> /\ serveErr' = <<>>
    /\ result' = Head(serveErr) /\ serve' = "abort" /\ listening' = FALSE
    /\ UNCHANGED <<mode, prod, ctxDone, primary, aux, auxErr, active, auxActive, bg, timedOut>>
(* The primary server ended by itself: stop the other one without a deadline.  A
   nil error means that somebody closed it. *)
OnServeErr ==
    /\ serve = "loop" /\ serveErr # <<>> /\ serveErr' = <<>>
    /\ result' = Head(serveErr) /\ serve' = "abort" /\ shutdownAux /\ listening' = FALSE
    /\ UNCHANGED <<mode, prod, ctxDone, primary, auxErr, active, auxActive, bg, timedOut>>

(* The auxiliary server ended by itself: close the primary one on the spot.
   After a nil error the loop goes on with both variables set to nil. *)
OnAuxErr ==
    /\ serve = "loop" /\ auxErr # <<>> /\ auxErr' = <<>>
    /\ IF Head(auxErr) = "err"
       THEN closePrimary /\ listening' = FALSE /\ Leave("err")
       ELSE UNCHANGED <<primary, listening, serve, result>>
    /\ UNCHANGED <<mode, prod, ctxDone, aux, serveErr, active, auxActive, bg, timedOut>>

(* Waiting for the auxiliary server's requests before the return. *)
AbortDone ==
    /\ serve = "abort" /\ auxActive = 0 /\ serve' = "stopBg"
    /\ UNCHANGED <<mode, prod, ctxDone, primary, aux, serveErr, auxErr, listening,
                   active, auxActive, bg, timedOut, result>>

(* Graceful shutdown: both servers share one shutdown_timeout.  srv.Shutdown
   closes the listener, then waits for the requests; its error is returned. *)
ShutdownPrimary ==
    /\ serve = "drainAux" /\ (auxActive = 0 \/ timedOut)
    /\ closePrimary /\ serve' = "drain"
    /\ UNCHANGED <<mode, prod, ctxDone, aux, serveErr, auxErr, listening,
                   active, auxActive, bg, timedOut, result>>
(* Mutant: Shutdown ignores its deadline. *)
DrainedPatiently ==
    /\ serve = "drain" /\ active = 0 /\ Leave("nil") /\ listening' = FALSE
    /\ UNCHANGED <<mode, prod, ctxDone, primary, aux, serveErr, auxErr,
                   active, auxActive, bg, timedOut>>
Drained ==
    /\ serve = "drain"
    /\ \/ active = 0 /\ Leave("nil")
       \/ active > 0 /\ timedOut /\ Leave("err")
    /\ listening' = FALSE
    /\ UNCHANGED <<mode, prod, ctxDone, primary, aux, serveErr, auxErr,
                   active, auxActive, bg, timedOut>>
ShutdownTimeout ==
    /\ serve \in {"drainAux", "drain"} /\ ~timedOut /\ timedOut' = TRUE
    /\ UNCHANGED <<mode, prod, serve, ctxDone, primary, aux, serveErr, auxErr, listening,
                   active, auxActive, bg, result>>

(* The deferred StopBackgroundRenewal waits for a renewal that is under way. *)
StopBackground ==
    /\ serve = "stopBg" /\ bg # "busy" /\ bg' = "off" /\ serve' = "returned"
    /\ UNCHANGED <<mode, prod, ctxDone, primary, aux, serveErr, auxErr, listening,
                   active, auxActive, timedOut, result>>

ListenAndServe ==
    \/ \E ok \in BOOLEAN : \/ ListenHTTP(ok) \/ NewDNS01Manager(ok) \/ PreWarm(ok)
                           \/ LoadX509KeyPair(ok) \/ ListenTLS(ok)
    \/ StartACMEServer \/ waitForCert
    \/ \E problem \in {"none", "permissions", "files"} : validateTLSFiles(problem)
    \/ OnContext \/ OnServeErr \/ OnAuxErr \/ AbortDone \/ ShutdownPrimary \/ Drained
    \/ StopBackground

-----------------------------------------------------------------------------
(* servePrimary: Serve returns with an error of its own, or because the server
   was closed, which counts as nil. *)
servePrimary ==
    /\ \/ primary = "serving" /\ serveErr' = Append(serveErr, "err")
       \/ primary = "closing" /\ serveErr' = Append(serveErr, "nil")
    /\ primary' = "ended"
    /\ UNCHANGED <<mode, prod, serve, ctxDone, aux, auxErr, listening,
                   active, auxActive, bg, timedOut, result>>

(* serveAuxiliary: port 80 may be taken, otherwise as servePrimary. *)
serveAuxiliary ==
    /\ \/ aux = "starting" /\ aux' = "serving" /\ UNCHANGED auxErr
       \/ aux \in {"starting", "serving"} /\ aux' = "ended" /\ auxErr' = Append(auxErr, "err")
       \/ aux = "closing" /\ aux' = "ended" /\ auxErr' = Append(auxErr, "nil")
    /\ UNCHANGED <<mode, prod, serve, ctxDone, primary, serveErr, listening,
                   active, auxActive, bg, timedOut, result>>

(* Requests come in while a server serves and end in their own time. *)
Request ==
    /\ \/ primary = "serving" /\ active < MaxRequests /\ active' = active + 1
       \/ active > 0 /\ active' = active - 1
    /\ UNCHANGED <<mode, prod, serve, ctxDone, primary, aux, serveErr, auxErr, listening,
                   auxActive, bg, timedOut, result>>
AuxRequest(n) ==
    /\ auxActive' = n
    /\ \/ n = 1 /\ aux = "serving" /\ auxActive = 0
       \/ n = 0 /\ auxActive = 1
    /\ UNCHANGED <<mode, prod, serve, ctxDone, primary, aux, serveErr, auxErr, listening,
                   active, bg, timedOut, result>>

(* The background goroutine renews now and then. *)
Background(b) ==
    /\ bg' = b
    /\ \/ b = "busy" /\ bg = "idle"
       \/ b = "idle" /\ bg = "busy"
    /\ UNCHANGED <<mode, prod, serve, ctxDone, primary, aux, serveErr, auxErr, listening,
                   active, auxActive, timedOut, result>>

ServerGoroutines == \/ servePrimary \/ serveAuxiliary \/ Request \/ ShutdownTimeout
                    \/ \E n \in 0 .. 1 : AuxRequest(n)
                    \/ \E b \in {"idle", "busy"} : Background(b)

-----------------------------------------------------------------------------
(* Once ListenAndServeWithContext has returned, on every path, its listeners
   are closed, neither server accepts and the background renewal is over. *)
QuietAfterReturn ==
    serve = "returned" => /\ ~listening /\ primary # "serving"
                          /\ aux \notin {"starting", "serving"} /\ bg = "off"

(* It returns nil only when no request is left in flight: requests that
   outlive shutdown_timeout are an error. *)
CleanMeansDrained == serve = "returned" /\ result = "nil" => active = 0

(* On every way out of ListenAndServeWithContext (server.go:58): nothing it
   started is left running, and nil means that no request was cut off. *)
ReturnsSettled == QuietAfterReturn /\ CleanMeansDrained
=============================================================================
