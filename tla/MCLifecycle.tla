---------------------------- MODULE MCLifecycle ----------------------------
(* A process from start to end (App over Server), and the certificate manager
   inside it (CertRenewal), checked side by side: "part" says which one runs. *)
EXTENDS App, CertRenewal

CONSTANTS site, Parts, h1, h2

VARIABLE part

(* example.com and *.example.com share one challenge record. *)
Apex == [base |-> site, wild |-> FALSE]
Wild == [base |-> site, wild |-> TRUE]
MCDomains == <<Apex, Wild>>
MCOldNames == {{Apex, Wild}}
MCWorkloads == {[callers |-> {h1, h2}, crashes |-> 0], [callers |-> {Main, h1, Ticker}, crashes |-> 0],
                [callers |-> {h1, Admin}, crashes |-> 0], [callers |-> {h1}, crashes |-> 1]}
MCOptional == {"EnsureSchema", "Shutdown"}

vars == <<part, appVars, serverVars, certVars>>

(* The part that does not run stands in one of its initial states. *)
Init == /\ part \in Parts /\ AppInit /\ CertInit
        /\ part = "app" => ~account /\ fresh = {} /\ disk.crt = NoCert /\ callers = {h1}
        /\ part = "cert" => mode = "http" /\ ~prod

Next == \/ part = "app" /\ AppNext /\ UNCHANGED <<part, certVars>>
        \/ part = "cert" /\ CertNext /\ UNCHANGED <<part, appVars, serverVars>>

InApp(A) == part = "app" /\ A /\ UNCHANGED <<part, certVars>>
InCert(A) == part = "cert" /\ A /\ UNCHANGED <<part, appVars, serverVars>>

(* Run makes progress, hooks return, a server that was closed stops serving,
   the shutdown timer fires, redirects and renewals end by their timeouts.  A
   handshake is served by goroutines that are scheduled, and a mutex that is
   released again and again is handed to each of its waiters (SF).  The renewal
   goroutine is idle for twelve hours between two ticks, enough for a
   cancellation to end it (SF).  Requests, signals and time owe nothing. *)
Fairness ==
    /\ WF_vars(InApp(Run))
    /\ SF_vars(InApp(hook = "serve" /\ StopBackground /\ UNCHANGED appVars))
    /\ WF_vars(InApp(hook \notin Gone /\ servePrimary /\ primary = "closing" /\ UNCHANGED appVars))
    /\ WF_vars(InApp(hook \notin Gone /\ ShutdownTimeout /\ UNCHANGED appVars))
    /\ WF_vars(InApp(hook \notin Gone /\ AuxRequest(0) /\ UNCHANGED appVars))
    /\ WF_vars(InApp(hook \notin Gone /\ Background("idle") /\ UNCHANGED appVars))
    /\ \A p \in Procs : /\ WF_vars(InCert(FastPath(p) \/ Wait(p) \/ Renew(p)))
                        /\ SF_vars(InCert(BecomeRenewer(p)))

Spec == Init /\ [][Next]_vars /\ Fairness

TypeOK == AppTypeOK /\ CertTypeOK

(* Every handshake gets an answer, a certificate or an error, although the
   renewals it waits for may fail or panic one after the other. *)
HandshakesReturn == \A h \in Handshakes : pc[h] = "get" ~> pc[h] = "idle"
=============================================================================
