-------------------------- MODULE LifecycleProofs --------------------------
(***************************************************************************)
(* Certificate renewal: what keeps renewals apart is the flag "renewing",  *)
(* except for PreWarm, which does not look at it; so the invariant also    *)
(* says that nobody else is at work while the manager warms up.            *)
(*                                                                         *)
(* The server: ListenAndServeWithContext has many ways out, and the        *)
(* invariant says for each of its positions what may still be running.     *)
(***************************************************************************)
EXTENDS App, CertRenewal, FiniteSetTheorems, TLAPS

Others == Procs \ {Main}

(* Whoever renews, PreWarm excepted, has set the flag, and nobody else has. *)
RenewerHoldsFlag == /\ \A p \in Others : pc[p] \in Holding => renewing
                    /\ \A p, q \in Others : pc[p] \in Holding /\ pc[q] \in Holding => p = q

(* PreWarm runs before anyone else. *)
WarmsAlone == /\ pc[Main] # "idle" => pc[Main] \in Holding /\ manager = "warming"
              /\ manager = "warming" => \A p \in Others : pc[p] = "idle"

CertInv == DOMAIN pc = Procs /\ RenewerHoldsFlag /\ WarmsAlone /\ MatchedPair

LEMMA CertStarts == CertInit => CertInv
BY CertAssumption DEF CertInit, CertInv, RenewerHoldsFlag, WarmsAlone, MatchedPair, Procs, Others, Holding, Obtaining

(* A step of a goroutine inside its renewal. *)
LEMMA RenewerMoves ==
    ASSUME CertInv, NEW p \in Procs, NEW s \in Holding, pc[p] \in Holding, Go(p, s),
           UNCHANGED <<renewing, manager>>, MatchedPair'
    PROVE  CertInv'
<1>1. DOMAIN pc' = Procs /\ pc'[p] = s /\ \A q \in Procs \ {p} : pc'[q] = pc[q]
  BY DEF CertInv, Go
<1>2. "idle" \notin Holding
  BY DEF Holding, Obtaining
<1>3. \A q \in Others : q \in Procs /\ q # Main
  BY DEF Others
<1>4. \A q \in Others : pc'[q] \in Holding => pc[q] \in Holding
  BY <1>1, <1>3
<1>5. RenewerHoldsFlag'
  BY <1>4 DEF CertInv, RenewerHoldsFlag
<1>6. WarmsAlone'
  <2>0. Main \in Procs
    BY DEF Procs
  <2>1. p # Main => p \in Others
    BY DEF Others
  <2>2. CASE p = Main
    BY <1>1, <1>2, <1>3, <2>2 DEF CertInv, WarmsAlone
  <2>3. CASE p # Main
    <3>1. manager # "warming"
      BY <1>2, <2>1, <2>3 DEF CertInv, WarmsAlone
    <3> QED BY <1>1, <2>0, <2>3, <3>1 DEF CertInv, WarmsAlone
  <2> QED BY <2>2, <2>3
<1> QED BY <1>1, <1>5, <1>6 DEF CertInv

(* A step of a goroutine that does not renew. *)
LEMMA OtherMoves ==
    ASSUME CertInv, NEW p \in Others, NEW s \in Steps \ Holding, Go(p, s), manager # "warming",
           UNCHANGED <<renewing, manager>>, MatchedPair'
    PROVE  CertInv'
<1>1. DOMAIN pc' = Procs /\ pc'[p] = s /\ \A q \in Procs \ {p} : pc'[q] = pc[q]
  BY DEF CertInv, Go, Others
<1>3. p # Main /\ Main \in Procs /\ \A q \in Others : q \in Procs
  BY DEF Others, Procs
<1>4. \A q \in Others : pc'[q] \in Holding => pc[q] \in Holding
  BY <1>1, <1>3
<1>5. RenewerHoldsFlag'
  BY <1>4 DEF CertInv, RenewerHoldsFlag
<1>6. WarmsAlone'
  BY <1>1, <1>3 DEF CertInv, WarmsAlone
<1> QED BY <1>1, <1>5, <1>6 DEF CertInv

LEMMA CertStep == CertInv /\ [CertNext]_certVars => CertInv'
<1> SUFFICES ASSUME CertInv, [CertNext]_certVars PROVE CertInv' OBVIOUS
<1>0. UNCHANGED cert \/ cert' = NoCert => MatchedPair'
  BY DEF CertInv, MatchedPair
<1>a. /\ {"idle", "get", "slow", "waiting", "removeCrt", "removeKey"} = Steps \ Holding
      /\ Obtaining \subseteq Holding /\ "begin" \in Holding /\ "finish" \in Holding /\ "failed" \in Holding
  BY DEF Steps, Holding, Obtaining
<1>b. Ticker \in Others /\ Admin \in Others /\ Handshakes \subseteq Others /\ Others \subseteq Procs
      /\ Main \in Procs /\ Main \notin Others
  BY CertAssumption DEF Procs, Others
<1>c. ASSUME NEW p \in Procs, pc[p] \notin Holding, pc[p] # "idle" PROVE p \in Others /\ manager # "warming"
  BY <1>c, <1>a DEF CertInv, WarmsAlone, Others
<1>1. ASSUME NEW h \in Handshakes, Hello(h) PROVE CertInv'
  BY <1>0, <1>1, <1>a, <1>b, OtherMoves DEF Hello, At
<1>2. ASSUME checkAndRenewIfNeeded PROVE CertInv'
  BY <1>0, <1>2, <1>a, <1>b, OtherMoves DEF checkAndRenewIfNeeded, At
<1>3. ASSUME ForceRenewal PROVE CertInv'
  BY <1>0, <1>3, <1>a, <1>b, OtherMoves DEF ForceRenewal, At
<1>4. ASSUME NEW ok \in BOOLEAN, RemoveCached(ok) PROVE CertInv'
  <2>1. pc[Admin] \in {"removeCrt", "removeKey"} /\ UNCHANGED <<cert, renewing, manager>>
    BY <1>4 DEF RemoveCached, At
  <2>2. Go(Admin, "removeKey") \/ Go(Admin, "get")
    BY <1>4 DEF RemoveCached
  <2>3. manager # "warming"
    BY <1>a, <1>b, <1>c, <2>1
  <2> QED BY <1>0, <1>a, <1>b, <2>1, <2>2, <2>3, OtherMoves
<1>5. ASSUME NEW p \in Procs, FastPath(p) \/ Wait(p) PROVE CertInv'
  <2>1. pc[p] \in {"get", "slow"} /\ UNCHANGED <<cert, renewing, manager>>
    BY <1>5 DEF FastPath, Wait, At
  <2>2. Go(p, "idle") \/ Go(p, "slow") \/ Go(p, "waiting")
    BY <1>5 DEF FastPath, Wait
  <2>3. p \in Others /\ manager # "warming"
    BY <1>a, <1>c, <2>1
  <2> QED BY <1>0, <1>a, <2>1, <2>2, <2>3, OtherMoves
<1>6. ASSUME NEW p \in Procs, BecomeRenewer(p) PROVE CertInv'
  <2>1. pc[p] = "slow" /\ ~renewing /\ UNCHANGED <<cert, manager>>
    BY <1>6 DEF BecomeRenewer, At
  <2>2. p \in Others /\ manager # "warming"
    BY <1>a, <1>c, <2>1
  <2>3. CASE Go(p, "idle") /\ UNCHANGED renewing
    BY <1>0, <1>a, <2>1, <2>2, <2>3, OtherMoves
  <2>4. CASE Go(p, "begin") /\ renewing' = TRUE
    <3>1. DOMAIN pc' = Procs /\ pc'[p] = "begin" /\ \A q \in Procs \ {p} : pc'[q] = pc[q]
      BY <2>4 DEF CertInv, Go
    <3>2. \A q \in Others : pc[q] \notin Holding
      BY <2>1 DEF CertInv, RenewerHoldsFlag
    <3>3. RenewerHoldsFlag'
      BY <1>b, <2>4, <3>1, <3>2 DEF RenewerHoldsFlag
    <3>4. WarmsAlone'
      BY <1>b, <2>1, <2>2, <3>1 DEF CertInv, WarmsAlone
    <3> QED BY <1>0, <2>1, <3>1, <3>3, <3>4 DEF CertInv
  <2> QED BY <1>6, <2>3, <2>4 DEF BecomeRenewer
<1>7. ASSUME NEW p \in Procs, Load(p) PROVE CertInv'
  <2>1. pc[p] \in Holding /\ UNCHANGED <<renewing, manager>> /\ (Go(p, "finish") \/ Go(p, "client"))
    BY <1>7 DEF Load, At, Holding, Obtaining
  <2>2. MatchedPair'
    BY <1>7, <1>0 DEF Load, loadCachedCert, MatchedPair
  <2>3. "client" \in Holding /\ "finish" \in Holding
    BY DEF Holding, Obtaining
  <2> QED BY <2>1, <2>2, <2>3, RenewerMoves
<1>8. ASSUME NEW p \in Procs,
             \/ ensureClient(p) \/ GetAuthorization(p) \/ DeleteRecord(p)
             \/ Panic(p)
             \/ \E ok \in BOOLEAN : \/ Begin(p, ok) \/ AuthorizeOrder(p, ok) \/ Authorize(p, ok)
                                    \/ Finalize(p, ok) \/ cacheCert(p, ok)
                                    \/ \E mk \in BOOLEAN : createDNSRecord(p, mk, ok)
      PROVE  CertInv'
  <2>1. UNCHANGED <<cert, renewing, manager>> /\ pc[p] \in Holding
    BY <1>8 DEF ensureClient, GetAuthorization, DeleteRecord, Panic, Begin, AuthorizeOrder, Authorize,
                AuthorizationStep, Finalize, cacheCert, createDNSRecord, At, Holding, Obtaining
  <2>2. UNCHANGED pc \/ \E s \in Holding : Go(p, s)
    BY <1>8 DEF ensureClient, GetAuthorization, DeleteRecord, Panic, Begin, AuthorizeOrder, Authorize,
                AuthorizationStep, Finalize, cacheCert, createDNSRecord, Fail, Holding, Obtaining
  <2>3. CASE UNCHANGED pc
    BY <1>0, <2>1, <2>3 DEF CertInv, RenewerHoldsFlag, WarmsAlone
  <2>4. CASE \E s \in Holding : Go(p, s)
    BY <1>0, <2>1, <2>4, RenewerMoves
  <2> QED BY <2>2, <2>3, <2>4
<1>9. ASSUME NEW p \in Procs, Store(p) PROVE CertInv'
  <2>1. pc[p] \in Holding /\ UNCHANGED <<renewing, manager>> /\ Go(p, "finish") /\ "finish" \in Holding
    BY <1>9 DEF Store, At, Holding, Obtaining
  <2>2. MatchedPair'
    BY <1>9 DEF Store, MatchedPair
  <2> QED BY <2>1, <2>2, RenewerMoves
<1>10. ASSUME NEW p \in Procs, Finish(p) PROVE CertInv'
  <2>1. pc[p] \in Holding /\ UNCHANGED cert
    BY <1>10, <1>a DEF Finish
  <2>2. CASE p = Main
    <3>1. DOMAIN pc' = Procs /\ pc'[Main] = "idle" /\ \A q \in Others : pc'[q] = pc[q]
      BY <1>10, <2>2 DEF Finish, Go, CertInv, Others
    <3>2. manager' # "warming" /\ UNCHANGED renewing
      BY <1>10, <2>2 DEF Finish
    <3> QED BY <1>0, <2>1, <3>1, <3>2 DEF CertInv, RenewerHoldsFlag, WarmsAlone
  <2>3. CASE p # Main
    <3>1. UNCHANGED manager
      BY <1>10, <2>3 DEF Finish
    <3>2. pc' = [q \in Procs |-> IF q = p THEN "idle" ELSE IF pc[q] = "waiting" THEN "slow" ELSE pc[q]]
      BY <1>10, <2>3 DEF Finish, At
    <3>3. p \in Others /\ \A q \in Others : pc[q] \in Holding => q = p
      BY <2>1, <2>3 DEF CertInv, RenewerHoldsFlag, Others
    <3>4. \A q \in Others : pc'[q] \notin Holding
      BY <1>a, <1>b, <3>2, <3>3
    <3>5. manager # "warming"
      BY <1>a, <2>1, <3>3 DEF CertInv, WarmsAlone
    <3>6. pc[Main] = "idle"
      BY <3>5 DEF CertInv, WarmsAlone
    <3>7. pc'[Main] = "idle"
      BY <1>b, <2>3, <3>2, <3>6
    <3> QED BY <1>0, <2>1, <3>1, <3>2, <3>4, <3>5, <3>7 DEF CertInv, RenewerHoldsFlag, WarmsAlone
  <2> QED BY <2>2, <2>3
<1>11. ASSUME Crash PROVE CertInv'
  <2>1. pc' = [p \in Procs |-> IF p = Main THEN "load" ELSE "idle"] /\ manager' = "warming" /\ cert' = NoCert
    BY <1>11 DEF Crash
  <2>2. "load" \in Holding
    BY DEF Holding, Obtaining
  <2> QED BY <1>0, <1>a, <1>b, <2>1, <2>2 DEF CertInv, RenewerHoldsFlag, WarmsAlone, Others
<1>12. ASSUME StopBackgroundRenewal PROVE CertInv'
  <2>1. UNCHANGED <<pc, renewing, cert>> /\ manager' # "warming" /\ manager # "warming"
    BY <1>12 DEF StopBackgroundRenewal
  <2> QED BY <1>0, <2>1 DEF CertInv, RenewerHoldsFlag, WarmsAlone
<1>13. CASE UNCHANGED certVars \/ \E s \in Serials : Age(s)
  <2>1. UNCHANGED <<pc, renewing, cert, manager>>
    BY <1>13 DEF certVars, Age
  <2> QED BY <1>0, <2>1 DEF CertInv, RenewerHoldsFlag, WarmsAlone
<1> QED BY <1>1, <1>2, <1>3, <1>4, <1>5, <1>6, <1>7, <1>8, <1>9, <1>10, <1>11, <1>12, <1>13
        DEF CertNext, GetCertificate, Renew

(* DNS01Manager: one renewal at a time, PreWarm's included, and a certificate
   that matches its private key, for any number of handshakes, domains, orders
   and crashes. *)
THEOREM RenewalsExclude == CertSpec => []RenewalSound
<1>1. CertInv => RenewalSound
  <2> SUFFICES ASSUME CertInv PROVE OneRenewal
    BY DEF RenewalSound, CertInv
  <2> DEFINE R == {p \in Procs : pc[p] \in Obtaining}
  <2>1. ASSUME NEW p \in R, NEW q \in R PROVE p = q
    BY DEF CertInv, RenewerHoldsFlag, WarmsAlone, Others, Holding, Obtaining
  <2>2. CASE R = {}
    BY <2>2, FS_EmptySet DEF OneRenewal
  <2>3. CASE R # {}
    <3>1. PICK p : R = {p}
      BY <2>1, <2>3
    <3>2. Cardinality({p}) = 1
      BY FS_Singleton
    <3> HIDE DEF R
    <3> QED BY <3>1, <3>2 DEF OneRenewal, R
  <2> QED BY <2>2, <2>3
<1> QED BY <1>1, CertStarts, CertStep, PTL DEF CertSpec

-----------------------------------------------------------------------------
(* What may still be running at each position of ListenAndServeWithContext. *)
StillOpen == /\ listening => serve \in {"loop", "drainAux", "drain"}
             /\ primary = "serving" => serve \in {"loop", "drainAux"}
             /\ aux \in {"starting", "serving"} => serve \in {"wait", "load", "listen", "loop"}
             /\ bg # "off" => serve # "returned"
             /\ serve \in {"off", "start", "warm"} => aux = "none"
             /\ serve \in {"off", "start", "warm", "wait", "load", "listen"} => primary = "none"

(* A result in a channel means that its server has ended, and before the
   shutdown the primary server only ends with an error. *)
Reported == /\ serveErr # << >> => primary = "ended"
            /\ auxErr # << >> => aux = "ended"
            /\ serve \notin {"drain", "stopBg", "returned"} => primary # "closing"
            /\ serve = "loop" => serveErr \in {<< >>, <<"err">>}

(* nil is settled once all requests are gone, and no new ones come. *)
NilIsDrained == result = "nil" => serve \in {"stopBg", "returned"} /\ active = 0 /\ primary # "serving"

(* The server is not touched before the hooks have returned. *)
BeforeServing == hook \in {Sequence[i] : i \in DOMAIN Sequence} => serve = "off"

ServerInv == StillOpen /\ Reported /\ NilIsDrained /\ BeforeServing /\ active \in Nat

LEMMA ServerStarts == AppInit => ServerInv
BY DEF AppInit, ServerInit, ServerInv, StillOpen, Reported, NilIsDrained, BeforeServing

LEMMA ServingIsNoHook == "serve" \notin {Sequence[i] : i \in DOMAIN Sequence}
BY DEF Sequence

LEMMA ServerStep == ServerInv /\ [AppNext]_<<appVars, serverVars>> => ServerInv'
<1> SUFFICES ASSUME ServerInv, [AppNext]_<<appVars, serverVars>> PROVE ServerInv' OBVIOUS
<1> USE DEF ServerInv, StillOpen, Reported, NilIsDrained
<1>1. ASSUME NEW ok \in BOOLEAN, Hook(ok) PROVE ServerInv'
  <2>1. serve = "off" /\ serve' \in {"off", "start"}
    BY <1>1 DEF Hook, BeforeServing
  <2>2. BeforeServing'
    BY <1>1, <2>1, ServingIsNoHook DEF Hook, BeforeServing
  <2> QED BY <1>1, <2>1, <2>2 DEF Hook
<1>2. ASSUME NEW ok \in BOOLEAN, ShutdownReturns(ok) PROVE ServerInv'
  BY <1>2 DEF ShutdownReturns, BeforeServing, Sequence
<1>3. ASSUME Shutdown PROVE ServerInv'
  BY <1>3 DEF Shutdown, BeforeServing, Sequence, serverVars
<1>4. ASSUME Signal \/ Stop PROVE ServerInv'
  BY <1>4 DEF Signal, Stop, BeforeServing, Sequence, appVars
<1>5. ASSUME hook = "serve", ListenAndServe, UNCHANGED appVars PROVE ServerInv'
  <2>0. BeforeServing'
    BY <1>5, ServingIsNoHook DEF BeforeServing, appVars
  <2>1. ASSUME NEW ok \in BOOLEAN, ListenHTTP(ok) \/ NewDNS01Manager(ok) \/ PreWarm(ok) PROVE ServerInv'
    BY <2>0, <2>1 DEF ListenHTTP, NewDNS01Manager, PreWarm, Leave
  <2>2. ASSUME NEW ok \in BOOLEAN, LoadX509KeyPair(ok) \/ ListenTLS(ok) PROVE ServerInv'
    BY <2>0, <2>2 DEF LoadX509KeyPair, ListenTLS, shutdownAux
  <2>3. ASSUME StartACMEServer \/ waitForCert PROVE ServerInv'
    BY <2>0, <2>3 DEF StartACMEServer, waitForCert
  <2>4. ASSUME NEW problem, validateTLSFiles(problem) PROVE ServerInv'
    BY <2>0, <2>4 DEF validateTLSFiles, Leave
  <2>5. ASSUME OnContext \/ ShutdownPrimary \/ Drained PROVE ServerInv'
    BY <2>0, <2>5 DEF OnContext, ShutdownPrimary, Drained, shutdownAux, closePrimary, Leave
  <2>6. ASSUME OnServeErr \/ OnAuxErr PROVE ServerInv'
    BY <2>0, <2>6 DEF OnServeErr, OnAuxErr, shutdownAux, closePrimary, Leave
  <2>7. ASSUME AbortDone \/ StopBackground PROVE ServerInv'
    BY <2>0, <2>7 DEF AbortDone, StopBackground
  <2> QED BY <1>5, <2>1, <2>2, <2>3, <2>4, <2>5, <2>6, <2>7 DEF ListenAndServe
<1>6. ASSUME ServerGoroutines, UNCHANGED appVars PROVE ServerInv'
  <2>0. UNCHANGED serve => BeforeServing'
    BY <1>6 DEF BeforeServing, appVars
  <2>1. CASE servePrimary
    <3>1. serveErr = << >> /\ primary # "none" /\ primary' = "ended" /\ UNCHANGED <<serve, aux, auxErr, listening, active, bg, result>>
      BY <2>1 DEF servePrimary
    <3>2. Append(<< >>, "err") = <<"err">>
      OBVIOUS
    <3>3. serve = "loop" => serveErr' = <<"err">>
      BY <2>1, <3>1, <3>2 DEF servePrimary
    <3>4. StillOpen'
      BY <3>1
    <3>5. Reported'
      BY ONLY <3>1, <3>3, Reported DEF Reported
    <3>6. NilIsDrained'
      BY <3>1
    <3> QED BY <2>0, <3>1, <3>4, <3>5, <3>6
  <2>2. CASE serveAuxiliary
    BY <2>0, <2>2 DEF serveAuxiliary
  <2>3. CASE Request
    BY <2>0, <2>3 DEF Request
  <2>4. CASE ShutdownTimeout \/ (\E n \in 0 .. 1 : AuxRequest(n)) \/ (\E b \in {"idle", "busy"} : Background(b))
    BY <2>0, <2>4 DEF ShutdownTimeout, AuxRequest, Background
  <2> QED BY <1>6, <2>1, <2>2, <2>3, <2>4 DEF ServerGoroutines
<1>7. CASE UNCHANGED <<appVars, serverVars>>
  BY <1>7 DEF appVars, serverVars, BeforeServing
<1> QED BY <1>1, <1>2, <1>3, <1>4, <1>5, <1>6, <1>7 DEF AppNext, Run

(* Whichever way ListenAndServeWithContext returns, at start up, after a signal,
   after either server failed, nothing it started is left, and nil means that no
   request was cut off: for any set of hooks and number of requests. *)
THEOREM ServerSettles == AppSpec => []ReturnsSettled
<1>1. ServerInv => ReturnsSettled
  BY DEF ServerInv, StillOpen, NilIsDrained, ReturnsSettled, QuietAfterReturn, CleanMeansDrained
<1> QED BY <1>1, ServerStarts, ServerStep, PTL DEF AppSpec
=============================================================================
