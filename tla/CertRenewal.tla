---------------------------- MODULE CertRenewal ----------------------------
(* DNS01Manager of server/acmedns.go: TLS handshakes, the background goroutine
   and ForceRenewal share one certificate; whoever finds it missing or close to
   its end renews it through an ACME order with one DNS-01 authorization per
   domain, the others wait on renewCond.

   A certificate is a pair of serial numbers: the order its .crt and the order
   its .key come from.  Serial 0 is what an earlier process left on disk.
   "fresh" holds the serials that are still outside renewalBuffer; time takes
   them out.  Every remote call may fail, which covers cancelled and expired
   contexts, and every renewal may panic. *)
EXTENDS Naturals, FiniteSets, Sequences

CONSTANTS Handshakes,   \* goroutines in a TLS handshake
          Main,         \* the goroutine of ListenAndServeWithContext
          Ticker,       \* the background renewal goroutine
          Admin,        \* a caller of ForceRenewal
          NoCert,       \* nil certificate, missing file, missing TXT record
          Domains,      \* configured domains: sequence of [base, wild]
          OldNames,     \* names the certificate left on disk may be for
          MaxOrders,    \* bound: ACME orders placed
          Workloads     \* sets of callers, each with a bound on process deaths

(* PreWarm returns before there are other goroutines that ask. *)
ASSUME CertAssumption == Main \notin Handshakes \cup {Ticker, Admin}

Procs == Handshakes \cup {Main, Ticker, Admin}
Serials == 0 .. MaxOrders
Bases == {Domains[i].base : i \in DOMAIN Domains}

VARIABLES cert,      \* m.cert with m.certExpiry: NoCert or [crt, key]
          disk,      \* <prefix>.crt and <prefix>.key in CacheDir
          names,     \* DNS names of the certificate with serial 0
          fresh,     \* serials more than renewalBuffer away from their end
          renewing,  \* m.renewing
          client,    \* m.client is set
          account,   \* the ACME server has our account
          txt,       \* TXT record per base name: NoCert or <<order, index>>
          orders,    \* orders placed so far
          pc, ord, idx,  \* per goroutine: step, its order, its authorization
          callers,   \* who asks for certificates; with Main, the server may stop
          manager,   \* "down", "warming" (PreWarm), "up", "stopping" (bgCancel called)
          crashes    \* process deaths still to come

certVars == <<cert, disk, names, fresh, renewing, client, account, txt, orders,
              pc, ord, idx, callers, manager, crashes>>

Obtaining == {"load", "client", "order", "authz", "record", "propagate", "accept",
              "validate", "delete", "finalize", "cacheKey", "cacheCert", "store"}
Holding == Obtaining \cup {"begin", "finish", "failed"}   \* steps taken with renewing set
Steps == Holding \cup {"idle", "get", "slow", "waiting", "removeCrt", "removeKey"}

CertTypeOK ==
    /\ cert \in {NoCert} \cup [crt : Serials, key : Serials]
    /\ disk \in [crt : {NoCert} \cup Serials, key : {NoCert} \cup Serials]
    /\ names \in OldNames /\ fresh \subseteq Serials
    /\ renewing \in BOOLEAN /\ client \in BOOLEAN /\ account \in BOOLEAN
    /\ txt \in [Bases -> {NoCert} \cup (1 .. MaxOrders) \X DOMAIN Domains]
    /\ orders \in Serials /\ pc \in [Procs -> Steps] /\ ord \in [Procs -> Serials]
    /\ idx \in [Procs -> 1 .. Len(Domains) + 1]
    /\ manager \in {"down", "warming", "up", "stopping"}
    /\ \E w \in Workloads : callers = w.callers /\ crashes \in 0 .. w.crashes

CertInit ==
    /\ cert = NoCert /\ names \in OldNames
    /\ \/ disk = [crt |-> NoCert, key |-> NoCert] /\ fresh = {}
       \/ disk = [crt |-> 0, key |-> 0] /\ fresh = {0}
    /\ renewing = FALSE /\ client = FALSE /\ account \in BOOLEAN
    /\ txt = [b \in Bases |-> NoCert] /\ orders = 0
    /\ pc = [p \in Procs |-> IF p = Main THEN "load" ELSE "idle"]
    /\ ord = [p \in Procs |-> 0] /\ idx = [p \in Procs |-> 1]
    /\ manager = "warming"
    /\ \E w \in Workloads : callers = w.callers /\ crashes = w.crashes

-----------------------------------------------------------------------------
(* cert # nil and now + renewalBuffer is before certExpiry. *)
Valid == cert # NoCert /\ cert.crt \in fresh

At(p, step) == pc[p] = step
Go(p, step) == pc' = [pc EXCEPT ![p] = step]

(* A renewal leaves with an error: GetCertificate still has its deferred
   function to run. *)
Fail(p) == Go(p, "failed")

(* domainCoveredByCert: by the name itself, by a wildcard for its base, or a
   wildcard domain by its bare base. *)
domainCoveredByCert(dnsNames, d) ==
    \E n \in dnsNames : \/ n = d
                        \/ n.wild /\ n.base = d.base
                        \/ d.wild /\ ~n.wild /\ n.base = d.base

(* certMatchesDomains: every configured domain is covered. *)
certMatchesDomains(dnsNames) == \A i \in DOMAIN Domains : domainCoveredByCert(dnsNames, Domains[i])

(* DNS names of a certificate: an order is always for all of Domains. *)
NamesOf(s) == IF s = 0 THEN names ELSE {Domains[i] : i \in DOMAIN Domains}

(* loadCachedCert succeeds: both files are there, the key belongs to the
   certificate (tls.X509KeyPair), and it covers the domains. *)
loadCachedCert == /\ disk.crt # NoCert /\ disk.key # NoCert
                  /\ disk.crt = disk.key
                  /\ certMatchesDomains(NamesOf(disk.crt))

(* TXT record and value of the authorization p is at; the "*." prefix of a
   wildcard domain is cut off. *)
Record(p) == Domains[idx[p]].base
TxtValue(p) == <<ord[p], idx[p]>>

-----------------------------------------------------------------------------
(* A handshake asks for the certificate; only a serving process has any. *)
Hello(h) == /\ manager \in {"up", "stopping"} /\ h \in callers /\ At(h, "idle")
            /\ Go(h, "get")
            /\ UNCHANGED <<cert, disk, names, fresh, renewing, client, account, txt, orders,
                           ord, idx, manager, callers, crashes>>

(* checkAndRenewIfNeeded on a tick: GetCertificate(nil) if certExpiry (zero
   without a certificate) is inside the buffer. *)
checkAndRenewIfNeeded ==
    /\ manager \in {"up", "stopping"} /\ Ticker \in callers /\ At(Ticker, "idle") /\ ~Valid
    /\ Go(Ticker, "get")
    /\ UNCHANGED <<cert, disk, names, fresh, renewing, client, account, txt, orders,
                   ord, idx, manager, callers, crashes>>

(* ForceRenewal drops the certificate, then the two files, then asks for one. *)
ForceRenewal ==
    /\ manager = "up" /\ Admin \in callers /\ At(Admin, "idle") /\ orders < MaxOrders
    /\ cert' = NoCert /\ Go(Admin, "removeCrt")
    /\ UNCHANGED <<disk, names, fresh, renewing, client, account, txt, orders,
                   ord, idx, manager, callers, crashes>>
RemoveCached(ok) ==
    /\ \/ /\ At(Admin, "removeCrt") /\ Go(Admin, "removeKey")
          /\ disk' = IF ok THEN [disk EXCEPT !.crt = NoCert] ELSE disk
       \/ /\ At(Admin, "removeKey") /\ Go(Admin, "get")
          /\ disk' = IF ok THEN [disk EXCEPT !.key = NoCert] ELSE disk
    /\ UNCHANGED <<cert, names, fresh, renewing, client, account, txt, orders,
                   ord, idx, manager, callers, crashes>>

(* GetCertificate, fast path: under certMu only. *)
FastPath(p) ==
    /\ At(p, "get")
    /\ Go(p, IF Valid THEN "idle" ELSE "slow")
    /\ UNCHANGED <<cert, disk, names, fresh, renewing, client, account, txt, orders,
                   ord, idx, manager, callers, crashes>>

(* Slow path, under renewMu: wait while somebody renews, look again, and
   become the one who renews. *)
Wait(p) == /\ At(p, "slow") /\ renewing /\ Go(p, "waiting")
           /\ UNCHANGED <<cert, disk, names, fresh, renewing, client, account, txt, orders,
                          ord, idx, manager, callers, crashes>>
BecomeRenewer(p) ==
    /\ At(p, "slow") /\ ~renewing
    /\ IF Valid THEN Go(p, "idle") /\ UNCHANGED renewing
                ELSE Go(p, "begin") /\ renewing' = TRUE
    /\ UNCHANGED <<cert, disk, names, fresh, client, account, txt, orders,
                   ord, idx, manager, callers, crashes>>

(* The context of the connection may be over already. *)
Begin(p, live) ==
    /\ At(p, "begin")
    /\ IF live THEN Go(p, "load") ELSE Fail(p)
    /\ UNCHANGED <<cert, disk, names, fresh, renewing, client, account, txt, orders,
                   ord, idx, manager, callers, crashes>>

(* Mutant: the two files are not checked to be a pair. *)
LoadUnpaired(p) ==
    /\ At(p, "load")
    /\ IF NoCert \notin {disk.crt, disk.key} /\ disk.crt \in fresh
       THEN cert' = disk /\ Go(p, "finish")
       ELSE Go(p, "client") /\ UNCHANGED cert
    /\ UNCHANGED <<disk, names, fresh, renewing, client, account, txt, orders,
                   ord, idx, manager, callers, crashes>>
(* doObtainCertificate takes a cached certificate that is not due yet. *)
Load(p) ==
    /\ At(p, "load")
    /\ IF loadCachedCert /\ disk.crt \in fresh
       THEN cert' = disk /\ Go(p, "finish")
       ELSE Go(p, "client") /\ UNCHANGED cert
    /\ UNCHANGED <<disk, names, fresh, renewing, client, account, txt, orders,
                   ord, idx, manager, callers, crashes>>

(* ensureClient: m.client is set before the account is looked up or
   registered, so after a failure the next call finds it set and goes on.  The
   registration may reach the server although its answer is lost. *)
ensureClient(p) ==
    /\ At(p, "client")
    /\ \/ client /\ Go(p, "order") /\ UNCHANGED <<client, account>>
       \/ ~client /\ Fail(p) /\ UNCHANGED <<client, account>>
       \/ ~client /\ client' = TRUE /\ account' = TRUE /\ Go(p, "order")
       \/ ~client /\ client' = TRUE /\ account' \in {account, TRUE} /\ Fail(p)
    /\ UNCHANGED <<cert, disk, names, fresh, renewing, txt, orders, ord, idx, manager, callers, crashes>>

(* AuthorizeOrder; the server refuses a client without an account. *)
AuthorizeOrder(p, ok) ==
    /\ At(p, "order")
    /\ IF ok THEN /\ account /\ orders < MaxOrders
                  /\ orders' = orders + 1 /\ ord' = [ord EXCEPT ![p] = orders + 1]
                  /\ idx' = [idx EXCEPT ![p] = 1] /\ Go(p, "authz")
             ELSE Fail(p) /\ UNCHANGED <<orders, ord, idx>>
    /\ UNCHANGED <<cert, disk, names, fresh, renewing, client, account, txt, manager, callers, crashes>>

(* One round of the loop over the authorizations, or its end: GetAuthorization
   may find one valid already, and may fail or lack a DNS-01 challenge. *)
GetAuthorization(p) ==
    /\ At(p, "authz")
    /\ \/ idx[p] > Len(Domains) /\ Go(p, "finalize") /\ UNCHANGED idx
       \/ idx[p] <= Len(Domains) /\ Go(p, "record") /\ UNCHANGED idx
       \/ /\ idx[p] <= Len(Domains) /\ idx' = [idx EXCEPT ![p] = @ + 1]
          /\ UNCHANGED pc
       \/ idx[p] <= Len(Domains) /\ Fail(p) /\ UNCHANGED idx
    /\ UNCHANGED <<cert, disk, names, fresh, renewing, client, account, txt, orders,
                   ord, manager, callers, crashes>>

(* createDNSRecord upserts the record; the wait for Route 53 may fail after
   the change was made, and nobody deletes the record then. *)
createDNSRecord(p, made, ok) ==
    /\ At(p, "record") /\ (ok => made)
    /\ txt' = IF made THEN [txt EXCEPT ![Record(p)] = TxtValue(p)] ELSE txt
    /\ IF ok THEN Go(p, "propagate") ELSE Fail(p)
    /\ UNCHANGED <<cert, disk, names, fresh, renewing, client, account, orders,
                   ord, idx, manager, callers, crashes>>

(* deleteDNSRecord asks for exactly the value that was created: Route 53
   refuses to delete anything else.  Its failure is only logged. *)
deleteDNSRecord(p) ==
    \/ UNCHANGED txt
    \/ txt[Record(p)] = TxtValue(p) /\ txt' = [txt EXCEPT ![Record(p)] = NoCert]

(* waitForDNSPropagation, Accept and WaitAuthorization: each succeeds only on
   the expected record, and tries to remove it on failure. *)
AuthorizationStep(p, from, to, ok) ==
    /\ At(p, from)
    /\ IF ok THEN txt[Record(p)] = TxtValue(p) /\ Go(p, to) /\ UNCHANGED txt
             ELSE Fail(p) /\ deleteDNSRecord(p)
    /\ UNCHANGED <<cert, disk, names, fresh, renewing, client, account, orders,
                   ord, idx, manager, callers, crashes>>
Authorize(p, ok) == \/ AuthorizationStep(p, "propagate", "accept", ok)
                    \/ AuthorizationStep(p, "accept", "validate", ok)
                    \/ AuthorizationStep(p, "validate", "delete", ok)
DeleteRecord(p) ==
    /\ At(p, "delete") /\ deleteDNSRecord(p)
    /\ idx' = [idx EXCEPT ![p] = @ + 1] /\ Go(p, "authz")
    /\ UNCHANGED <<cert, disk, names, fresh, renewing, client, account, orders,
                   ord, manager, callers, crashes>>

(* CreateOrderCert and the checks of the chain it returns. *)
Finalize(p, ok) ==
    /\ At(p, "finalize")
    /\ IF ok THEN fresh' = fresh \cup {ord[p]} /\ Go(p, "cacheKey")
             ELSE Fail(p) /\ UNCHANGED fresh
    /\ UNCHANGED <<cert, disk, names, renewing, client, account, txt, orders,
                   ord, idx, manager, callers, crashes>>

(* cacheCert renames the key file into place, then the certificate file; it
   stops at the first error, which is only logged. *)
cacheCert(p, ok) ==
    /\ \/ /\ At(p, "cacheKey")
          /\ IF ok THEN disk' = [disk EXCEPT !.key = ord[p]] /\ Go(p, "cacheCert")
                   ELSE UNCHANGED disk /\ Go(p, "store")
       \/ /\ At(p, "cacheCert") /\ Go(p, "store")
          /\ disk' = IF ok THEN [disk EXCEPT !.crt = ord[p]] ELSE disk
    /\ UNCHANGED <<cert, names, fresh, renewing, client, account, txt, orders,
                   ord, idx, manager, callers, crashes>>

Store(p) ==
    /\ At(p, "store") /\ cert' = [crt |-> ord[p], key |-> ord[p]]
    /\ Go(p, "finish")
    /\ UNCHANGED <<disk, names, fresh, renewing, client, account, txt, orders,
                   ord, idx, manager, callers, crashes>>

(* A panic during a renewal: recovered in GetCertificate, where the deferred
   function turns it into an error.  PreWarm has nobody to recover it: see Crash. *)
Panic(p) == /\ p # Main /\ pc[p] \in Obtaining /\ Fail(p)
            /\ UNCHANGED <<cert, disk, names, fresh, renewing, client, account, txt, orders,
                           ord, idx, manager, callers, crashes>>

(* Mutant: the deferred function forgets the Broadcast. *)
FinishSilently(p) ==
    /\ pc[p] \in {"finish", "failed"}
    /\ ord' = [ord EXCEPT ![p] = 0] /\ idx' = [idx EXCEPT ![p] = 1]
    /\ IF p = Main
       THEN /\ manager' = IF At(p, "failed") THEN "down" ELSE "up"
            /\ Go(p, "idle") /\ UNCHANGED renewing
       ELSE /\ renewing' = FALSE /\ UNCHANGED manager
            /\ Go(p, "idle")
    /\ UNCHANGED <<cert, disk, names, fresh, client, account, txt, orders, callers, crashes>>
(* The deferred function: renewing is reset and everyone woken.  For Main it is
   PreWarm that returns; an error ends ListenAndServeWithContext. *)
Finish(p) ==
    /\ pc[p] \in {"finish", "failed"}
    /\ ord' = [ord EXCEPT ![p] = 0] /\ idx' = [idx EXCEPT ![p] = 1]
    /\ IF p = Main
       THEN /\ manager' = IF At(p, "failed") THEN "down" ELSE "up"
            /\ Go(p, "idle") /\ UNCHANGED renewing
       ELSE /\ renewing' = FALSE /\ UNCHANGED manager
            /\ pc' = [q \in Procs |-> IF q = p THEN "idle"
                                      ELSE IF At(q, "waiting") THEN "slow" ELSE pc[q]]
    /\ UNCHANGED <<cert, disk, names, fresh, client, account, txt, orders, callers, crashes>>

(* StopBackgroundRenewal: cancel, then wait for the goroutine, which is
   possibly in the middle of a renewal that the cancellation does not reach. *)
StopBackgroundRenewal ==
    /\ \/ Main \in callers /\ manager = "up" /\ manager' = "stopping"
       \/ manager = "stopping" /\ At(Ticker, "idle") /\ manager' = "down"
    /\ UNCHANGED <<cert, disk, names, fresh, renewing, client, account, txt, orders,
                   pc, ord, idx, callers, crashes>>

(* Time: a certificate comes within renewalBuffer of its end. *)
Age(s) == /\ s \in fresh /\ fresh' = fresh \ {s}
          /\ UNCHANGED <<cert, disk, names, renewing, client, account, txt, orders,
                         pc, ord, idx, manager, callers, crashes>>

(* The process dies, by a panic in PreWarm too, and another one starts on the
   same cache directory. *)
Crash ==
    /\ crashes > 0 /\ crashes' = crashes - 1
    /\ cert' = NoCert /\ renewing' = FALSE /\ client' = FALSE /\ manager' = "warming"
    /\ pc' = [p \in Procs |-> IF p = Main THEN "load" ELSE "idle"]
    /\ ord' = [p \in Procs |-> 0] /\ idx' = [p \in Procs |-> 1]
    /\ UNCHANGED <<disk, names, fresh, account, txt, orders, callers>>

-----------------------------------------------------------------------------
Renew(p) == \/ Load(p) \/ ensureClient(p) \/ GetAuthorization(p) \/ DeleteRecord(p)
            \/ Store(p) \/ Finish(p)
            \/ \E ok \in BOOLEAN : \/ Begin(p, ok) \/ AuthorizeOrder(p, ok) \/ Authorize(p, ok)
                                   \/ Finalize(p, ok) \/ cacheCert(p, ok)
                                   \/ \E made \in BOOLEAN : createDNSRecord(p, made, ok)

GetCertificate(p) == FastPath(p) \/ Wait(p) \/ BecomeRenewer(p) \/ Renew(p)

CertNext ==
    \/ \E h \in Handshakes : Hello(h)
    \/ \E p \in Procs : GetCertificate(p) \/ Panic(p)
    \/ checkAndRenewIfNeeded \/ ForceRenewal \/ StopBackgroundRenewal \/ Crash
    \/ \E ok \in BOOLEAN : RemoveCached(ok)
    \/ \E s \in Serials : Age(s)

CertSpec == CertInit /\ [][CertNext]_certVars

-----------------------------------------------------------------------------
(* Only one goroutine at a time is in doObtainCertificate, PreWarm's call that
   bypasses renewMu included ("Callers must ensure only one goroutine calls this
   at a time"). *)
OneRenewal == Cardinality({p \in Procs : pc[p] \in Obtaining}) <= 1

(* What handshakes are given is a certificate with its own private key, although
   the two files are replaced one after the other and the process may die, or
   ForceRenewal remove one of them, in between. *)
MatchedPair == cert # NoCert => cert.crt = cert.key

(* Concurrent renewals, crashes and forced renewals leave one renewer at a time
   and a certificate that matches its key (acmedns.go:157, 266, 1293). *)
RenewalSound == OneRenewal /\ MatchedPair
=============================================================================
