----------------------------- MODULE RateLimit -----------------------------
(* pantry/ratelimit: a token bucket per key, created when the key is first
   seen and removed by the cleanup goroutine when it has been idle for longer
   than the ttl.  Every operation runs under the limiter's mutex.  Tokens are
   counted in fractions of 1/Unit; a tick is a unit of time. *)
EXTENDS Integers, GoMap

CONSTANTS Clients,      \* the keys
          Unit,         \* fractions of a token
          Rate,         \* fractions gained per tick
          Burst,        \* tokens a bucket holds
          IdleTTL,      \* ticks before an idle key is removed
          MaxTicks      \* bound

ASSUME RateAssumption == /\ {Rate, IdleTTL, MaxTicks} \subseteq Nat
                         /\ {Unit, Burst} \subseteq Nat \ {0}

VARIABLES buckets,      \* key -> [tokens, lastTime, lastSeen]
          tick,
          admitted      \* key -> time -> requests admitted since then

limitVars == <<buckets, tick, admitted>>

RateTypeOK == /\ DOMAIN buckets \subseteq Clients /\ tick \in 0 .. MaxTicks
              /\ \A k \in DOMAIN buckets : buckets[k].tokens \in 0 .. Burst * Unit

RateInit == /\ buckets = << >> /\ tick = 0
            /\ admitted = [k \in Clients |-> [t \in 0 .. MaxTicks |-> 0]]

-----------------------------------------------------------------------------
NewBucket == [tokens |-> Burst * Unit, lastTime |-> tick, lastSeen |-> tick]
Bucket(k) == IF k \in DOMAIN buckets THEN buckets[k] ELSE NewBucket

(* Limiter.Allow and AllowN: refill since lastTime, up to the burst, then take n. *)
Full(t) == IF t > Burst * Unit THEN Burst * Unit ELSE t
Refill(b) == Full(b.tokens + (tick - b.lastTime) * Rate)

(* n requests of k are let through now. *)
Admit(k, n) == [admitted EXCEPT ![k] = [s \in 0 .. MaxTicks |-> IF s <= tick THEN @[s] + n ELSE @[s]]]

(* Mutant: lastTime does not move when a request is refused. *)
AllowForgets(k, n) ==
    LET b == Bucket(k)
        ok == Refill(b) >= n * Unit
    IN  /\ buckets' = Put(buckets, k, [tokens |-> IF ok THEN Refill(b) - n * Unit ELSE Refill(b),
                                       lastTime |-> IF ok THEN tick ELSE b.lastTime, lastSeen |-> tick])
        /\ admitted' = IF ok THEN Admit(k, n) ELSE admitted
        /\ UNCHANGED tick
Allow(k, n) ==
    LET b == Bucket(k)
        ok == Refill(b) >= n * Unit
    IN  /\ buckets' = Put(buckets, k, [tokens |-> IF ok THEN Refill(b) - n * Unit ELSE Refill(b),
                                       lastTime |-> tick, lastSeen |-> tick])
        /\ admitted' = IF ok THEN Admit(k, n) ELSE admitted
        /\ UNCHANGED tick

(* cleanup: a key that comes back gets a full bucket. *)
cleanup ==
    /\ \E k \in DOMAIN buckets : tick - buckets[k].lastSeen > IdleTTL
    /\ buckets' = Drop(buckets, {k \in DOMAIN buckets : tick - buckets[k].lastSeen > IdleTTL})
    /\ UNCHANGED <<tick, admitted>>

RateTick == tick < MaxTicks /\ tick' = tick + 1 /\ UNCHANGED <<buckets, admitted>>

RateNext == \/ \E k \in Clients, n \in 1 .. 2 : Allow(k, n)
            \/ cleanup \/ RateTick

RateSpec == RateInit /\ [][RateNext]_limitVars

-----------------------------------------------------------------------------
(* In every interval a key is admitted at most Burst plus what the rate gives
   in that time, although idle keys are forgotten: with a ttl in which a bucket
   refills, nobody gains by being forgotten. *)
BurstRespected == IdleTTL * Rate >= Burst * Unit =>
    \A k \in Clients, s \in 0 .. tick : admitted[k][s] * Unit <= Burst * Unit + (tick - s) * Rate
=============================================================================
