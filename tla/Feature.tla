------------------------------ MODULE Feature ------------------------------
(* pantry/feature: the flag manager, a map in front of a store, and the
   evaluation of a flag for a user.  The store is a JSONStore ("file"), a
   MemoryStore ("memory"), a MapStore ("map", whose Save does nothing), an
   EnvStore ("env", which remembers which keys to look up) or a CompositeStore of
   a JSONStore before a MapStore ("composite").  Flags are pointers: what a
   MemoryStore or a MapStore hands out is its own object, and a change made in
   place reaches both.  A percentage is a number of hash buckets out of Buckets. *)
EXTENDS Integers, Sequences, FiniteSets, GoMap

CONSTANTS FlagKeys, Buckets,
          MaxFlagOps,    \* bound: changes, reloads and restarts
          MaxRules,      \* bound: rules of a flag
          MaxVariants,   \* bound: variants of a flag
          Weights        \* weights of a variant

VARIABLES flagStore,     \* which store
          flags,         \* the manager's map: key -> [on, pct]
          primary,       \* what Save writes to: the file, the memory, the keys an EnvStore knows
          fallback,      \* a MapStore's map, or the environment
          readable,      \* the file holds JSON
          shared,        \* keys whose flag in the manager's map is the store's own object
          reload,        \* what a Reload under way has read, and what of it is the store's own
          flagOps,
          apart          \* a Save failed, or a change came between the two halves of a Reload

ASSUME FeatureAssumption == {Buckets, MaxRules, MaxVariants} \subseteq Nat /\ Weights \subseteq Int

featureVars == <<flagStore, flags, primary, fallback, readable, shared, reload, flagOps, apart>>

Flags == [on : BOOLEAN, pct : 0 .. Buckets]
NoFlags == << >>
Simple == [on |-> TRUE, pct |-> 0]
NoReload == [pending |-> FALSE, read |-> NoFlags, shared |-> {}]
InFile == flagStore \in {"file", "composite"}

FeatureTypeOK == DOMAIN flags \subseteq FlagKeys /\ \A k \in DOMAIN flags : flags[k] \in Flags

(* What a store's LoadAll gives: a file that does not parse gives an error, which
   a composite skips; its later stores win.  An EnvStore looks up the keys it
   was told of. *)
LoadFails == flagStore = "file" /\ ~readable
LoadAll == IF flagStore = "env" THEN Drop(fallback, DOMAIN fallback \ DOMAIN primary)
           ELSE Merge(fallback, IF readable THEN primary ELSE NoFlags)
(* The keys for which it gives the store's own object. *)
OwnObjects == CASE flagStore = "memory" -> DOMAIN primary
                [] flagStore \in {"map", "composite"} -> DOMAIN fallback
                [] OTHER -> {}

(* A process starts with what is in the file, in the map it was compiled with
   and in the environment; NewManager loads it and ignores an error. *)
Fixed == IF flagStore \in {"map", "env", "composite"} THEN [k \in FlagKeys |-> Simple] ELSE NoFlags
FeatureInit == /\ flagStore \in {"file", "memory", "map", "env", "composite"}
               /\ fallback = Fixed /\ primary = NoFlags /\ readable = TRUE
               /\ flags = LoadAll /\ shared = OwnObjects
               /\ reload = NoReload /\ flagOps = 0 /\ apart = FALSE

-----------------------------------------------------------------------------
FlagOp == flagOps < MaxFlagOps /\ flagOps' = flagOps + 1
DropFlag(f, k) == Drop(f, {k})

(* Mutant: the change is kept in memory only. *)
SaveEndsUnsaved(end, to) ==
    /\ end = "ok" /\ UNCHANGED <<primary, readable>>
    /\ apart' = (apart \/ reload.pending)

(* How a Save or Delete of the store ends: a file may refuse to be opened, or
   be left with part of what was written; what does not parse is never written
   again, since loadUnsafe fails first. *)
SaveOutcomes == {"ok"} \cup IF InFile THEN {"fail", "torn"} ELSE {}
SaveEnds(end, to) ==
    /\ end = "ok" \/ InFile
    /\ ~readable => end = "fail"
    /\ primary' = IF end = "ok" /\ flagStore # "map" THEN to ELSE primary
    /\ readable' = (readable /\ end # "torn")
    /\ apart' = (apart \/ end # "ok" \/ reload.pending)

(* Register: the caller's object replaces the one in the map, then goes to the
   store, whose error is returned with the map already changed. *)
Register(k, f, end) ==
    /\ FlagOp /\ flags' = Put(flags, k, f) /\ SaveEnds(end, Put(primary, k, f))
    /\ IF flagStore = "memory"
       THEN shared' = shared \cup {k} /\ reload' = [reload EXCEPT !.shared = @ \ {k}]
       ELSE shared' = shared \ {k} /\ UNCHANGED reload
    /\ UNCHANGED <<flagStore, fallback>>

(* SetEnabled and SetPercentage change the object in the map, and with it what
   else points to it: the store's map, and what a Reload under way has read. *)
ChangeFlag(k, f, end) ==
    /\ FlagOp /\ k \in DOMAIN flags /\ flags' = Put(flags, k, f)
    /\ SaveEnds(end, Put(primary, k, f))
    /\ IF k \in shared
       THEN /\ reload' = [reload EXCEPT !.read = IF k \in reload.shared THEN Put(@, k, f) ELSE @]
            /\ fallback' = IF flagStore = "memory" THEN fallback ELSE Put(fallback, k, f)
            /\ UNCHANGED shared
       ELSE /\ UNCHANGED fallback
            /\ IF flagStore = "memory"
               THEN shared' = shared \cup {k} /\ reload' = [reload EXCEPT !.shared = @ \ {k}]
               ELSE UNCHANGED <<shared, reload>>
    /\ UNCHANGED flagStore
SetEnabled(k, b, end) == k \in DOMAIN flags /\ ChangeFlag(k, [flags[k] EXCEPT !.on = b], end)
SetPercentage(k, p, end) ==
    k \in DOMAIN flags /\ p \in 0 .. Buckets /\ ChangeFlag(k, [flags[k] EXCEPT !.pct = p], end)

DeleteFlag(k, end) ==
    /\ FlagOp /\ k \in DOMAIN flags /\ flags' = DropFlag(flags, k)
    /\ SaveEnds(end, DropFlag(primary, k)) /\ shared' = shared \ {k}
    /\ reload' = IF flagStore = "memory" THEN [reload EXCEPT !.shared = @ \ {k}] ELSE reload
    /\ UNCHANGED <<flagStore, fallback>>

(* Reload reads the store before it takes the manager's lock; an error leaves
   the map as it is. *)
ReloadRead ==
    /\ FlagOp /\ ~reload.pending
    /\ reload' = IF LoadFails THEN reload ELSE [pending |-> TRUE, read |-> LoadAll, shared |-> OwnObjects]
    /\ UNCHANGED <<flagStore, flags, primary, fallback, readable, shared, apart>>
ReloadApply ==
    /\ reload.pending /\ flags' = reload.read /\ shared' = reload.shared /\ reload' = NoReload
    /\ UNCHANGED <<flagStore, primary, fallback, readable, flagOps, apart>>

(* A new process: only a file is still there. *)
Restart ==
    /\ FlagOp /\ UNCHANGED <<flagStore, readable>>
    /\ fallback' = Fixed /\ primary' = IF InFile THEN primary ELSE NoFlags
    /\ flags' = IF LoadFails THEN NoFlags ELSE LoadAll'
    /\ shared' = OwnObjects' /\ reload' = NoReload /\ apart' = ~readable

FeatureNext ==
    \/ \E k \in FlagKeys, end \in SaveOutcomes :
          \/ Register(k, Simple, end) \/ DeleteFlag(k, end)
          \/ \E b \in BOOLEAN : SetEnabled(k, b, end)
          \/ \E p \in 0 .. Buckets : SetPercentage(k, p, end)
    \/ ReloadRead \/ ReloadApply \/ Restart

FeatureSpec == FeatureInit /\ [][FeatureNext]_featureVars

-----------------------------------------------------------------------------
(* evaluate: the first rule that matches decides; then a common group; then
   the rollout; then the default.  A rule is [matches, on]: what matchRule says
   for the user at hand, and its result. *)
inPercentage(bucket, pct) == pct > 0 /\ (pct >= Buckets \/ bucket < pct)
evaluate(flag, rules, inGroup, hasUser, bucket) ==
    LET hit == {i \in DOMAIN rules : rules[i].matches}
    IN  IF hit # {} THEN rules[CHOOSE i \in hit : \A j \in hit : i <= j].on
        ELSE inGroup \/ (hasUser /\ inPercentage(bucket, flag.pct)) \/ flag.on

(* selectVariant: the variant in whose share of the total weight the hash
   falls; a weight that is not positive counts as one.  The total is below 2^32. *)
Weight(w) == IF w <= 0 THEN 1 ELSE w
Total(ws) == LET sum[i \in 0 .. Len(ws)] == IF i = 0 THEN 0 ELSE sum[i - 1] + Weight(ws[i]) IN sum
selectVariant(ws, hash) ==
    LET upTo == Total(ws)
        h == hash % upTo[Len(ws)]
    IN  CHOOSE i \in DOMAIN ws : h < upTo[i] /\ h >= upTo[i - 1]

-----------------------------------------------------------------------------
(* A file and a MemoryStore keep every change: unless a Save failed or a change
   slipped between the two halves of a Reload, a Reload brings back just what
   the manager has, and so does a restart over a file.  The stores that save
   nothing (MapStore, EnvStore) and a composite, where a later store wins, undo
   what they do not hold; whichever the store, a flag that is the store's own
   object keeps what SetEnabled and SetPercentage made of it. *)
ReloadKeepsChanges ==
    /\ flagStore \in {"file", "memory"} /\ ~apart => ~LoadFails /\ LoadAll = flags
    /\ \A k \in shared : k \in DOMAIN LoadAll /\ LoadAll[k] = flags[k]

(* Raising the percentage takes a flag from nobody who had it, whatever the
   rules and groups say; at the full percentage every user without a rule has it. *)
RolloutGrows ==
    \A on, inGroup, hasUser \in BOOLEAN, bucket \in 0 .. Buckets - 1, p, q \in 0 .. Buckets,
       rules \in UNION {[1 .. n -> [matches : BOOLEAN, on : BOOLEAN]] : n \in 0 .. MaxRules} :
        LET enabled(pct) == evaluate([on |-> on, pct |-> pct], rules, inGroup, hasUser, bucket)
        IN  /\ p <= q /\ enabled(p) => enabled(q)
            /\ hasUser /\ (\A i \in DOMAIN rules : ~rules[i].matches) => enabled(Buckets)

(* Of as many consecutive hashes as there is weight, each variant gets its own
   weight: selectVariant's shares leave no gap and do not overlap. *)
VariantShares ==
    \A ws \in UNION {[1 .. n -> Weights] : n \in 1 .. MaxVariants} :
        LET total == Total(ws)[Len(ws)]
        IN  \A i \in DOMAIN ws :
               Cardinality({h \in total .. 2 * total - 1 : selectVariant(ws, h) = i}) = Weight(ws[i])

(* What Manager says of a flag: a Reload keeps what the store kept, and a rollout
   only grows (Reload, evaluate, selectVariant). *)
FlagsSound == ReloadKeepsChanges /\ RolloutGrows /\ VariantShares
=============================================================================
