-------------------------- MODULE SchedulerProofs --------------------------
(***************************************************************************)
(* Every registered entry of a running scheduler has its goroutine, and    *)
(* Stop returns nil only when all goroutines are gone, for any entries and *)
(* any number of restarts.  The goroutine that serves an entry is the      *)
(* newest one, entryCh of the entry: it was started after the last Start,  *)
(* so that the channels its select waits on are open as long as the entry  *)
(* stays registered.  An older one may still run a handler across a Stop   *)
(* and a Start, and then reads the new s.stopCh: an entry has only one     *)
(* goroutine until the scheduler is restarted.                             *)
(***************************************************************************)
EXTENDS Scheduler, FiniteSetTheorems, TLAPS

States == {"unborn", "entering", "select", "executing", "ended"}
Running == {"entering", "select", "executing"}

SchedulerTypes ==
    /\ jobs \subseteq added /\ added \subseteq Entries
    /\ stopCh \in Nat /\ stopCh <= MaxStarts
    /\ entryCh \in [Entries -> Nat]
    /\ loop \in [Loops -> States]
    /\ DOMAIN sees = Loops
    /\ DOMAIN stop = Stoppers
    /\ waiter \in [Stoppers -> {"none", "in", "woken", "back"}]

(* A goroutine exists for every time an entry was started, at most once for each
   Start. *)
Started == /\ \A e \in Entries : entryCh[e] <= stopCh /\ (e \notin added => entryCh[e] = 0)
           /\ \A e \in Entries, n \in 1 .. MaxStarts : loop[<<e, n>>] # "unborn" => n <= entryCh[e]

(* What is closed is no longer in use. *)
ChannelsSound == /\ running => stopCh >= 1 /\ stopCh \notin closed
                 /\ \A n \in closed : n \in Nat /\ n <= stopCh
                 /\ \A e \in Entries, n \in Nat : <<e, n>> \in entryClosed => e \in added \ jobs

(* The newest goroutine of e is at work and waits on the scheduler's channel. *)
Served(e) == /\ entryCh[e] >= 1
             /\ loop[<<e, entryCh[e]>>] \in Running
             /\ loop[<<e, entryCh[e]>>] = "select" =>
                    sees[<<e, entryCh[e]>>][1] = stopCh /\ sees[<<e, entryCh[e]>>][2] \in Nat

SchedulerInv == /\ SchedulerTypes /\ Started /\ ChannelsSound
                /\ running => \A e \in jobs : Served(e)

LEMMA SchedulerConstants == MaxStarts \in Nat /\ IsFiniteSet(Entries)
BY SchedulerAssumption

LEMMA LoopPairs == \A e \in Entries, n \in 1 .. MaxStarts : <<e, n>> \in Loops /\ <<e, n>>[1] = e /\ <<e, n>>[2] = n
BY DEF Loops

LEMMA SchedulerStarts == Init => SchedulerInv
<1> SUFFICES ASSUME Init PROVE SchedulerInv OBVIOUS
<1> USE SchedulerConstants
<1>1. SchedulerTypes
  BY DEF Init, SchedulerTypes, States
<1>2. Started
  BY LoopPairs DEF Init, Started
<1>3. ChannelsSound
  BY DEF Init, ChannelsSound
<1> QED BY <1>1, <1>2, <1>3 DEF Init, SchedulerInv

(* startJob for the entries of S, each for the next time: their newest goroutines
   are at work, and nobody else's is touched. *)
LEMMA EntriesStarted ==
    ASSUME SchedulerTypes, Started, NEW S \in SUBSET Entries, NEW counted, StartEntries(S, counted),
           \A e \in S : entryCh[e] < MaxStarts
    PROVE  /\ entryCh' \in [Entries -> Nat] /\ loop' \in [Loops -> States]
           /\ \A e \in S : entryCh'[e] = entryCh[e] + 1 /\ loop'[<<e, entryCh'[e]>>] \in {"executing", "entering"}
           /\ \A e \in Entries \ S : /\ entryCh'[e] = entryCh[e]
                                     /\ \A n \in 1 .. MaxStarts : loop'[<<e, n>>] = loop[<<e, n>>]
           /\ \A e \in Entries, n \in 1 .. MaxStarts : loop'[<<e, n>>] # "unborn" => n <= entryCh'[e]
<1> USE SchedulerConstants
<1>1. entryCh' = [e \in Entries |-> IF e \in S THEN entryCh[e] + 1 ELSE entryCh[e]]
  BY DEF StartEntries
<1>2. entryCh' \in [Entries -> Nat] /\ \A e \in Entries : entryCh[e] \in Nat
  BY <1>1 DEF SchedulerTypes
<1>3. \A e \in S : entryCh'[e] = entryCh[e] + 1
  BY <1>1
<1>4. \A e \in Entries \ S : entryCh'[e] = entryCh[e]
  BY <1>1
<1>5. ASSUME NEW e \in Entries, NEW n \in 1 .. MaxStarts
      PROVE  loop'[<<e, n>>] = IF e \in S /\ n = entryCh[e] + 1
                               THEN IF e \in Immediate THEN "executing" ELSE "entering"
                               ELSE loop[<<e, n>>]
  <2>1. <<e, n>> \in Loops /\ <<e, n>>[1] = e /\ <<e, n>>[2] = n
    BY LoopPairs
  <2> QED BY <2>1 DEF StartEntries
<1>6. loop' \in [Loops -> States]
  BY DEF StartEntries, SchedulerTypes, States
<1>7. ASSUME NEW e \in S PROVE loop'[<<e, entryCh'[e]>>] \in {"executing", "entering"}
  <2>1. entryCh'[e] \in 1 .. MaxStarts
    BY <1>2, <1>3
  <2> QED BY <1>3, <1>5, <2>1
<1>8. ASSUME NEW e \in Entries, NEW n \in 1 .. MaxStarts, loop'[<<e, n>>] # "unborn" PROVE n <= entryCh'[e]
  <2>1. CASE e \in S /\ n = entryCh[e] + 1
    BY <1>2, <1>3, <2>1
  <2>2. CASE ~(e \in S /\ n = entryCh[e] + 1)
    <3>1. n <= entryCh[e]
      BY <1>5, <1>8, <2>2 DEF Started
    <3> QED BY <1>2, <1>3, <1>4, <3>1
  <2> QED BY <2>1, <2>2
<1>9. ASSUME NEW e \in Entries \ S, NEW n \in 1 .. MaxStarts PROVE loop'[<<e, n>>] = loop[<<e, n>>]
  BY <1>5
<1> QED BY <1>2, <1>3, <1>4, <1>6, <1>7, <1>8, <1>9

LEMMA SchedulerStep == SchedulerInv /\ [Next]_vars => SchedulerInv'
<1> SUFFICES ASSUME SchedulerInv, [Next]_vars PROVE SchedulerInv' OBVIOUS
<1> USE SchedulerConstants
<1>0. SchedulerTypes /\ Started /\ ChannelsSound /\ (running => \A e \in jobs : Served(e))
      /\ stopCh \in Nat /\ \A e \in Entries : entryCh[e] \in Nat /\ entryCh[e] <= stopCh
  BY DEF SchedulerInv, SchedulerTypes, Started
<1>b. stopCh \in Nat /\ stopCh <= MaxStarts
  BY <1>0 DEF SchedulerTypes
<1>a. ASSUME NEW e \in jobs, running
      PROVE  entryCh[e] \in 1 .. MaxStarts /\ e \in Entries /\ <<e, entryCh[e]>> \in Loops
  <2>1. e \in Entries
    BY <1>0 DEF SchedulerTypes
  <2>2. entryCh[e] >= 1 /\ entryCh[e] \in Nat /\ entryCh[e] <= stopCh
    BY <1>0, <1>a, <2>1 DEF Served
  <2>3. entryCh[e] \in 1 .. MaxStarts
    BY <1>b, <2>2
  <2> QED BY <2>1, <2>3, LoopPairs
<1>1. ASSUME NEW e \in Entries, Add(e) PROVE SchedulerInv'
  <2> DEFINE S == IF running THEN {e} ELSE {}
  <2>1. /\ e \notin added /\ added' = added \cup {e} /\ jobs' = jobs \cup {e}
        /\ StartEntries(S, Cardinality(S)) /\ UNCHANGED <<running, stopCh, closed, entryClosed, sees, stop, waiter>>
    BY <1>1 DEF Add, Register
  <2>2. S \in SUBSET Entries /\ (running => S = {e}) /\ (~running => S = {})
    OBVIOUS
  <2>3. entryCh[e] = 0
    BY <1>0, <2>1 DEF Started
  <2>4. \A f \in S : entryCh[f] < MaxStarts
    <3>1. running => stopCh >= 1
      BY <1>0 DEF ChannelsSound
    <3> QED BY <1>b, <2>2, <2>3, <3>1
  <2> HIDE DEF S
  <2>5. /\ entryCh' \in [Entries -> Nat] /\ loop' \in [Loops -> States]
        /\ \A f \in S : entryCh'[f] = entryCh[f] + 1 /\ loop'[<<f, entryCh'[f]>>] \in {"executing", "entering"}
        /\ \A f \in Entries \ S : /\ entryCh'[f] = entryCh[f]
                                  /\ \A n \in 1 .. MaxStarts : loop'[<<f, n>>] = loop[<<f, n>>]
        /\ \A f \in Entries, n \in 1 .. MaxStarts : loop'[<<f, n>>] # "unborn" => n <= entryCh'[f]
    BY <1>0, <2>1, <2>2, <2>4, EntriesStarted
  <2>6. SchedulerTypes'
    BY <1>0, <2>1, <2>5 DEF SchedulerTypes
  <2>7. Started'
    <3>1. ASSUME NEW f \in Entries PROVE entryCh'[f] <= stopCh' /\ (f \notin added' => entryCh'[f] = 0)
      <4>1. CASE f \in S
        <5>1. f = e /\ running
          BY <2>2, <4>1
        <5>2. stopCh >= 1
          BY <1>0, <5>1 DEF ChannelsSound
        <5>3. entryCh'[e] = 0 + 1
          BY <2>3, <2>5, <4>1, <5>1
        <5> QED BY <1>0, <2>1, <5>1, <5>2, <5>3
      <4>2. CASE f \notin S
        BY <1>0, <2>1, <2>5, <4>2 DEF Started
      <4> QED BY <4>1, <4>2
    <3> QED BY <2>5, <3>1 DEF Started
  <2>8. ChannelsSound'
    BY <1>0, <2>1 DEF ChannelsSound
  <2>9. ASSUME running', NEW f \in jobs' PROVE Served(f)'
    <3>0. running /\ S = {e}
      BY <2>1, <2>2, <2>9
    <3>1. CASE f = e
      <4>1. entryCh'[e] = 1 /\ loop'[<<e, entryCh'[e]>>] \in {"executing", "entering"}
        BY <2>3, <2>5, <3>0
      <4> QED BY <3>1, <4>1 DEF Served, Running
    <3>2. CASE f # e
      <4>1. f \in jobs /\ f \in Entries \ S
        BY <1>0, <2>1, <2>9, <3>0, <3>2 DEF SchedulerTypes
      <4>2. Served(f) /\ entryCh[f] \in 1 .. MaxStarts
        BY <1>0, <1>a, <3>0, <4>1
      <4>3. entryCh'[f] = entryCh[f] /\ loop'[<<f, entryCh[f]>>] = loop[<<f, entryCh[f]>>]
        BY <2>5, <4>1, <4>2
      <4> QED BY <2>1, <4>2, <4>3 DEF Served
    <3> QED BY <3>1, <3>2
  <2> QED BY <2>6, <2>7, <2>8, <2>9 DEF SchedulerInv
<1>2. ASSUME Start PROVE SchedulerInv'
  <2>1. /\ ~running /\ stopCh < MaxStarts /\ running' = TRUE /\ stopCh' = stopCh + 1
        /\ StartEntries(jobs, Cardinality(jobs)) /\ UNCHANGED <<added, jobs, closed, entryClosed, sees, stop, waiter>>
    BY <1>2 DEF Start, Begin
  <2>2. jobs \in SUBSET Entries
    BY <1>0 DEF SchedulerTypes
  <2>3. \A f \in jobs : entryCh[f] < MaxStarts
    BY <1>0, <1>b, <2>1, <2>2
  <2>4. /\ entryCh' \in [Entries -> Nat] /\ loop' \in [Loops -> States]
        /\ \A f \in jobs : entryCh'[f] = entryCh[f] + 1 /\ loop'[<<f, entryCh'[f]>>] \in {"executing", "entering"}
        /\ \A f \in Entries \ jobs : entryCh'[f] = entryCh[f]
        /\ \A f \in Entries, n \in 1 .. MaxStarts : loop'[<<f, n>>] # "unborn" => n <= entryCh'[f]
    BY <1>0, <2>1, <2>2, <2>3, EntriesStarted
  <2>5. SchedulerTypes'
    BY <1>0, <1>b, <2>1, <2>4 DEF SchedulerTypes
  <2>6. Started'
    <3>1. ASSUME NEW f \in Entries PROVE entryCh'[f] <= stopCh' /\ (f \notin added' => entryCh'[f] = 0)
      <4>1. CASE f \in jobs
        <5>1. entryCh[f] \in Nat /\ entryCh[f] <= stopCh /\ entryCh'[f] = entryCh[f] + 1
          BY <1>0, <2>4, <4>1
        <5>2. f \in added'
          BY <1>0, <2>1, <4>1 DEF SchedulerTypes
        <5>3. entryCh[f] + 1 <= stopCh + 1
          BY <1>b, <5>1
        <5> QED BY <2>1, <5>1, <5>2, <5>3
      <4>2. CASE f \notin jobs
        BY <1>0, <2>1, <2>4, <4>2 DEF Started
      <4> QED BY <4>1, <4>2
    <3> QED BY <2>4, <3>1 DEF Started
  <2>7. ChannelsSound'
    BY <1>0, <2>1 DEF ChannelsSound
  <2>8. ASSUME NEW f \in jobs PROVE Served(f)'
    <3>1. entryCh'[f] = entryCh[f] + 1 /\ entryCh[f] \in Nat /\ loop'[<<f, entryCh'[f]>>] \in {"executing", "entering"}
      BY <1>0, <2>2, <2>4
    <3> QED BY <3>1 DEF Served, Running
  <2> QED BY <2>1, <2>5, <2>6, <2>7, <2>8 DEF SchedulerInv
<1>3. ASSUME NEW l \in Loops, LoopStep(l) PROVE SchedulerInv'
  <2>1. UNCHANGED <<added, jobs, running, stopCh, closed, entryCh, entryClosed, stop>>
    BY <1>3 DEF LoopStep, EnterSelect, Fire, Executed, LoopEnds
  <2>2. PICK s \in States \ {"unborn"} : loop' = [loop EXCEPT ![l] = s]
    BY <1>3 DEF LoopStep, EnterSelect, Fire, Executed, LoopEnds, States
  <2>3. loop[l] \in Running
    BY <1>3 DEF LoopStep, EnterSelect, Fire, Executed, LoopEnds, Running
  <2>4. DOMAIN sees' = Loops /\ \A m \in Loops \ {l} : sees'[m] = sees[m]
    BY <1>0, <1>3 DEF LoopStep, EnterSelect, Fire, Executed, LoopEnds, SchedulerTypes
  <2>5. /\ loop' \in [Loops -> States] /\ loop'[l] = s
        /\ \A m \in Loops \ {l} : loop'[m] = loop[m]
    BY <1>0, <2>2 DEF SchedulerTypes
  <2>a. waiter' \in [Stoppers -> {"none", "in", "woken", "back"}]
    BY <1>0, <1>3 DEF LoopStep, EnterSelect, Fire, Executed, LoopEnds, SchedulerTypes
  <2>6. SchedulerTypes'
    BY <1>0, <2>1, <2>4, <2>5, <2>a DEF SchedulerTypes
  <2>7. Started'
    <3>1. ASSUME NEW e \in Entries, NEW n \in 1 .. MaxStarts, loop'[<<e, n>>] # "unborn"
          PROVE  n <= entryCh[e]
      <4>1. <<e, n>> \in Loops
        BY LoopPairs
      <4>2. loop[<<e, n>>] # "unborn"
        BY <2>3, <2>5, <3>1, <4>1 DEF Running
      <4> QED BY <1>0, <4>2 DEF Started
    <3> QED BY <1>0, <2>1, <3>1 DEF Started
  <2>8. ChannelsSound'
    BY <1>0, <2>1 DEF ChannelsSound
  <2>9. ASSUME running, NEW e \in jobs PROVE Served(e)'
    <3>1. entryCh[e] \in 1 .. MaxStarts /\ e \in Entries /\ <<e, entryCh[e]>> \in Loops /\ Served(e)
      BY <1>0, <1>a, <2>9
    <3>2. CASE l # <<e, entryCh[e]>>
      <4>1. loop'[<<e, entryCh[e]>>] = loop[<<e, entryCh[e]>>] /\ sees'[<<e, entryCh[e]>>] = sees[<<e, entryCh[e]>>]
        BY <2>4, <2>5, <3>1, <3>2
      <4> QED BY <2>1, <3>1, <4>1 DEF Served
    <3>3. CASE l = <<e, entryCh[e]>>
      <4>1. l[1] = e
        BY <3>3
      <4>2. CASE EnterSelect(l)
        <5>1. loop'[l] = "select" /\ sees'[l] = <<stopCh, entryCh[e]>>
          BY <1>0, <4>1, <4>2 DEF EnterSelect, SchedulerTypes
        <5>2. sees'[l][1] = stopCh /\ sees'[l][2] = entryCh[e] /\ entryCh[e] \in Nat
          BY <1>0, <3>1, <5>1
        <5> QED BY <2>1, <3>1, <3>3, <5>1, <5>2 DEF Served, Running
      <4>3. CASE Fire(l) \/ Executed(l)
        <5>1. loop'[l] \in {"executing", "entering"}
          BY <1>0, <4>3 DEF Fire, Executed, SchedulerTypes
        <5> QED BY <2>1, <3>1, <3>3, <5>1 DEF Served, Running
      <4>4. CASE LoopEnds(l)
        <5>1. loop[l] = "select" /\ (sees[l][1] \in closed \/ <<e, sees[l][2]>> \in entryClosed)
          BY <4>1, <4>4 DEF LoopEnds
        <5>2. sees[l][1] = stopCh /\ sees[l][2] \in Nat
          BY <3>1, <3>3, <5>1 DEF Served
        <5>3. stopCh \notin closed
          BY <1>0, <2>9 DEF ChannelsSound
        <5>4. <<e, sees[l][2]>> \notin entryClosed
          BY <1>0, <3>1, <5>2 DEF ChannelsSound
        <5> QED BY <5>1, <5>2, <5>3, <5>4
      <4> QED BY <1>3, <4>2, <4>3, <4>4 DEF LoopStep
    <3> QED BY <3>2, <3>3
  <2> QED BY <2>1, <2>6, <2>7, <2>8, <2>9 DEF SchedulerInv
<1>4. ASSUME NEW s \in Stoppers, Stop(s) \/ WaitReturns(s) \/ StopReturns(s) PROVE SchedulerInv'
  <2>1. /\ UNCHANGED <<added, jobs, stopCh, entryCh, entryClosed, loop, sees>> /\ DOMAIN stop' = Stoppers
        /\ waiter' \in [Stoppers -> {"none", "in", "woken", "back"}]
    BY <1>0, <1>4 DEF Stop, Halt, WaitReturns, StopReturns, SchedulerTypes
  <2>2. \/ running' = FALSE /\ running /\ closed' = closed \cup {stopCh}
        \/ UNCHANGED <<running, closed>>
    BY <1>4 DEF Stop, Halt, WaitReturns, StopReturns
  <2>3. SchedulerTypes' /\ Started'
    BY <1>0, <2>1 DEF SchedulerTypes, Started
  <2>4. ChannelsSound'
    BY <1>0, <2>1, <2>2 DEF ChannelsSound
  <2>5. running' => \A e \in jobs' : Served(e)'
    BY <1>0, <2>1, <2>2 DEF Served
  <2> QED BY <2>3, <2>4, <2>5 DEF SchedulerInv
<1>5. ASSUME NEW n \in Names, Remove(n) PROVE SchedulerInv'
  <2>1. PICK S \in SUBSET jobs : jobs' = jobs \ S /\ entryClosed' = entryClosed \cup {<<e, entryCh[e]>> : e \in S}
    <3>1. Matching(n, "interval") \in SUBSET jobs /\ Matching(n, "cron") \in SUBSET jobs
      BY DEF Matching
    <3> QED BY <1>5, <3>1 DEF Remove, Drop
  <2>2. UNCHANGED <<added, running, stopCh, closed, entryCh, loop, sees, wg, stop, waiter>>
    BY <1>5 DEF Remove, Drop
  <2>3. SchedulerTypes' /\ Started'
    BY <1>0, <2>1, <2>2 DEF SchedulerTypes, Started
  <2>4. ChannelsSound'
    <3>1. ASSUME NEW e \in Entries, NEW m \in Nat, <<e, m>> \in entryClosed' PROVE e \in added \ jobs'
      <4>1. CASE <<e, m>> \in entryClosed
        BY <1>0, <2>1, <4>1 DEF ChannelsSound
      <4>2. CASE <<e, m>> \notin entryClosed
        <5>1. PICK f \in S : <<e, m>> = <<f, entryCh[f]>>
          BY <2>1, <3>1, <4>2
        <5>2. e = f
          BY <5>1
        <5> QED BY <1>0, <2>1, <5>2 DEF SchedulerTypes
      <4> QED BY <4>1, <4>2
    <3> QED BY <1>0, <2>2, <3>1 DEF ChannelsSound
  <2>5. running' => \A e \in jobs' : Served(e)'
    BY <1>0, <2>1, <2>2 DEF Served
  <2> QED BY <2>3, <2>4, <2>5 DEF SchedulerInv
<1>6. CASE UNCHANGED vars
  BY <1>0, <1>6 DEF vars, SchedulerInv, SchedulerTypes, Started, ChannelsSound, Served
<1> QED BY <1>1, <1>2, <1>3, <1>4, <1>5, <1>6 DEF Next

(* A registered job of a running scheduler keeps its goroutine, whatever was
   added, removed, stopped and started before; and as long as the scheduler was
   started only once, an entry has no second one. *)
THEOREM LoopsMatch == Spec => []LoopsMatchEntries
<1> USE SchedulerConstants
<1>1. SchedulerInv => RegisteredRuns
  <2> SUFFICES ASSUME SchedulerInv, running, NEW e \in jobs PROVE \E l \in Live : l[1] = e
    BY DEF RegisteredRuns
  <2>1. e \in Entries /\ Served(e) /\ entryCh[e] \in Nat /\ entryCh[e] <= stopCh /\ stopCh \in Nat /\ stopCh <= MaxStarts
    BY DEF SchedulerInv, SchedulerTypes, Started
  <2>2. entryCh[e] \in 1 .. MaxStarts
    BY <2>1 DEF Served
  <2>3. <<e, entryCh[e]>> \in Live
    BY <2>1, <2>2, LoopPairs DEF Live, Served, Running
  <2> QED BY <2>3
<1>2. SchedulerInv => OneLoop
  <2> SUFFICES ASSUME SchedulerInv, stopCh <= 1, NEW l \in Live, NEW m \in Live, l[1] = m[1] PROVE l = m
    BY DEF OneLoop
  <2>1. ASSUME NEW k \in Live PROVE k[2] = 1 /\ k = <<k[1], k[2]>>
    <3>1. PICK e \in Entries, n \in 1 .. MaxStarts : k = <<e, n>>
      BY DEF Live, Loops
    <3>2. loop[<<e, n>>] # "unborn"
      BY <3>1 DEF Live
    <3>3. n <= entryCh[e] /\ entryCh[e] \in Nat /\ entryCh[e] <= stopCh /\ stopCh \in Nat
      BY <3>2 DEF SchedulerInv, Started, SchedulerTypes
    <3>4. n = 1
      BY <3>3
    <3> QED BY <3>1, <3>4
  <2>2. l = <<l[1], 1>> /\ m = <<m[1], 1>>
    BY <2>1
  <2> QED BY <2>2
<1>3. SchedulerInv => LoopsMatchEntries
  BY <1>1, <1>2 DEF LoopsMatchEntries
<1> QED BY <1>3, SchedulerStarts, SchedulerStep, PTL DEF Spec

----------------------------------------------------------------------------
(* s.wg counts the goroutines that have not ended. *)
WgInv == wg = Cardinality(Live)

LEMMA LiveFinite == IsFiniteSet(Live) /\ Cardinality(Live) \in Nat
<1>1. IsFiniteSet(1 .. MaxStarts)
  BY SchedulerConstants, FS_Interval
<1>2. IsFiniteSet(Loops)
  BY <1>1, SchedulerConstants, FS_Product DEF Loops
<1>3. Live \in SUBSET Loops
  BY DEF Live
<1> QED BY <1>2, <1>3, FS_Subset, FS_CardinalityType

(* startJob adds one to s.wg for every goroutine it starts. *)
LEMMA WgStarted ==
    ASSUME SchedulerTypes, Started, WgInv, NEW S \in SUBSET Entries, StartEntries(S, Cardinality(S)),
           \A e \in S : entryCh[e] < MaxStarts
    PROVE  WgInv'
<1> USE SchedulerConstants
<1> DEFINE New == {l \in Loops : l[1] \in S /\ l[2] = entryCh[l[1]] + 1}
           f == [e \in S |-> <<e, entryCh[e] + 1>>]
<1>0. \A e \in S : entryCh[e] + 1 \in 1 .. MaxStarts
  BY DEF SchedulerTypes
<1>1. f \in [S -> New]
  BY <1>0, LoopPairs
<1>2. \A x, y \in S : f[x] = f[y] => x = y
  OBVIOUS
<1>3. \A t \in New : \E e \in S : f[e] = t
  <2> SUFFICES ASSUME NEW t \in New PROVE f[t[1]] = t /\ t[1] \in S
    OBVIOUS
  <2>1. t = <<t[1], t[2]>>
    BY DEF Loops
  <2> QED BY <2>1
<1> HIDE DEF f
<1>4. f \in Bijection(S, New)
  BY <1>1, <1>2, <1>3 DEF Bijection, Injection, Surjection, IsInjective
<1>5. IsFiniteSet(S)
  BY FS_Subset
<1>6. IsFiniteSet(New) /\ Cardinality(New) = Cardinality(S)
  BY <1>4, <1>5, FS_Bijection DEF ExistsBijection
<1>7. New \cap Live = {}
  <2> SUFFICES ASSUME NEW l \in New, l \in Live PROVE FALSE
    OBVIOUS
  <2>1. PICK e \in Entries, n \in 1 .. MaxStarts : l = <<e, n>>
    BY DEF Loops
  <2>2. n = entryCh[e] + 1 /\ entryCh[e] \in Nat
    BY <2>1 DEF SchedulerTypes
  <2>3. loop[<<e, n>>] # "unborn"
    BY <2>1 DEF Live
  <2> QED BY <2>2, <2>3 DEF Started
<1>8. Live' = Live \cup New
  <2>1. ASSUME NEW l \in Loops PROVE l \in Live' <=> l \in Live \cup New
    BY DEF Live, StartEntries
  <2>2. Live' \subseteq Loops /\ Live \cup New \subseteq Loops
    BY DEF Live
  <2> QED BY <2>1, <2>2
<1> HIDE DEF New
<1>9. Cardinality(Live \cup New) = Cardinality(Live) + Cardinality(New) - 0
  BY <1>6, <1>7, LiveFinite, FS_Union, FS_EmptySet
<1>10. Cardinality(New) \in Nat
  BY <1>6, FS_CardinalityType
<1>11. wg' = wg + Cardinality(S)
  BY DEF StartEntries
<1> QED BY <1>6, <1>8, <1>9, <1>10, <1>11, LiveFinite DEF WgInv

LEMMA WgStep == SchedulerInv /\ WgInv /\ [Next]_vars => WgInv'
<1> SUFFICES ASSUME SchedulerInv, WgInv, [Next]_vars PROVE WgInv' OBVIOUS
<1> USE SchedulerConstants
<1>0. SchedulerTypes /\ Started
  BY DEF SchedulerInv
<1>1. ASSUME NEW e \in Entries, Add(e) PROVE WgInv'
  <2> DEFINE S == IF running THEN {e} ELSE {}
  <2>1. StartEntries(S, Cardinality(S)) /\ e \notin added
    BY <1>1 DEF Add, Register
  <2>2. \A f \in S : entryCh[f] < MaxStarts
    <3>1. running => stopCh >= 1 /\ stopCh <= MaxStarts /\ stopCh \in Nat
      BY DEF SchedulerInv, ChannelsSound, SchedulerTypes
    <3>2. entryCh[e] = 0
      BY <1>0, <2>1 DEF Started
    <3> QED BY <3>1, <3>2
  <2>3. S \in SUBSET Entries
    OBVIOUS
  <2> HIDE DEF S
  <2> QED BY <1>0, <2>1, <2>2, <2>3, WgStarted
<1>2. ASSUME Start PROVE WgInv'
  <2>1. StartEntries(jobs, Cardinality(jobs))
    BY <1>2 DEF Start, Begin
  <2>2. jobs \in SUBSET Entries
    BY <1>0 DEF SchedulerTypes
  <2>3. \A f \in jobs : entryCh[f] < MaxStarts
    <3> TAKE f \in jobs
    <3>1. entryCh[f] \in Nat /\ entryCh[f] <= stopCh /\ stopCh \in Nat /\ stopCh < MaxStarts
      BY <1>0, <1>2, <2>2 DEF Started, SchedulerTypes, Start, Begin
    <3> QED BY <3>1
  <2> QED BY <1>0, <2>1, <2>2, <2>3, WgStarted
<1>3. ASSUME NEW l \in Loops, EnterSelect(l) \/ Fire(l) \/ Executed(l) PROVE WgInv'
  <2>1. UNCHANGED wg /\ loop[l] \in Running /\ \E s \in Running : loop' = [loop EXCEPT ![l] = s]
    BY <1>3 DEF EnterSelect, Fire, Executed, Running
  <2>2. Live' = Live
    BY <1>0, <2>1 DEF Live, Running, SchedulerTypes
  <2> QED BY <2>1, <2>2 DEF WgInv
<1>4. ASSUME NEW l \in Loops, LoopEnds(l) PROVE WgInv'
  <2>1. l \in Live
    BY <1>4 DEF LoopEnds, Live
  <2>2. Live' = Live \ {l}
    BY <1>0, <1>4 DEF LoopEnds, Live, SchedulerTypes
  <2>3. Cardinality(Live \ {l}) = Cardinality(Live) - 1
    BY <2>1, LiveFinite, FS_RemoveElement
  <2>4. wg' = wg - 1
    BY <1>4 DEF LoopEnds
  <2> QED BY <2>2, <2>3, <2>4 DEF WgInv
<1>5. ASSUME UNCHANGED <<loop, wg>> PROVE WgInv'
  BY <1>5 DEF WgInv, Live
<1>6. ASSUME NEW s \in Stoppers, Stop(s) \/ WaitReturns(s) \/ StopReturns(s) PROVE UNCHANGED <<loop, wg>>
  BY <1>6 DEF Stop, Halt, WaitReturns, StopReturns
<1>7. ASSUME NEW n \in Names, Remove(n) PROVE UNCHANGED <<loop, wg>>
  BY <1>7 DEF Remove, Drop
<1>8. UNCHANGED vars => UNCHANGED <<loop, wg>>
  BY DEF vars
<1> QED BY <1>1, <1>2, <1>3, <1>4, <1>5, <1>6, <1>7, <1>8 DEF Next, LoopStep

(* Nobody waits before the scheduler was started.  In its first run nothing is
   started any more once Stop was called, so that a goroutine of Stop that was woken
   finds nobody left. *)
WaiterInv ==
    /\ stopCh = 0 => \A s \in Stoppers : waiter[s] = "none"
    /\ stopCh <= 1 => \A s \in Stoppers : /\ waiter[s] # "none" => ~running
                                          /\ waiter[s] = "woken" => wg = 0
    /\ crashed => stopCh > 1

(* Every step keeps it. *)
LEMMA WaiterStep == SchedulerInv /\ WgInv /\ WaiterInv /\ [Next]_vars => WaiterInv'
<1> SUFFICES ASSUME SchedulerInv, WgInv, WaiterInv, [Next]_vars PROVE WaiterInv' OBVIOUS
<1>0. /\ waiter \in [Stoppers -> {"none", "in", "woken", "back"}]
      /\ stopCh \in Nat /\ (running => stopCh >= 1)
      /\ wg \in Nat
  BY LiveFinite DEF SchedulerInv, SchedulerTypes, ChannelsSound, WgInv
<1> USE DEF WaiterInv
<1>1. ASSUME NEW e \in Entries, Add(e) PROVE WaiterInv'
  <2>1. UNCHANGED <<running, stopCh, waiter, crashed>>
    BY <1>1 DEF Add, Register
  <2>2. ~running => wg' = wg
    <3>1. ~running => StartEntries({}, Cardinality({}))
      BY <1>1 DEF Add, Register
    <3>2. Cardinality({}) = 0
      BY FS_EmptySet
    <3> QED BY <1>0, <3>1, <3>2 DEF StartEntries
  <2> QED BY <1>0, <2>1, <2>2
<1>2. ASSUME Start PROVE WaiterInv'
  <2>1. ~running /\ stopCh' = stopCh + 1 /\ running' /\ UNCHANGED <<waiter, crashed, closed>>
    BY <1>2 DEF Start, Begin
  <2>2. CASE stopCh >= 1
    BY <1>0, <2>1, <2>2
  <2>3. CASE stopCh = 0
    <3>1. \A s \in Stoppers : waiter[s] = "none"
      BY <2>3
    <3> QED BY <1>0, <2>1, <3>1
  <2> QED BY <1>0, <2>2, <2>3
<1>3. ASSUME NEW l \in Loops, EnterSelect(l) \/ Fire(l) \/ Executed(l) PROVE WaiterInv'
  BY <1>3 DEF EnterSelect, Fire, Executed
<1>4. ASSUME NEW l \in Loops, LoopEnds(l) PROVE WaiterInv'
  <2>1. UNCHANGED <<running, stopCh, crashed>> /\ wg' = wg - 1
    BY <1>4 DEF LoopEnds
  <2>2. l \in Live
    BY <1>4 DEF LoopEnds, Live
  <2>3. wg # 0
    BY <2>2, LiveFinite, FS_EmptySet DEF WgInv
  <2>4. \A s \in Stoppers : \/ waiter'[s] = waiter[s]
                            \/ waiter[s] = "in" /\ wg = 1 /\ waiter'[s] = "woken"
    BY <1>4 DEF LoopEnds
  <2> QED BY <1>0, <2>1, <2>3, <2>4
<1>5. ASSUME NEW s \in Stoppers, Stop(s) PROVE WaiterInv'
  BY <1>0, <1>5 DEF Stop, Halt
<1>6. ASSUME NEW s \in Stoppers, WaitReturns(s) PROVE WaiterInv'
  <2>1. /\ crashed' = (wg > 0) /\ UNCHANGED <<running, stopCh, wg>>
        /\ waiter' = [waiter EXCEPT ![s] = "back"]
        /\ waiter[s] = "woken" \/ wg = 0
    BY <1>6 DEF WaitReturns
  <2>2. wg > 0 => stopCh > 1
    BY <1>0, <2>1
  <2>3. crashed' => stopCh' > 1
    BY <2>1, <2>2
  <2>4. waiter[s] # "none"
    BY <1>6 DEF WaitReturns
  <2> QED BY <1>0, <2>1, <2>3, <2>4
<1>7. ASSUME NEW s \in Stoppers, StopReturns(s) PROVE WaiterInv'
  BY <1>7 DEF StopReturns
<1>8. ASSUME NEW n \in Names, Remove(n) PROVE WaiterInv'
  BY <1>8 DEF Remove, Drop
<1>9. CASE UNCHANGED vars
  BY <1>9 DEF vars
<1> QED BY <1>1, <1>2, <1>3, <1>4, <1>5, <1>6, <1>7, <1>8, <1>9 DEF Next, LoopStep

(* The goroutine of a Stop is done only when no goroutine of the scheduler is left,
   jobs removed and goroutines of earlier Starts included; and it panics only if the
   scheduler was started a second time. *)
THEOREM StopWaitsForAll == Spec => StopLeavesNothing /\ [](crashed => stopCh > 1)
<1>1. Init => WgInv /\ WaiterInv
  <2>1. Init => Live = {}
    BY DEF Init, Live
  <2> QED BY <2>1, FS_EmptySet DEF Init, WgInv, WaiterInv
<1>2. ASSUME SchedulerInv, WgInv, [Next]_vars, NEW s \in Stoppers, waiter[s] # "back", waiter'[s] = "back"
      PROVE  Live = {} \/ crashed'
  <2>0. waiter \in [Stoppers -> {"none", "in", "woken", "back"}] /\ wg \in Nat
    BY <1>2, LiveFinite DEF SchedulerInv, SchedulerTypes, WgInv
  <2>1. WaitReturns(s)
    <3>3. waiter' # waiter
      BY <1>2
    <3>1. ASSUME NEW t \in Stoppers, Stop(t) \/ WaitReturns(t) PROVE WaitReturns(s)
      BY <1>2, <2>0, <3>1 DEF Stop, Halt, WaitReturns
    <3>2. ASSUME NEW l \in Loops, LoopEnds(l) PROVE FALSE
      BY <1>2, <2>0, <3>2 DEF LoopEnds
    <3>4. ASSUME NEW e \in Entries, Add(e) PROVE FALSE
      BY <3>3, <3>4 DEF Add, Register
    <3>5. ASSUME Start PROVE FALSE
      BY <3>3, <3>5 DEF Start, Begin
    <3>6. ASSUME NEW l \in Loops, EnterSelect(l) \/ Fire(l) \/ Executed(l) PROVE FALSE
      BY <3>3, <3>6 DEF EnterSelect, Fire, Executed
    <3>7. ASSUME NEW n \in Names, Remove(n) PROVE FALSE
      BY <3>3, <3>7 DEF Remove, Drop
    <3>8. ASSUME NEW t \in Stoppers, StopReturns(t) PROVE FALSE
      BY <3>3, <3>8 DEF StopReturns
    <3>9. CASE UNCHANGED vars
      BY <3>3, <3>9 DEF vars
    <3> QED BY <1>2, <3>1, <3>2, <3>4, <3>5, <3>6, <3>7, <3>8, <3>9 DEF Next, LoopStep
  <2>2. crashed' = (wg > 0)
    BY <2>1 DEF WaitReturns
  <2>3. CASE wg > 0
    BY <2>2, <2>3
  <2>4. CASE wg = 0
    BY <1>2, <2>4, LiveFinite, FS_EmptySet DEF WgInv
  <2> QED BY <2>0, <2>3, <2>4
<1>3. SchedulerInv /\ WgInv /\ [Next]_vars =>
         [\A s \in Stoppers : waiter[s] # "back" /\ waiter'[s] = "back" => Live = {} \/ crashed']_vars
  BY <1>2
<1>4. WaiterInv => (crashed => stopCh > 1)
  BY DEF WaiterInv
<1> QED BY <1>1, <1>3, <1>4, SchedulerStarts, SchedulerStep, WgStep, WaiterStep, PTL DEF Spec, StopLeavesNothing
=============================================================================
