------------------------------- MODULE Audit -------------------------------
(* pantry/audit: the logger with its buffer and workers, over a BatchStore over
   a FileStore.  Events are logged by callers, one each; a record of a file is
   an event, or Torn for what a write that failed half-way leaves behind, and the
   records are numbered in the order in which they are written. *)
EXTENDS Integers, Sequences, SequencesExt, FiniteSets

CONSTANTS AEvents, AWorkers,
          BufferSize, BatchSize,
          FileMax,      \* records a file holds before it is rotated (maxSize)
          Rotation,     \* rotated files kept
          WriteFaults,  \* what may go wrong: a subset of {"fail", "torn", "open", "rename"}
          MaxWriteFaults,
          Torn, NoEvent

ASSUME AuditAssumption ==
    /\ {FileMax, Rotation} \subseteq Nat \ {0}    \* NewFileStore's defaults see to it
    /\ WriteFaults \subseteq {"fail", "torn", "open", "rename"}
    /\ AWorkers # {} /\ NoEvent \notin AEvents

VARIABLES aCaller,      \* event -> "new" or "left"
          eventCh,      \* the buffer
          aWorker,      \* worker -> [pc, ev]
          aDone,        \* l.done is closed
          aClosed,      \* Close: "no", "returned"; then BatchStore.Close: "flushed", "closed"
          late,         \* events put into the buffer after l.done was closed
          batch, flushTimer, flushes,   \* BatchStore: events, s.timer, fired and waiting
          files,        \* 0 is the current file, i is <path>.i: the numbers of its records
          broken,       \* the current file is closed: Close, or a failed reopen
          encErr,       \* the encoder met a write error, which it keeps
          misplaced,    \* a rename of a rotation failed
          query,        \* a Query is reading the files, under s.mu
          records,      \* every record ever written, in order
          aFate,        \* event -> "open", "rejected", "lost" or "stored"
          faults

fileVars == <<files, broken, encErr, misplaced, records, aFate, faults>>
auditVars == <<aCaller, eventCh, aWorker, aDone, aClosed, late, batch, flushTimer, flushes,
               fileVars, query>>
storeVars == <<batch, flushTimer, flushes, fileVars>>

AuditTypeOK ==
    /\ aCaller \in [AEvents -> {"new", "left"}]
    /\ eventCh \in Seq(AEvents) /\ Len(eventCh) <= BufferSize
    /\ aWorker \in [AWorkers -> [pc : {"select", "hold", "drain", "drainHold", "exited"},
                                 ev : AEvents \cup {NoEvent}]]
    /\ Len(batch) < BatchSize /\ flushTimer \in {"none", "armed", "fired"}
    /\ aFate \in [AEvents -> {"open", "rejected", "lost", "stored"}]

AuditInit ==
    /\ aCaller = [e \in AEvents |-> "new"] /\ eventCh = << >>
    /\ aWorker = [w \in AWorkers |-> [pc |-> "select", ev |-> NoEvent]]
    /\ aDone = FALSE /\ aClosed = "no" /\ late = {}
    /\ batch = << >> /\ flushTimer = "none" /\ flushes = 0
    /\ files = [i \in 0..Rotation |-> << >>] /\ query = FALSE
    /\ broken = FALSE /\ encErr = FALSE /\ misplaced = FALSE
    /\ records = << >> /\ aFate = [e \in AEvents |-> "open"] /\ faults = 0

-----------------------------------------------------------------------------
(* checkRotation: the files are renamed from the oldest down, so that each takes
   the next one's place and the last one goes.  Renaming a file that does not exist
   does nothing, and neither does a rename that fails (stuck), whose error nobody
   looks at: the next file then takes the place of this one. *)
Rotate(f, stuck) ==
    LET moves(i) == i < Rotation /\ i \notin stuck /\ f[i] # << >>
    IN  [i \in 0..Rotation |-> IF i > 0 /\ moves(i - 1) THEN f[i - 1]
                              ELSE IF moves(i) THEN << >> ELSE f[i]]

(* FileStore.Store of one event: what goes wrong is o, and the renames in stuck.
   "open" is a file that cannot be opened again, or else one that Stat fails on;
   json.Encoder keeps a write error and writes nothing more, until a rotation
   brings a new encoder. *)
WriteRecord(st, e, o, stuck) ==
    LET full == Len(st.files[0]) >= FileMax
        f == IF full THEN Rotate(st.files, stuck) ELSE st.files
        lost == [st.fate EXCEPT ![e] = "lost"]
        stored == [st.fate EXCEPT ![e] = "stored"]
        gone == st.misplaced \/ (full /\ stuck # {})
        wrote(r, fate, err) ==
            [st EXCEPT !.files = [f EXCEPT ![0] = Append(@, Len(st.records) + 1)],
                       !.records = Append(@, r), !.fate = fate, !.encErr = err, !.misplaced = gone]
    IN CASE st.broken \/ (~full /\ (st.encErr \/ o = "open")) -> [st EXCEPT !.fate = lost]
         [] ~st.broken /\ full /\ o = "open" ->
              [st EXCEPT !.files = f, !.fate = lost, !.broken = TRUE, !.misplaced = gone]
         [] ~st.broken /\ (full \/ ~st.encErr) /\ o = "fail" ->
              [st EXCEPT !.files = f, !.fate = lost, !.encErr = TRUE, !.misplaced = gone]
         [] ~st.broken /\ (full \/ ~st.encErr) /\ o = "torn" -> wrote(Torn, lost, TRUE)
         [] OTHER -> wrote(e, stored, FALSE)

(* flushLocked: every event of the batch is tried, the errors only show in what
   is returned, and the batch is cleared. *)
Writes == {"ok"} \cup (WriteFaults \ {"rename"})
Stuck == IF "rename" \in WriteFaults THEN SUBSET (0 .. Rotation - 1) ELSE {{}}
flushLocked(b) ==
    \E o \in [1..Len(b) -> Writes], r \in [1..Len(b) -> Stuck] :
        LET bad == Cardinality({i \in 1..Len(b) : o[i] # "ok"}) + Cardinality({i \in 1..Len(b) : r[i] # {}})
            st[i \in 0..Len(b)] ==
                IF i = 0 THEN [files |-> files, records |-> records, fate |-> aFate, broken |-> broken,
                               encErr |-> encErr, misplaced |-> misplaced]
                ELSE WriteRecord(st[i - 1], b[i], o[i], r[i])
            end == st[Len(b)]
        IN /\ ~query /\ faults + bad <= MaxWriteFaults /\ faults' = faults + bad
           /\ files' = end.files /\ records' = end.records /\ aFate' = end.fate /\ broken' = end.broken
           /\ encErr' = end.encErr /\ misplaced' = end.misplaced
           /\ batch' = << >> /\ flushTimer' = "none"

(* BatchStore.Store: the timer starts with the first event of a batch. *)
BatchAdd(e) ==
    LET b == Append(batch, e)
    IN IF Len(b) >= BatchSize THEN flushLocked(b)
       ELSE /\ batch' = b
            /\ flushTimer' = IF Len(b) = 1 THEN "armed" ELSE flushTimer
            /\ UNCHANGED fileVars

(* processEvent: a before hook may refuse the event, else it goes to the store. *)
processEvent(e) ==
    /\ \/ BatchAdd(e)
       \/ aFate' = [aFate EXCEPT ![e] = "rejected"]
          /\ UNCHANGED <<batch, flushTimer, files, broken, encErr, misplaced, records, faults>>
    /\ UNCHANGED flushes

-----------------------------------------------------------------------------
(* LogAsync: into the buffer, or by the caller itself when the buffer is full.
   Log is the second of these. *)
LogAsync(e) ==
    /\ aCaller[e] = "new" /\ Len(eventCh) < BufferSize
    /\ aCaller' = [aCaller EXCEPT ![e] = "left"] /\ eventCh' = Append(eventCh, e)
    /\ late' = IF aDone THEN late \cup {e} ELSE late
    /\ UNCHANGED <<aWorker, aDone, aClosed, query, storeVars>>
Log(e) ==
    /\ aCaller[e] = "new" /\ aCaller' = [aCaller EXCEPT ![e] = "left"] /\ processEvent(e)
    /\ UNCHANGED <<eventCh, aWorker, aDone, aClosed, late, query>>

(* worker: take an event, or see done and drain until the buffer is empty. *)
WorkerTakes(w) ==
    /\ aWorker[w].pc \in {"select", "drain"} /\ eventCh # << >>
    /\ aWorker' = [aWorker EXCEPT ![w] = [pc |-> IF @.pc = "select" THEN "hold" ELSE "drainHold",
                                          ev |-> Head(eventCh)]]
    /\ eventCh' = Tail(eventCh)
    /\ UNCHANGED <<aCaller, aDone, aClosed, late, query, storeVars>>
WorkerProcesses(w) ==
    /\ aWorker[w].pc \in {"hold", "drainHold"} /\ processEvent(aWorker[w].ev)
    /\ aWorker' = [aWorker EXCEPT ![w] = [pc |-> IF @.pc = "hold" THEN "select" ELSE "drain",
                                          ev |-> NoEvent]]
    /\ UNCHANGED <<aCaller, eventCh, aDone, aClosed, late, query>>
(* Mutant: the worker leaves without draining the buffer. *)
WorkerQuitsAtOnce(w) ==
    /\ aWorker[w].pc = "select" /\ aDone
    /\ aWorker' = [aWorker EXCEPT ![w].pc = "exited"]
    /\ UNCHANGED <<aCaller, eventCh, aDone, aClosed, late, query, storeVars>>
WorkerQuits(w) ==
    /\ \/ /\ aWorker[w].pc = "select" /\ aDone
          /\ aWorker' = [aWorker EXCEPT ![w].pc = "drain"]
       \/ /\ aWorker[w].pc = "drain" /\ eventCh = << >>
          /\ aWorker' = [aWorker EXCEPT ![w].pc = "exited"]
    /\ UNCHANGED <<aCaller, eventCh, aDone, aClosed, late, query, storeVars>>

(* AuditLogger.Close: close(done), then wait for the workers. *)
AuditClose == /\ ~aDone /\ aDone' = TRUE
              /\ UNCHANGED <<aCaller, eventCh, aWorker, aClosed, late, query, storeVars>>
AuditCloseReturns ==
    /\ aDone /\ aClosed = "no" /\ aClosed' = "returned"
    /\ \A w \in AWorkers : aWorker[w].pc = "exited"
    /\ UNCHANGED <<aCaller, eventCh, aWorker, aDone, late, query, storeVars>>

-----------------------------------------------------------------------------
(* The flush timer; Stop does not recall one that has fired. *)
TimerFires ==
    /\ flushTimer = "armed" /\ flushTimer' = "fired" /\ flushes' = flushes + 1
    /\ UNCHANGED <<aCaller, eventCh, aWorker, aDone, aClosed, late, query,
                   batch, fileVars>>
TimedFlush ==
    /\ flushes > 0 /\ flushes' = flushes - 1
    /\ \/ batch = << >> /\ UNCHANGED <<batch, flushTimer, fileVars>>
       \/ batch # << >> /\ flushLocked(batch)
    /\ UNCHANGED <<aCaller, eventCh, aWorker, aDone, aClosed, late, query>>

(* BatchStore.Close: a flush, then the file is closed and every later write fails. *)
BatchClose ==
    /\ \/ /\ aClosed = "returned" /\ aClosed' = "flushed"
          /\ IF batch = << >> THEN UNCHANGED storeVars ELSE flushLocked(batch) /\ UNCHANGED flushes
       \/ /\ aClosed = "flushed" /\ ~query /\ aClosed' = "closed" /\ broken' = TRUE
          /\ UNCHANGED <<batch, flushTimer, flushes, files, encErr, misplaced, records, aFate, faults>>
    /\ UNCHANGED <<aCaller, eventCh, aWorker, aDone, late, query>>

(* Query reads every file under s.mu.  json.Decoder keeps returning the same
   error once it has met a syntax error, so the loop that means to skip a
   malformed line never leaves a file with a torn record. *)
readFile(f) == \A i \in DOMAIN f : records[f[i]] # Torn
Query == /\ ~query /\ query' = TRUE
         /\ UNCHANGED <<aCaller, eventCh, aWorker, aDone, aClosed, late, storeVars>>
QueryEnds == /\ query /\ (\A i \in 0..Rotation : readFile(files[i])) /\ query' = FALSE
             /\ UNCHANGED <<aCaller, eventCh, aWorker, aDone, aClosed, late, storeVars>>

Worker(w) == WorkerTakes(w) \/ WorkerProcesses(w) \/ WorkerQuits(w)

AuditNext ==
    \/ \E e \in AEvents : LogAsync(e) \/ Log(e)
    \/ \E w \in AWorkers : Worker(w)
    \/ AuditClose \/ AuditCloseReturns \/ TimerFires \/ TimedFlush \/ BatchClose
    \/ Query \/ QueryEnds

AuditSpec == AuditInit /\ [][AuditNext]_auditVars

-----------------------------------------------------------------------------
(* Close waits for what was logged before it: once it has returned, the buffer
   holds nothing but events that came after done was closed, and no worker has
   an event in its hands. *)
CloseWaitsForPending ==
    aClosed # "no" => /\ Range(eventCh) \subseteq late
                      /\ \A w \in AWorkers : aWorker[w].ev = NoEvent

(* What the files hold is in order, oldest file first, and the current one has
   the newest record, whatever writes and renames fail; and unless a rename of a
   rotation failed, Rotation full files of records before it are all there.  (A
   failed rename may cost the file that stayed in its place.) *)
FilesHoldNewest ==
    LET n == Len(records)
    IN /\ \A i, j \in 0..Rotation : \A k \in DOMAIN files[i], l \in DOMAIN files[j] :
             i < j \/ (i = j /\ l < k) => files[j][l] < files[i][k]
       /\ files[0] # << >> => files[0][Len(files[0])] = n
       /\ ~misplaced => \A p \in 1..n : p > n - Len(files[0]) - Rotation * FileMax =>
             \E i \in 0..Rotation : p \in Range(files[i])

(* An event logged before Close is settled (stored, refused by a hook, or lost
   to a failed write) or somebody will still carry it on: a worker that is
   there to take it, one that holds it, or the timer of the batch it is in. *)
NoEventStranded ==
    \A e \in AEvents : aCaller[e] = "left" /\ e \notin late /\ aFate[e] = "open" =>
        \/ e \in Range(eventCh) /\ \E w \in AWorkers : aWorker[w].pc # "exited"
        \/ \E w \in AWorkers : aWorker[w].ev = e
        \/ e \in Range(batch) /\ (flushTimer = "armed" \/ flushes > 0)

(* Nothing logged before Close is forgotten on its way through the buffer, the
   workers and the batch, and rotation drops only the oldest records unless a
   rename failed.  Nothing is said of what comes after a failed write, which the
   encoder turns into the loss of every event up to the next rotation. *)
AuditSound == CloseWaitsForPending /\ NoEventStranded /\ FilesHoldNewest
=============================================================================
