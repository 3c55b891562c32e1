------------------------------ MODULE StormProofs ------------------------------
(***************************************************************************)
(* Migrations, failures and reports of the storm, for any number of        *)
(* workers and operations.                                                 *)
(***************************************************************************)
EXTENDS Storm, FiniteSetTheorems, WellFoundedInduction, TLAPS

-----------------------------------------------------------------------------
(* The invariant, worker by worker. *)
WorkerFits(w) ==
    /\ w \in open /\ ~Ended(w) => worker[w].at \in InMigration
    /\ call[w] # "idle" => worker[w].at \in Texts
    /\ Engaged(w) => (call[w] = "ran" <=> Answered(w))
    /\ ~Up => call[w] = "idle" /\ w \notin open
    /\ ~Up /\ ~Ended(w) => worker[w].reply \in {"none", "error"}
    /\ Engaged(w) =>
        /\ worker[w].at # "rollback"
        /\ worker[w].reply \in IF At(w, "check") THEN {"none", "0", "1"}
                               ELSE {"none", "ok"}
        /\ w \in open <=> Inside(w)
        /\ w \in open => draft = Pending(w)
        /\ At(w, "check") /\ Answered(w) =>
              (worker[w].reply = "1" <=> worker[w].version \in store.versions)
        /\ worker[w].at \in {"ddl", "record", "commit"} /\ Inside(w) =>
              worker[w].version \notin store.versions
    /\ Migrated(w) /\ OperationFits(w)
    /\ w < storm.next => Ended(w)
    /\ At(w, "failed") =>
        \/ w \in storm.killed
        \/ ~Up
        \/ worker[w].count.writes = 0 /\ worker[w].step = Ops

Types ==
    /\ Service!TypeOK /\ draft \in File
    /\ worker \in [Worker -> WorkerState] /\ storm \in StormState
    /\ \A u, w \in open : u = w

LEMMA ByWorker ==
    StormIInv <=> Types /\ Sound(store) /\ \A w \in Worker : WorkerFits(w)
<1>1. ASSUME StormIInv
      PROVE  Types /\ Sound(store) /\ \A w \in Worker : WorkerFits(w)
  BY <1>1 DEF StormIInv, StormTypeOK, Types, CallsMatch, NothingFails, TransactionsFit,
     OnlyTheKilledFail, WorkerFits
<1>2. ASSUME Types, Sound(store), \A w \in Worker : WorkerFits(w)
      PROVE  StormIInv
  <2>1. open \subseteq Worker
    BY <1>2 DEF Types, Service!TypeOK
  <2>2. StormTypeOK
    BY <1>2, <2>1 DEF StormTypeOK, Types, WorkerFits
  <2>3. CallsMatch
    BY <1>2, <2>1 DEF CallsMatch, WorkerFits
  <2>4. NothingFails /\ TransactionsFit /\ OnlyTheKilledFail
    BY <1>2 DEF NothingFails, TransactionsFit, OnlyTheKilledFail, WorkerFits, Types
  <2>5. \A w \in Worker : Migrated(w) /\ OperationFits(w) /\ (w < storm.next => Ended(w))
    BY <1>2 DEF WorkerFits
  <2> QED
    BY <1>2, <2>2, <2>3, <2>4, <2>5 DEF StormIInv
<1> QED
  BY <1>1, <1>2

(* Whoever the step is not about keeps its part. *)
LEMMA OthersFit ==
    ASSUME NEW u \in Worker, WorkerFits(u), worker'[u] = worker[u], call'[u] = call[u],
           UNCHANGED <<store, open, draft, storm>>
    PROVE  WorkerFits(u)'
BY DEF WorkerFits, Engaged, Answered, Ended, Up, At, Inside, Pending, Migrated,
   OperationFits, Ok

(* An answer has come: what it can be. *)
LEMMA Going ==
    ASSUME Types, NEW w \in Worker, WorkerFits(w), NEW n \in WorkerState, GoOn(w, n)
    PROVE  /\ UNCHANGED <<store, open, draft, storm>>
           /\ call'[w] = "idle" /\ \A u \in Worker : u # w => call'[u] = call[u]
           /\ call' \in [Worker -> {"idle", "asked", "ran"}]
           /\ worker' = [worker EXCEPT ![w] = [n EXCEPT !.reply = "none"]]
           /\ worker'[w] = [n EXCEPT !.reply = "none"]
           /\ ~Ended(w) /\ Answered(w)
           /\ Up => Ok(w) /\ Engaged(w)
           /\ ~Up => worker[w].reply = "error" /\ ~Ok(w)
<1>1. UNCHANGED <<store, open, draft, storm>>
  BY DEF GoOn, serviceVars, Service!Answer
<1>2. /\ ~Ended(w) /\ Answered(w)
      /\ worker' = [worker EXCEPT ![w] = [n EXCEPT !.reply = "none"]]
  BY DEF GoOn, Answered
<1>3. call'[w] = "idle" /\ (\A u \in Worker : u # w => call'[u] = call[u])
      /\ call' \in [Worker -> {"idle", "asked", "ran"}]
  BY DEF GoOn, serviceVars, Service!Answer, Types, Service!TypeOK
<1>4. worker'[w] = [n EXCEPT !.reply = "none"]
  BY <1>2 DEF Types
<1>5. Up => Ok(w) /\ Engaged(w)
  BY <1>2 DEF WorkerFits, Engaged, Ok, Answered
<1>6. ~Up => worker[w].reply = "error" /\ ~Ok(w)
  BY <1>2 DEF WorkerFits, Ok, Answered
<1> QED
  BY <1>1, <1>2, <1>3, <1>4, <1>5, <1>6

(* A worker that goes on: its own part is left to show. *)
LEMMA GoesOn ==
    ASSUME Types, Sound(store), \A u \in Worker : WorkerFits(u), NEW w \in Worker,
           NEW n \in WorkerState, GoOn(w, n), WorkerFits(w)'
    PROVE  (Types /\ Sound(store) /\ \A u \in Worker : WorkerFits(u))'
<1>0. WorkerFits(w)
  OBVIOUS
<1>1. /\ UNCHANGED <<store, open, draft, storm>>
      /\ \A u \in Worker : u # w => call'[u] = call[u]
      /\ call' \in [Worker -> {"idle", "asked", "ran"}]
      /\ worker' = [worker EXCEPT ![w] = [n EXCEPT !.reply = "none"]]
  BY <1>0, Going
<1>2. [n EXCEPT !.reply = "none"] \in WorkerState
  BY DEF WorkerState
<1>3. Types'
  BY <1>1, <1>2 DEF Types, Service!TypeOK
<1>4. Sound(store)'
  BY <1>1 DEF Sound
<1>5. \A u \in Worker : u # w => worker'[u] = worker[u]
  BY <1>1 DEF Types
<1>6. \A u \in Worker : u # w => WorkerFits(u)'
  BY <1>1, <1>5, OthersFit
<1> QED
  BY <1>3, <1>4, <1>6

Fits == Types /\ Sound(store) /\ \A u \in Worker : WorkerFits(u)

Places == Texts \cup {"choose", "done", "failed"}

(* Going on elsewhere changes the place, and the version at most. *)
LEMMA MovesOn ==
    ASSUME Fits, NEW w \in Worker, NEW p \in Places, NEW v \in 0..3,
           GoOn(w, [worker[w] EXCEPT !.at = p, !.version = v]),
           /\ worker'[w].at = p /\ worker'[w].version = v
           /\ worker'[w].reply = "none"
           /\ worker'[w].step = worker[w].step /\ worker'[w].op = worker[w].op
           /\ worker'[w].count = worker[w].count
           => WorkerFits(w)'
    PROVE  Fits'
<1> DEFINE n == [worker[w] EXCEPT !.at = p, !.version = v]
<1>1. worker[w] \in WorkerState
  BY DEF Fits, Types
<1>2. n \in WorkerState /\ [n EXCEPT !.reply = "none"] \in WorkerState
  BY <1>1 DEF WorkerState, Places
<1>3. worker'[w] = [n EXCEPT !.reply = "none"]
  <2>1. GoOn(w, n) /\ Types /\ WorkerFits(w)
    BY DEF Fits
  <2> HIDE DEF n
  <2> QED
    BY <1>2, <2>1, Going
<1>4. /\ worker'[w].at = p /\ worker'[w].version = v
      /\ worker'[w].reply = "none"
      /\ worker'[w].step = worker[w].step /\ worker'[w].op = worker[w].op
      /\ worker'[w].count = worker[w].count
  BY <1>1, <1>3 DEF WorkerState
<1>5. WorkerFits(w)'
  BY <1>4
<1> HIDE DEF n
<1> QED
  BY <1>2, <1>5, GoesOn DEF Fits, n

LEMMA GoesTo ==
    ASSUME Fits, NEW w \in Worker, NEW p \in Places, GoTo(w, p)
    PROVE  GoOn(w, [worker[w] EXCEPT !.at = p, !.version = worker[w].version])
<1>1. worker[w] \in WorkerState
  BY DEF Fits, Types
<1>2. [worker[w] EXCEPT !.at = p] = [worker[w] EXCEPT !.at = p, !.version = worker[w].version]
  BY <1>1 DEF WorkerState
<1> QED
  BY <1>2 DEF GoTo

(* What every step of a worker finds. *)
LEMMA Finds ==
    ASSUME Fits, NEW w \in Worker, NEW n \in WorkerState, GoOn(w, n)
    PROVE  /\ UNCHANGED <<store, open, draft, storm>> /\ call'[w] = "idle"
           /\ worker[w] \in WorkerState /\ WorkerFits(w) /\ ~Ended(w) /\ Answered(w)
           /\ Up => Ok(w) /\ Engaged(w)
           /\ ~Up => ~Ok(w)
BY Going DEF Fits, Types

LEMMA FailsFit ==
    ASSUME Fits, NEW w \in Worker, ~Ok(w),
           \/ GoTo(w, "failed")
           \/ GoTo(w, "rollback") /\ worker[w].at \in InMigration
    PROVE  Fits'
<1>1. ASSUME NEW p \in {"failed", "rollback"}, GoTo(w, p),
             p = "rollback" => worker[w].at \in InMigration
      PROVE  Fits'
  <2>1. p \in Places /\ worker[w].version \in 0..3 /\ worker[w] \in WorkerState
    BY DEF Places, Texts, Fits, Types, WorkerState
  <2>2. GoOn(w, [worker[w] EXCEPT !.at = p, !.version = worker[w].version])
    BY <1>1, <2>1, GoesTo
  <2>3. [worker[w] EXCEPT !.at = p, !.version = worker[w].version] \in WorkerState
    BY <2>1 DEF WorkerState, Places
  <2>4. /\ UNCHANGED <<store, open, draft, storm>> /\ call'[w] = "idle"
        /\ WorkerFits(w) /\ ~Ended(w) /\ ~Up
    BY <2>2, <2>3, Finds
  <2>5. ASSUME worker'[w].at = p, worker'[w].version = worker[w].version,
               worker'[w].reply = "none", worker'[w].step = worker[w].step,
               worker'[w].count = worker[w].count
        PROVE  WorkerFits(w)'
    BY <1>1, <2>4, <2>5 DEF WorkerFits, Engaged, Answered, Ended, Up, At, Ok, Migrated,
       OperationFits, InMigration, Texts
  <2> QED
    BY <2>1, <2>2, <2>5, MovesOn
<1> QED
  BY <1>1

(* A worker that goes on with an answer it has waited for. *)
Moved(w, p, v) ==
    /\ UNCHANGED <<store, open, draft, storm>> /\ call'[w] = "idle"
    /\ worker[w] \in WorkerState /\ WorkerFits(w)
    /\ Up /\ ~Ended(w) /\ Engaged(w) /\ Ok(w) /\ Answered(w)
    /\ worker'[w].at = p /\ worker'[w].version = v /\ worker'[w].reply = "none"
    /\ worker'[w].step = worker[w].step /\ worker'[w].op = worker[w].op
    /\ worker'[w].count = worker[w].count

LEMMA Succeeds ==
    ASSUME Fits, NEW w \in Worker, Ok(w), NEW p \in Places, NEW v \in 0..3,
           GoOn(w, [worker[w] EXCEPT !.at = p, !.version = v]),
           Moved(w, p, v) => WorkerFits(w)'
    PROVE  Fits'
<1>1. worker[w] \in WorkerState
  BY DEF Fits, Types
<1>2. [worker[w] EXCEPT !.at = p, !.version = v] \in WorkerState
  BY <1>1 DEF WorkerState, Places
<1>3. /\ UNCHANGED <<store, open, draft, storm>> /\ call'[w] = "idle"
      /\ WorkerFits(w) /\ ~Ended(w) /\ Answered(w) /\ (Up => Engaged(w)) /\ (~Up => ~Ok(w))
  BY <1>2, Finds
<1> QED
  BY <1>1, <1>3, MovesOn DEF Moved

LEMMA SucceedsTo ==
    ASSUME Fits, NEW w \in Worker, Ok(w), NEW p \in Places, GoTo(w, p),
           Moved(w, p, worker[w].version) => WorkerFits(w)'
    PROVE  Fits'
<1>1. worker[w].version \in 0..3
  BY DEF Fits, Types, WorkerState
<1> QED
  BY <1>1, GoesTo, Succeeds

LEMMA OpenReadyFits ==
    ASSUME Fits, NEW w \in Worker, OpenReady(w)
    PROVE  Fits'
<1>1. CASE ~Ok(w)
  BY <1>1, FailsFit DEF OpenReady, Fails
<1>2. CASE Ok(w)
  <2> DEFINE p == IF worker[w].version = 0 THEN "table" ELSE "choose"
  <2>1. p \in Places /\ GoTo(w, p) /\ At(w, "pragma")
    BY <1>2 DEF Places, Texts, OpenReady
  <2>2. ASSUME Moved(w, p, worker[w].version)
        PROVE  WorkerFits(w)'
    BY <2>1, <2>2 DEF Moved, WorkerFits, Engaged, Answered, Ended, Up, At, Ok, Migrated,
       OperationFits, InMigration, Texts, Inside, Pending
  <2> HIDE DEF p
  <2> QED
    BY <1>2, <2>1, <2>2, SucceedsTo
<1> QED
  BY <1>1, <1>2

LEMMA BootTableFits ==
    ASSUME Fits, NEW w \in Worker, BootTable(w)
    PROVE  Fits'
<1>1. CASE ~Ok(w)
  BY <1>1, FailsFit DEF BootTable, Fails
<1>2. CASE Ok(w)
  <2>1. GoOn(w, [worker[w] EXCEPT !.at = "begin", !.version = 1]) /\ At(w, "table")
    BY <1>2 DEF BootTable
  <2>2. ASSUME Moved(w, "begin", 1)
        PROVE  WorkerFits(w)'
    BY <2>1, <2>2 DEF Moved, WorkerFits, Engaged, Answered, Ended, Up, At, Ok, Migrated,
       OperationFits, InMigration, Texts, Inside, Pending, Versions
  <2>3. "begin" \in Places /\ 1 \in 0..3
    BY DEF Places, Texts
  <2> QED
    BY <1>2, <2>1, <2>2, <2>3, Succeeds
<1> QED
  BY <1>1, <1>2

LEMMA MigrateBeginFits ==
    ASSUME Fits, NEW w \in Worker, MigrateBegin(w)
    PROVE  Fits'
<1>1. CASE ~Ok(w)
  BY <1>1, FailsFit DEF MigrateBegin, Fails
<1>2. CASE Ok(w)
  <2>1. "check" \in Places /\ GoTo(w, "check") /\ At(w, "begin")
    BY <1>2 DEF Places, Texts, MigrateBegin
  <2>2. ASSUME Moved(w, "check", worker[w].version)
        PROVE  WorkerFits(w)'
    BY <2>1, <2>2 DEF Moved, WorkerFits, Engaged, Answered, Ended, Up, At, Ok, Migrated,
       OperationFits, InMigration, Texts, Inside, Pending
  <2> QED
    BY <1>2, <2>1, <2>2, SucceedsTo
<1> QED
  BY <1>1, <1>2

LEMMA MigrateCheckFits ==
    ASSUME Fits, NEW w \in Worker, MigrateCheck(w)
    PROVE  Fits'
<1>1. CASE ~Ok(w)
  BY <1>1, FailsFit DEF MigrateCheck, At, InMigration
<1>2. CASE Ok(w)
  <2> DEFINE p == IF worker[w].reply = "1" THEN "already" ELSE "ddl"
  <2>1. p \in Places /\ GoTo(w, p) /\ At(w, "check")
    BY <1>2 DEF Places, Texts, MigrateCheck
  <2>2. ASSUME Moved(w, p, worker[w].version)
        PROVE  WorkerFits(w)'
    BY <2>1, <2>2 DEF Moved, WorkerFits, Engaged, Answered, Ended, Up, At, Ok, Migrated,
       OperationFits, InMigration, Texts, Inside, Pending
  <2> HIDE DEF p
  <2> QED
    BY <1>2, <2>1, <2>2, SucceedsTo
<1> QED
  BY <1>1, <1>2

LEMMA MigrateChangesFits ==
    ASSUME Fits, NEW w \in Worker, MigrateDdl(w) \/ MigrateRecord(w)
    PROVE  Fits'
<1>1. CASE ~Ok(w)
  BY <1>1, FailsFit DEF MigrateDdl, MigrateRecord, At, InMigration
<1>2. CASE Ok(w) /\ MigrateDdl(w)
  <2>1. "record" \in Places /\ GoTo(w, "record") /\ At(w, "ddl")
    BY <1>2 DEF Places, Texts, MigrateDdl
  <2>2. ASSUME Moved(w, "record", worker[w].version)
        PROVE  WorkerFits(w)'
    BY <2>1, <2>2 DEF Moved, WorkerFits, Engaged, Answered, Ended, Up, At, Ok, Migrated,
       OperationFits, InMigration, Texts, Inside, Pending
  <2> QED
    BY <1>2, <2>1, <2>2, SucceedsTo
<1>3. CASE Ok(w) /\ MigrateRecord(w)
  <2>1. "commit" \in Places /\ GoTo(w, "commit") /\ At(w, "record")
    BY <1>3 DEF Places, Texts, MigrateRecord
  <2>2. ASSUME Moved(w, "commit", worker[w].version)
        PROVE  WorkerFits(w)'
    BY <2>1, <2>2 DEF Moved, WorkerFits, Engaged, Answered, Ended, Up, At, Ok, Migrated,
       OperationFits, InMigration, Texts, Inside, Pending
  <2> QED
    BY <1>3, <2>1, <2>2, SucceedsTo
<1> QED
  BY <1>1, <1>2, <1>3

LEMMA MigrateCommitFits ==
    ASSUME Fits, NEW w \in Worker, MigrateCommit(w)
    PROVE  Fits'
<1>1. CASE ~Ok(w)
  BY <1>1, FailsFit DEF MigrateCommit, Fails
<1>2. WorkerFits(w) /\ worker[w] \in WorkerState /\ worker[w].at \in {"already", "commit"}
  BY DEF Fits, Types, MigrateCommit
<1>3. CASE Ok(w)
  <2>1. /\ worker[w].version \in Versions /\ worker[w].version \in store.versions
        /\ 1..(worker[w].version - 1) \subseteq store.versions /\ store.table
    BY <1>2, <1>3 DEF WorkerFits, Migrated, InMigration, At
  <2>2. CASE worker[w].version < 3
    <3> DEFINE v == worker[w].version + 1
    <3>1. v \in Versions /\ v \in 0..3 /\ "begin" \in Places
          /\ 1..(v - 1) \subseteq store.versions
      BY <2>1, <2>2 DEF Versions, Places, Texts
    <3>2. GoOn(w, [worker[w] EXCEPT !.at = "begin", !.version = v])
      BY <1>3, <2>2 DEF MigrateCommit
    <3> HIDE DEF v
    <3>3. ASSUME Moved(w, "begin", v)
          PROVE  WorkerFits(w)'
      BY <1>2, <2>1, <3>1, <3>3 DEF Moved, WorkerFits, Engaged, Answered, Ended, Up, At, Ok,
         Migrated, OperationFits, InMigration, Texts, Inside, Pending
    <3> QED
      BY <1>3, <3>1, <3>2, <3>3, Succeeds
  <2>3. CASE ~(worker[w].version < 3)
    <3>1. worker[w].version = 3 /\ store.versions = Versions
      BY <2>1, <2>3 DEF Versions, Fits, Types, Service!TypeOK, File
    <3>2. GoTo(w, "choose") /\ "choose" \in Places
      BY <1>3, <2>3 DEF MigrateCommit, Places
    <3>3. ASSUME Moved(w, "choose", worker[w].version)
          PROVE  WorkerFits(w)'
      BY <1>2, <3>1, <3>3 DEF Moved, WorkerFits, Engaged, Answered, Ended, Up, At, Ok,
         Migrated, OperationFits, InMigration, Texts, Inside, Pending
    <3> QED
      BY <1>3, <3>2, <3>3, SucceedsTo
  <2> QED
    BY <2>2, <2>3
<1> QED
  BY <1>1, <1>3

LEMMA MigrateRollbackFits ==
    ASSUME Fits, NEW w \in Worker, MigrateRollback(w)
    PROVE  Fits'
<1>1. At(w, "rollback") /\ GoTo(w, "failed") /\ "failed" \in Places
  BY DEF MigrateRollback, Fails, Places
<1>2. CASE ~Ok(w)
  BY <1>1, <1>2, FailsFit
<1>3. CASE Ok(w)
  <2>1. ASSUME Moved(w, "failed", worker[w].version)
        PROVE  WorkerFits(w)'
    BY <1>1, <2>1 DEF Moved, WorkerFits, At
  <2> QED
    BY <1>1, <1>3, <2>1, SucceedsTo
<1> QED
  BY <1>2, <1>3

LEMMA BootFits ==
    ASSUME Fits, NEW w \in Worker, Boot(w)
    PROVE  Fits'
BY OpenReadyFits, BootTableFits, MigrateBeginFits, MigrateCheckFits, MigrateChangesFits,
   MigrateCommitFits, MigrateRollbackFits DEF Boot

-----------------------------------------------------------------------------
(* A call is asked, or fails where there is no broker. *)
LEMMA AskFits ==
    ASSUME Fits, NEW w \in Worker, Ask(w)
    PROVE  Fits'
<1>1. /\ ~Ended(w) /\ worker[w].at \in Texts /\ worker[w].reply = "none"
      /\ worker[w] \in WorkerState /\ WorkerFits(w) /\ UNCHANGED <<draft, storm>>
  BY DEF Ask, Fits, Types
<1>2. CASE Up
  <2>1. /\ call[w] = "idle" /\ call' = [call EXCEPT ![w] = "asked"]
        /\ UNCHANGED <<store, open, worker>>
    BY <1>2 DEF Ask, Service!Ask
  <2>2. call' \in [Worker -> {"idle", "asked", "ran"}] /\ call'[w] = "asked"
        /\ \A u \in Worker : u # w => call'[u] = call[u]
    BY <2>1 DEF Fits, Types, Service!TypeOK
  <2>3. Types' /\ Sound(store)'
    BY <1>1, <2>1, <2>2 DEF Fits, Types, Service!TypeOK, Sound
  <2>4. \A u \in Worker : u # w => WorkerFits(u)'
    BY <1>1, <2>1, <2>2, OthersFit DEF Fits
  <2>5. WorkerFits(w)'
    BY <1>1, <1>2, <2>1, <2>2 DEF WorkerFits, Engaged, Answered, Ended, Up, At, Inside,
       Pending, Migrated, OperationFits, Ok
  <2> QED
    BY <2>3, <2>4, <2>5 DEF Fits
<1>3. CASE ~Up
  <2>1. /\ worker' = [worker EXCEPT ![w].reply = "error"]
        /\ UNCHANGED <<store, open, call>>
    BY <1>3 DEF Ask, serviceVars
  <2>2. /\ worker'[w] = [worker[w] EXCEPT !.reply = "error"]
        /\ worker'[w] \in WorkerState /\ worker' \in [Worker -> WorkerState]
        /\ \A u \in Worker : u # w => worker'[u] = worker[u]
    BY <1>1, <2>1 DEF Fits, Types, WorkerState
  <2>3. Types' /\ Sound(store)'
    BY <1>1, <2>1, <2>2 DEF Fits, Types, Service!TypeOK, Sound
  <2>4. \A u \in Worker : u # w => WorkerFits(u)'
    BY <1>1, <2>1, <2>2, OthersFit DEF Fits
  <2>5. /\ worker'[w].at = worker[w].at /\ worker'[w].version = worker[w].version
        /\ worker'[w].reply = "error" /\ worker'[w].step = worker[w].step
        /\ worker'[w].op = worker[w].op /\ worker'[w].count = worker[w].count
    BY <1>1, <2>2 DEF WorkerState
  <2>6. WorkerFits(w)'
    BY <1>1, <1>3, <2>1, <2>5 DEF WorkerFits, Engaged, Answered, Ended, Up, At,
       Migrated, OperationFits, Ok
  <2> QED
    BY <2>3, <2>4, <2>6 DEF Fits
<1> QED
  BY <1>2, <1>3

-----------------------------------------------------------------------------
(* Whoever is outside a transaction keeps its part while another's changes
   the file: versions are added to it, never taken away. *)
Grows ==
    /\ store' \in File /\ store.versions \subseteq store'.versions
    /\ store.table => store'.table

LEMMA OutsidersFit ==
    ASSUME NEW u \in Worker, WorkerFits(u), worker'[u] = worker[u], call'[u] = call[u],
           UNCHANGED storm, u \notin open, u \notin open', Grows
    PROVE  WorkerFits(u)'
<1>1. store'.versions \subseteq Versions
  BY DEF Grows, File
<1>2. Migrated(u)'
  <2>1. Migrated(u)
    BY DEF WorkerFits
  <2> QED
    BY <1>1, <2>1 DEF Migrated, Grows, Ok
<1>3. (Engaged(u) => ~Inside(u)) /\ (Engaged(u)' <=> Engaged(u)) /\ (Inside(u)' <=> Inside(u))
  BY DEF WorkerFits, Engaged, Ended, Up, Inside, At, Answered
<1> QED
  BY <1>2, <1>3 DEF WorkerFits, Engaged, Answered, Ended, Up, At, Inside, OperationFits

(* Whose turn it is, and what it finds. *)
LEMMA TurnOf ==
    ASSUME Fits, NEW w \in Worker, Service!MayRun(w)
    PROVE  /\ call[w] = "asked" /\ open \subseteq {w} /\ Up /\ Engaged(w)
           /\ worker[w].reply = "none" /\ worker[w].at \in Texts /\ ~At(w, "rollback")
           /\ worker[w] \in WorkerState /\ store \in File /\ WorkerFits(w)
           /\ w \in open <=> Inside(w)
           /\ Inside(w) <=> worker[w].at \in {"check", "ddl", "record", "already", "commit"}
           /\ w \in open => draft = Pending(w)
<1>1. call[w] = "asked" /\ open \subseteq {w} /\ WorkerFits(w) /\ worker[w] \in WorkerState
      /\ store \in File
  BY DEF Fits, Types, Service!MayRun, Service!TypeOK
<1>2. Up /\ Engaged(w)
  BY <1>1 DEF WorkerFits, Engaged
<1>3. worker[w].reply = "none" /\ worker[w].at \in Texts /\ ~At(w, "rollback")
      /\ (w \in open <=> Inside(w)) /\ (w \in open => draft = Pending(w))
  BY <1>1, <1>2 DEF WorkerFits, Answered, At
<1>4. Inside(w) <=> worker[w].at \in {"check", "ddl", "record", "already", "commit"}
  BY <1>3 DEF Inside, At, Answered
<1> QED
  BY <1>1, <1>2, <1>3, <1>4

(* What a text does, place by place, while the broker is up. *)
Doing(w) == Effect(w, IF w \in open THEN draft ELSE store, w \in open)

LEMMA OutsideDoing ==
    ASSUME Fits, NEW w \in Worker, Service!MayRun(w)
    PROVE  /\ worker[w].at \in {"pragma", "read"} => Doing(w) = Result(store, "ok", FALSE)
           /\ At(w, "table") => Doing(w) = Result([store EXCEPT !.table = TRUE], "ok", FALSE)
           /\ At(w, "begin") => Doing(w) = Result(store, "ok", TRUE)
           /\ At(w, "write") =>
                 Doing(w) = Result(Changed(store, w, worker[w].step, worker[w].op), "ok", FALSE)
<1>1. WorkerFits(w) /\ Sound(store)
      /\ (worker[w].at \in {"pragma", "read", "table", "begin", "write"} => w \notin open)
  BY TurnOf DEF Fits
<1>2. worker[w].at \in {"pragma", "read", "table", "begin", "write"} => ~Missing(store, worker[w])
  BY <1>1 DEF Missing, WorkerFits, Migrated, Sound
<1> DEFINE txn == w \in open
<1>0. ASSUME ~txn PROVE Doing(w) = Effect(w, store, FALSE)
  <2>1. Doing(w) = Effect(w, IF txn THEN draft ELSE store, txn)
    BY DEF Doing
  <2>2. txn = FALSE
    BY <1>0
  <2> QED
    BY <2>1, <2>2
<1>3. ASSUME worker[w].at \in {"pragma", "read"} PROVE Doing(w) = Result(store, "ok", FALSE)
  BY <1>0, <1>1, <1>2, <1>3 DEF Effect
<1>4. ASSUME At(w, "table")
      PROVE  Doing(w) = Result([store EXCEPT !.table = TRUE], "ok", FALSE)
  BY <1>0, <1>1, <1>2, <1>4 DEF Effect, At
<1>5. ASSUME At(w, "begin") PROVE Doing(w) = Result(store, "ok", TRUE)
  BY <1>1, <1>2, <1>5 DEF Doing, Effect, At, Begin
<1>6. ASSUME At(w, "write")
      PROVE  Doing(w) = Result(Changed(store, w, worker[w].step, worker[w].op), "ok", FALSE)
  BY <1>1, <1>2, <1>6 DEF Doing, Effect, At, Write
<1> QED
  BY <1>3, <1>4, <1>5, <1>6

LEMMA InsideDoing ==
    ASSUME Fits, NEW w \in Worker, Service!MayRun(w)
    PROVE  LET v == worker[w].version
               new == [store EXCEPT !.schema = @ \cup {v}]
               all == [store EXCEPT !.schema = @ \cup {v}, !.versions = @ \cup {v},
                                    !.applied[v] = @ + 1]
           IN /\ At(w, "check") => Doing(w) = Result(store, IF v \in store.versions THEN "1"
                                                            ELSE "0", TRUE)
              /\ At(w, "ddl") => Doing(w) = Result(new, "ok", TRUE)
              /\ At(w, "record") => Doing(w) = Result(all, "ok", TRUE)
              /\ At(w, "already") => Doing(w) = Result(store, "ok", FALSE)
              /\ At(w, "commit") => Doing(w) = Result(all, "ok", FALSE)
<1> DEFINE v == worker[w].version
           new == [store EXCEPT !.schema = @ \cup {v}]
           all == [store EXCEPT !.schema = @ \cup {v}, !.versions = @ \cup {v},
                                !.applied[v] = @ + 1]
<1>1. WorkerFits(w) /\ Sound(store) /\ worker[w].reply = "none" /\ store \in File /\ Engaged(w)
      /\ (worker[w].at \in {"check", "ddl", "record", "already", "commit"} =>
            w \in open /\ Inside(w) /\ draft = Pending(w))
  BY TurnOf DEF Fits
<1>2. /\ worker[w].at \in {"check", "ddl", "already"} => draft = store
      /\ At(w, "record") => draft = new
      /\ At(w, "commit") => draft = all
  BY <1>1 DEF Pending, At, Answered
<1>3. worker[w].at \in InMigration => store.table /\ v \in Versions
                                      /\ 1..(v - 1) \subseteq store.versions
  BY <1>1 DEF WorkerFits, Migrated
<1>4. worker[w].at \in {"ddl", "record"} => v \notin store.versions
  BY <1>1 DEF WorkerFits
<1>5. new.table = store.table
  BY <1>1 DEF File
<1>6. worker[w].at \in {"check", "ddl", "record", "already", "commit"} => ~Missing(draft, worker[w])
  <2>1. ASSUME worker[w].at = "ddl", v > 1 PROVE v - 1 \in store.schema
    BY <1>1, <1>3, <2>1 DEF InMigration, Versions, Sound
  <2> QED
    BY <1>2, <1>3, <1>5, <2>1 DEF Missing, InMigration, At
<1>7. ASSUME At(w, "check")
      PROVE  Doing(w) = Result(store, IF v \in store.versions THEN "1" ELSE "0", TRUE)
  BY <1>1, <1>2, <1>6, <1>7 DEF Doing, Effect, At
<1>8. ASSUME At(w, "ddl") PROVE Doing(w) = Result(new, "ok", TRUE)
  <2>1. ~(v = 2 /\ v \in store.schema)
    BY <1>1, <1>4, <1>8 DEF Sound, At
  <2> QED
    BY <1>1, <1>2, <1>6, <1>8, <2>1 DEF Doing, Effect, At, Ddl
<1>9. ASSUME At(w, "record") PROVE Doing(w) = Result(all, "ok", TRUE)
  <2>1. [new EXCEPT !.versions = @ \cup {v}, !.applied[v] = @ + 1] = all
    BY <1>1 DEF File
  <2> QED
    BY <1>1, <1>2, <1>6, <1>9, <2>1 DEF Doing, Effect, At, RecordVersion
<1>10. ASSUME At(w, "already") PROVE Doing(w) = Result(store, "ok", FALSE)
  BY <1>1, <1>2, <1>6, <1>10 DEF Doing, Effect, At
<1>11. ASSUME At(w, "commit") PROVE Doing(w) = Result(all, "ok", FALSE)
  BY <1>1, <1>2, <1>6, <1>11 DEF Doing, Effect, At
<1> QED
  BY <1>7, <1>8, <1>9, <1>10, <1>11

(* The call of w has run, and done this. *)
Ran(w, f, reply, txn) ==
    /\ store' = IF txn THEN store ELSE f
    /\ draft' = f /\ open' = IF txn THEN {w} ELSE {}
    /\ call'[w] = "ran" /\ UNCHANGED storm
    /\ worker'[w].at = worker[w].at /\ worker'[w].version = worker[w].version
    /\ worker'[w].reply = reply
    /\ worker'[w].step = worker[w].step /\ worker'[w].op = worker[w].op
    /\ worker'[w].count = worker[w].count

Kept(f) == /\ f \in File /\ Sound(f) /\ store.versions \subseteq f.versions
           /\ store.table => f.table

LEMMA RanFits ==
    ASSUME Fits, NEW w \in Worker, Run(w), NEW f \in File, NEW txn \in BOOLEAN,
           NEW reply \in {"ok", "0", "1"}, Doing(w) = Result(f, reply, txn),
           txn \/ Kept(f),
           Ran(w, f, reply, txn) => WorkerFits(w)'
    PROVE  Fits'
<1>0. /\ Service!MayRun(w) /\ UNCHANGED storm /\ call' = [call EXCEPT ![w] = "ran"]
      /\ open \subseteq {w} /\ worker[w] \in WorkerState /\ store \in File
  BY TurnOf DEF Run, Service!Run
<1>1. LET r == Doing(w) IN
          /\ store' = IF r.txn THEN store ELSE r.file
          /\ draft' = r.file
          /\ open' = IF r.txn THEN {w} ELSE {}
          /\ worker' = [worker EXCEPT ![w].reply = r.reply]
  BY DEF Run, Doing
<1>2. /\ store' = IF txn THEN store ELSE f
      /\ draft' = f /\ open' = IF txn THEN {w} ELSE {}
      /\ worker' = [worker EXCEPT ![w].reply = reply]
  BY <1>1 DEF Result
<1>3. /\ worker'[w] = [worker[w] EXCEPT !.reply = reply]
      /\ \A u \in Worker : u # w => worker'[u] = worker[u] /\ call'[u] = call[u]
      /\ call' \in [Worker -> {"idle", "asked", "ran"}] /\ call'[w] = "ran"
      /\ worker' \in [Worker -> WorkerState]
  BY <1>0, <1>2 DEF Fits, Types, Service!TypeOK, WorkerState
<1>4. Ran(w, f, reply, txn)
  BY <1>0, <1>2, <1>3 DEF Ran, WorkerState
<1>5. store' \in File /\ Sound(store)' /\ Grows /\ Types'
  <2>1. Sound(store) /\ Types
    BY DEF Fits
  <2>2. store' \in File /\ Grows
    BY <1>0, <1>2 DEF Grows, Kept
  <2>3. Sound(store)'
    BY <1>2, <2>1 DEF Sound, Kept
  <2>4. Types'
    BY <1>0, <1>2, <1>3, <2>1, <2>2 DEF Types, Service!TypeOK
  <2> QED
    BY <2>2, <2>3, <2>4
<1>6. ASSUME NEW u \in Worker, u # w
      PROVE  WorkerFits(u)'
  <2>1. u \notin open /\ u \notin open'
    BY <1>0, <1>2, <1>6
  <2> QED
    BY <1>0, <1>3, <1>5, <1>6, <2>1, OutsidersFit DEF Fits
<1> QED
  BY <1>4, <1>5, <1>6 DEF Fits

LEMMA RunOutside ==
    ASSUME Fits, NEW w \in Worker, Run(w), worker[w].at \in {"pragma", "read", "table", "begin", "write"}
    PROVE  Fits'
<1>0. /\ Service!MayRun(w) /\ store \in File /\ Sound(store) /\ WorkerFits(w) /\ Up /\ Engaged(w)
      /\ worker[w].reply = "none" /\ w \notin open /\ worker[w] \in WorkerState
  BY TurnOf DEF Run, Fits
<1>1. CASE worker[w].at \in {"pragma", "read"}
  <2>1. Doing(w) = Result(store, "ok", FALSE) /\ Kept(store)
    BY <1>0, <1>1, OutsideDoing DEF Kept
  <2>2. ASSUME Ran(w, store, "ok", FALSE) PROVE WorkerFits(w)'
    BY <1>0, <1>1, <2>2 DEF Ran, WorkerFits, Engaged, Answered, Ended, Up, At, Ok, Migrated,
       OperationFits, InMigration, Texts, Inside
  <2> QED
    BY <1>0, <2>1, <2>2, RanFits
<1>2. CASE At(w, "table")
  <2> DEFINE f == [store EXCEPT !.table = TRUE]
  <2>1. f \in File /\ f.table /\ f.versions = store.versions /\ f.schema = store.schema
        /\ f.applied = store.applied
    BY <1>0 DEF File
  <2>2. Doing(w) = Result(f, "ok", FALSE) /\ Kept(f)
    BY <1>0, <1>2, <2>1, OutsideDoing DEF Kept, Sound
  <2> HIDE DEF f
  <2>3. ASSUME Ran(w, f, "ok", FALSE) PROVE WorkerFits(w)'
    BY <1>0, <1>2, <2>1, <2>3 DEF Ran, WorkerFits, Engaged, Answered, Ended, Up, At, Ok,
       Migrated, OperationFits, InMigration, Texts, Inside
  <2> QED
    BY <1>0, <2>1, <2>2, <2>3, RanFits
<1>3. CASE At(w, "begin")
  <2>1. Doing(w) = Result(store, "ok", TRUE)
    BY <1>0, <1>3, OutsideDoing
  <2>2. ASSUME Ran(w, store, "ok", TRUE) PROVE WorkerFits(w)'
    BY <1>0, <1>3, <2>2 DEF Ran, WorkerFits, Engaged, Answered, Ended, Up, At, Ok, Migrated,
       OperationFits, InMigration, Texts, Inside, Pending
  <2> QED
    BY <1>0, <2>1, <2>2, RanFits
<1>4. CASE At(w, "write")
  <2> DEFINE f == Changed(store, w, worker[w].step, worker[w].op)
  <2>1. f \in File /\ f.table = store.table /\ f.versions = store.versions
        /\ f.schema = store.schema /\ f.applied = store.applied
    <3>1. worker[w].op.kind \in {"insert", "update", "delete"} /\ worker[w].op.token \in Nat
          /\ worker[w].step \in Nat
      <4>1. OperationFits(w)
        BY <1>0 DEF WorkerFits
      <4>2. worker[w].op.kind # "none" /\ worker[w].op.token \in Nat
        BY <1>4, <4>1 DEF OperationFits, At
      <4>3. worker[w].op \in [kind: {"none", "insert", "update", "delete"}, token: Int]
            /\ worker[w].step \in 0..Ops
        BY <1>0 DEF WorkerState
      <4> QED
        BY <4>2, <4>3
    <3> DEFINE items == ItemsAfter(store.items[w], worker[w].op)
               events == store.events[w] \cup {[seq |-> worker[w].step, kind |-> worker[w].op.kind,
                                                token |-> worker[w].op.token]}
    <3>2. items \in SUBSET Nat
      BY <1>0, <3>1 DEF File, ItemsAfter
    <3>3. events \in SUBSET Event
      BY <1>0, <3>1 DEF File, Event
    <3>4. f = [store EXCEPT !.items[w] = items, !.events[w] = events]
      BY DEF Changed
    <3> HIDE DEF items, events, f
    <3> QED
      BY <1>0, <3>2, <3>3, <3>4 DEF File
  <2>4. Doing(w) = Result(f, "ok", FALSE)
    BY <1>0, <1>4, OutsideDoing
  <2> HIDE DEF f
  <2>2. Kept(f)
    BY <1>0, <2>1 DEF Kept, Sound
  <2>3. ASSUME Ran(w, f, "ok", FALSE) PROVE WorkerFits(w)'
    BY <1>0, <1>4, <2>1, <2>3 DEF Ran, WorkerFits, Engaged, Answered, Ended, Up, At, Ok,
       Migrated, OperationFits, InMigration, Texts, Inside
  <2> QED
    BY <1>0, <2>1, <2>2, <2>3, <2>4, RanFits
<1> QED
  BY <1>1, <1>2, <1>3, <1>4 DEF At

LEMMA RunInside ==
    ASSUME Fits, NEW w \in Worker, Run(w),
           worker[w].at \in {"check", "ddl", "record", "already", "commit"}
    PROVE  Fits'
<1> DEFINE v == worker[w].version
           new == [store EXCEPT !.schema = @ \cup {v}]
           all == [store EXCEPT !.schema = @ \cup {v}, !.versions = @ \cup {v},
                                !.applied[v] = @ + 1]
<1>0. /\ Service!MayRun(w) /\ store \in File /\ Sound(store) /\ WorkerFits(w) /\ Up /\ Engaged(w)
      /\ worker[w].reply = "none" /\ w \in open /\ Inside(w) /\ worker[w] \in WorkerState
  BY TurnOf DEF Run, Fits
<1>1. /\ At(w, "check") => Doing(w) = Result(store, IF v \in store.versions THEN "1"
                                                    ELSE "0", TRUE)
      /\ At(w, "ddl") => Doing(w) = Result(new, "ok", TRUE)
      /\ At(w, "record") => Doing(w) = Result(all, "ok", TRUE)
      /\ At(w, "already") => Doing(w) = Result(store, "ok", FALSE)
      /\ At(w, "commit") => Doing(w) = Result(all, "ok", FALSE)
  BY <1>0, InsideDoing
<1>2. v \in Versions /\ store.table /\ 1..(v - 1) \subseteq store.versions
      /\ (worker[w].at \in {"ddl", "record", "commit"} => v \notin store.versions)
  BY <1>0 DEF WorkerFits, Migrated, InMigration
<1>3. new \in File /\ all \in File
  <2>1. store.applied \in [Versions -> Nat] /\ store.schema \cup {v} \in SUBSET Versions
        /\ store.versions \cup {v} \in SUBSET Versions
    BY <1>0, <1>2 DEF File
  <2>2. new \in File
    BY <1>0, <2>1 DEF File
  <2> DEFINE applied == [store.applied EXCEPT ![v] = store.applied[v] + 1]
  <2>3. applied \in [Versions -> Nat]
    BY <1>2, <2>1
  <2>4. all = [store EXCEPT !.schema = @ \cup {v}, !.versions = @ \cup {v},
                            !.applied = applied]
    BY <1>0 DEF File
  <2> HIDE DEF applied
  <2>5. all \in File
    BY <1>0, <2>1, <2>3, <2>4 DEF File
  <2> QED
    BY <2>2, <2>5
<1>4. CASE At(w, "check")
  <2> DEFINE reply == IF v \in store.versions THEN "1" ELSE "0"
  <2>1. ASSUME Ran(w, store, reply, TRUE) PROVE WorkerFits(w)'
    BY <1>0, <1>2, <1>4, <2>1 DEF Ran, WorkerFits, Engaged, Answered, Ended, Up, At, Ok,
       Migrated, OperationFits, InMigration, Texts, Inside, Pending
  <2> QED
    BY <1>0, <1>1, <1>4, <2>1, RanFits
<1>5. CASE At(w, "ddl")
  <2>1. ASSUME Ran(w, new, "ok", TRUE) PROVE WorkerFits(w)'
    <3>1. Pending(w)' = new
      BY <1>5, <2>1 DEF Ran, Pending, At, Answered
    <3> HIDE DEF new
    <3> QED
      BY <1>0, <1>2, <1>5, <2>1, <3>1 DEF Ran, WorkerFits, Engaged, Answered, Ended, Up, At,
         Ok, Migrated, OperationFits, InMigration, Texts, Inside
  <2> QED
    BY <1>0, <1>1, <1>3, <1>5, <2>1, RanFits
<1>6. CASE At(w, "record")
  <2>1. ASSUME Ran(w, all, "ok", TRUE) PROVE WorkerFits(w)'
    <3>1. Pending(w)' = all
      BY <1>6, <2>1 DEF Ran, Pending, At, Answered
    <3> HIDE DEF all
    <3> QED
      BY <1>0, <1>2, <1>6, <2>1, <3>1 DEF Ran, WorkerFits, Engaged, Answered, Ended, Up, At,
         Ok, Migrated, OperationFits, InMigration, Texts, Inside
  <2> QED
    BY <1>0, <1>1, <1>3, <1>6, <2>1, RanFits
<1>7. CASE At(w, "already")
  <2>1. Kept(store)
    BY <1>0 DEF Kept
  <2>2. ASSUME Ran(w, store, "ok", FALSE) PROVE WorkerFits(w)'
    BY <1>0, <1>2, <1>7, <2>2 DEF Ran, WorkerFits, Engaged, Answered, Ended, Up, At, Ok,
       Migrated, OperationFits, InMigration, Texts, Inside
  <2> QED
    BY <1>0, <1>1, <1>7, <2>1, <2>2, RanFits
<1>8. CASE At(w, "commit")
  <2>1. /\ all.table /\ all.versions = store.versions \cup {v}
        /\ all.schema = store.schema \cup {v}
        /\ all.applied = [store.applied EXCEPT ![v] = store.applied[v] + 1]
    BY <1>0, <1>2 DEF File
  <2> HIDE DEF all
  <2>2. Sound(all)
    <3>1. \A x \in all.versions : 1..x \subseteq all.versions
      BY <1>0, <1>2, <2>1 DEF Sound, File, Versions
    <3>2. \A x \in Versions : all.applied[x] = IF x \in all.versions THEN 1 ELSE 0
      BY <1>0, <1>2, <1>8, <2>1 DEF Sound, File, At
    <3> QED
      BY <1>0, <2>1, <3>1, <3>2 DEF Sound
  <2>3. Kept(all)
    BY <1>3, <2>1, <2>2 DEF Kept
  <2>4. ASSUME Ran(w, all, "ok", FALSE) PROVE WorkerFits(w)'
    BY <1>0, <1>2, <1>8, <2>1, <2>4 DEF Ran, WorkerFits, Engaged, Answered, Ended, Up, At,
       Ok, Migrated, OperationFits, InMigration, Texts, Inside
  <2> QED
    BY <1>0, <1>1, <1>3, <1>8, <2>3, <2>4, RanFits
<1> QED
  BY <1>4, <1>5, <1>6, <1>7, <1>8 DEF At

LEMMA RunFits ==
    ASSUME Fits, NEW w \in Worker, Run(w)
    PROVE  Fits'
<1>1. worker[w].at \in Texts /\ ~At(w, "rollback")
  BY TurnOf DEF Run
<1> QED
  BY <1>1, RunOutside, RunInside DEF Texts, At

-----------------------------------------------------------------------------
LEMMA WorkerHas ==
    ASSUME Fits, NEW w \in Worker
    PROVE  /\ worker[w] \in WorkerState /\ WorkerFits(w) /\ worker[w].live \in Seq(Nat)
           /\ worker[w].op \in [kind: {"none", "insert", "update", "delete"}, token: Int]
           /\ worker[w].op.token \in Int
           /\ worker[w].step \in Nat /\ worker[w].step \in 0..Ops
           /\ worker[w].count \in [writes: 0..Ops, sum: Nat, sample: Int, last: Int]
           /\ worker[w].count.writes \in Nat
<1>1. worker[w] \in WorkerState /\ WorkerFits(w)
  BY DEF Fits, Types
<1>2. /\ worker[w].op \in [kind: {"none", "insert", "update", "delete"}, token: Int]
      /\ worker[w].count \in [writes: 0..Ops, sum: Nat, sample: Int, last: Int]
      /\ worker[w].step \in 0..Ops /\ worker[w].live \in Seq(Nat)
  BY <1>1 DEF WorkerState
<1> QED
  BY <1>1, <1>2

(* A worker that is between two operations, or comes from one. *)
LEMMA StartFits ==
    ASSUME Fits, NEW w \in Worker, Choosing(w), NEW at \in {"read", "write"},
           NEW op \in [kind: {"none", "insert", "update", "delete"}, token: Int],
           NEW live \in Seq(Nat), Start(w, at, op, live),
           at = "write" => op.kind # "none" /\ op.token \in Nat
    PROVE  Fits'
<1>1. /\ worker[w] \in WorkerState /\ WorkerFits(w) /\ ~Ended(w) /\ At(w, "choose")
      /\ worker[w].step < Ops /\ UNCHANGED <<store, open, call, draft, storm>>
  BY DEF Choosing, Fits, Types, Start, serviceVars
<1> DEFINE n == [worker[w] EXCEPT !.at = at, !.op = op, !.live = live]
<1>2. n \in WorkerState /\ worker' = [worker EXCEPT ![w] = n]
  BY <1>1 DEF WorkerState, Start, Texts
<1>3. n.at = at /\ n.op = op /\ n.version = worker[w].version /\ n.reply = worker[w].reply
      /\ n.step = worker[w].step /\ n.count = worker[w].count
  BY <1>1 DEF WorkerState
<1> HIDE DEF n
<1>4. worker'[w] = n /\ (\A u \in Worker : u # w => worker'[u] = worker[u]) /\ Types'
  BY <1>1, <1>2 DEF Fits, Types, Service!TypeOK
<1>5. \A u \in Worker : u # w => WorkerFits(u)'
  BY <1>1, <1>4, OthersFit DEF Fits
<1>6. WorkerFits(w)'
  BY <1>1, <1>3, <1>4 DEF WorkerFits, Engaged, Answered, Ended, Up, At, Ok, Migrated,
     OperationFits, InMigration, Texts, Inside, Pending
<1> QED
  BY <1>1, <1>4, <1>5, <1>6 DEF Fits, Sound

LEMMA ChoiceFits ==
    ASSUME Fits, NEW w \in Worker,
           ChooseRead(w) \/ ChooseInsert(w) \/ ChooseUpdate(w) \/ ChooseDelete(w)
    PROVE  Fits'
<1>1. worker[w] \in WorkerState /\ worker[w].live \in Seq(Nat) /\ worker[w].step \in Nat
  BY WorkerHas
<1>2. CASE ChooseRead(w)
  BY <1>1, <1>2, StartFits DEF ChooseRead, NoOp, NoToken
<1>3. CASE ChooseInsert(w)
  <2> DEFINE op   == [kind |-> "insert", token |-> worker[w].step]
             live == Append(worker[w].live, worker[w].step)
  <2>1. Choosing(w) /\ Start(w, "write", op, live)
    BY <1>3 DEF ChooseInsert
  <2>2. live \in Seq(Nat) /\ op.kind # "none" /\ op.token \in Nat
        /\ op \in [kind: {"none", "insert", "update", "delete"}, token: Int]
    BY <1>1
  <2> HIDE DEF op, live
  <2> QED
    BY <2>1, <2>2, StartFits
<1>4. CASE ChooseUpdate(w)
  <2>1. PICK i \in DOMAIN worker[w].live :
          Start(w, "write", [kind |-> "update", token |-> worker[w].live[i]], worker[w].live)
    BY <1>4 DEF ChooseUpdate
  <2>2. worker[w].live[i] \in Nat
    BY <1>1
  <2> QED
    BY <1>1, <1>4, <2>1, <2>2, StartFits DEF ChooseUpdate
<1>5. CASE ChooseDelete(w)
  <2> DEFINE last == worker[w].live[Len(worker[w].live)]
             op   == [kind |-> "delete", token |-> last]
             live == SubSeq(worker[w].live, 1, Len(worker[w].live) - 1)
  <2>1. Choosing(w) /\ worker[w].live # <<>> /\ Start(w, "write", op, live)
    BY <1>5 DEF ChooseDelete
  <2>3. last \in Nat /\ live \in Seq(Nat)
    BY <1>1, <2>1
  <2> HIDE DEF last, live
  <2>2. op.kind # "none" /\ op.token \in Nat
        /\ op \in [kind: {"none", "insert", "update", "delete"}, token: Int]
    BY <2>3
  <2> HIDE DEF op
  <2> QED
    BY <2>1, <2>2, <2>3, StartFits
<1> QED
  BY <1>2, <1>3, <1>4, <1>5

(* After an operation: the count may have grown by one. *)
LEMMA AfterOpFits ==
    ASSUME Fits, NEW w \in Worker, Ok(w), worker[w].at \in {"read", "write"},
           NEW c \in [writes: Nat, sum: Nat, sample: Int, last: Int],
           c.writes <= worker[w].count.writes + 1,
           GoOn(w, AfterOp([worker[w] EXCEPT !.count = c]))
    PROVE  Fits'
<1>1. worker[w] \in WorkerState /\ WorkerFits(w) /\ worker[w].step \in Nat /\ Ops \in Nat
      /\ worker[w].count.writes \in Nat
  BY WorkerHas, StormAssumptions
<1>2. worker[w].step < Ops /\ worker[w].count.writes <= worker[w].step
      /\ worker[w].version = 3 /\ store.versions = Versions
  BY <1>1 DEF WorkerFits, OperationFits, Migrated
<1> DEFINE n == AfterOp([worker[w] EXCEPT !.count = c])
           p == IF worker[w].step + 1 < Ops /\ (worker[w].step + 1) % Every = 0
                THEN "pragma" ELSE "choose"
<1>3. n = [worker[w] EXCEPT !.count = c, !.step = worker[w].step + 1, !.at = p]
  BY <1>1 DEF AfterOp, WorkerState
<1>4. p \in {"pragma", "choose"}
  OBVIOUS
<1> HIDE DEF p, n
<1>5. c \in [writes: 0..Ops, sum: Nat, sample: Int, last: Int]
      /\ c.writes <= worker[w].step + 1 /\ worker[w].step + 1 \in 0..Ops
  BY <1>1, <1>2
<1>6. /\ n \in WorkerState /\ [n EXCEPT !.reply = "none"].at = p
      /\ [n EXCEPT !.reply = "none"].version = 3
      /\ [n EXCEPT !.reply = "none"].reply = "none"
      /\ [n EXCEPT !.reply = "none"].count = c
  BY <1>1, <1>2, <1>3, <1>4, <1>5 DEF WorkerState, Texts
<1>7. [n EXCEPT !.reply = "none"].step = worker[w].step + 1
  BY <1>1, <1>3 DEF WorkerState
<1>8. GoOn(w, n)
  BY DEF n
<1>9. /\ UNCHANGED <<store, open, draft, storm>> /\ call'[w] = "idle" /\ ~Ended(w)
      /\ worker'[w] = [n EXCEPT !.reply = "none"] /\ (Up => Engaged(w) /\ Ok(w)) /\ Answered(w)
      /\ (~Up => ~Ok(w))
  BY <1>1, <1>6, <1>8, Going DEF Fits
<1>10. WorkerFits(w)'
  BY <1>1, <1>2, <1>4, <1>5, <1>6, <1>7, <1>9 DEF WorkerFits, Engaged, Answered, Ended, Up,
     At, Ok, Migrated, OperationFits, InMigration, Texts, Inside
<1> QED
  BY <1>6, <1>8, <1>10, GoesOn DEF Fits

LEMMA DoneFits ==
    ASSUME Fits, NEW w \in Worker, ReadDone(w) \/ WriteDone(w)
    PROVE  Fits'
<1>0. worker[w] \in WorkerState /\ worker[w].at \in {"read", "write"}
      /\ worker[w].count \in [writes: 0..Ops, sum: Nat, sample: Int, last: Int]
      /\ worker[w].step \in Nat /\ worker[w].op.token \in Int
  BY WorkerHas DEF ReadDone, WriteDone, At
<1>1. CASE ~Ok(w)
  BY <1>1, FailsFit DEF ReadDone, WriteDone, Fails
<1>2. CASE Ok(w) /\ ReadDone(w)
  <2> DEFINE c == worker[w].count
  <2>1. worker[w] = [worker[w] EXCEPT !.count = c]
    BY <1>0 DEF WorkerState
  <2>2. GoOn(w, AfterOp([worker[w] EXCEPT !.count = c]))
    BY <1>2, <2>1 DEF ReadDone
  <2>3. c \in [writes: Nat, sum: Nat, sample: Int, last: Int] /\ c.writes <= c.writes + 1
    BY <1>0
  <2> QED
    BY <1>0, <1>2, <2>2, <2>3, AfterOpFits
<1>3. CASE Ok(w) /\ WriteDone(w)
  <2> DEFINE op == worker[w].op
             c == [worker[w].count EXCEPT !.writes = @ + 1,
                        !.sum = @ + worker[w].step, !.last = op.token,
                        !.sample = IF @ = NoToken THEN op.token ELSE @]
  <2>1. GoOn(w, AfterOp([worker[w] EXCEPT !.count = c]))
    BY <1>3 DEF WriteDone
  <2>2. c \in [writes: Nat, sum: Nat, sample: Int, last: Int]
        /\ c.writes <= worker[w].count.writes + 1
    <3> DEFINE m == worker[w].count
               a == m.writes + 1
               b == m.sum + worker[w].step
               s == IF m.sample = NoToken THEN op.token ELSE m.sample
    <3>1. m \in [writes: 0..Ops, sum: Nat, sample: Int, last: Int] /\ m.writes \in Nat
          /\ a \in Nat /\ b \in Nat /\ s \in Int /\ a = worker[w].count.writes + 1
      BY <1>0
    <3>2. c = [m EXCEPT !.writes = a, !.sum = b, !.last = op.token, !.sample = s]
      OBVIOUS
    <3>3. op.token \in Int
      BY <1>0
    <3> HIDE DEF c, m, a, b, s
    <3>4. c = [writes |-> a, sum |-> b, sample |-> s, last |-> op.token]
      BY <3>1, <3>2
    <3> QED
      BY <3>1, <3>3, <3>4
  <2> HIDE DEF c
  <2> QED
    BY <1>0, <1>3, <2>1, <2>2, AfterOpFits
<1> QED
  BY <1>1, <1>2, <1>3

LEMMA ReportFits ==
    ASSUME Fits, NEW w \in Worker, Report(w)
    PROVE  Fits'
<1> DEFINE p == IF worker[w].count.writes = 0 THEN "failed" ELSE "done"
           n == [worker[w] EXCEPT !.at = p]
<1>1. /\ worker[w] \in WorkerState /\ WorkerFits(w) /\ ~Ended(w) /\ At(w, "choose")
      /\ worker[w].step = Ops /\ UNCHANGED <<store, open, call, draft, storm>>
      /\ worker' = [worker EXCEPT ![w] = n]
  BY DEF Report, Fits, Types, serviceVars
<1>2. n \in WorkerState /\ n.at = p /\ n.version = worker[w].version
      /\ n.reply = worker[w].reply /\ n.step = worker[w].step /\ n.count = worker[w].count
  BY <1>1 DEF WorkerState
<1>3. p \in {"done", "failed"} /\ (p = "failed" => worker[w].count.writes = 0)
  OBVIOUS
<1> HIDE DEF n, p
<1>4. worker'[w] = n /\ (\A u \in Worker : u # w => worker'[u] = worker[u]) /\ Types'
  BY <1>1, <1>2 DEF Fits, Types, Service!TypeOK
<1>5. \A u \in Worker : u # w => WorkerFits(u)'
  BY <1>1, <1>4, OthersFit DEF Fits
<1>6. WorkerFits(w)'
  BY <1>1, <1>2, <1>3, <1>4 DEF WorkerFits, Engaged, Answered, Ended, Up, At, Ok, Migrated,
     OperationFits, InMigration, Texts, Inside, Pending
<1> QED
  BY <1>1, <1>4, <1>5, <1>6 DEF Fits, Sound

LEMMA HammerFits ==
    ASSUME Fits, NEW w \in Worker, Hammer(w)
    PROVE  Fits'
BY ChoiceFits, DoneFits, ReportFits DEF Hammer

-----------------------------------------------------------------------------
(* The ends: of a session, of a process, of the broker, of storm. *)
LEMMA SessionDroppedFits ==
    ASSUME Fits, NEW w \in Worker, SessionDropped(w)
    PROVE  Fits'
<1>1. Ended(w) /\ UNCHANGED <<store, worker, storm>> /\ WorkerFits(w)
  BY DEF SessionDropped, Fits, Service!Answer, Service!Leave
<1>2. CASE Service!Answer(w) /\ UNCHANGED draft
  <2>1. call' = [call EXCEPT ![w] = "idle"] /\ UNCHANGED open
    BY <1>2 DEF Service!Answer
  <2>2. call'[w] = "idle" /\ (\A u \in Worker : u # w => call'[u] = call[u]) /\ Types'
    BY <1>1, <1>2, <2>1 DEF Fits, Types, Service!TypeOK
  <2>3. \A u \in Worker : u # w => WorkerFits(u)'
    BY <1>1, <1>2, <2>1, <2>2, OthersFit DEF Fits
  <2>4. WorkerFits(w)'
    BY <1>1, <1>2, <2>1, <2>2 DEF WorkerFits, Engaged, Ended, Up, At, Migrated, OperationFits,
       Ok
  <2> QED
    BY <1>1, <2>2, <2>3, <2>4 DEF Fits, Sound
<1>3. CASE Service!Leave(w) /\ draft' = store
  <2>1. open' = open \ {w} /\ UNCHANGED call /\ call[w] = "idle" /\ w \in open
    BY <1>3 DEF Service!Leave
  <2>2. Types'
    BY <1>1, <1>3, <2>1 DEF Fits, Types, Service!TypeOK
  <2>3. ASSUME NEW u \in Worker, u # w PROVE WorkerFits(u)'
    <3>1. u \notin open
      BY <1>1, <2>1, <2>3 DEF Fits, Types
    <3> QED
      BY <1>1, <2>1, <2>3, <3>1 DEF Fits, WorkerFits, Engaged, Answered, Ended, Up, At,
         Inside, Pending, Migrated, OperationFits, Ok
  <2>4. WorkerFits(w)'
    BY <1>1, <1>3, <2>1 DEF WorkerFits, Engaged, Ended, Up, At, Migrated, OperationFits, Ok
  <2> QED
    BY <1>1, <2>2, <2>3, <2>4 DEF Fits, Sound
<1> QED
  BY <1>2, <1>3 DEF SessionDropped

(* Somebody is killed: whoever it is not about keeps its part. *)
LEMMA KilledFits ==
    ASSUME Fits, NEW w \in Worker, ~Ended(w),
           UNCHANGED <<store, open, call, draft, worker>>,
           storm'.killed = storm.killed \cup {w}, storm'.server = storm.server,
           storm'.next = storm.next, storm' \in StormState
    PROVE  Fits'
<1>1. Types' /\ Sound(store)'
  BY DEF Fits, Types, Service!TypeOK, Sound
<1>2. ASSUME NEW u \in Worker PROVE WorkerFits(u)'
  <2>1. WorkerFits(u)
    BY DEF Fits
  <2>2. /\ Up' <=> Up
        /\ Ended(u)' <=> Ended(u) \/ u = w
        /\ Engaged(u)' => Engaged(u)
    BY DEF Up, Ended, Engaged
  <2>3. u \in storm.killed => u \in storm'.killed
    OBVIOUS
  <2> QED
    BY <2>1, <2>2, <2>3 DEF WorkerFits, Answered, At, Inside, Pending, Migrated,
       OperationFits, Ok
<1> QED
  BY <1>1, <1>2 DEF Fits

LEMMA KillsFit ==
    ASSUME Fits, NEW w \in Worker, Dies(w) \/ WaitTimeout(w)
    PROVE  Fits'
<1>1. storm \in StormState
  BY DEF Fits, Types
<1>2. CASE Dies(w)
  BY <1>1, <1>2, KilledFits DEF Dies, serviceVars, StormState
<1>3. CASE WaitTimeout(w)
  BY <1>1, <1>3, KilledFits DEF WaitTimeout, serviceVars, StormState
<1> QED
  BY <1>2, <1>3

LEMMA WaitChildFits ==
    ASSUME Fits, NEW w \in Worker, WaitChild(w)
    PROVE  Fits'
<1>1. /\ storm \in StormState /\ UNCHANGED <<store, open, call, draft, worker>>
      /\ storm.next = w /\ Ended(w) /\ storm'.next = w + 1
      /\ storm'.killed = storm.killed /\ storm'.server = storm.server
  BY DEF Fits, Types, WaitChild, serviceVars, StormState, Ended, At
<1>2. storm' \in StormState
  <2>1. w \in 0..(Apps - 1) /\ w + 1 \in 0..Apps
    BY StormAssumptions DEF Worker
  <2>2. storm.claims \cup {w} \in SUBSET Worker
    BY <1>1 DEF StormState
  <2> QED
    BY <1>1, <2>1, <2>2 DEF WaitChild, StormState
<1>3. Types' /\ Sound(store)'
  BY <1>1, <1>2 DEF Fits, Types, Service!TypeOK, Sound
<1>4. ASSUME NEW u \in Worker PROVE WorkerFits(u)'
  <2>1. WorkerFits(u)
    BY DEF Fits
  <2>2. u < storm'.next => u < storm.next \/ u = w
    BY <1>1, StormAssumptions DEF Worker
  <2> QED
    BY <1>1, <2>1, <2>2 DEF WorkerFits, Engaged, Ended, Up, Answered, At, Inside, Pending,
       Migrated, OperationFits, Ok
<1> QED
  BY <1>3, <1>4 DEF Fits

(* The broker goes: what had not been answered has failed. *)
LEMMA BrokerDiesFits ==
    ASSUME Fits, BrokerDies
    PROVE  Fits'
<1>1. /\ Up /\ UNCHANGED store /\ draft' = store /\ open' = {} /\ store \in File
      /\ call' = [w \in Worker |-> "idle"]
      /\ storm \in StormState /\ storm' = [storm EXCEPT !.server = "gone"]
      /\ worker' = [w \in Worker |->
                      IF call[w] # "idle" THEN [worker[w] EXCEPT !.reply = "error"]
                      ELSE worker[w]]
  BY DEF BrokerDies, Service!Crash, Fits, Types, Service!TypeOK
<1>2. storm' \in StormState /\ storm'.server = "gone" /\ storm'.killed = storm.killed
      /\ storm'.next = storm.next
  BY <1>1 DEF StormState
<1>3. ASSUME NEW u \in Worker
      PROVE  worker'[u] \in WorkerState /\ WorkerFits(u)'
  <2>1. worker[u] \in WorkerState /\ WorkerFits(u)
    BY DEF Fits, Types
  <2>2. worker'[u] = IF call[u] # "idle" THEN [worker[u] EXCEPT !.reply = "error"]
                     ELSE worker[u]
    BY <1>1
  <2>3. /\ worker'[u] \in WorkerState
        /\ worker'[u].at = worker[u].at /\ worker'[u].version = worker[u].version
        /\ worker'[u].reply = IF call[u] # "idle" THEN "error" ELSE worker[u].reply
        /\ worker'[u].step = worker[u].step
        /\ worker'[u].op = worker[u].op /\ worker'[u].count = worker[u].count
    BY <2>1, <2>2 DEF WorkerState
  <2>4. call'[u] = "idle" /\ u \notin open' /\ ~Up' /\ (Ended(u)' <=> Ended(u))
        /\ ~Engaged(u)'
    BY <1>1, <1>2, <2>3 DEF Up, Ended, Engaged
  <2>5. ~Ended(u) /\ call[u] = "idle" => worker[u].reply = "none"
    BY <1>1, <2>1 DEF WorkerFits, Engaged, Answered
  <2>6. Migrated(u)' /\ OperationFits(u)'
    BY <1>1, <2>1, <2>3 DEF WorkerFits, Migrated, OperationFits, Ok
  <2> QED
    BY <1>2, <2>1, <2>3, <2>4, <2>5, <2>6 DEF WorkerFits, At
<1>4. worker' \in [Worker -> WorkerState]
  BY <1>1, <1>3
<1>5. Types'
  BY <1>1, <1>2, <1>4 DEF Types, Service!TypeOK
<1>6. Sound(store)'
  BY <1>1 DEF Fits, Sound
<1> QED
  BY <1>3, <1>5, <1>6 DEF Fits

LEMMA JudgeFits ==
    ASSUME Fits, Judge
    PROVE  Fits'
<1>1. /\ UNCHANGED <<store, worker>> /\ draft' = store /\ open' = {} /\ store \in File
      /\ call' = [w \in Worker |-> "idle"] /\ storm.next = Apps /\ storm \in StormState
  BY DEF Judge, Service!Crash, Fits, Types, Service!TypeOK
<1>2. storm' \in StormState /\ storm'.server = "gone" /\ storm'.killed = storm.killed
      /\ storm'.next = storm.next
  BY <1>1 DEF Judge, StormState
<1>3. ASSUME NEW u \in Worker PROVE WorkerFits(u)'
  <2>1. WorkerFits(u) /\ u < storm.next
    BY <1>1, StormAssumptions DEF Fits, Worker
  <2>2. Ended(u) /\ Ended(u)'
    BY <1>1, <1>2, <2>1 DEF WorkerFits, Ended
  <2>3. call'[u] = "idle" /\ u \notin open' /\ ~Up' /\ ~Engaged(u)'
    BY <1>1, <1>2 DEF Up, Engaged
  <2> QED
    BY <1>1, <1>2, <2>1, <2>2, <2>3 DEF WorkerFits, At, Migrated, OperationFits, Ok
<1>4. Types' /\ Sound(store)'
  BY <1>1, <1>2 DEF Fits, Types, Service!TypeOK, Sound
<1> QED
  BY <1>3, <1>4 DEF Fits

-----------------------------------------------------------------------------
LEMMA InitFits == ASSUME Init PROVE Fits
<1>1. NewFile \in File /\ NewFile.versions = {} /\ NewFile.schema = {}
      /\ NewFile.applied = [v \in Versions |-> 0]
  BY DEF NewFile, File
<1>2. NewWorker \in WorkerState
  BY StormAssumptions DEF NewWorker, WorkerState, Texts, NoOp, NoCount, NoToken
<1>3. storm \in StormState /\ storm.server = "up" /\ storm.next = 0 /\ storm.killed = {}
  BY StormAssumptions DEF Init, StormState
<1>4. Types
  BY <1>1, <1>2, <1>3 DEF Init, Types, Service!TypeOK
<1>5. Sound(store)
  BY <1>1 DEF Init, Sound
<1>6. ASSUME NEW w \in Worker PROVE WorkerFits(w)
  <2>1. worker[w] = NewWorker /\ call[w] = "idle" /\ open = {} /\ Up /\ ~(w < storm.next)
    BY <1>3, StormAssumptions DEF Init, Up, Worker
  <2>2. /\ NewWorker.at = "pragma" /\ NewWorker.version = 0 /\ NewWorker.reply = "none"
        /\ NewWorker.step = 0 /\ NewWorker.count.writes = 0
    BY DEF NewWorker, NoCount
  <2> QED
    BY <2>1, <2>2 DEF WorkerFits, Engaged, Answered, Ended, Up, At, Inside, Migrated,
       OperationFits, InMigration, Texts, Ok
<1> QED
  BY <1>4, <1>5, <1>6 DEF Fits

LEMMA StormStep == ASSUME Fits, [Next]_vars PROVE Fits'
<1>1. CASE \E w \in Worker : Step(w)
  BY <1>1, AskFits, RunFits, BootFits, HammerFits, SessionDroppedFits DEF Step
<1>2. CASE \E w \in Worker : Dies(w) \/ WaitChild(w) \/ WaitTimeout(w)
  BY <1>2, KillsFit, WaitChildFits
<1>3. CASE BrokerDies \/ Judge
  BY <1>3, BrokerDiesFits, JudgeFits
<1>4. CASE Over \/ UNCHANGED vars
  <2>1. UNCHANGED <<store, open, call, draft, worker, storm>>
    BY <1>4 DEF Over, vars, serviceVars
  <2>2. \A u \in Worker : WorkerFits(u)'
    BY <2>1, OthersFit DEF Fits
  <2>3. Types' /\ Sound(store)'
    BY <2>1 DEF Fits, Types, Service!TypeOK, Sound
  <2> QED
    BY <2>2, <2>3 DEF Fits
<1> QED
  BY <1>1, <1>2, <1>3, <1>4 DEF Next

(* The state of the storm has its type, the service is where its workers
   believe it to be, and every worker's part fits: run_worker, migrate and
   storm of server/src/hammer.rs, for any number of workers and operations. *)
THEOREM StormInductive == Spec => []StormIInv
<1>1. StormIInv <=> Fits
  BY ByWorker DEF Fits
<1>2. Init => StormIInv
  BY <1>1, InitFits
<1>3. (StormIInv <=> Fits)'
  BY <1>1, PTL
<1>4. StormIInv /\ [Next]_vars => StormIInv'
  BY <1>1, <1>3, StormStep
<1> QED
  BY <1>2, <1>4, PTL DEF Spec

(* Only one worker is inside a transaction, and it is between the BEGIN and
   the COMMIT of migrate (hammer.rs), never between two operations. *)
THEOREM StormTypes == Spec => []StormTypeOK
<1>1. StormIInv => StormTypeOK
  BY DEF StormIInv
<1> QED
  BY <1>1, StormInductive, PTL

(* However many processes migrate at once, and whoever is killed meanwhile,
   migrate carries each version out at most once. *)
THEOREM MigrationsOnce == Spec => []MigratedOnce
<1>1. StormIInv => MigratedOnce
  BY DEF StormIInv, Sound, MigratedOnce
<1> QED
  BY <1>1, StormInductive, PTL

(* The versions migrate records are the ones whose changes are in the file,
   and they came in order. *)
THEOREM SchemaMatches == Spec => []SchemaMatchesVersions
<1>1. StormIInv => SchemaMatchesVersions
  BY DEF StormIInv, Sound, SchemaMatchesVersions
<1> QED
  BY <1>1, StormInductive, PTL

(* No text of run_worker or migrate fails because others run theirs: a
   process fails where it was killed, the broker died, or it drew no write. *)
THEOREM FailuresHaveReasons == Spec => []OnlyTheKilledFail
<1>1. StormIInv => OnlyTheKilledFail
  BY DEF StormIInv
<1> QED
  BY <1>1, StormInductive, PTL

(* The least of some finite sets. *)
LEMMA Minimal ==
    ASSUME NEW S, IsFiniteSet(S), NEW F \in SUBSET (SUBSET S), F # {}
    PROVE  \E T \in F : \A U \in F : U \subseteq T => U = T
<1>1. F \subseteq FiniteSubsetsOf(S)
  BY FS_Subset DEF FiniteSubsetsOf
<1>2. IsWellFoundedOn(StrictSubsetOrdering(S), FiniteSubsetsOf(S))
  BY FS_StrictSubsetOrderingWellFounded
<1>3. PICK T \in F : \A U \in F : ~ (<<U, T>> \in StrictSubsetOrdering(S))
  BY <1>1, <1>2, WFMin
<1>4. ASSUME NEW U \in F, U \subseteq T PROVE U = T
  BY <1>3, <1>4 DEF StrictSubsetOrdering
<1> QED
  BY <1>4

Adds(S, g) == g = [s \in SUBSET S |-> IF s = {} THEN 0
                     ELSE (CHOOSE x \in s : TRUE).seq + g[s \ {CHOOSE x \in s : TRUE}]]

LEMMA SumDef == ASSUME NEW S PROVE SeqSum(S) = (CHOOSE g : Adds(S, g))[S]
BY DEF SeqSum, MapThenSumSet, MapThenFoldSet, Adds

(* The sum counts these pairs, in whatever order it is taken. *)
Slots(S, N) == {p \in S \X (1..N) : p[2] <= p[1].seq}

LEMMA SlotsFinite ==
    ASSUME NEW S, IsFiniteSet(S), NEW N \in Nat
    PROVE  IsFiniteSet(Slots(S, N)) /\ Cardinality(Slots(S, N)) \in Nat
<1>1. IsFiniteSet(1..N)
  BY FS_Interval
<1>2. IsFiniteSet(S \X (1..N))
  BY <1>1, FS_Product
<1>3. Slots(S, N) \subseteq S \X (1..N)
  BY DEF Slots
<1> QED
  BY <1>2, <1>3, FS_Subset, FS_CardinalityType

LEMMA SlotsOfOneMore ==
    ASSUME NEW S, IsFiniteSet(S), NEW N \in Nat, NEW x \in S, x.seq \in 0..N
    PROVE  Cardinality(Slots(S, N)) = x.seq + Cardinality(Slots(S \ {x}, N))
<1> DEFINE A == {x} \X (1..x.seq)
           B == Slots(S \ {x}, N)
<1>1. Slots(S, N) = A \cup B
  BY DEF Slots
<1>2. A \cap B = {}
  BY DEF Slots
<1>3. IsFiniteSet(A) /\ Cardinality(A) = x.seq
  <2>1. IsFiniteSet({x}) /\ Cardinality({x}) = 1
    BY FS_Singleton
  <2>2. IsFiniteSet(1..x.seq) /\ Cardinality(1..x.seq) = x.seq
    <3>1. ASSUME NEW n \in Nat PROVE IsFiniteSet(1..n) /\ Cardinality(1..n) = n
      <4>1. 1 \in Int /\ n \in Int
        OBVIOUS
      <4>2. IsFiniteSet(1..n) /\ Cardinality(1..n) = IF 1 > n THEN 0 ELSE n - 1 + 1
        BY <4>1, FS_Interval, ZenonT(30)
      <4> QED
        BY <4>2
    <3>2. x.seq \in Nat
      OBVIOUS
    <3> QED
      BY <3>1, <3>2
  <2>3. IsFiniteSet(A) /\ Cardinality(A) = 1 * x.seq
    BY <2>1, <2>2, FS_Product
  <2> QED
    BY <2>3
<1>4. IsFiniteSet(B) /\ Cardinality(B) \in Nat
  BY FS_RemoveElement, SlotsFinite
<1>5. Cardinality(A \cap B) = 0
  BY <1>2, FS_EmptySet
<1> HIDE DEF A, B
<1>6. Cardinality(A \cup B) = Cardinality(A) + Cardinality(B) - Cardinality(A \cap B)
  BY <1>3, <1>4, FS_Union
<1>7. Cardinality(A \cup B) = x.seq + Cardinality(B)
  BY <1>3, <1>4, <1>5, <1>6
<1> QED
  BY <1>1, <1>7 DEF B

LEMMA SumIsSlots ==
    ASSUME NEW S, IsFiniteSet(S), NEW N \in Nat, \A e \in S : e.seq \in 0..N
    PROVE  SeqSum(S) = Cardinality(Slots(S, N))
<1> DEFINE h == [s \in SUBSET S |-> Cardinality(Slots(s, N))]
           g == CHOOSE f : Adds(S, f)
           first(s) == CHOOSE x \in s : TRUE
<1>0. \A s \in SUBSET S : IsFiniteSet(s)
  BY FS_Subset
<1>1. h[{}] = 0
  <2>1. Slots({}, N) = {}
    BY DEF Slots
  <2> QED
    BY <2>1, FS_EmptySet
<1>2. ASSUME NEW s \in SUBSET S, s # {}
      PROVE  /\ first(s) \in s /\ s \ {first(s)} \in SUBSET S
             /\ h[s] = first(s).seq + h[s \ {first(s)}]
  <2>1. first(s) \in s
    BY <1>2
  <2> HIDE DEF first
  <2>2. Cardinality(Slots(s, N)) = first(s).seq + Cardinality(Slots(s \ {first(s)}, N))
    BY <1>0, <2>1, SlotsOfOneMore
  <2>3. s \ {first(s)} \in SUBSET S
    OBVIOUS
  <2> QED
    BY <2>1, <2>2, <2>3
<1>3. Adds(S, h)
  <2>1. \A s \in SUBSET S : h[s] = IF s = {} THEN 0 ELSE first(s).seq + h[s \ {first(s)}]
    <3> HIDE DEF h, first
    <3> QED
      BY <1>1, <1>2
  <2>2. h = [s \in SUBSET S |-> h[s]]
    OBVIOUS
  <2> HIDE DEF h
  <2> QED
    BY <2>1, <2>2 DEF Adds
<1>4. Adds(S, g)
  BY <1>3
<1>5. \A s \in SUBSET S : g[s] = IF s = {} THEN 0 ELSE first(s).seq + g[s \ {first(s)}]
  <2> HIDE DEF g
  <2> QED
    BY <1>4 DEF Adds
<1> HIDE DEF g, h, first
<1>6. \A s \in SUBSET S : g[s] = h[s]
  <2> SUFFICES ASSUME {s \in SUBSET S : g[s] # h[s]} # {} PROVE FALSE
    OBVIOUS
  <2> DEFINE F == {s \in SUBSET S : g[s] # h[s]}
  <2>1. PICK T \in F : \A U \in F : U \subseteq T => U = T
    <3> HIDE DEF F
    <3>1. F \in SUBSET (SUBSET S) /\ F # {}
      BY DEF F
    <3> QED
      BY <3>1, Minimal
  <2>2. T \in SUBSET S /\ g[T] # h[T] /\ T # {}
    BY <1>1, <1>5, <2>1
  <2>3. first(T) \in T /\ T \ {first(T)} \in SUBSET S /\ h[T] = first(T).seq + h[T \ {first(T)}]
    BY <1>2, <2>2
  <2>4. g[T \ {first(T)}] = h[T \ {first(T)}]
    BY <2>1, <2>3
  <2> QED
    BY <1>5, <2>2, <2>3, <2>4
<1>7. SeqSum(S) = g[S]
  BY SumDef DEF g
<1> QED
  BY <1>6, <1>7 DEF h

(* The sum grows by what is added, and is a natural number. *)
LEMMA SumOfOneMore ==
    ASSUME NEW S, IsFiniteSet(S), NEW N \in Nat, \A e \in S : e.seq \in 0..N,
           NEW x, x \notin S, x.seq \in 0..N
    PROVE  SeqSum(S \cup {x}) = SeqSum(S) + x.seq /\ SeqSum(S) \in Nat
<1>1. IsFiniteSet(S \cup {x}) /\ (S \cup {x}) \ {x} = S
  BY FS_AddElement
<1>2. SeqSum(S \cup {x}) = Cardinality(Slots(S \cup {x}, N))
  BY <1>1, SumIsSlots
<1>3. Cardinality(Slots(S \cup {x}, N)) = x.seq + Cardinality(Slots(S, N))
  BY <1>1, SlotsOfOneMore
<1>4. SeqSum(S) = Cardinality(Slots(S, N)) /\ Cardinality(Slots(S, N)) \in Nat
  BY SumIsSlots, SlotsFinite
<1> QED
  BY <1>2, <1>3, <1>4

LEMMA SumOfNone == SeqSum({}) = 0
<1>1. IsFiniteSet({}) /\ Slots({}, 0) = {}
  BY FS_EmptySet DEF Slots
<1> QED
  BY <1>1, SumIsSlots, FS_EmptySet

-----------------------------------------------------------------------------
(* The part of a worker in the reports. *)
Reports(w) ==
    /\ FileBalances(w)
    /\ CanReport(w) => CountMatches(w) /\ ListMatches(w)
    /\ At(w, "done") => worker[w].count.writes > 0

SameFile(w) == store'.events[w] = store.events[w] /\ store'.items[w] = store.items[w]

(* Between two writes: what has been counted is what is in the file. *)
LEMMA NotWriting ==
    ASSUME NEW w \in Worker, ~At(w, "write")
    PROVE  /\ CountMatches(w) <=>
                LET c == worker[w].count   E == store.events[w] IN
                /\ \A e \in E : e.seq < worker[w].step
                /\ Cardinality(E) = c.writes /\ SeqSum(E) = c.sum
                /\ c.writes = 0 => c.sample = NoToken
                /\ c.writes > 0 => \A token \in {c.sample, c.last} :
                                      \E e \in E : e.token = token
           /\ ListMatches(w) <=>
                /\ Range(worker[w].live) = store.items[w]
                /\ IsInjective(worker[w].live)
                /\ \A item \in Range(worker[w].live) : item < worker[w].step + 0
BY DEF CountMatches, ListMatches, Counted, Uncounted, At

LEMMA StaysReported ==
    ASSUME NEW w \in Worker, Reports(w), SameFile(w), worker'[w] = worker[w]
    PROVE  Reports(w)'
<1>1. FileBalances(w)' /\ (CanReport(w)' <=> CanReport(w)) /\ (At(w, "done")' <=> At(w, "done"))
  BY DEF Reports, SameFile, FileBalances, CanReport, At
<1>2. Counted(w)' = Counted(w) /\ (Uncounted(w)' <=> Uncounted(w)) /\ Change(w)' = Change(w)
  BY DEF SameFile, Counted, Uncounted, At, Ok, Change
<1>3. CountMatches(w) => CountMatches(w)'
  BY <1>2 DEF CountMatches, SameFile
<1>4. ListMatches(w) => ListMatches(w)'
  BY DEF ListMatches, At, Answered, SameFile
<1> QED
  BY <1>1, <1>3, <1>4 DEF Reports

(* A worker that moves on between two writes. *)
LEMMA MovesReported ==
    ASSUME NEW w \in Worker, Reports(w), SameFile(w), ~At(w, "write"), ~At(w, "failed"),
           ~At(w, "write")',
           worker'[w].step = worker[w].step, worker'[w].live = worker[w].live,
           worker'[w].count = worker[w].count,
           At(w, "done")' => worker[w].count.writes > 0
    PROVE  Reports(w)'
<1>1. FileBalances(w)'
  BY DEF Reports, SameFile, FileBalances
<1>2. CountMatches(w) /\ ListMatches(w)
  BY DEF Reports, CanReport
<1>3. CountMatches(w)'
  BY <1>2, NotWriting DEF SameFile, CountMatches, Counted, Uncounted, At
<1>4. ListMatches(w)'
  BY <1>2 DEF SameFile, ListMatches, At
<1> QED
  BY <1>1, <1>3, <1>4 DEF Reports

(* Only the write of a worker touches what the file holds of it. *)
LEMMA RunKeeps ==
    ASSUME Fits, NEW u \in Worker, Run(u), NEW w \in Worker, ~(u = w /\ At(u, "write"))
    PROVE  SameFile(w)
<1>0. Service!MayRun(u) /\ store \in File /\ worker[u].at \in Texts /\ ~At(u, "rollback")
  BY TurnOf DEF Run, Fits
<1>1. store' = IF Doing(u).txn THEN store ELSE Doing(u).file
  BY DEF Run, Doing
<1> DEFINE v == worker[u].version
           all == [store EXCEPT !.schema = @ \cup {v}, !.versions = @ \cup {v},
                                !.applied[v] = @ + 1]
           t   == [store EXCEPT !.table = TRUE]
           c   == Changed(store, u, worker[u].step, worker[u].op)
<1>2. all.events = store.events /\ all.items = store.items
      /\ t.events = store.events /\ t.items = store.items
  BY <1>0 DEF File
<1>3. u # w => c.events[w] = store.events[w] /\ c.items[w] = store.items[w]
  BY <1>0 DEF File, Changed
<1> HIDE DEF all, t, c
<1>4. CASE worker[u].at \in {"pragma", "read", "begin", "already", "check", "ddl", "record"}
  <2>1. store' = store
    <3>1. worker[u].at \in {"pragma", "read", "begin"} =>
            Doing(u).file = store
      BY <1>0, OutsideDoing DEF Result, At
    <3>2. /\ worker[u].at \in {"already", "check"} => Doing(u).file = store
          /\ worker[u].at \in {"ddl", "record"} => Doing(u).txn
      <4>1. worker[u].at \in {"already", "check"} =>
              \E reply, txn : Doing(u) = Result(store, reply, txn)
        BY <1>0, InsideDoing DEF At
      <4>2. worker[u].at \in {"ddl", "record"} => \E f : Doing(u) = Result(f, "ok", TRUE)
        BY <1>0, InsideDoing DEF At
      <4> QED
        BY <4>1, <4>2 DEF Result
    <3> QED
      BY <1>1, <1>4, <3>1, <3>2
  <2> QED
    BY <2>1 DEF SameFile
<1>5. CASE At(u, "table")
  <2>1. store' = t
    <3>1. Doing(u) = Result(t, "ok", FALSE)
      BY <1>0, <1>5, OutsideDoing DEF t
    <3> QED
      BY <1>1, <3>1 DEF Result
  <2> QED
    BY <1>2, <2>1 DEF SameFile
<1>6. CASE At(u, "commit")
  <2>1. store' = all
    <3>1. Doing(u) = Result(all, "ok", FALSE)
      BY <1>0, <1>6, InsideDoing DEF all
    <3> QED
      BY <1>1, <3>1 DEF Result
  <2> QED
    BY <1>2, <2>1 DEF SameFile
<1>7. CASE At(u, "write")
  <2>1. store' = c
    <3>1. Doing(u) = Result(c, "ok", FALSE)
      BY <1>0, <1>7, OutsideDoing DEF c
    <3> QED
      BY <1>1, <3>1 DEF Result
  <2> QED
    BY <1>3, <1>7, <2>1 DEF SameFile
<1> QED
  BY <1>0, <1>4, <1>5, <1>6, <1>7 DEF At, Texts

(* What an answer changes of its worker. *)
LEMMA RunMoves ==
    ASSUME Fits, NEW u \in Worker, Run(u)
    PROVE  /\ \A w \in Worker : w # u => worker'[w] = worker[w]
           /\ worker'[u] = [worker[u] EXCEPT !.reply = Doing(u).reply]
           /\ worker'[u].at = worker[u].at /\ worker'[u].reply = Doing(u).reply
           /\ worker'[u].step = worker[u].step /\ worker'[u].op = worker[u].op
           /\ worker'[u].live = worker[u].live /\ worker'[u].count = worker[u].count
           /\ UNCHANGED storm
<1>1. worker' = [worker EXCEPT ![u].reply = Doing(u).reply] /\ UNCHANGED storm
  BY DEF Run, Doing
<1>2. worker[u] \in WorkerState /\ worker \in [Worker -> WorkerState]
  BY DEF Fits, Types
<1>3. (\A w \in Worker : w # u => worker'[w] = worker[w])
      /\ worker'[u] = [worker[u] EXCEPT !.reply = Doing(u).reply]
  BY <1>1, <1>2
<1> QED
  BY <1>1, <1>2, <1>3 DEF WorkerState

(* The write reaches the file. *)
LEMMA WriteReported ==
    ASSUME Fits, NEW w \in Worker, Run(w), At(w, "write"), Reports(w)
    PROVE  Reports(w)'
<1> DEFINE me == worker[w]
           E  == store.events[w]
           I  == store.items[w]
           e  == Change(w)
<1>0. /\ Service!MayRun(w) /\ store \in File /\ me \in WorkerState /\ WorkerFits(w)
      /\ me.reply = "none" /\ Doing(w) = Result(Changed(store, w, me.step, me.op), "ok", FALSE)
  BY TurnOf, OutsideDoing DEF Run
<1>1. CanReport(w) /\ ~Uncounted(w) /\ ~Answered(w) /\ Counted(w) = E
  BY <1>0 DEF CanReport, Uncounted, Ok, Answered, Counted, At
<1>2. CountMatches(w) /\ ListMatches(w) /\ FileBalances(w)
  BY <1>1 DEF Reports
<1>3. /\ store' = Changed(store, w, me.step, me.op)
      /\ store'.events[w] = E \cup {e} /\ store'.items[w] = ItemsAfter(I, me.op)
  <2>1. store' = Changed(store, w, me.step, me.op)
    BY <1>0 DEF Run, Doing, Result
  <2> QED
    BY <1>0, <2>1 DEF Changed, File, Change
<1>4. /\ worker'[w].at = "write" /\ worker'[w].reply = "ok" /\ worker'[w].step = me.step
      /\ worker'[w].op = me.op /\ worker'[w].live = me.live /\ worker'[w].count = me.count
  <2>1. Doing(w).reply = "ok"
    BY <1>0 DEF Result
  <2> QED
    BY <2>1, RunMoves DEF At
<1>5. Uncounted(w)' /\ Change(w)' = e /\ CanReport(w)' /\ Answered(w)' /\ At(w, "write")'
  BY <1>4 DEF Uncounted, At, Ok, Change, CanReport, Answered
<1>6. e.seq = me.step /\ e.kind = me.op.kind /\ e.token = me.op.token
  BY DEF Change
<1>7. e \notin E
  BY <1>0, <1>1, <1>2, <1>6, WorkerHas DEF CountMatches
<1>8. Counted(w)' = E
  BY <1>3, <1>5, <1>7 DEF Counted
<1>9. CountMatches(w)'
  <2>1. CountMatches(w) /\ Counted(w) = E
    BY <1>1, <1>2
  <2> HIDE DEF e, E, me
  <2> QED
    BY <1>3, <1>4, <1>5, <1>8, <2>1 DEF CountMatches, me
<1>10. ListMatches(w)'
  BY <1>1, <1>2, <1>3, <1>4, <1>5 DEF ListMatches, At
<1>11. FileBalances(w)'
  <2>0. IsFiniteSet(E) /\ IsFiniteSet(I)
        /\ CountOf(E, "insert") - CountOf(E, "delete") = Cardinality(I)
    BY <1>2 DEF FileBalances
  <2>1. IsFiniteSet(E \cup {e})
    BY <2>0, FS_AddElement
  <2>2. \A k \in {"insert", "update", "delete"} :
          CountOf(E \cup {e}, k) = CountOf(E, k) + (IF e.kind = k THEN 1 ELSE 0)
          /\ CountOf(E, k) \in Nat
    <3> SUFFICES ASSUME NEW k \in {"insert", "update", "delete"}
                 PROVE  CountOf(E \cup {e}, k) = CountOf(E, k) + (IF e.kind = k THEN 1 ELSE 0)
                        /\ CountOf(E, k) \in Nat
      OBVIOUS
    <3> DEFINE K == {s \in E : s.kind = k}
    <3>1. CountOf(E, k) = Cardinality(K)
      BY DEF CountOf, Quantify
    <3>2. CountOf(E \cup {e}, k) = Cardinality({s \in E \cup {e} : s.kind = k})
      BY DEF CountOf, Quantify
    <3>3. {s \in E \cup {e} : s.kind = k} = IF e.kind = k THEN K \cup {e} ELSE K
      OBVIOUS
    <3>4. IsFiniteSet(K) /\ Cardinality(K) \in Nat /\ e \notin K
      BY <1>7, <2>0, FS_Subset, FS_CardinalityType
    <3>5. Cardinality(K \cup {e}) = Cardinality(K) + 1
      BY <3>4, FS_AddElement
    <3> HIDE DEF K, e, E
    <3> QED
      BY <3>1, <3>2, <3>3, <3>4, <3>5
  <2>3. me.op.kind \in {"insert", "update", "delete"}
    BY <1>0, WorkerHas DEF WorkerFits, OperationFits, At
  <2>4. IsFiniteSet(ItemsAfter(I, me.op))
        /\ Cardinality(ItemsAfter(I, me.op)) =
             Cardinality(I) + (IF me.op.kind = "insert" THEN 1 ELSE 0)
                            - (IF me.op.kind = "delete" THEN 1 ELSE 0)
    <3>1. /\ me.op.kind = "insert" => me.op.token \notin I
          /\ me.op.kind = "delete" => me.op.token \in I
      BY <1>1, <1>2 DEF ListMatches
    <3>2. Cardinality(I) \in Nat
      BY <2>0, FS_CardinalityType
    <3>3. CASE me.op.kind = "insert"
      BY <2>0, <3>1, <3>2, <3>3, FS_AddElement DEF ItemsAfter
    <3>4. CASE me.op.kind = "delete"
      BY <2>0, <3>1, <3>2, <3>4, FS_RemoveElement DEF ItemsAfter
    <3>5. CASE me.op.kind = "update"
      BY <2>0, <3>2, <3>5 DEF ItemsAfter
    <3> QED
      BY <2>3, <3>3, <3>4, <3>5
  <2>5. Cardinality(I) \in Nat
    BY <2>0, FS_CardinalityType
  <2> DEFINE new == E \cup {e}   left == ItemsAfter(I, me.op)
  <2>6. CountOf(new, "insert") - CountOf(new, "delete") = Cardinality(left)
    <3> HIDE DEF e, E, I, me
    <3> QED
      BY <1>6, <2>0, <2>2, <2>3, <2>4, <2>5
  <2> HIDE DEF e, E, I, me
  <2> QED
    BY <1>3, <2>1, <2>4, <2>6 DEF FileBalances
<1> QED
  BY <1>4, <1>9, <1>10, <1>11 DEF Reports, At

LEMMA RunReported ==
    ASSUME Fits, NEW u \in Worker, Run(u), NEW w \in Worker, Reports(w)
    PROVE  Reports(w)'
<1>1. CASE u # w
  BY <1>1, RunKeeps, RunMoves, StaysReported
<1>2. CASE u = w /\ At(w, "write")
  BY <1>2, WriteReported
<1>3. CASE u = w /\ ~At(w, "write")
  <2>1. SameFile(w)
    BY <1>3, RunKeeps
  <2>2. worker[w].at \in Texts
    BY <1>3, TurnOf DEF Run
  <2>3. ~At(w, "failed") /\ ~At(w, "done")
    BY <2>2 DEF Texts, At
  <2>4. worker'[w].at = worker[w].at /\ worker'[w].step = worker[w].step
        /\ worker'[w].live = worker[w].live /\ worker'[w].count = worker[w].count
    BY <1>3, RunMoves
  <2> QED
    BY <1>3, <2>1, <2>3, <2>4, MovesReported DEF At
<1> QED
  BY <1>1, <1>2, <1>3

(* A worker that failed reports nothing. *)
LEMMA FailedReported ==
    ASSUME NEW w \in Worker, Reports(w), SameFile(w), ~CanReport(w)', ~At(w, "done")'
    PROVE  Reports(w)'
BY DEF Reports, FileBalances, SameFile

(* The file stays when a worker goes on, and so do the others. *)
LEMMA GoOnKeeps ==
    ASSUME Fits, NEW w \in Worker, NEW n \in WorkerState, GoOn(w, n)
    PROVE  /\ UNCHANGED <<store, storm>> /\ \A u \in Worker : SameFile(u)
           /\ \A u \in Worker : u # w => worker'[u] = worker[u]
           /\ worker'[w].at = n.at /\ worker'[w].step = n.step /\ worker'[w].live = n.live
           /\ worker'[w].count = n.count /\ worker'[w].reply = "none" /\ worker'[w].op = n.op
           /\ ~Ended(w) /\ ~At(w, "failed")
<1>1. Types /\ WorkerFits(w)
  BY DEF Fits
<1>2. /\ UNCHANGED <<store, storm>> /\ worker'[w] = [n EXCEPT !.reply = "none"]
      /\ worker' = [worker EXCEPT ![w] = [n EXCEPT !.reply = "none"]] /\ ~Ended(w)
  BY <1>1, Going
<1>3. \A u \in Worker : u # w => worker'[u] = worker[u]
  BY <1>1, <1>2 DEF Types
<1>4. /\ worker'[w].at = n.at /\ worker'[w].step = n.step /\ worker'[w].live = n.live
      /\ worker'[w].count = n.count /\ worker'[w].reply = "none" /\ worker'[w].op = n.op
  <2>1. worker'[w] = [n EXCEPT !.reply = "none"]
    BY <1>2
  <2>2. n \in WorkerState
    OBVIOUS
  <2> QED
    BY <2>1, <2>2 DEF WorkerState
<1>5. (\A u \in Worker : SameFile(u)) /\ ~At(w, "failed")
  BY <1>2 DEF SameFile, Ended, At
<1> QED
  BY <1>2, <1>3, <1>4, <1>5

LEMMA BootReported ==
    ASSUME Fits, NEW w \in Worker, Boot(w), NEW u \in Worker, Reports(u)
    PROVE  Reports(u)'
<1>0. worker[w] \in WorkerState
  BY WorkerHas
<1>1. PICK p \in Places, v \in 0..3 : p \notin {"write", "done"} /\ ~At(w, "write")
         /\ GoOn(w, [worker[w] EXCEPT !.at = p, !.version = v])
  <2>1. ASSUME NEW p \in Places, GoTo(w, p), p \notin {"write", "done"}, ~At(w, "write")
        PROVE  \E q \in Places, v \in 0..3 : q \notin {"write", "done"} /\ ~At(w, "write")
                 /\ GoOn(w, [worker[w] EXCEPT !.at = q, !.version = v])
    <3>1. GoOn(w, [worker[w] EXCEPT !.at = p, !.version = worker[w].version])
      BY <2>1, GoesTo
    <3>2. worker[w].version \in 0..3
      BY <1>0 DEF WorkerState
    <3> QED
      BY <2>1, <3>1, <3>2
  <2>2. {"failed", "rollback", "table", "choose", "check", "already", "ddl", "record", "commit",
         "begin"} \subseteq Places
    BY DEF Places, Texts
  <2>3. CASE OpenReady(w) \/ MigrateBegin(w) \/ MigrateCheck(w) \/ MigrateDdl(w)
             \/ MigrateRecord(w) \/ MigrateRollback(w)
    BY <2>1, <2>2, <2>3 DEF OpenReady, MigrateBegin, MigrateCheck, MigrateDdl, MigrateRecord,
       MigrateRollback, Fails, At
  <2>4. CASE BootTable(w)
    <3>1. CASE ~Ok(w)
      BY <2>1, <2>2, <2>4, <3>1 DEF BootTable, Fails, At
    <3>2. CASE Ok(w)
      <4>1. GoOn(w, [worker[w] EXCEPT !.at = "begin", !.version = 1]) /\ ~At(w, "write")
        BY <2>4, <3>2 DEF BootTable, At
      <4>2. "begin" \in Places /\ 1 \in 0..3 /\ "begin" \notin {"write", "done"}
        BY <2>2
      <4> QED
        BY <4>1, <4>2
    <3> QED
      BY <3>1, <3>2
  <2>5. CASE MigrateCommit(w)
    <3>1. CASE ~Ok(w) \/ ~(worker[w].version < 3)
      BY <2>1, <2>2, <2>5, <3>1 DEF MigrateCommit, Fails, At
    <3>2. CASE Ok(w) /\ worker[w].version < 3
      <4>1. worker[w].version + 1 \in 0..3
        <5>1. worker[w].version \in 0..3
          BY <1>0 DEF WorkerState
        <5> QED
          BY <3>2, <5>1
      <4> QED
        BY <2>2, <2>5, <3>2, <4>1 DEF MigrateCommit, At
    <3> QED
      BY <3>1, <3>2
  <2> QED
    BY <2>3, <2>4, <2>5 DEF Boot
<1> DEFINE n == [worker[w] EXCEPT !.at = p, !.version = v]
<1>2. /\ n \in WorkerState /\ n.at = p /\ n.step = worker[w].step /\ n.live = worker[w].live
      /\ n.count = worker[w].count
  BY <1>0 DEF WorkerState, Places
<1>3. GoOn(w, n)
  BY <1>1
<1> HIDE DEF n
<1>4. CASE u # w
  BY <1>2, <1>3, <1>4, GoOnKeeps, StaysReported
<1>5. CASE u = w
  BY <1>1, <1>2, <1>3, <1>5, GoOnKeeps, MovesReported DEF At
<1> QED
  BY <1>4, <1>5

LEMMA AskReported ==
    ASSUME Fits, NEW w \in Worker, Ask(w), NEW u \in Worker, Reports(u)
    PROVE  Reports(u)'
<1>1. SameFile(u) /\ worker[w].at \in Texts /\ worker[w] \in WorkerState
  BY WorkerHas DEF Ask, Service!Ask, serviceVars, SameFile
<1>2. CASE worker' = worker
  BY <1>1, <1>2, StaysReported
<1>3. CASE worker' = [worker EXCEPT ![w].reply = "error"]
  <2>1. /\ worker'[w].at = worker[w].at /\ worker'[w].step = worker[w].step
        /\ worker'[w].live = worker[w].live /\ worker'[w].count = worker[w].count
        /\ worker'[w].reply = "error"
        /\ \A x \in Worker : x # w => worker'[x] = worker[x]
    BY <1>1, <1>3 DEF Fits, Types, WorkerState
  <2>2. ~At(w, "failed") /\ ~At(w, "done")
    BY <1>1 DEF Texts, At
  <2>3. CASE u # w
    BY <1>1, <2>1, <2>3, StaysReported
  <2>4. CASE u = w /\ At(w, "write")
    BY <1>1, <2>1, <2>2, <2>4, FailedReported DEF CanReport, At
  <2>5. CASE u = w /\ ~At(w, "write")
    BY <1>1, <2>1, <2>2, <2>5, MovesReported DEF At
  <2> QED
    BY <2>3, <2>4, <2>5
<1> QED
  BY <1>2, <1>3 DEF Ask

(* Whoever is between two operations has reported in full so far. *)
LEMMA ChoosingReported ==
    ASSUME Fits, NEW w \in Worker, Choosing(w), Reports(w)
    PROVE  /\ CountMatches(w) /\ ListMatches(w) /\ FileBalances(w) /\ At(w, "choose")
           /\ worker[w].reply \in {"none", "error"}
           /\ Range(worker[w].live) = store.items[w] /\ IsInjective(worker[w].live)
           /\ \A item \in Range(worker[w].live) : item < worker[w].step
           /\ worker[w].live \in Seq(Nat) /\ worker[w].step \in Nat
<1>1. At(w, "choose") /\ ~Ended(w) /\ WorkerFits(w) /\ worker[w].live \in Seq(Nat)
      /\ worker[w].step \in Nat
  BY WorkerHas DEF Choosing
<1>2. ~At(w, "write") /\ CountMatches(w) /\ ListMatches(w) /\ FileBalances(w)
  BY <1>1 DEF Reports, CanReport, At
<1>3. worker[w].reply \in {"none", "error"}
  BY <1>1 DEF WorkerFits, Engaged, Answered, Texts, At
<1>4. Range(worker[w].live) = store.items[w] /\ IsInjective(worker[w].live)
      /\ \A item \in Range(worker[w].live) : item < worker[w].step + 0
  BY <1>2, NotWriting
<1>5. \A i \in DOMAIN worker[w].live : worker[w].live[i] \in Nat
  BY <1>1
<1>6. \A item \in Range(worker[w].live) : item \in Nat
  BY <1>5 DEF Range
<1> QED
  BY <1>1, <1>2, <1>3, <1>4, <1>6

LEMMA StartReported ==
    ASSUME Fits, NEW w \in Worker, Choosing(w), Reports(w), NEW at \in {"read", "write"},
           NEW op \in [kind: {"none", "insert", "update", "delete"}, token: Int],
           NEW live \in Seq(Nat), Start(w, at, op, live),
           at = "read" => live = worker[w].live,
           at = "write" =>
              /\ Range(live) = ItemsAfter(store.items[w], op) /\ IsInjective(live)
              /\ \A item \in Range(live) : item < worker[w].step + 1
              /\ op.kind = "insert" => op.token \notin store.items[w]
              /\ op.kind = "delete" => op.token \in store.items[w]
    PROVE  Reports(w)'
<1>1. /\ CountMatches(w) /\ ListMatches(w) /\ FileBalances(w) /\ At(w, "choose")
      /\ worker[w].reply \in {"none", "error"}
  BY ChoosingReported
<1>2. /\ worker' = [worker EXCEPT ![w].at = at, ![w].op = op, ![w].live = live]
      /\ UNCHANGED store /\ worker \in [Worker -> WorkerState] /\ worker[w] \in WorkerState
  BY DEF Start, serviceVars, Fits, Types
<1>3. worker'[w] = [worker[w] EXCEPT !.at = at, !.op = op, !.live = live]
  BY <1>2
<1>4. /\ worker'[w].at = at /\ worker'[w].op = op /\ worker'[w].live = live
      /\ worker'[w].reply = worker[w].reply /\ worker'[w].step = worker[w].step
      /\ worker'[w].count = worker[w].count
  <2>1. worker[w] \in WorkerState
    BY <1>2
  <2> QED
    BY <1>3, <2>1 DEF WorkerState
<1>5. SameFile(w)
  BY <1>2 DEF SameFile
<1>6. CASE at = "read"
  BY <1>1, <1>4, <1>5, <1>6, MovesReported DEF At
<1>7. CASE at = "write" /\ worker[w].reply = "error"
  BY <1>4, <1>5, <1>7, FailedReported DEF CanReport, At
<1>8. CASE at = "write" /\ worker[w].reply = "none"
  <2>1. At(w, "write")' /\ ~Uncounted(w)' /\ ~Answered(w)' /\ ~At(w, "done")' /\ ~At(w, "write")
    BY <1>1, <1>4, <1>8 DEF At, Uncounted, Ok, Answered
  <2>2. Counted(w)' = Counted(w)
    BY <1>2, <2>1 DEF Counted, Uncounted
  <2>3. CountMatches(w)'
    BY <1>1, <1>4, <2>1, <2>2 DEF CountMatches
  <2>4. ListMatches(w)'
    BY <1>2, <1>4, <1>8, <2>1 DEF ListMatches
  <2>5. FileBalances(w)'
    BY <1>1, <1>2 DEF FileBalances
  <2> QED
    BY <2>1, <2>3, <2>4, <2>5 DEF Reports
<1> QED
  BY <1>1, <1>6, <1>7, <1>8

LEMMA InsertedList ==
    ASSUME NEW live \in Seq(Nat), NEW step \in Nat, IsInjective(live),
           \A item \in Range(live) : item < step
    PROVE  /\ Append(live, step) \in Seq(Nat) /\ IsInjective(Append(live, step))
           /\ Range(Append(live, step)) = Range(live) \cup {step}
           /\ \A item \in Range(Append(live, step)) : item < step + 1
<1> DEFINE new == Append(live, step)
<1>1. /\ new \in Seq(Nat) /\ Len(live) \in Nat /\ DOMAIN live = 1..Len(live)
      /\ DOMAIN new = 1..(Len(live) + 1) /\ new[Len(live) + 1] = step
      /\ \A i \in 1..Len(live) : new[i] = live[i] /\ live[i] \in Nat
  OBVIOUS
<1> HIDE DEF new
<1>2. \A i \in 1..Len(live) : live[i] < step
  BY <1>1 DEF Range
<1>3. Range(new) = Range(live) \cup {step}
  <2>1. ASSUME NEW x \in Range(new) PROVE x \in Range(live) \cup {step}
    <3>1. PICK i \in 1..(Len(live) + 1) : new[i] = x
      BY <1>1, <2>1 DEF Range
    <3>2. CASE i = Len(live) + 1
      BY <1>1, <3>1, <3>2
    <3>3. CASE i \in 1..Len(live)
      BY <1>1, <3>1, <3>3 DEF Range
    <3> QED
      BY <1>1, <3>1, <3>2, <3>3
  <2>2. ASSUME NEW x \in Range(live) PROVE x \in Range(new)
    <3>1. PICK i \in 1..Len(live) : live[i] = x
      BY <1>1, <2>2 DEF Range
    <3>2. i \in DOMAIN new /\ new[i] = x
      BY <1>1, <3>1
    <3> QED
      BY <3>2 DEF Range
  <2>3. step \in Range(new)
    <3>1. Len(live) + 1 \in DOMAIN new
      BY <1>1
    <3> QED
      BY <1>1, <3>1 DEF Range
  <2> QED
    BY <2>1, <2>2, <2>3
<1>4. IsInjective(new)
  <2> SUFFICES ASSUME NEW i \in DOMAIN new, NEW j \in DOMAIN new, new[i] = new[j]
               PROVE  i = j
    BY DEF IsInjective
  <2>1. CASE i \in 1..Len(live) /\ j \in 1..Len(live)
    BY <1>1, <2>1 DEF IsInjective
  <2>2. CASE i = Len(live) + 1 /\ j \in 1..Len(live)
    BY <1>1, <1>2, <2>2
  <2>3. CASE j = Len(live) + 1 /\ i \in 1..Len(live)
    BY <1>1, <1>2, <2>3
  <2> QED
    BY <1>1, <2>1, <2>2, <2>3
<1>5. \A item \in Range(new) : item < step + 1
  <2>1. \A item \in Range(live) : item \in Nat
    BY <1>1 DEF Range
  <2> QED
    BY <1>3, <2>1
<1> QED
  BY <1>1, <1>3, <1>4, <1>5 DEF new

LEMMA DeletedList ==
    ASSUME NEW live \in Seq(Nat), live # <<>>, IsInjective(live)
    PROVE  LET last == live[Len(live)]   new == SubSeq(live, 1, Len(live) - 1)
           IN /\ new \in Seq(Nat) /\ IsInjective(new) /\ last \in Range(live) /\ last \in Nat
              /\ Range(new) = Range(live) \ {last}
<1> DEFINE last == live[Len(live)]
           new  == SubSeq(live, 1, Len(live) - 1)
<1>1. /\ Len(live) \in Nat \ {0} /\ DOMAIN live = 1..Len(live) /\ last \in Nat
      /\ new \in Seq(Nat) /\ DOMAIN new = 1..(Len(live) - 1)
      /\ \A i \in 1..(Len(live) - 1) : new[i] = live[i]
  OBVIOUS
<1> HIDE DEF new
<1>0. /\ \A i \in 1..(Len(live) - 1) : i \in DOMAIN live /\ new[i] = live[i] /\ i # Len(live)
      /\ Len(live) \in DOMAIN live
  <2>1. \A n \in Nat \ {0} : n \in 1..n /\ \A i \in 1..(n - 1) : i \in 1..n /\ i # n
    OBVIOUS
  <2>2. Len(live) \in 1..Len(live) /\ \A i \in 1..(Len(live) - 1) : i \in 1..Len(live) /\ i # Len(live)
    BY <1>1, <2>1
  <2> QED
    BY <1>1, <2>2
<1>2. IsInjective(new)
  <2> SUFFICES ASSUME NEW i \in DOMAIN new, NEW j \in DOMAIN new, new[i] = new[j]
               PROVE  i = j
    BY DEF IsInjective
  <2>1. i \in DOMAIN live /\ j \in DOMAIN live /\ live[i] = live[j]
    BY <1>0, <1>1
  <2> QED
    BY <2>1 DEF IsInjective
<1>3. last \in Range(live)
  BY <1>1 DEF Range
<1>4. Range(new) = Range(live) \ {last}
  <2>1. ASSUME NEW x \in Range(new) PROVE x \in Range(live) \ {last}
    <3>1. PICK i \in 1..(Len(live) - 1) : new[i] = x
      BY <1>1, <2>1 DEF Range
    <3>2. i \in DOMAIN live /\ live[i] = x /\ Len(live) \in DOMAIN live /\ i # Len(live)
      BY <1>0, <1>1, <3>1
    <3>3. live[i] # live[Len(live)]
      BY <3>2 DEF IsInjective
    <3> QED
      BY <3>2, <3>3 DEF Range
  <2>2. ASSUME NEW x \in Range(live) \ {last} PROVE x \in Range(new)
    <3>1. PICK i \in 1..Len(live) : live[i] = x
      BY <1>1, <2>2 DEF Range
    <3>2. i \in DOMAIN new /\ new[i] = x
      BY <1>1, <2>2, <3>1
    <3> QED
      BY <3>2 DEF Range
  <2> QED
    BY <2>1, <2>2
<1> QED
  BY <1>1, <1>2, <1>3, <1>4 DEF new

LEMMA ChoiceReported ==
    ASSUME Fits, NEW w \in Worker, Reports(w),
           ChooseRead(w) \/ ChooseInsert(w) \/ ChooseUpdate(w) \/ ChooseDelete(w)
    PROVE  Reports(w)'
<1>0. Choosing(w)
  BY DEF ChooseRead, ChooseInsert, ChooseUpdate, ChooseDelete
<1>1. /\ Range(worker[w].live) = store.items[w] /\ IsInjective(worker[w].live)
      /\ \A item \in Range(worker[w].live) : item < worker[w].step
      /\ worker[w].live \in Seq(Nat) /\ worker[w].step \in Nat
  BY <1>0, ChoosingReported
<1>2. \A item \in Range(worker[w].live) : item \in Nat
  BY <1>1 DEF Range
<1>3. CASE ChooseRead(w)
  BY <1>0, <1>1, <1>3, StartReported DEF ChooseRead, NoOp, NoToken
<1>4. CASE ChooseInsert(w)
  <2> DEFINE op   == [kind |-> "insert", token |-> worker[w].step]
             live == Append(worker[w].live, worker[w].step)
  <2>1. Start(w, "write", op, live)
    BY <1>4 DEF ChooseInsert
  <2>2. /\ op.kind = "insert" /\ op.token = worker[w].step
        /\ op \in [kind: {"none", "insert", "update", "delete"}, token: Int]
    BY <1>1
  <2> HIDE DEF op
  <2>3. /\ live \in Seq(Nat) /\ IsInjective(live)
        /\ Range(live) = Range(worker[w].live) \cup {worker[w].step}
        /\ \A item \in Range(live) : item < worker[w].step + 1
    BY <1>1, InsertedList
  <2> HIDE DEF live
  <2>4. Range(live) = ItemsAfter(store.items[w], op)
    BY <1>1, <2>2, <2>3 DEF ItemsAfter
  <2>5. op.token \notin store.items[w]
    BY <1>1, <2>2
  <2> QED
    BY <1>0, <2>1, <2>2, <2>3, <2>4, <2>5, StartReported
<1>5. CASE ChooseUpdate(w)
  <2>1. PICK i \in DOMAIN worker[w].live :
          Start(w, "write", [kind |-> "update", token |-> worker[w].live[i]], worker[w].live)
    BY <1>5 DEF ChooseUpdate
  <2> DEFINE op == [kind |-> "update", token |-> worker[w].live[i]]
  <2>2. /\ op.kind = "update"
        /\ op \in [kind: {"none", "insert", "update", "delete"}, token: Int]
    BY <1>1
  <2>3. Start(w, "write", op, worker[w].live)
    BY <2>1
  <2> HIDE DEF op
  <2>4. Range(worker[w].live) = ItemsAfter(store.items[w], op)
    BY <1>1, <2>2 DEF ItemsAfter
  <2>5. \A item \in Range(worker[w].live) : item < worker[w].step + 1
    BY <1>1, <1>2
  <2> QED
    BY <1>0, <1>1, <2>2, <2>3, <2>4, <2>5, StartReported
<1>6. CASE ChooseDelete(w)
  <2> DEFINE last == worker[w].live[Len(worker[w].live)]
             op   == [kind |-> "delete", token |-> last]
             live == SubSeq(worker[w].live, 1, Len(worker[w].live) - 1)
  <2>1. worker[w].live # <<>> /\ Start(w, "write", op, live)
    BY <1>6 DEF ChooseDelete
  <2>2. /\ live \in Seq(Nat) /\ IsInjective(live) /\ last \in Range(worker[w].live)
        /\ last \in Nat /\ Range(live) = Range(worker[w].live) \ {last}
    BY <1>1, <2>1, DeletedList
  <2> HIDE DEF last, live
  <2>3. /\ op.kind = "delete" /\ op.token = last
        /\ op \in [kind: {"none", "insert", "update", "delete"}, token: Int]
    BY <2>2
  <2> HIDE DEF op
  <2>4. Range(live) = ItemsAfter(store.items[w], op)
    BY <1>1, <2>2, <2>3 DEF ItemsAfter
  <2>5. \A item \in Range(live) : item < worker[w].step + 1
    BY <1>1, <1>2, <2>2
  <2>6. op.token \in store.items[w]
    BY <1>1, <2>2, <2>3
  <2> QED
    BY <1>0, <2>1, <2>2, <2>3, <2>4, <2>5, <2>6, StartReported
<1> QED
  BY <1>3, <1>4, <1>5, <1>6

(* An operation is done: what it wrote has been counted, if it was a write. *)
LEMMA DoneReported ==
    ASSUME Fits, NEW w \in Worker, ReadDone(w) \/ WriteDone(w), Reports(w)
    PROVE  Reports(w)'
<1> DEFINE me == worker[w]
           E  == store.events[w]
           op == me.op
           c  == [me.count EXCEPT !.writes = @ + 1,
                        !.sum = @ + me.step, !.last = op.token,
                        !.sample = IF @ = NoToken THEN op.token ELSE @]
           count == IF At(w, "write") THEN c ELSE me.count
           n  == AfterOp([me EXCEPT !.count = count])
<1>0. /\ me \in WorkerState /\ me.step \in Nat /\ me.step < Ops /\ Ops \in Nat
      /\ me.count \in [writes: 0..Ops, sum: Nat, sample: Int, last: Int]
      /\ me.count.writes <= me.step
      /\ WorkerFits(w) /\ me.at \in {"read", "write"} /\ E \in SUBSET Event
      /\ (At(w, "write") => op.token \in Nat) /\ me.op.token \in Int
  <2>1. me.at \in {"read", "write"}
    BY DEF ReadDone, WriteDone, At
  <2>2. OperationFits(w)
    BY WorkerHas DEF WorkerFits
  <2>3. store \in File
    BY DEF Fits, Types, Service!TypeOK
  <2> QED
    BY <2>1, <2>2, <2>3, WorkerHas, StormAssumptions DEF OperationFits, File, At
<1>1. CASE ~Ok(w)
  <2>1. GoTo(w, "failed")
    BY <1>1 DEF ReadDone, WriteDone, Fails
  <2>2. [me EXCEPT !.at = "failed"] \in WorkerState /\ [me EXCEPT !.at = "failed"].at = "failed"
    BY <1>0 DEF WorkerState
  <2> HIDE DEF me
  <2>3. SameFile(w) /\ worker'[w].at = "failed"
    BY <2>1, <2>2, GoOnKeeps DEF GoTo, me
  <2> QED
    BY <2>3, FailedReported DEF CanReport, At
<1>2. CASE Ok(w)
  <2>1. GoOn(w, n)
    <3>1. me = [me EXCEPT !.count = me.count]
      BY <1>0 DEF WorkerState
    <3>2. CASE ReadDone(w)
      <4>1. GoOn(w, AfterOp(me)) /\ ~At(w, "write")
        BY <1>2, <3>2 DEF ReadDone, At
      <4> QED
        BY <3>1, <4>1
    <3>3. CASE WriteDone(w)
      BY <1>2, <3>3 DEF WriteDone
    <3> QED
      BY <3>2, <3>3
  <2>2. /\ c.writes = me.count.writes + 1 /\ c.sum = me.count.sum + me.step /\ c.last = op.token
        /\ c.sample = IF me.count.sample = NoToken THEN op.token ELSE me.count.sample
        /\ c \in [writes: 0..Ops, sum: Nat, sample: Int, last: Int]
    <3> DEFINE m == me.count
               a == m.writes + 1
               b == m.sum + me.step
               s == IF m.sample = NoToken THEN op.token ELSE m.sample
               t == op.token
    <3>1. m \in [writes: 0..Ops, sum: Nat, sample: Int, last: Int]
          /\ a \in 0..Ops /\ b \in Nat /\ s \in Int /\ t \in Int
      BY <1>0
    <3>2. c = [m EXCEPT !.writes = a, !.sum = b, !.last = t, !.sample = s]
      OBVIOUS
    <3> HIDE DEF m, a, b, s, t, c
    <3>3. c = [writes |-> a, sum |-> b, sample |-> s, last |-> t]
      BY <3>1, <3>2
    <3>4. c.writes = a /\ c.sum = b /\ c.last = t /\ c.sample = s
          /\ c \in [writes: 0..Ops, sum: Nat, sample: Int, last: Int]
      BY <3>1, <3>3
    <3> QED
      BY <3>4 DEF a, b, s, t, m
  <2> HIDE DEF c
  <2>3. count \in [writes: 0..Ops, sum: Nat, sample: Int, last: Int]
    BY <1>0, <2>2
  <2> HIDE DEF count
  <2> DEFINE p == IF me.step + 1 < Ops /\ (me.step + 1) % Every = 0 THEN "pragma" ELSE "choose"
  <2>4. n = [me EXCEPT !.count = count, !.step = me.step + 1, !.at = p]
    BY <1>0 DEF AfterOp, WorkerState
  <2>5. p \in {"pragma", "choose"} /\ me.step + 1 \in 0..Ops
    BY <1>0
  <2> HIDE DEF p, n
  <2>6. /\ n \in WorkerState /\ n.at = p /\ n.step = me.step + 1 /\ n.count = count
        /\ n.live = me.live
    BY <1>0, <2>3, <2>4, <2>5 DEF WorkerState, Texts
  <2>7. /\ UNCHANGED store /\ SameFile(w)
        /\ worker'[w].at = p /\ worker'[w].step = me.step + 1 /\ worker'[w].live = me.live
        /\ worker'[w].count = count
    BY <2>1, <2>6, GoOnKeeps
  <2>8. ~At(w, "write")' /\ ~At(w, "done")' /\ FileBalances(w)'
    BY <2>5, <2>7 DEF At, Reports, FileBalances
  <2>9. CanReport(w) /\ CountMatches(w) /\ ListMatches(w) /\ IsFiniteSet(E)
    BY <1>0, <1>2 DEF CanReport, Ok, At, Reports, FileBalances
  <2>10. ListMatches(w)'
    <3>1. Range(me.live) = store.items[w] /\ IsInjective(me.live)
          /\ \A item \in Range(me.live) : item < me.step + 1
      <4>1. Answered(w)
        BY <1>2 DEF Ok, Answered
      <4>2. CASE At(w, "write")
        BY <2>9, <4>1, <4>2 DEF ListMatches
      <4>3. CASE ~At(w, "write")
        <5>1. \A item \in Range(me.live) : item \in Nat
          BY WorkerHas DEF Range
        <5> QED
          BY <1>0, <2>9, <4>3, <5>1, NotWriting
      <4> QED
        BY <4>2, <4>3
    <3>2. \A item \in Range(me.live) : item < me.step + 1 + 0
      BY <3>1, <1>0
    <3> QED
      BY <2>7, <2>8, <3>1, <3>2 DEF ListMatches
  <2>11. CountMatches(w)'
    <3> SUFFICES /\ \A e \in E : e.seq < me.step + 1
                 /\ Cardinality(E) = count.writes /\ SeqSum(E) = count.sum
                 /\ count.writes = 0 => count.sample = NoToken
                 /\ count.writes > 0 => \A token \in {count.sample, count.last} :
                                           \E e \in E : e.token = token
      <4>1. Counted(w)' = E
        BY <2>7, <2>8 DEF Counted, Uncounted
      <4> HIDE DEF me, E
      <4> QED
        BY <2>7, <2>8, <4>1 DEF CountMatches, Uncounted, me
    <3>0. \A e \in E : e.seq \in Nat /\ e.token \in Nat
      BY <1>0 DEF Event
    <3>1. CASE ~At(w, "write")
      <4>1. count = me.count
        BY <3>1 DEF count
      <4> QED
        BY <1>0, <2>9, <3>0, <3>1, <4>1, NotWriting
    <3>2. CASE At(w, "write")
      <4> DEFINE x == Change(w)
                 D == E \ {x}
      <4>1. count = c /\ Uncounted(w) /\ Counted(w) = D
        BY <1>2, <3>2 DEF count, Uncounted, Counted
      <4>2. /\ x \in E /\ \A e \in D : e.seq < me.step
            /\ Cardinality(D) = me.count.writes /\ SeqSum(D) = me.count.sum
            /\ me.count.writes = 0 => me.count.sample = NoToken
            /\ me.count.writes > 0 => \A token \in {me.count.sample, me.count.last} :
                                      \E e \in D : e.token = token
        <5>1. CountMatches(w) /\ Counted(w) = D /\ Uncounted(w)
          BY <2>9, <4>1
        <5> HIDE DEF D
        <5> QED
          BY <5>1 DEF CountMatches
      <4>3. x.seq = me.step /\ x.token = op.token /\ op.token \in Nat
        BY <1>0, <3>2 DEF Change
      <4> HIDE DEF x
      <4>4. IsFiniteSet(D) /\ Cardinality(D) = Cardinality(E) - 1 /\ Cardinality(E) \in Nat
        BY <2>9, <4>2, FS_RemoveElement, FS_CardinalityType
      <4>5. SeqSum(E) = SeqSum(D) + x.seq
        <5>1. D \cup {x} = E /\ x \notin D
          BY <4>2
        <5>2. \A e \in D : e.seq \in 0..me.step
          BY <1>0, <3>0, <4>2
        <5>3. x.seq \in 0..me.step
          BY <1>0, <4>3
        <5> HIDE DEF D, E, me
        <5>4. me.step \in Nat
          BY <1>0
        <5> QED
          BY <4>4, <5>1, <5>2, <5>3, <5>4, SumOfOneMore
      <4>6. \A e \in E : e.seq < me.step + 1
        BY <1>0, <3>0, <4>2, <4>3
      <4>7. Cardinality(E) = c.writes /\ SeqSum(E) = c.sum /\ c.writes > 0
        BY <1>0, <2>2, <4>2, <4>3, <4>4, <4>5
      <4>8. \A token \in {c.sample, c.last} : \E e \in E : e.token = token
        <5>1. \E e \in E : e.token = c.last
          BY <2>2, <4>2, <4>3
        <5>2. CASE me.count.sample = NoToken
          BY <2>2, <4>2, <4>3, <5>1, <5>2
        <5>3. CASE me.count.sample # NoToken
          <6>1. me.count.writes \in 0..Ops
            BY <1>0
          <6>2. me.count.writes > 0
            BY <4>2, <5>3, <6>1
          <6>3. \E e \in E : e.token = me.count.sample
            BY <4>2, <6>2
          <6> QED
            BY <2>2, <5>1, <5>3, <6>3
        <5> QED
          BY <5>2, <5>3
      <4> QED
        BY <4>1, <4>6, <4>7, <4>8
    <3> QED
      BY <3>1, <3>2
  <2> QED
    BY <2>8, <2>10, <2>11 DEF Reports
<1> QED
  BY <1>1, <1>2

LEMMA ReportReported ==
    ASSUME Fits, NEW w \in Worker, Report(w), Reports(w)
    PROVE  Reports(w)'
<1> DEFINE p == IF worker[w].count.writes = 0 THEN "failed" ELSE "done"
<1>1. /\ worker[w] \in WorkerState /\ worker \in [Worker -> WorkerState] /\ At(w, "choose")
      /\ UNCHANGED store /\ worker' = [worker EXCEPT ![w].at = p]
      /\ worker[w].count.writes \in Nat
  BY WorkerHas DEF Report, serviceVars, Fits, Types
<1>2. worker'[w] = [worker[w] EXCEPT !.at = p]
  BY <1>1
<1>3. worker[w].count.writes > 0 \/ p = "failed"
  BY <1>1
<1>4. p \in {"failed", "done"}
  OBVIOUS
<1> HIDE DEF p
<1>5. /\ worker'[w].at = p /\ worker'[w].step = worker[w].step
      /\ worker'[w].live = worker[w].live /\ worker'[w].count = worker[w].count
  <2>1. worker[w] \in WorkerState
    BY <1>1
  <2> QED
    BY <1>2, <2>1 DEF WorkerState
<1> QED
  BY <1>1, <1>3, <1>4, <1>5, MovesReported DEF SameFile, At

(* A worker moves alone. *)
LEMMA Alone ==
    ASSUME Fits, NEW w \in Worker, Hammer(w)
    PROVE  /\ UNCHANGED <<store, storm>>
           /\ \A u \in Worker : u # w => worker'[u] = worker[u]
<1>1. worker \in [Worker -> WorkerState] /\ worker[w] \in WorkerState
  BY DEF Fits, Types
<1>2. CASE ChooseRead(w) \/ ChooseInsert(w) \/ ChooseUpdate(w) \/ ChooseDelete(w) \/ Report(w)
  <2>1. UNCHANGED <<store, storm>> /\ \E n : worker' = [worker EXCEPT ![w] = n]
    BY <1>2 DEF ChooseRead, ChooseInsert, ChooseUpdate, ChooseDelete, Report, Start, serviceVars
  <2> QED
    BY <1>1, <2>1
<1>3. CASE ReadDone(w) \/ WriteDone(w)
  <2>1. \E n : GoOn(w, n)
    BY <1>3 DEF ReadDone, WriteDone, Fails, GoTo
  <2>2. PICK n : GoOn(w, n)
    BY <2>1
  <2>3. UNCHANGED <<store, storm>> /\ worker' = [worker EXCEPT ![w] = [n EXCEPT !.reply = "none"]]
    BY <2>2 DEF GoOn, serviceVars, Service!Answer
  <2> QED
    BY <1>1, <2>3
<1> QED
  BY <1>2, <1>3 DEF Hammer

LEMMA HammerReported ==
    ASSUME Fits, NEW w \in Worker, Hammer(w), NEW u \in Worker, Reports(u)
    PROVE  Reports(u)'
<1>1. CASE u # w
  BY <1>1, Alone, StaysReported DEF SameFile
<1>2. CASE u = w
  BY <1>2, ChoiceReported, DoneReported, ReportReported DEF Hammer
<1> QED
  BY <1>1, <1>2

LEMMA BrokerDiesReported ==
    ASSUME Fits, BrokerDies, NEW u \in Worker, Reports(u)
    PROVE  Reports(u)'
<1>1. SameFile(u) /\ worker[u] \in WorkerState /\ WorkerFits(u)
      /\ worker'[u] = IF call[u] # "idle" THEN [worker[u] EXCEPT !.reply = "error"]
                      ELSE worker[u]
  BY WorkerHas DEF BrokerDies, SameFile
<1>2. CASE call[u] = "idle"
  BY <1>1, <1>2, StaysReported
<1>3. CASE call[u] # "idle"
  <2>1. worker[u].at \in Texts
    BY <1>1, <1>3 DEF WorkerFits
  <2>2. ~At(u, "failed") /\ ~At(u, "done")
    BY <2>1 DEF Texts, At
  <2>3. /\ worker'[u].at = worker[u].at /\ worker'[u].step = worker[u].step
        /\ worker'[u].live = worker[u].live /\ worker'[u].count = worker[u].count
        /\ worker'[u].reply = "error"
    BY <1>1, <1>3 DEF WorkerState
  <2>4. CASE At(u, "write")
    BY <1>1, <2>2, <2>3, <2>4, FailedReported DEF CanReport, At
  <2>5. CASE ~At(u, "write")
    BY <1>1, <2>2, <2>3, <2>5, MovesReported DEF At
  <2> QED
    BY <2>4, <2>5
<1> QED
  BY <1>2, <1>3

LEMMA StepReported ==
    ASSUME Fits, [Next]_vars, NEW u \in Worker, Reports(u)
    PROVE  Reports(u)'
<1>1. CASE \E w \in Worker : Step(w)
  <2>1. PICK w \in Worker : Step(w)
    BY <1>1
  <2>2. CASE SessionDropped(w)
    <3>1. UNCHANGED <<store, worker>>
      BY <2>2 DEF SessionDropped, Service!Answer, Service!Leave
    <3> QED
      BY <3>1, StaysReported DEF SameFile
  <2> QED
    BY <2>1, <2>2, AskReported, RunReported, BootReported, HammerReported DEF Step
<1>2. CASE \/ \E w \in Worker : Dies(w) \/ WaitChild(w) \/ WaitTimeout(w)
           \/ Judge \/ Over \/ UNCHANGED vars
  <2>1. UNCHANGED <<store, worker>>
    BY <1>2 DEF Dies, WaitChild, WaitTimeout, Judge, Over, vars, serviceVars
  <2> QED
    BY <2>1, StaysReported DEF SameFile
<1>3. CASE BrokerDies
  BY <1>3, BrokerDiesReported
<1> QED
  BY <1>1, <1>2, <1>3 DEF Next

-----------------------------------------------------------------------------
(* What a worker that is done has reported is what the audit finds. *)
LEMMA DoneIsAudited ==
    ASSUME Fits, NEW w \in Worker, Reports(w), At(w, "done")
    PROVE  AuditClaim(store, w) /\ store.items[w] = Range(worker[w].live)
<1>1. /\ CountMatches(w) /\ ListMatches(w) /\ FileBalances(w) /\ ~At(w, "write")
      /\ worker[w].count.writes > 0
  BY DEF Reports, CanReport, At
<1> DEFINE c == worker[w].count   E == store.events[w]
<1>2. /\ Cardinality(E) = c.writes /\ SeqSum(E) = c.sum
      /\ \A token \in {c.sample, c.last} : \E e \in E : e.token = token
      /\ Range(worker[w].live) = store.items[w]
  BY <1>1, NotWriting
<1>3. E # {}
  BY <1>1, <1>2, FS_EmptySet
<1> QED
  BY <1>1, <1>2, <1>3 DEF AuditClaim, FileBalances

(* The claims are of workers that are done, and storm judges once. *)
Claimed ==
    /\ \A w \in Worker : w \in storm.claims => At(w, "done")
    /\ storm.verdict # "none" => storm.at = "over"
    /\ AuditAccepts

LEMMA StepClaimed ==
    ASSUME Fits, [Next]_vars, \A w \in Worker : Reports(w), Claimed
    PROVE  Claimed'
<1>0. storm \in StormState /\ storm.claims \subseteq Worker
  BY DEF Fits, Types, StormState
<1>1. CASE \/ \E w \in Worker : Step(w)
           \/ BrokerDies \/ Over \/ UNCHANGED vars
  <2>1. storm'.claims = storm.claims /\ storm'.verdict = storm.verdict /\ storm'.at = storm.at
    <3>1. CASE \E w \in Worker : Step(w)
      <4>1. PICK w \in Worker : Step(w)
        BY <3>1
      <4>2. ASSUME NEW n, GoOn(w, n) PROVE UNCHANGED storm
        BY <4>2 DEF GoOn
      <4>3. CASE Boot(w)
        BY <4>2, <4>3 DEF Boot, OpenReady, BootTable, MigrateBegin, MigrateCheck, MigrateDdl,
           MigrateRecord, MigrateCommit, MigrateRollback, Fails, GoTo
      <4> QED
        BY <4>1, <4>3, Alone DEF Step, Ask, Run, SessionDropped
    <3> QED
      BY <1>0, <1>1, <3>1 DEF BrokerDies, Over, vars, StormState
  <2>2. ASSUME NEW w \in Worker, At(w, "done") PROVE At(w, "done")'
    <3>1. WorkerFits(w) /\ worker \in [Worker -> WorkerState] /\ Ended(w)
      BY <2>2 DEF Fits, Types, Ended, At
    <3>2. ~Ask(w) /\ ~Service!MayRun(w) /\ \A n : ~GoOn(w, n)
      BY <2>2, <3>1 DEF Ask, Service!MayRun, GoOn, WorkerFits, Texts, At
    <3>3. ~Boot(w) /\ ~Hammer(w)
      BY <2>2, <3>1 DEF Boot, OpenReady, BootTable, MigrateBegin, MigrateCheck, MigrateDdl,
         MigrateRecord, MigrateCommit, MigrateRollback, Hammer, ChooseRead, ChooseInsert,
         ChooseUpdate, ChooseDelete, Choosing, ReadDone, WriteDone, Report, At
    <3>4. ASSUME NEW u \in Worker, Step(u) PROVE worker'[w] = worker[w]
      <4>1. CASE u = w
        <5>1. SessionDropped(w)
          BY <3>2, <3>3, <3>4, <4>1 DEF Step, Run
        <5> QED
          BY <5>1 DEF SessionDropped
      <4>2. CASE u # w
        <5>1. ASSUME NEW n, GoOn(u, n) PROVE worker'[w] = worker[w]
          BY <3>1, <4>2, <5>1 DEF GoOn
        <5>2. CASE Boot(u)
          BY <5>1, <5>2 DEF Boot, OpenReady, BootTable, MigrateBegin, MigrateCheck, MigrateDdl,
             MigrateRecord, MigrateCommit, MigrateRollback, Fails, GoTo
        <5>3. CASE Ask(u) \/ Run(u) \/ SessionDropped(u)
          BY <3>1, <4>2, <5>3, RunMoves DEF Ask, SessionDropped
        <5> QED
          BY <3>4, <4>2, <5>2, <5>3, Alone DEF Step
      <4> QED
        BY <4>1, <4>2
    <3>5. CASE \E u \in Worker : Step(u)
      BY <2>2, <3>4, <3>5 DEF At
    <3>6. CASE BrokerDies
      <4>1. call[w] = "idle"
        BY <2>2, <3>1 DEF WorkerFits, Texts, At
      <4>2. worker'[w] = worker[w]
        BY <3>6, <4>1 DEF BrokerDies
      <4> QED
        BY <2>2, <4>2 DEF At
    <3>7. CASE Over \/ UNCHANGED vars
      BY <2>2, <3>7 DEF Over, vars, At
    <3> QED
      BY <1>1, <3>5, <3>6, <3>7
  <2> QED
    BY <2>1, <2>2 DEF Claimed, AuditAccepts
<1>2. CASE \E w \in Worker : Dies(w)
  BY <1>0, <1>2 DEF Dies, StormState, Claimed, AuditAccepts, At
<1>3. CASE \E w \in Worker : WaitChild(w)
  <2>1. PICK w \in Worker : WaitChild(w)
    BY <1>3
  <2>2. storm.at = "wait" /\ storm.verdict = "none" /\ UNCHANGED worker
        /\ storm'.verdict = storm.verdict
        /\ \/ storm'.claims = storm.claims
           \/ storm'.claims = storm.claims \cup {w} /\ At(w, "done")
    BY <1>0, <2>1 DEF WaitChild, Claimed, StormState
  <2> QED
    BY <2>2 DEF Claimed, AuditAccepts, At
<1>4. CASE \E w \in Worker : WaitTimeout(w)
  BY <1>0, <1>4 DEF WaitTimeout, StormState, Claimed, AuditAccepts, At
<1>5. CASE Judge
  <2>1. /\ storm'.at = "over" /\ storm'.claims = storm.claims /\ UNCHANGED worker
        /\ storm'.verdict = "audit" => ~Audit(store)
    BY <1>0, <1>5 DEF Judge, StormState
  <2>2. ASSUME storm.claims # {} PROVE Audit(store)
    <3>1. PICK w \in storm.claims : TRUE
      BY <2>2
    <3>2. At(w, "done") /\ WorkerFits(w) /\ Sound(store)
      BY <1>0, <3>1 DEF Claimed, Fits
    <3>3. store.schema = Versions
      BY <3>2 DEF WorkerFits, Migrated, Sound, At
    <3>4. \A u \in storm.claims : AuditClaim(store, u)
      BY <1>0, DoneIsAudited DEF Claimed
    <3> QED
      BY <3>3, <3>4 DEF Audit, Versions
  <2> QED
    BY <2>1, <2>2 DEF Claimed, AuditAccepts, At
<1> QED
  BY <1>1, <1>2, <1>3, <1>4, <1>5 DEF Next

LEMMA InitReported == ASSUME Init PROVE (\A w \in Worker : Reports(w)) /\ Claimed
<1>1. ASSUME NEW w \in Worker PROVE Reports(w)
  <2>1. /\ worker[w].at = "pragma" /\ worker[w].step = 0 /\ worker[w].live = <<>>
        /\ worker[w].count = NoCount /\ store.events[w] = {} /\ store.items[w] = {}
    BY DEF Init, NewWorker, NewFile
  <2>2. IsFiniteSet({}) /\ Cardinality({}) = 0
    BY FS_EmptySet
  <2>3. CountOf({}, "insert") = 0 /\ CountOf({}, "delete") = 0
    <3>1. {e \in {} : e.kind = "insert"} = {} /\ {e \in {} : e.kind = "delete"} = {}
      OBVIOUS
    <3> QED
      BY <2>2, <3>1 DEF CountOf, Quantify
  <2>4. FileBalances(w)
    BY <2>1, <2>2, <2>3 DEF FileBalances
  <2>5. ~At(w, "write") /\ ~At(w, "done")
    BY <2>1 DEF At
  <2>6. CountMatches(w)
    <3>1. Counted(w) = {} /\ ~Uncounted(w)
      BY <2>1, <2>5 DEF Counted, Uncounted
    <3>2. /\ worker[w].count.writes = 0 /\ worker[w].count.sum = 0
          /\ worker[w].count.sample = NoToken
      BY <2>1 DEF NoCount
    <3> QED
      BY <2>2, <3>1, <3>2, SumOfNone DEF CountMatches
  <2>7. Range(<<>>) = {} /\ IsInjective(<<>>)
    BY DEF Range, IsInjective
  <2>8. ListMatches(w)
    BY <2>1, <2>5, <2>7, NotWriting
  <2> QED
    BY <2>4, <2>5, <2>6, <2>8 DEF Reports
<1>2. Claimed
  BY DEF Init, Claimed, AuditAccepts
<1> QED
  BY <1>1, <1>2

(* What a worker has counted and listed (run_worker of hammer.rs) is what the
   file holds of it, but for the write under way, however often the file was
   changed by others in between. *)
THEOREM ReportsInductive == Spec => []ReportIInv
<1> DEFINE All == Fits /\ (\A w \in Worker : Reports(w)) /\ Claimed
<1>1. ReportIInv <=> All
  BY ByWorker DEF Fits, ReportIInv, Reports, Claimed
<1>2. Init => ReportIInv
  BY <1>1, InitFits, InitReported
<1>3. (ReportIInv <=> All)'
  BY <1>1, PTL
<1>4. ReportIInv /\ [Next]_vars => ReportIInv'
  <2>1. ASSUME All, [Next]_vars PROVE All'
    <3>1. Fits' /\ Claimed'
      BY <2>1, StormStep, StepClaimed
    <3>2. \A w \in Worker : Reports(w)'
      BY <2>1, StepReported
    <3> QED
      BY <3>1, <3>2
  <2> HIDE DEF All
  <2> QED
    BY <1>1, <1>3, <2>1
<1> QED
  BY <1>2, <1>4, PTL DEF Spec

(* What a process reported is in the file, and nothing else of that process:
   the count, the sum, two tokens and the balance that audit compares. *)
THEOREM ReportsAreInTheFile == Spec => []ReportedWritesAreInTheFile
<1>1. ReportIInv => ReportedWritesAreInTheFile
  BY DoneIsAudited, ByWorker DEF ReportIInv, Fits, Reports, ReportedWritesAreInTheFile
<1> QED
  BY <1>1, ReportsInductive, PTL

(* audit (hammer.rs) finds nothing wrong with a file somebody has reported on,
   whoever was killed and wherever the broker died. *)
THEOREM AuditFindsNothing == Spec => []AuditAccepts
<1>1. ReportIInv => AuditAccepts
  BY DEF ReportIInv
<1> QED
  BY <1>1, ReportsInductive, PTL

-----------------------------------------------------------------------------
(* The calls of the workers and what becomes of the file keep to what
   SerialStore promises, which is what Broker is shown to implement: storm of
   hammer.rs assumes no more of the broker than that. *)
THEOREM StormKeepsToTheService == Spec => Service!Spec
<1>1. Init => Service!Init
  <2>1. NewFile \in File
    BY DEF NewFile, File, Versions
  <2> QED
    BY <2>1 DEF Init, Service!Init
<1>2. ASSUME NEW w \in Worker, NEW n, GoOn(w, n)
      PROVE  [Service!Next]_(Service!vars)
  BY <1>2 DEF GoOn, Service!Next, Service!vars, serviceVars
<1>3. ASSUME NEW w \in Worker, Boot(w)
      PROVE  [Service!Next]_(Service!vars)
  BY <1>2, <1>3 DEF Boot, OpenReady, BootTable, MigrateBegin, MigrateCheck, MigrateDdl,
     MigrateRecord, MigrateCommit, MigrateRollback, GoTo, Fails
<1>4. ASSUME NEW w \in Worker, Hammer(w)
      PROVE  [Service!Next]_(Service!vars)
  <2>1. CASE ReadDone(w) \/ WriteDone(w)
    BY <1>2, <2>1 DEF ReadDone, WriteDone, GoTo, Fails
  <2>2. CASE ChooseRead(w) \/ ChooseInsert(w) \/ ChooseUpdate(w) \/ ChooseDelete(w)
    BY <2>2 DEF ChooseRead, ChooseInsert, ChooseUpdate, ChooseDelete, Start,
       Service!vars, serviceVars
  <2>3. CASE Report(w)
    BY <2>3 DEF Report, Service!vars, serviceVars
  <2> QED
    BY <1>4, <2>1, <2>2, <2>3 DEF Hammer
<1>5. ASSUME NEW w \in Worker, Step(w)
      PROVE  [Service!Next]_(Service!vars)
  <2>1. CASE Ask(w)
    BY <2>1 DEF Ask, Service!Next, Service!vars, serviceVars
  <2>2. CASE Run(w)
    BY <2>2 DEF Run, Service!Next
  <2>3. CASE SessionDropped(w)
    BY <2>3 DEF SessionDropped, Service!Next
  <2> QED
    BY <1>3, <1>4, <1>5, <2>1, <2>2, <2>3 DEF Step
<1>6. ASSUME NEW w \in Worker, Dies(w) \/ WaitChild(w) \/ WaitTimeout(w)
      PROVE  [Service!Next]_(Service!vars)
  BY <1>6 DEF Dies, WaitChild, WaitTimeout, Service!vars, serviceVars
<1>7. BrokerDies \/ Judge => Service!Next
  BY DEF BrokerDies, Judge, Service!Next
<1>8. Over \/ UNCHANGED vars => UNCHANGED Service!vars
  BY DEF Over, vars, Service!vars, serviceVars
<1>9. [Next]_vars => [Service!Next]_(Service!vars)
  BY <1>5, <1>6, <1>7, <1>8 DEF Next
<1> QED
  BY <1>1, <1>9, PTL DEF Spec, Service!Spec

=============================================================================
