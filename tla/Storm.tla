--------------------------------- MODULE Storm ---------------------------------
(***************************************************************************)
(* The load driver and its audit (server/src/hammer.rs): several processes *)
(* open the same database at once, migrate it, read and write, and report  *)
(* what they wrote; storm waits for them and compares the reports with the *)
(* file.  The broker between them is the service it promises to be, module *)
(* SerialStore: a call of a worker is asked, runs when nobody else is      *)
(* inside a transaction, and is answered.                                  *)
(***************************************************************************)
EXTENDS Integers, Sequences, FiniteSetsExt, Functions

CONSTANTS
    Apps,       \* number of workers
    Ops,        \* operations of each, --ops
    Every,      \* a worker opens its database anew after so many (200)
    Faults      \* what may go wrong: see the last part

ASSUME StormAssumptions ==
    /\ Apps \in Nat /\ Ops \in Nat /\ Every \in Nat \ {0}
    /\ Faults \subseteq {"worker_dies", "broker_dies", "hung"}

Worker   == 0..(Apps - 1)
Versions == 1..3

VARIABLES
    store, open, call,  \* the service, see SerialStore
    draft,              \* the file as the open transaction sees it
    worker,             \* worker[w]: run_worker of process w
    storm               \* storm, the parent process

serviceVars == <<store, open, call>>
vars == <<serviceVars, draft, worker, storm>>

(* The file.  applied counts how often a migration was carried out; the step
   names an item of a worker ("w{worker}-s{step}"). *)
Event == [seq: Nat, kind: {"insert", "update", "delete"}, token: Nat]

File  == [table: BOOLEAN, schema: SUBSET Versions, versions: SUBSET Versions,
          applied: [Versions -> Nat],
          items: [Worker -> SUBSET Nat], events: [Worker -> SUBSET Event]]

Service == INSTANCE SerialStore WITH Client <- Worker, Contents <- File

NewFile == [table |-> FALSE, schema |-> {}, versions |-> {},
            applied |-> [v \in Versions |-> 0],
            items |-> [w \in Worker |-> {}], events |-> [w \in Worker |-> {}]]

NoToken == -1
NoOp    == [kind |-> "none", token |-> NoToken]
NoCount == [writes |-> 0, sum |-> 0, sample |-> NoToken, last |-> NoToken]

NewWorker == [at |-> "pragma", version |-> 0, op |-> NoOp, reply |-> "none",
              step |-> 0, live |-> <<>>, count |-> NoCount]

At(w, p)  == worker[w].at = p
Ended(w)  == worker[w].at \in {"done", "failed"} \/ w \in storm.killed
Up        == storm.server = "up"

(* What a text does to file f: the file, the reply, and whether the
   connection is inside a transaction afterwards. *)
Result(f, reply, txn) == [file |-> f, reply |-> reply, txn |-> txn]

(* Mutation of Begin: the migration runs in autocommit. *)
BeginNothing(f, txn) == Result(f, "ok", txn)

Begin(f, txn) == IF txn THEN Result(f, "error", txn) ELSE Result(f, "ok", TRUE)

(* ALTER TABLE, version 2, fails on a column that is there; the others are
   IF NOT EXISTS. *)
Ddl(f, v, txn) ==
    IF v = 2 /\ v \in f.schema THEN Result(f, "duplicate column", txn)
    ELSE Result([f EXCEPT !.schema = @ \cup {v}], "ok", txn)

RecordVersion(f, v, txn) ==
    Result([f EXCEPT !.versions = @ \cup {v}, !.applied[v] = @ + 1], "ok", txn)

ItemsAfter(items, op) ==
    CASE op.kind = "insert" -> items \cup {op.token}
      [] op.kind = "delete" -> items \ {op.token}
      [] OTHER -> items

Changed(f, w, step, op) ==
    [f EXCEPT !.items[w] = ItemsAfter(@, op),
              !.events[w] = @ \cup {[seq |-> step, kind |-> op.kind,
                                     token |-> op.token]}]

(* Mutation of Write: the script ends without COMMIT. *)
WriteUncommitted(f, w, step, op) == Result(Changed(f, w, step, op), "ok", TRUE)

(* BEGIN IMMEDIATE; the change of item; the row of event; COMMIT. *)
Write(f, w, step, op) == Result(Changed(f, w, step, op), "ok", FALSE)

(* The tables and columns a text names. *)
Missing(f, me) ==
    CASE me.at \in {"check", "record"} -> ~f.table
      [] me.at = "ddl" -> me.version > 1 /\ me.version - 1 \notin f.schema
      [] me.at \in {"read", "write"} -> f.schema # Versions
      [] OTHER -> FALSE

Effect(w, f, txn) ==
    LET me == worker[w] IN
    CASE Missing(f, me)      -> Result(f, "error", txn \/ me.at = "write")
      [] me.at \in {"pragma", "read"} /\ ~Missing(f, me) -> Result(f, "ok", txn)
      [] me.at = "table"     -> Result([f EXCEPT !.table = TRUE], "ok", txn)
      [] me.at = "begin"     -> Begin(f, txn)
      [] me.at = "check" /\ ~Missing(f, me) ->
            Result(f, IF me.version \in f.versions THEN "1" ELSE "0", txn)
      [] me.at = "ddl" /\ ~Missing(f, me)    -> Ddl(f, me.version, txn)
      [] me.at = "record" /\ ~Missing(f, me) -> RecordVersion(f, me.version, txn)
      [] me.at \in {"already", "commit"} -> Result(f, IF txn THEN "ok" ELSE "error", FALSE)
      [] me.at = "rollback"  -> Result(store, "ok", FALSE)
      [] me.at = "write" /\ ~Missing(f, me)  -> Write(f, w, me.step, me.op)

-----------------------------------------------------------------------------
(* A call: asked, run, answered; without a broker it fails. *)
Texts == {"pragma", "read", "table", "begin", "check", "ddl", "record",
          "already", "commit", "rollback", "write"}

Ask(w) ==
    /\ ~Ended(w) /\ worker[w].at \in Texts /\ worker[w].reply = "none"
    /\ IF Up THEN Service!Ask(w) /\ UNCHANGED worker
       ELSE worker' = [worker EXCEPT ![w].reply = "error"] /\ UNCHANGED serviceVars
    /\ UNCHANGED <<draft, storm>>

Run(w) ==
    /\ Service!MayRun(w)
    /\ LET r == Effect(w, IF w \in open THEN draft ELSE store, w \in open) IN
          /\ store' = IF r.txn THEN store ELSE r.file
          /\ draft' = r.file
          /\ open' = IF r.txn THEN {w} ELSE {}
          /\ worker' = [worker EXCEPT ![w].reply = r.reply]
    /\ Service!Run(w)
    /\ UNCHANGED storm

(* w has its answer and goes on as n. *)
GoOn(w, n) ==
    /\ ~Ended(w) /\ worker[w].reply # "none"
    /\ IF call[w] = "ran" THEN Service!Answer(w) ELSE call[w] = "idle" /\ UNCHANGED serviceVars
    /\ worker' = [worker EXCEPT ![w] = [n EXCEPT !.reply = "none"]]
    /\ UNCHANGED <<draft, storm>>

Ok(w)      == worker[w].reply \notin {"none", "error"}
GoTo(w, p) == GoOn(w, [worker[w] EXCEPT !.at = p])
Fails(w)   == GoTo(w, "failed")

-----------------------------------------------------------------------------
(* open_ready; then boot, or the next operation. *)
OpenReady(w) ==
    /\ At(w, "pragma")
    /\ IF ~Ok(w) THEN Fails(w)
       ELSE GoTo(w, IF worker[w].version = 0 THEN "table" ELSE "choose")

BootTable(w) ==
    /\ At(w, "table")
    /\ IF ~Ok(w) THEN Fails(w)
       ELSE GoOn(w, [worker[w] EXCEPT !.at = "begin", !.version = 1])

(* migrate, for the version at hand. *)
MigrateBegin(w) ==
    /\ At(w, "begin")
    /\ IF ~Ok(w) THEN Fails(w) ELSE GoTo(w, "check")

(* Mutation of MigrateCheck: returns at once when there is nothing to do. *)
MigrateCheckReturns(w) ==
    /\ At(w, "check")
    /\ IF ~Ok(w) THEN GoTo(w, "rollback")
       ELSE IF worker[w].reply = "1" /\ worker[w].version < 3
       THEN GoOn(w, [worker[w] EXCEPT !.at = "begin", !.version = @ + 1])
       ELSE GoTo(w, IF worker[w].reply = "1" THEN "choose" ELSE "ddl")

MigrateCheck(w) ==
    /\ At(w, "check")
    /\ IF ~Ok(w) THEN GoTo(w, "rollback")
       ELSE GoTo(w, IF worker[w].reply = "1" THEN "already" ELSE "ddl")

(* Mutation of MigrateDdl: the version is not recorded. *)
MigrateDdlOnly(w) ==
    /\ At(w, "ddl")
    /\ IF ~Ok(w) THEN GoTo(w, "rollback") ELSE GoTo(w, "commit")

(* A duplicate column is taken for done. *)
MigrateDdl(w) ==
    /\ At(w, "ddl")
    /\ IF ~Ok(w) THEN GoTo(w, "rollback") ELSE GoTo(w, "record")

MigrateRecord(w) ==
    /\ At(w, "record")
    /\ IF ~Ok(w) THEN GoTo(w, "rollback") ELSE GoTo(w, "commit")

MigrateCommit(w) ==
    /\ worker[w].at \in {"already", "commit"}
    /\ IF ~Ok(w) THEN Fails(w)
       ELSE IF worker[w].version < 3
       THEN GoOn(w, [worker[w] EXCEPT !.at = "begin", !.version = @ + 1])
       ELSE GoTo(w, "choose")

MigrateRollback(w) == At(w, "rollback") /\ Fails(w)

-----------------------------------------------------------------------------
(* The loop of run_worker: at step, draw a read or a write. *)
Choosing(w) == ~Ended(w) /\ At(w, "choose") /\ worker[w].step < Ops

Start(w, at, op, live) ==
    /\ worker' = [worker EXCEPT ![w].at = at, ![w].op = op, ![w].live = live]
    /\ UNCHANGED <<serviceVars, draft, storm>>

ChooseRead(w) == Choosing(w) /\ Start(w, "read", NoOp, worker[w].live)

ChooseInsert(w) ==
    /\ Choosing(w)
    /\ LET me == worker[w] IN
       Start(w, "write", [kind |-> "insert", token |-> me.step],
             Append(me.live, me.step))

ChooseUpdate(w) ==
    /\ Choosing(w)
    /\ \E i \in DOMAIN worker[w].live :
          Start(w, "write", [kind |-> "update", token |-> worker[w].live[i]],
                worker[w].live)

(* Mutation of ChooseDelete: the item stays on the list. *)
ChooseDeleteKept(w) ==
    /\ Choosing(w) /\ worker[w].live # <<>>
    /\ LET live == worker[w].live IN
       Start(w, "write", [kind |-> "delete", token |-> live[Len(live)]], live)

ChooseDelete(w) ==
    /\ Choosing(w) /\ worker[w].live # <<>>
    /\ LET live == worker[w].live IN
       Start(w, "write", [kind |-> "delete", token |-> live[Len(live)]],
             SubSeq(live, 1, Len(live) - 1))

(* After an operation; every so often the handle is closed and opened anew. *)
AfterOp(n) ==
    [n EXCEPT !.step = @ + 1,
              !.at = IF n.step + 1 < Ops /\ (n.step + 1) % Every = 0
                     THEN "pragma" ELSE "choose"]

ReadDone(w) ==
    /\ At(w, "read")
    /\ IF ~Ok(w) THEN Fails(w)
       ELSE GoOn(w, AfterOp(worker[w]))

WriteDone(w) ==
    /\ At(w, "write")
    /\ IF ~Ok(w) THEN Fails(w)
       ELSE LET op == worker[w].op
                c == [worker[w].count EXCEPT !.writes = @ + 1,
                        !.sum = @ + worker[w].step, !.last = op.token,
                        !.sample = IF @ = NoToken THEN op.token ELSE @]
            IN GoOn(w, AfterOp([worker[w] EXCEPT !.count = c]))

(* The report, and the end of the process; none without a write. *)
Report(w) ==
    /\ ~Ended(w) /\ At(w, "choose") /\ worker[w].step = Ops
    /\ worker' = [worker EXCEPT ![w].at =
                    IF worker[w].count.writes = 0 THEN "failed" ELSE "done"]
    /\ UNCHANGED <<serviceVars, draft, storm>>

-----------------------------------------------------------------------------
(* Mutation of SessionDropped: the transaction stays open. *)
SessionDroppedOpen(w) ==
    /\ Ended(w)
    /\ Service!Answer(w)
    /\ draft' = store
    /\ UNCHANGED <<worker, storm>>

(* A process that ends drops its session: the broker throws the answer away
   and rolls back; a call it was asked for runs first. *)
SessionDropped(w) ==
    /\ Ended(w)
    /\ \/ Service!Answer(w) /\ UNCHANGED draft
       \/ Service!Leave(w) /\ draft' = store
    /\ UNCHANGED <<worker, storm>>

Dies(w) ==
    /\ "worker_dies" \in Faults /\ ~Ended(w)
    /\ storm' = [storm EXCEPT !.killed = @ \cup {w}]
    /\ UNCHANGED <<serviceVars, draft, worker>>

(* What had not been answered fails, whether it has run or not. *)
BrokerDies ==
    /\ "broker_dies" \in Faults /\ Up
    /\ UNCHANGED store /\ Service!Crash
    /\ draft' = store
    /\ worker' = [w \in Worker |->
                    IF call[w] # "idle" THEN [worker[w] EXCEPT !.reply = "error"]
                    ELSE worker[w]]
    /\ storm' = [storm EXCEPT !.server = "gone"]

(* wait_child, one worker after the other, then its report. *)
WaitChild(w) ==
    /\ storm.at = "wait" /\ storm.next = w
    /\ \/ At(w, "done") /\ storm' = [storm EXCEPT !.next = w + 1, !.claims = @ \cup {w}]
       \/ Ended(w) /\ ~At(w, "done") /\ storm' = [storm EXCEPT !.next = w + 1]
    /\ UNCHANGED <<serviceVars, draft, worker>>

(* 180 seconds: the worker is killed, and storm returns as it stands. *)
WaitTimeout(w) ==
    /\ "hung" \in Faults
    /\ storm.at = "wait" /\ storm.next = w /\ ~Ended(w)
    /\ storm' = [storm EXCEPT !.at = "over", !.verdict = "hung",
                              !.killed = @ \cup {w}]
    /\ UNCHANGED <<serviceVars, draft, worker>>

(* audit: the reports against the file. *)
CountOf(events, kind) == Quantify(events, LAMBDA e : e.kind = kind)
SeqSum(events)        == MapThenSumSet(LAMBDA e : e.seq, events)

AuditClaim(f, w) ==
    LET c == worker[w].count IN
    /\ f.events[w] # {} /\ Cardinality(f.events[w]) = c.writes
    /\ SeqSum(f.events[w]) = c.sum
    /\ \A token \in {c.sample, c.last} : \E e \in f.events[w] : e.token = token
    /\ CountOf(f.events[w], "insert") - CountOf(f.events[w], "delete") =
          Cardinality(f.items[w])

Audit(f) == 2 \in f.schema /\ \A w \in storm.claims : AuditClaim(f, w)

(* The file is audited, the broker killed, the verdict printed. *)
Judge ==
    /\ storm.at = "wait" /\ storm.next = Apps
    /\ storm' = [storm EXCEPT !.at = "over", !.server = "gone",
                    !.verdict = IF ~Audit(store) THEN "audit"
                                ELSE IF storm.claims # Worker THEN "failed" ELSE "ok"]
    /\ UNCHANGED <<store, worker>> /\ Service!Crash /\ draft' = store

-----------------------------------------------------------------------------
Init ==
    /\ store = NewFile /\ draft = NewFile
    /\ open = {} /\ call = [w \in Worker |-> "idle"]
    /\ worker = [w \in Worker |-> NewWorker]
    /\ storm = [at |-> "wait", next |-> 0, claims |-> {}, server |-> "up",
                verdict |-> "none", killed |-> {}]

Boot(w) ==
    \/ OpenReady(w)
    \/ BootTable(w)
    \/ MigrateBegin(w)
    \/ MigrateCheck(w)
    \/ MigrateDdl(w)
    \/ MigrateRecord(w)
    \/ MigrateCommit(w)
    \/ MigrateRollback(w)

Hammer(w) ==
    \/ ChooseRead(w)
    \/ ChooseInsert(w)
    \/ ChooseUpdate(w)
    \/ ChooseDelete(w)
    \/ ReadDone(w)
    \/ WriteDone(w)
    \/ Report(w)

Step(w) == Ask(w) \/ Run(w) \/ Boot(w) \/ Hammer(w) \/ SessionDropped(w)

Over == storm.at = "over" /\ UNCHANGED vars

Next ==
    \/ \E w \in Worker : Step(w) \/ Dies(w) \/ WaitChild(w) \/ WaitTimeout(w)
    \/ BrokerDies
    \/ Judge
    \/ Over

(* The operating system runs every process, and the broker answers and takes
   the next call from its queue. *)
Fairness ==
    /\ \A w \in Worker : WF_vars(Step(w)) /\ WF_vars(WaitChild(w))
    /\ WF_vars(Judge)

Spec     == Init /\ [][Next]_vars
FairSpec == Spec /\ Fairness

-----------------------------------------------------------------------------
InMigration == {"begin", "check", "ddl", "record", "already", "commit", "rollback"}

WorkerState ==
    [at: Texts \cup {"choose", "done", "failed"}, version: 0..3,
     op: [kind: {"none", "insert", "update", "delete"}, token: Int],
     reply: {"none", "ok", "0", "1", "duplicate column", "error"},
     step: 0..Ops, live: Seq(Nat),
     count: [writes: 0..Ops, sum: Nat, sample: Int, last: Int]]

StormState ==
    [at: {"wait", "over"}, next: 0..Apps, claims: SUBSET Worker,
     server: {"up", "gone"}, killed: SUBSET Worker,
     verdict: {"none", "ok", "failed", "audit", "hung"}]

(* The state has its type; only one worker is inside a transaction, and it
   is one whose code has begun it: between the migration's BEGIN and its
   COMMIT, never between two operations. *)
StormTypeOK ==
    /\ Service!TypeOK /\ draft \in File
    /\ worker \in [Worker -> WorkerState] /\ storm \in StormState
    /\ \A w \in open : ~Ended(w) => worker[w].at \in InMigration

(* However many processes migrate at once, each migration is carried out
   once: migrate checks and applies a version inside BEGIN IMMEDIATE. *)
MigratedOnce == \A v \in Versions : store.applied[v] <= 1

(* The versions recorded in the file are the ones whose changes are in it,
   whoever was killed in between, and they came in order. *)
SchemaMatchesVersions ==
    /\ store.versions = store.schema
    /\ \A v \in store.versions : 1..v \subseteq store.versions

(* What a process reported is in the file, and nothing else of that process:
   its writes, and the items it still counts as there. *)
ReportedWritesAreInTheFile ==
    \A w \in Worker : At(w, "done") =>
        AuditClaim(store, w) /\ store.items[w] = Range(worker[w].live)

(* The audit objects to a file only where no process reported anything. *)
AuditAccepts == storm.verdict = "audit" => storm.claims = {}

(* A process fails only where it was killed, the broker died, or it drew no
   write: never because others migrate and write at the same time. *)
OnlyTheKilledFail ==
    \A w \in Worker : At(w, "failed") =>
        \/ w \in storm.killed
        \/ ~Up
        \/ worker[w].count.writes = 0 /\ worker[w].step = Ops

(* The storm ends, though a process be killed inside its transaction or the
   broker die: nobody waits for ever for a transaction that is not his. *)
StormEnds == <>(storm.at = "over")

-----------------------------------------------------------------------------
(* The inductive invariant of types, migrations and failures.  A worker is
   engaged while a call of its may still run: until it ended and its session
   was told, or the broker is gone. *)
Engaged(w)  == Up /\ (~Ended(w) \/ call[w] # "idle")
Answered(w) == worker[w].reply # "none"

CallsMatch ==
    /\ ~Up => open = {}
    /\ \A w \in Worker :
          /\ call[w] # "idle" => worker[w].at \in Texts
          /\ Engaged(w) => (call[w] = "ran" <=> Answered(w))
          /\ ~Up => call[w] = "idle"
          /\ ~Up /\ ~Ended(w) => worker[w].reply \in {"none", "error"}

(* While the broker is up, no text of a worker fails: what it names is there. *)
NothingFails ==
    \A w \in Worker : Engaged(w) =>
        /\ worker[w].at # "rollback"
        /\ worker[w].reply \in IF At(w, "check") THEN {"none", "0", "1"}
                               ELSE {"none", "ok"}

(* Between the answer to BEGIN and the one to COMMIT. *)
Inside(w) ==
    \/ At(w, "begin") /\ Answered(w)
    \/ worker[w].at \in {"check", "ddl", "record"}
    \/ worker[w].at \in {"already", "commit"} /\ ~Answered(w)

(* What the transaction of a migration has changed so far. *)
Pending(w) ==
    LET v == worker[w].version IN
    CASE \/ At(w, "ddl") /\ Answered(w)
         \/ At(w, "record") /\ ~Answered(w) ->
            [store EXCEPT !.schema = @ \cup {v}]
      [] \/ At(w, "record") /\ Answered(w)
         \/ At(w, "commit") ->
            [store EXCEPT !.schema = @ \cup {v}, !.versions = @ \cup {v},
                          !.applied[v] = @ + 1]
      [] OTHER -> store

TransactionsFit ==
    /\ \A u, w \in open : u = w
    /\ \A w \in Worker : Engaged(w) =>
          /\ w \in open <=> Inside(w)
          /\ w \in open => draft = Pending(w)
          /\ At(w, "check") /\ Answered(w) =>
                (worker[w].reply = "1" <=> worker[w].version \in store.versions)
          /\ worker[w].at \in {"ddl", "record", "commit"} /\ Inside(w) =>
                worker[w].version \notin store.versions

(* What a worker has been through is in the file, and stays there. *)
Migrated(w) ==
    LET me == worker[w] IN
    /\ me.at \in InMigration => /\ store.table /\ me.version \in Versions
                               /\ 1..(me.version - 1) \subseteq store.versions
    /\ me.at = "already" => me.version \in store.versions
    /\ me.at = "commit" /\ Ok(w) => me.version \in store.versions
    /\ me.at = "table" => me.version = 0 /\ (Ok(w) => store.table)
    /\ me.at = "pragma" => me.version \in {0, 3}
    /\ me.at \in {"choose", "read", "write", "done"} => me.version = 3
    /\ me.at \in {"pragma", "choose", "read", "write", "done"} /\ me.version = 3 =>
          store.versions = Versions

(* An operation under way, and the writes counted so far. *)
OperationFits(w) ==
    LET me == worker[w] IN
    /\ me.at \in {"read", "write"} => me.step < Ops
    /\ me.at = "write" => me.op.kind # "none" /\ me.op.token \in Nat
    /\ me.count.writes <= me.step

Sound(f) ==
    /\ f.versions = f.schema
    /\ \A v \in f.versions : 1..v \subseteq f.versions
    /\ \A v \in Versions : f.applied[v] = IF v \in f.versions THEN 1 ELSE 0

StormIInv ==
    /\ StormTypeOK /\ Sound(store)
    /\ CallsMatch /\ NothingFails /\ TransactionsFit
    /\ \A w \in Worker : Migrated(w) /\ OperationFits(w)
    /\ \A w \in Worker : w < storm.next => Ended(w)
    /\ OnlyTheKilledFail

-----------------------------------------------------------------------------
(* The inductive invariant of the reports.  A worker can still report until
   its write got no answer. *)
CanReport(w) == ~At(w, "failed") /\ ~(At(w, "write") /\ worker[w].reply = "error")

(* The write under way has run, and is not counted yet. *)
Uncounted(w) == At(w, "write") /\ Ok(w)
Change(w)    == [seq |-> worker[w].step, kind |-> worker[w].op.kind,
                 token |-> worker[w].op.token]
Counted(w)   == IF Uncounted(w) THEN store.events[w] \ {Change(w)} ELSE store.events[w]

FileBalances(w) ==
    /\ IsFiniteSet(store.events[w]) /\ IsFiniteSet(store.items[w])
    /\ CountOf(store.events[w], "insert") - CountOf(store.events[w], "delete") =
          Cardinality(store.items[w])

CountMatches(w) ==
    LET c == worker[w].count IN
    /\ Uncounted(w) => Change(w) \in store.events[w]
    /\ \A e \in Counted(w) : e.seq < worker[w].step
    /\ Cardinality(Counted(w)) = c.writes
    /\ SeqSum(Counted(w)) = c.sum
    /\ c.writes = 0 => c.sample = NoToken
    /\ c.writes > 0 => \A token \in {c.sample, c.last} :
                          \E e \in Counted(w) : e.token = token

(* The list runs ahead of the file by the write that is under way. *)
ListMatches(w) ==
    LET me    == worker[w]
        ahead == At(w, "write") /\ ~Answered(w)
        items == store.items[w]
    IN /\ Range(me.live) = IF ahead THEN ItemsAfter(items, me.op) ELSE items
       /\ IsInjective(me.live)
       /\ \A item \in Range(me.live) : item < me.step + IF At(w, "write") THEN 1 ELSE 0
       /\ ahead /\ me.op.kind = "insert" => me.op.token \notin items
       /\ ahead /\ me.op.kind = "delete" => me.op.token \in items

ReportIInv ==
    /\ StormIInv
    /\ \A w \in Worker :
          /\ FileBalances(w)
          /\ CanReport(w) => CountMatches(w) /\ ListMatches(w)
          /\ At(w, "done") => worker[w].count.writes > 0
          /\ w \in storm.claims => At(w, "done")
    /\ storm.verdict # "none" => storm.at = "over"
    /\ AuditAccepts
=============================================================================
