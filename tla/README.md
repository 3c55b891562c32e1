# A TLA+ model of sqlite-broker

sqlite-broker lets many processes share one SQLite file.  One broker process
owns the file; a preload library (the *shim*) turns the SQLite C API calls of an
application into requests to the broker, which runs them one at a time and makes
everybody wait while one session is inside a transaction.

This directory models the program, checks the model with TLC on small instances
and proves its main safety properties with TLAPS for every instance.  Source
references are to `server/src/broker.rs` unless they name another file.

## The system and its parts

| Part | State it keeps | Operations | Talks to |
| --- | --- | --- | --- |
| **SQLite** (external library) | per connection: transaction, lock on the file, uncommitted writes; the committed file | open, run a script, compile, close | called by the worker, one call at a time |
| **Worker** (`Worker`, one thread, the main thread) | `sessions` (a connection per session), `holder`, `pending` queue | `handle` (Open, Drop, Req), `dispatch`, `run_exec`, `run_prepare`, `pump`, `drop_session` | receives jobs from one mpsc channel, answers each on its own channel |
| **Client threads** (`accept_loop`, `client_loop`) | where each is: waiting for an answer, reading, ended | accept, read a request, send a job, wait, write the response, drop the session | socket to the shim; channel to the worker |
| **Broker process** (`serve`, `write_stub`, `open_storage`) | listening socket, stub file | start, publish the address, serve, stop | file system |
| **Shim handles** (`ProxyDb`, `shim/src/lib.rs`) | stream, mirrored autocommit / changes / rowid / error, linked statements, closed flag; global sets `DBS`, `STMTS` | open, close, close_v2, exec, prepare, rpc, apply | blocking request and response over TCP |
| **Shim statements** (`ProxyStmt`) | parameters, rows, position, started / failed / last result | bind, step, reset, finalize, column reads | run once through their handle |
| **Stub file** | magic and address | written by tmp file and rename, read by `stub_addr` | broker writes, shim reads |
| **Protocol** (`protocol/src/lib.rs`) | none | frames (4-byte length, JSON, 16 MiB limit), base64, stub text | used by both sides |
| **hammer / storm** (`hammer.rs`) | what each worker claims to have written | migrate, mixed reads and writes, audit | runs through the shim |
| **call / session / capi** (`main.rs`, `capi.rs`) | none of their own | command line to C API | runs through the shim |

How they interact: an application thread calls the shim, which blocks in
`rpc` on its own TCP connection; the broker thread of that connection sends one
job to the worker and blocks until its answer; the worker executes jobs in
channel order, except that the statements of a session other than the holder go
to `pending` and come back through `pump` when the hold ends.  A broker thread
has at most one job outstanding and does not look at its socket meanwhile, so a
client that dies while its request is queued is noticed only after the request
has run.

What is hard about it:

* **Turn taking.** `holder` must follow SQLite's own transaction state through
  every way a transaction can begin or end: a script that fails half way, an
  error that rolls back, COMMIT; BEGIN in one text, Close, a death.
* **Wakeups.** Every release must resume the queue, and a queued statement that
  opens a transaction must stop it again.
* **Failures.** Clients die between and during statements, replies are lost
  after the statement committed, frames do not decode, the broker is stopped or
  panics.
* **Sharing in the shim.** SQLite handles may be used by several threads; the
  mirrored state is several separate mutexes updated after the stream lock is
  released.
* **Start-up.** The stub is replaced at every start; what an application does
  depends on what it finds at that path.

## Modules

| Module | Models | Used by |
| --- | --- | --- |
| `SqliteFile` | the SQLite connections and the storage file (external), what a script may do to them | `Worker` |
| `Worker` | the worker thread of `broker.rs` | `Broker` |
| `Broker` | client threads, sockets, deaths, restart and panic; the composed system, its properties, the view of it as a `SerialStore` | `MCBroker`, proofs |
| `SerialStore` | what the broker promises | `Broker` (`INSTANCE`) |
| `MCBroker` | TLC instance: symmetry | the runs |
| `BrokerProofs` | inductive invariant, safety theorems, the order of statements | |
| `SerialProofs` | `Broker` implements `SerialStore` | |
| `Shim` | one handle of `shim/src/lib.rs`, its statements, and the threads that share it | `MCShim`, proofs |
| `SessionLine` | what a session's socket carries, as the broker sees it: one call at a time | `Shim` (`INSTANCE`) |
| `MCShim` | TLC instance: symmetry | the runs of `Shim` |
| `ShimProofs` | the exchange with the broker and the life of handles and statements, for any number of threads and statements | |
| `Handles` | the pointers the shim gives out: `DBS`, `STMTS`, `ALLOCATED`, the allocator, the real library next door | `MCHandles`, proofs |
| `HandlesProofs` | inductive invariant of `Handles`, safety theorems | |
| `StubFile` | `serve` and `write_stub` against `stub_addr` and `open_v2`: how an application finds a broker | `MCStubFile`, proofs |
| `StubProofs` | inductive invariant of `StubFile`, safety theorems | |
| `Base64` | `encode_base64` and `decode_base64`, as operators | `Values`, proofs |
| `Base64Proofs` | decoding undoes encoding | |
| `Values` | bound values on their way to SQLite and back to the column accessors | `MCValues`, proofs |
| `ValuesProofs` | inductive invariant of `Values`, safety theorems | |
| `Storm` | `hammer` and `storm`: migrations, load, reports and audit, over `SerialStore` | `MCStorm`, proofs |
| `StormProofs` | two inductive invariants of `Storm`, safety theorems, its calls as steps of `SerialStore` | |
| `MCHandles`, `MCStubFile`, `MCValues`, `MCStorm` | TLC instances: symmetry, small sets | the runs |

`Broker` and `Shim` meet at the socket of a session.  `Broker` takes from a client
that it sends one call and waits for its answer; `SessionLine` states that, and
`Shim` is shown to keep it although its handle is shared by threads.  `Storm`
stands on the other side of `Broker`: its workers call the service that
`SerialStore` promises, by the actions of that module, so what the runs of `Storm`
say holds over any broker that implements it.  `Shim` has one handle at one
address; `Handles` has many, and asks whether an address is taken for the right
one.  `Values` looks inside the requests and responses that `Shim` only counts.

### How the state and the actions correspond to the code

`SqliteFile`.  `conn[s]` is the `rusqlite::Connection` of session `s`: `txn` is
the negation of `sqlite3_get_autocommit`, `lock` the rollback-journal lock it
holds, `dirty` what its transaction has written, `sticky` whether
`PRAGMA locking_mode=EXCLUSIVE` is set.  The contents of the file are one
register `db`.  SQL is abstracted to its effect: `Statement` is what one
statement may do, `Script` what the text of one call may do.  `Script` composes
two statements; longer texts add no net effect that the properties distinguish
(`BEGIN; write; COMMIT` is an autocommit write, `COMMIT; write; BEGIN` is
`COMMIT; BEGIN` with another value).  A failing script keeps the effect of what ran
before, so every effect is possible with a success and with an error; the two
are one answer, `"done"`, because the broker never looks at which it was.
`"busy"` is SQLITE_BUSY, possible exactly where the next statement would need a
lock that another connection or program denies.  WAL mode is not modelled (there
readers and writers do not block each other, and `NoBusy` has less to say), nor
the PENDING lock, nor a cache spill before commit.

`Worker`.  `inbox` is the mpsc channel, `sessions`, `holder` and `pending` the
fields of the struct, `reply[s]` the one-shot answer channel of the last job of
`s`.  One action per job kind: `HandleOpen`, `HandleDrop` (Drop and Close),
`HandleQueued` and `HandleStatement` (Exec and Prepare, queued or run).  `pump`
is a loop, so each turn of it is a step, `PumpNext`; `pumping` says the worker is
inside that loop and not at `rx.recv()`, and every handler that ends in
`self.pump()` sets it by `ThenPump`.  `HandleQueued` returns without pumping, as
the code does.  `RunExec` takes the new holder from the connection's state after
the text, as `execute` reads `is_autocommit` after `execute_inner`.

`Broker`.  `thread[s]` is the program point of `client_loop`: `"read"` in
`read_msg`, or the operation whose answer it waits for.  `peer[s]` is the
client's side of the socket.  `Send` is `tx.send`, `TakeReply` is `recv` on the
answer channel.  A session slot is used again when its thread has ended; the code
counts ids upward for ever, and `NoResidue` is what makes the two equivalent: an
ended session is nowhere in the state.  `Panic` is `sql_brief` slicing a
statement inside a character, after the text has run.  `Restart` is the end of
the process and a new one on the same file.  Between a panic and the end of the
process threads see their channels closed and return; clients cannot tell
that from the end itself, so it is one step.

`SerialStore`.  A store, the set of clients inside a transaction, and the phase of
each client's call.  A call runs exactly once between request and answer, and
only when nobody else is inside a transaction; only a running call changes the
store; leaving and crashing abandon transactions and never touch it.  The view of
the broker reads `open` off the SQLite connections, not off `holder`, so the
refinement says that `holder` did its work.

`Shim` (source references are to `shim/src/lib.rs`).  `db` is the `ProxyDb`:
`registered` is membership of `DBS`, `closed` the flag set by close, `stmts` the
statements linked to the handle, `autocommit` and `errcode` two of its mirrored
fields.  `stmt[q]` is a `ProxyStmt`; a text result is reduced to how many rows it
has and the parameters it was computed under.  `stream` is the owner of the
stream mutex, `sent` and `answers` the bytes under way in either direction,
`session` and `txn` the broker's end.  `ran` is a history variable.

A call of the application is one step where the code takes one lock or none, and a
sequence of steps through the *places* of `call[t].at` where it takes several:
before `stream.lock()`, between `write_msg` and `read_msg` with the lock held,
then `apply` in two halves (the mirrored fields, then the error code, each under a
lock of its own), the row callback of `exec`, and the second look at `errcode`
that every error path takes.  `reply` holds the answer that this thread is
working on.  `write_fails` is `write_msg` refusing a message over the limit,
`undecodable` an answer that arrives and does not parse: both leave the session
open.  A callback that returns non-zero makes `exec` apply the response a second
time as an abort.

The application keeps the rules SQLite makes for it: a statement is used by one
thread at a time, nobody is inside a call when the handle is closed, and a closed
handle is reached only through its statements.  Within those rules it calls
anything in any order.  `close`, `close_v2` and the last `finalize` are single
steps: no other thread may be inside the handle then, except for `close_v2`
racing `finalize` on a handle that is closed already (see `Handles`).  The mirrored `changes`,
`total_changes` and `last_insert_rowid` are not in the model; they are assigned
beside `autocommit`.

`SessionLine`.  A call is asked when none is outstanding, answered once, taken
once; Close only when the line is quiet; a broker may die at any time.

`Handles`.  `mem[a]` is what lies at an address: nothing, a handle, a statement, a
text, or something of the real library.  An address is free for anybody again in
the very step that frees it.  Each critical section is a step: `Open` is
`Box::into_raw`, `OpenRegister` the insertion in `DBS`; `Finalize` takes the
statement out of `STMTS`, `UnlinkStmt` off the list, `DropStmt` frees it and
`FinalizeLooks` reads the handle's flag and list; `Destroy` takes the handle out of
`DBS`, `FreeDb` frees it.  `Accessor` is any call that does no more than pass a
pointer on: to the shim if it defines the function and the address is registered,
else to the real library (`sym`, or the forwarders of `shim/build.rs`, which look
nothing up).  `strays` remembers pointers that arrived in the wrong library;
`"forwarded"` is a proxy in a function the shim does not define.  The
application passes only pointers it was given and has not given back, has no
other call on a handle while it closes it, and on a handle it *has* closed makes
one call at a time that may destroy it.  Without that last rule the code is
wrong: two threads that finalize the last two statements of a closed handle, or
`close_v2` and the last `finalize`, can both see the handle empty, and the later
one looks at memory the earlier one has freed (lib.rs:825).  No document of the
repository says whether that is allowed.

`StubFile`.  `dir` maps paths to inodes, `data` inodes to contents, so that a rename
replaces the name and leaves an open file alone.  `write_stub` is four steps: the
temporary file is created or truncated, written, renamed; and a broker may end, or
fail to bind, between any two.  `open_v2` is `OpenPath`, `ReadStub`, `Connect`: the
file may be replaced between the first two, the broker end between the last two.
What is not a stub goes to the real SQLite (`RealOpen`), which creates a file that
is not there.  `Listen[b]` is what `--listen` allows: one address, or several for
port 0.  `steady` is a history variable: a broker on that path was ready when the
open began and has not ended since.  `--advertise` is taken as another name of the
bound address.

`Storm`.  `worker[w].at` is where process `w` is: the text it has to send next, or
`"choose"` between operations.  A text is asked, run and answered by the actions
`Ask`, `Run` and `Answer` of `SerialStore`; `Effect` says what it does to the file,
inside a transaction to `draft`.  A `query` is prepare and step, of which the
second reads: one call here.  The continuation after an answer is an action per
statement of `migrate` and of the loop in `run_worker`.  A killed worker drops its
session as its socket closes, after a call it was asked for has run.  `applied` in
the file is a history variable.  Random choices are choices; a token is the number
of the step that made it.

`Base64`.  A blob is a sequence of bytes, a text one of ASCII codes.  Shifts and
masks are division and remainder.  `Slots` numbers the bytes a text could yield
and keeps those before the padding, so that decoding is a function and not a
loop.

`Values`.  A value has a type and a sequence for its contents.  A finite real is a
number of halves and of units in the last place beside it: none for a real of few
digits, some for one that takes too many digits for an exact JSON parse; a real that
is not finite has no contents.  The statement is `SELECT ?1, ?2, ...`.  `Bind` is
`upsert_param` of the cell.  `StepRuns` is the way to the broker and back
(`Returned`): the request's JSON (`FromJson`), the binds (`SqlOf`), SQLite,
`read_row` (`RowCell`) and the response's JSON, with `Base64` on either leg.
`FromJson` is the set of what the other side may read for a cell: nothing for a real
that is not finite, any of its neighbours (`Ulps`) for a long one, the cell itself
otherwise.  Texts are ASCII and bytes from 248, which occur in no UTF-8; such a byte
becomes the replacement character, three bytes long, wherever the code makes a
`String`.  Characters of several bytes are not modelled.

What `FromJson` says of numbers rests on `serde_json`, which is not in the
repository.  `protocol/Cargo.toml:11` takes the crate without its feature
`float_roundtrip`; its parser then makes a double of the significand and multiplies
or divides it by a power of ten, which is exact when the significand is below 2^53
and the power at most 22, and may otherwise end on a neighbouring double.

## Runs

| Run | Instance | Shows |
| --- | --- | --- |
| `broker_safety` | 3 sessions, 1 value, clients die, replies fail, bad frames | `IInv` (which includes `TypeOK`), `HolderTracksTransaction`, `QueueOnlyBehindHolder`, `OneJobPerCall`, `NoResidue`, `NoBusy`, `ArrivalOrder` |
| `broker_faults` | 2 sessions, 2 values, every fault and every message | the broker implements `SerialStore` |
| `live_queue` | 3 sessions that call for ever | `CallersAnswered` |
| `live_faults` | 2 sessions, deaths, bad frames, lost replies, failed opens | `CallersAnswered`, `DeadHolderReleased` |
| `panic_loses_results` | 2 sessions, a statement cut inside a character | violates `CallersGetTheirResult` |
| `shim_calls` | 1 thread, 2 statements, up to 2 rows, every call, the broker may die, messages may be too large | `RunsOncePerReset`, `RowsBelongToBindings`, `HandleOutlivesItsStatements`, `MirrorTracksTransaction` |
| `shim_threads` | 2 threads, 2 statements, 1 row, every fault | `ShimIInv` (which includes `ShimTypeOK`), `AnswersReachTheirCallers`, `ExecAndStepReportErrors`, and the handle implements `SessionLine` |
| `prepare_loses_error` | 2 threads, exec and prepare | violates `PrepareReportsErrors` |
| `handles` | 3 threads, 5 addresses, a function the shim defines and one it does not | `HandlesIInv` (which includes `HandlesTypeOK`), `RegistriesExact`, `HandlesOutliveTheirUsers`, `NothingLeaks`, `EveryPointerGoesHome` |
| `stub_start` | 2 starts of a service on its address, a second service on another, an application, 5 inodes | `StubIInv` (which includes `StubTypeOK`), `StubStaysWhole`, `ReadyBrokerIsReached`, `ReachTheOwner`, `OneOwner` |
| `storm` | 2 workers, 2 operations, a new handle for each; workers and broker die, workers hang | `ReportIInv` (which includes `StormIInv` and `StormTypeOK`), `MigratedOnce`, `SchemaMatchesVersions`, `ReportedWritesAreInTheFile`, `AuditAccepts`, `OnlyTheKilledFail`, `StormEnds` |
| `values` | 2 parameters, texts and blobs of up to 2 bytes, blobs of up to 5, reals of few and of many digits and one that is not finite | `ValuesIInv` (which includes `ValuesTypeOK`), `PlainValuesSurvive`, `BytesFitThePointer`, `NoValueOffTheRow` |

Bounds.  Three sessions are needed for order and starvation (two wait, one
holds); two are enough for every pairwise conflict between a transaction and
another session, and for every failure of either.  The database is a register of
one or two values: one value suffices where only locks and turns matter, two
where a wrong or lost commit must be seen.  Nothing is cut off by a counter: the
state is finite because a session has at most one job in flight, which
`OneJobPerCall` states.

For `Shim`: two threads are every pair of calls that can meet on one handle, and
the mutex makes a third wait like the second; two statements let one be finalized
while the other keeps a closed handle alive, and one be stepped while the other
runs.  Two rows make a first, a last and an end; one is enough where only errors
and ownership matter.  `ran` needs no bound: `RunsOncePerReset` is one.
`MirrorTracksTransaction` is stated for one thread and answers that decode: two
threads apply their answers in any order (SQLite itself promises nothing about
that), and an answer that does not parse leaves the mirror as it was.

For `Handles`: five addresses are a handle with two statements, another handle or
something of the real library, and a text at once; three threads can finalize two
statements and open a third thing meanwhile.  The theorems say that no more is
needed.  For `StubFile`: two starts of one service share a path, a temporary file
and an address, a second service shares none of them; the inodes suffice for
every path and every open file, so none is reused while it is in use.  For
`Storm`: two workers migrate and write against each other; two operations make an
insert and a change or a delete of it, with the handle opened anew on the way
(`Every` is 200 in the code).  For `Values`: two parameters have an order and an
index past the end; a digit, a byte that is no UTF-8 and a NUL are the bytes the
conversions distinguish, and the longer blobs have every remainder modulo three
with the borders of the base64 alphabet; for the rest of the blobs there is the
theorem.  A long real moves by up to two units in its last place (`Ulps`), on either
leg; no property depends on how far.

Fairness (`Broker!Fairness`).  The operating system runs the worker and every
client thread, so each has weak fairness; both are always able to move when they
have something to do, since neither waits for a lock.  Nothing is assumed of
clients: they may stop calling, keep a transaction open for ever, or die.  So
`CallersAnswered` is conditional: if the broker is free again and again, every
waiting caller is answered.

In `Storm`, weak fairness of a worker's steps is the operating system running that
process and the broker answering it (`CallersAnswered`, since a worker never keeps
a transaction open across something it waits for), and weak fairness of `WaitChild`
and `Judge` is the parent polling its children.  Nothing is assumed of deaths, nor of
`WaitTimeout`, the 180 seconds, which may therefore never come: the storm does not
need it to end.

### What the violated runs say

* `panic_loses_results`: a statement longer than 120 bytes with a multi-byte
  character across byte 120 ends the broker process.
* `prepare_loses_error`: `prepare_v2` returns `errcode` as it finds it.  When
  another thread's call succeeds between `apply` and that look, the code is 0:
  the prepare that failed returns SQLITE_OK with a NULL statement.
  `exec_sql` and `step_stmt` take the same second look and turn a 0 into
  SQLITE_ERROR, which is why `ExecAndStepReportErrors` holds.

### Where the properties stop

The instances and the assumptions of the theorems leave out what is known not to
hold.  TLC has found each of these in the same modules, with other constants:

* `NoBusy` with `"exclusive_mode"` among the `Faults`: `run_exec` frees the broker
  when the connection is back in autocommit, but an exclusive-mode connection
  still owns the file, and the busy timeout is 0.  CONTRIBUTING.md:33 calls a
  returned SQLITE_BUSY a bug.  With `"outside_reader"`: docs/standalone.md:49
  recommends reading the real file with the system shell; while it does, a write
  through the broker is told SQLITE_BUSY at once, against docs/standalone.md:57.
* `EveryPointerGoesHome` does not count `"forwarded"`.  `shim/build.rs` forwards
  libsqlite3's other exports as they are, and a proxy that is passed to one of
  them (`sqlite3_prepare_v3`, say) is read there as the library's own struct, which
  shim/src/api.rs:2 gives as the reason why such functions "have to live here".
* `ReachTheOwner` for two stubs that differ in the extension only:
  `with_extension("tmp")` (broker.rs:96) drops it, so `db.sqlite` and `db.db` are
  both written as `db.tmp`, and one broker may rename the other's file.  And for
  two services on any free port, the default: a stub stays behind when its broker
  ends, and if the next broker on that host is given the port, the old stub leads to
  the new database.  The greeting does not say which file is served.
* `OneOwner` for a service started on two addresses: nothing locks the storage.
* Before the first stub the path does not exist and `open_v2` passes it on to
  SQLite, which creates a database (`RealOpen`); the stub then replaces it, and the
  application goes on writing to a file without a name, against README.md:70.
  `ReadyBrokerIsReached` begins when a broker is ready.
* `PlainValuesSurvive` is about plain values.  An infinite REAL is `null` in JSON: the
  broker cannot read the request and drops the session, the transaction is gone
  while `sqlite3_get_autocommit` still denies it (README.md:74).  An empty blob is
  bound with a null pointer, which is how SQLite spells NULL.  A text is cut at a
  NUL, and a byte that is no UTF-8 becomes the replacement character.
  A finite REAL of too many digits can change on its way through JSON, in the request,
  in the response, or in both: 4503599627370495.5 is written with 17 digits and comes
  back as 4503599627370495.0.  It is only promised to come back as a REAL.
* `BytesFitThePointer` for `sqlite3_column_text` of a blob whose bytes are no UTF-8.
  Each such byte is three in the text, and `sqlite3_column_bytes` counts the blob: for
  the one byte 255 it says 1 (api.rs:254), and the text has three (lib.rs:749).  The
  property then states that the text is longer, so that reading as many bytes as were
  announced stays inside it.
* `MirrorTracksTransaction` with two threads, or with answers that do not decode.

## Proofs

`BrokerProofs` proves, for any set of sessions, any contents and any
combination of faults, `Spec => []` of `IInv`, `TypeOK`,
`HolderTracksTransaction`, `QueueOnlyBehindHolder /\ QueuedWaitForOthers`,
`OneJobPerCall` and `NoResidue`, and `NoBusy` under the assumption that
`"exclusive_mode"` and `"outside_reader"` are not among the faults: exactly the
two surroundings in which it is violated.  `SerialProofs` proves
`Spec => SerialService`.

Every safety property and every action property that a passing run checks is the
statement of a theorem.  Only liveness is model-checked alone.

### The broker

Assumptions: `Clean` is no value, `NoSession` is no session, `Faults` and
`Requests` are among the names the modules list.  Nothing is assumed finite.

Argument.  The safety invariants are not inductive one by one.  That `holder`
follows SQLite needs that a statement is dispatched only for a session that has a
connection; that needs that the queue holds no session that was dropped
(`QueuedWaitForOthers`); that needs that a session's Drop or Close can only be
sent when nothing else of it is in flight (`OneJobPerCall`), and that connections
follow threads (`ConnectionPerThread`).  `IInv` is the conjunction of these
with the two facts about the pump loop and `ClosedIsFresh`.  The job bookkeeping is
reduced to sets: `AppendJobs` and `TailJobs` say what appending and taking do to
the set of jobs of a queue without repeated sessions, and three lemmas
(`JobSent`, `JobAnswered`, `ReplyTaken`) say how a job moves; every action is one of
these moves plus what it does to connections and holder (`DispatchEffect`).
A by-product is that the loop in `drop_session` that answers queued requests of
the dropped session never finds one.  `NoBusy` adds
`LocksOnlyInTransaction`; the refinement needs only `IInv`, `DispatchIsRun` (a
dispatched statement is one `Run`) and that the rest maps to `Ask`, `Answer`,
`Leave`, `Crash` or to no step.

The same `IInv` carries `ArrivalOrder`: a session has one job in channel and queue
together (`ArrivedOnce`), the job that is taken is the first of the queue or
the first of the channel (`PumpedTakenOut`, `ReceivedTakenOut`), and what moves from
one to the other keeps its place (`QueuedInPlace`).  A statement is taken from the
channel past a queue that is not empty only for the holder.

### The shim

`ShimProofs` is about any number of threads, statements and rows, any set of
calls and any faults.  Assumed: `ShimAssumptions`, that `NoThread` and `NoStmt` are no
thread and no statement, and that `Calls` and `Faults` are among the names the
module lists.

*The exchange.*  `Spec => []AnswersReachTheirCallers` and `Spec => Line!Spec`.  That an
answer reaches the thread that asked is not inductive: it needs that the lock is
held exactly by the thread at `"answer"`, that nothing is under way when nobody
holds it, and that at most one message is.  `ExchangeIInv` says so, and adds that a
closed handle has nobody on the stream, without which Close could overtake a
call.  Steps that touch neither the line nor a thread's place on it are handled by
one lemma (`Quiet`).

*The life of a statement.*  `Spec => []` of `ShimIInv`, `RunsOncePerReset`,
`RowsBelongToBindings` and `HandleOutlivesItsStatements`.  That rows belong to the
bindings is not inductive, because the bindings travel: they are in the request
and in the answer, and in the hands of the thread that applies it (`LineFits`), and
meanwhile nobody may bind, which holds because no two threads are inside calls
of one statement (`CallsApart`).  That a text runs once per reset needs to know
which statements cannot have run: those that are not started and of which no
call has got beyond its request (`NotRun`, `RunsCounted`).  A call that has got so
far ends by marking the statement started, answer or no answer.

*Errors.*  `Spec => ExecAndStepReportErrors`, an action property: the step from
`"error"` reads `errcode` again, and `ErrorOf` turns what it may find there by then
into an error.

*The mirror.*  `Spec => []MirrorTracksTransaction` under `OneThread`: one thread, and
`"undecodable"` not among the faults, the two conditions without which TLC finds it
violated.  `MirrorIInv` follows the difference between mirror and session through the
exchange: the two agree until the broker runs the text, from then on the
answer tells the truth, and they agree again once it is applied; a callback that
aborts `exec` applies the same answer twice.

### Values

`ValuesProofs` proves `Spec => []` of `ValuesIInv`, `PlainValuesSurvive`,
`BytesFitThePointer` and `NoValueOffTheRow`, for any number of parameters and any
set of well-typed values.  What is carried for a parameter is the cell of what the
application bound last (`CarriedOnce`, `CarriesTheHeld`), and the row on hand has what
may come back for what was held when it was asked for (`RowOfTheAsked`).  For a plain
value that is one cell (`PlainArrives`); for blobs the way there and back is
`EveryBlobArrives`.  The assumptions on `Value` are the types, and that texts are made
of the bytes above; blobs have any bytes.  That JSON is exact for a real of few
digits is part of the model (`FromJson`), not of what is proved.

### Pointers and start-up

`HandlesProofs` proves, for any number of threads and addresses, `Spec => []` of
`HandlesIInv`, `RegistriesExact`, `HandlesOutliveTheirUsers`, `NothingLeaks` and
`EveryPointerGoesHome`.  None of them is inductive: an entry of a registry is right
because whoever frees an object has taken the entry out before (`InHand`), which is right because no two threads work
on the same object (`Alone`); and a handle is there when a thread looks at it
because either a statement keeps it, or the application, or that thread alone
(`StmtKept`, `DbKept`).

`StubProofs` proves `Spec => []StubIInv`, `Spec => StubStaysWhole`,
`Spec => []ReadyBrokerIsReached` and `Spec => []OneOwner` for any brokers and
applications under `SharersExclude`: brokers whose stubs share a temporary file
are starts of one service on one fixed address, without which `ReachTheOwner` and
`OneOwner` fail (see above).  The argument: two brokers are never
between `bind` and the end on the same address, so only one of them is inside
`write_stub` on a temporary file; what it renames is therefore what it wrote, whole
(`Published`).  No application has a temporary file open (`Opened`), so what it
reads is not changed under its hands; and an application whose broker stays up is
at every step on its way to it (`OnItsWay`).

`Spec => []ReachTheOwner` needs one assumption more, `OnePerAddress`: services that may
be found at one address are starts of one service.  `Traced` says where an address
came from: what an application reads at a path was written there by a broker of
that path, however long ago, and is what it connects to.  Who listens there now
is then of the same service.  Port 0 breaks `OnePerAddress`, and the property with it.

### Base64

`Base64Proofs` proves `EveryBlobArrives`: for every sequence of bytes, `decode_base64`
accepts what `encode_base64` makes of it and gives it back.  Four digits of
six bits make the number that three bytes made (`Pack` and `Join`); the slots of an
encoded text are the positions of the blob, because the padding in its last group
is exactly what the blob lacks.

### The storm

`StormProofs` is about any number of workers and operations, any interval of
reopening and any of the faults.

*Migrations.*  `StormIInv` gives `Spec => []` of `StormTypeOK`, `MigratedOnce`,
`SchemaMatchesVersions` and `OnlyTheKilledFail`.  It is one invariant per worker
(`WorkerFits` in the proofs): where the worker is in `migrate` decides whether it is
inside a transaction (`Inside`) and what the draft of the file differs in
from the committed one (`Pending`); what it has been through is in the file and
stays there (`Migrated`).  That nobody's text fails (`NothingFails`) and that the schema
is the versions recorded (`Sound`) need each other: `ALTER TABLE` would report a
duplicate column, and be taken for done, if a version were in the schema and not
recorded.  A worker that is killed stays `Engaged` until its call has run and its
session is gone, since until then its transaction may still commit.

*Reports.*  `ReportIInv` gives `Spec => []` of `ReportedWritesAreInTheFile` and
`AuditAccepts`.  The file is what the worker has counted, but for one write
that has run and is not counted yet (`Counted`, `Uncounted`); the list of items runs
ahead of the file by the write that has not run yet (`ListMatches`); for a worker
that can report no more, the file still balances by itself (`FileBalances`), which is
all the audit asks of it.  The audit compares sums, and a sum over a set is a fold:
`SumIsSlots` shows that it is the cardinality of a set of pairs, hence that the order of
the fold does not matter and that one event more adds its step (`SumOfOneMore`).
Its induction on finite sets is done by a least counterexample (`Minimal`), from the
well-foundedness of strict inclusion, because the library's induction theorem takes an
operator as a parameter.

*The service.*  `Spec => Service!Spec`: the workers ask of the broker no more
than `SerialStore`, which `SerialProofs` shows `Broker` to implement.

### Model-checked only

Liveness (`CallersAnswered`, `DeadHolderReleased`, `StormEnds`) is out of the prover's
reach.  The two runs that expect a violation are counterexamples, not theorems.
`MirrorIInv` and `Traced` are invariants of the instances of `shim_calls` and
`stub_start` as well; those runs check what they are for.

## Not modelled

SQL itself, logging, the command line front ends and the pass-through half of
the shim are data or I/O; PROJECT.json gives the reason for each.  The bytes of a
frame are not modelled: TCP delivers them in order or not at all, and what cannot
be read is a frame that does not decode.  Also left out: the mirrored counters
and messages of a handle, the names and declared types of columns, statistics
printed by `hammer`, and two teardown calls racing on a closed handle.

A host that vanishes without closing its sockets is not reported to the broker
by anything, and an open transaction of it is never released: no model of this
code can show otherwise.  An application thread with two sessions can wait for
itself (`sqlite3_busy_timeout` is accepted and ignored, shim/src/api.rs:498); the
documents promise the wait, so there is nothing to check it against.

## Plan

1. **Core** (done): `SqliteFile`, `Worker`, `Broker`, `SerialStore`, proofs.
2. **`Shim`**, **`Handles`**, **`Values`** (done): one handle and its threads; many
   pointers; what is bound and read.
3. **`StubFile`** (done): start-up against applications that open the path before,
   during and after.
4. **`Base64`** (done), as functions that `Values` uses and the prover can reason about.
5. **`Storm`** (done): migrations, claims and audit on top of `SerialStore`.
6. **Safety proofs** (done): the life of handles and statements, values, storm,
   arrival order.
7. **What is left to prove**: what two threads may rely on where
   `MirrorTracksTransaction` stops, and two teardown calls on one closed handle, of
   which the model takes one after the other.
