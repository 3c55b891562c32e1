-------------------------------- MODULE Broker --------------------------------
(***************************************************************************)
(* The broker process as its clients meet it: one client_loop thread per   *)
(* connection, the worker they all send their jobs to (module Worker), the *)
(* sockets between a thread and its client, and the deaths of either side. *)
(*                                                                         *)
(* A session is a connection from accept to the end of its thread.  Ids    *)
(* grow for ever in the code (NEXT_SESSION); here an id is used again once *)
(* its thread has ended, which NoResidue shows to be the same thing.       *)
(***************************************************************************)
EXTENDS Worker

CONSTANT Requests   \* the messages clients send

ASSUME RequestsAssumption ==
    Requests \subseteq {"exec", "prepare", "torn", "close", "bad"}

VARIABLES
    thread,     \* thread[s]: "none", "read" (in read_msg), or the operation
                \*   of the job whose answer the thread is waiting for
    peer        \* peer[s]: the client's side of the socket

vars == <<conn, db, outside, inbox, sessions, holder, pending, pumping, reply,
          thread, peer>>

-----------------------------------------------------------------------------
(* "bad" is a frame read_msg cannot decode: a REAL parameter that is not
   finite travels as null, which is no f64. *)
Messages == {"exec", "prepare", "torn", "close", "bad"}

(* off: no client; connecting: waits for Hello; idle: no call outstanding;
   a message: sent, not yet read; calling: read, waits for the response;
   gone: the client died or closed the socket, and the thread has yet to
   notice. *)
Peers   == {"off", "connecting", "idle", "calling", "gone"} \cup Messages
Threads == {"none", "read"} \cup Ops

Send(s, o) ==
    /\ inbox' = Append(inbox, [id |-> s, op |-> o])
    /\ thread' = [thread EXCEPT ![s] = o]

Become(s, p) == peer' = [peer EXCEPT ![s] = p]

(* A reply is taken out of the channel and the thread goes on to t. *)
TakeReply(s) == reply[s] # "none" /\ reply' = [reply EXCEPT ![s] = "none"]
GoOn(s, t)   == thread' = [thread EXCEPT ![s] = t] /\ UNCHANGED inbox

WorkerRest == UNCHANGED <<sessions, holder, pending, pumping, fileVars>>

(* write_msg succeeds, also towards a dead client (the kernel buffers it),
   or fails. *)
WriteMayFail(s) == peer[s] = "gone" \/ "write_fails" \in Faults

-----------------------------------------------------------------------------
(* accept_loop: a thread of its own, whose first job opens the session. *)
Accept(s) ==
    /\ thread[s] = "none" /\ peer[s] # "off"
    /\ Send(s, "open")
    /\ UNCHANGED <<reply, peer>> /\ WorkerRest

(* Hello { ok: false }, and the thread ends. *)
OpenFailed(s) ==
    /\ thread[s] = "open" /\ reply[s] = "failed"
    /\ TakeReply(s) /\ GoOn(s, "none") /\ Become(s, "off")
    /\ WorkerRest

OpenSucceeded(s) ==
    /\ thread[s] = "open" /\ reply[s] = "done"
    /\ TakeReply(s)
    /\ \/ /\ GoOn(s, "read")
          /\ Become(s, IF peer[s] = "connecting" THEN "idle" ELSE peer[s])
       \/ /\ WriteMayFail(s)
          /\ Send(s, "drop")
          /\ UNCHANGED peer
    /\ WorkerRest

ReadRequest(s) ==
    /\ thread[s] = "read" /\ peer[s] \in Messages \ {"bad"}
    /\ Send(s, peer[s]) /\ Become(s, "calling")
    /\ UNCHANGED reply /\ WorkerRest

(* Mutation of ReadFailed: the thread ends without drop_remote. *)
ReadFailedQuietly(s) ==
    /\ thread[s] = "read" /\ peer[s] \in {"gone", "bad"}
    /\ GoOn(s, "none") /\ Become(s, "off")
    /\ UNCHANGED reply /\ WorkerRest

(* read_msg fails: end of file, socket error, or a frame it cannot decode. *)
ReadFailed(s) ==
    /\ thread[s] = "read" /\ peer[s] \in {"gone", "bad"}
    /\ Send(s, "drop")
    /\ UNCHANGED <<reply, peer>> /\ WorkerRest

(* Mutation of WriteReply: a failed write ends the thread without
   drop_remote. *)
WriteReplyFailsQuietly(s) ==
    /\ thread[s] \in Statements
    /\ TakeReply(s)
    /\ \/ /\ GoOn(s, "read")
          /\ Become(s, IF peer[s] = "calling" THEN "idle" ELSE peer[s])
       \/ /\ WriteMayFail(s)
          /\ GoOn(s, "none") /\ Become(s, "off")
    /\ WorkerRest

WriteReply(s) ==
    /\ thread[s] \in Statements
    /\ TakeReply(s)
    /\ \/ /\ GoOn(s, "read")
          /\ Become(s, IF peer[s] = "calling" THEN "idle" ELSE peer[s])
       \/ /\ WriteMayFail(s)
          /\ Send(s, "drop")
          /\ UNCHANGED peer
    /\ WorkerRest

(* After the answer to Close, written or not, or to Drop, the thread ends
   and its socket closes. *)
ThreadEnds(s) ==
    /\ thread[s] \in {"close", "drop"}
    /\ TakeReply(s) /\ GoOn(s, "none") /\ Become(s, "off")
    /\ WorkerRest

ThreadStep(s) ==
    \/ Accept(s)
    \/ OpenFailed(s)
    \/ OpenSucceeded(s)
    \/ ReadRequest(s)
    \/ ReadFailed(s)
    \/ WriteReply(s)
    \/ ThreadEnds(s)

-----------------------------------------------------------------------------
(* The clients. *)
ClientRest == UNCHANGED <<workerVars, fileVars, thread>>

Connect(s) == peer[s] = "off" /\ Become(s, "connecting") /\ ClientRest

Call(s) ==
    /\ peer[s] = "idle"
    /\ \E m \in Requests : Become(s, m)
    /\ ClientRest

(* What a dying client had sent and nobody had read may be lost. *)
Die(s) ==
    /\ "client_dies" \in Faults
    /\ peer[s] \notin {"off", "gone"}
    /\ Become(s, "gone") /\ ClientRest

ClientStep(s) == Connect(s) \/ Call(s) \/ Die(s)

-----------------------------------------------------------------------------
(* The process ends and everything in memory with it; open transactions are
   rolled back by whoever opens the file next. *)
ProcessEnds ==
    /\ conn' = [s \in Session |-> Fresh]
    /\ inbox' = <<>> /\ pending' = <<>>
    /\ sessions' = {}
    /\ holder' = NoSession
    /\ pumping' = FALSE
    /\ reply' = [s \in Session |-> "none"]
    /\ thread' = [s \in Session |-> "none"]
    /\ peer' = [s \in Session |-> "off"]
    /\ UNCHANGED outside

(* The broker is stopped, and started again on the same file. *)
Restart == "broker_stops" \in Faults /\ ProcessEnds /\ UNCHANGED db

(* sql_brief panics after the statement ran and before its answer is sent;
   the worker is the main thread, so the whole process goes down. *)
Panic ==
    /\ \E s \in Session :
          /\ AboutToDispatch([id |-> s, op |-> "torn"])
          /\ \E r \in Outcomes(s, "exec") : db' = r.at.db
    /\ ProcessEnds

(* A program that reads the storage file itself, such as the sqlite3 shell. *)
OutsideRead ==
    /\ "outside_reader" \in Faults
    /\ \/ outside
       \/ \A s \in Session : conn[s].lock # "exclusive"
    /\ outside' = ~outside
    /\ UNCHANGED <<conn, db, workerVars, thread, peer>>

-----------------------------------------------------------------------------
Init ==
    /\ WorkerInit
    /\ thread = [s \in Session |-> "none"]
    /\ peer = [s \in Session |-> "off"]

Worker_ == WorkerStep /\ UNCHANGED <<thread, peer>>

Next ==
    \/ Worker_
    \/ \E s \in Session : ThreadStep(s) \/ ClientStep(s)
    \/ Restart
    \/ Panic
    \/ OutsideRead

Spec == Init /\ [][Next]_vars

(* The scheduler runs the worker and every thread; nothing makes a client
   call, finish its transaction or go away. *)
Fairness ==
    /\ WF_vars(Worker_)
    /\ \A s \in Session : WF_vars(ThreadStep(s))

FairSpec == Spec /\ Fairness

-----------------------------------------------------------------------------
(* Types of the whole process's state. *)
TypeOK ==
    /\ WorkerTypeOK
    /\ thread \in [Session -> Threads]
    /\ peer \in [Session -> Peers]

(* The `holder` field and SQLite agree: a session holds the broker exactly
   while its connection is in a transaction, whichever statement, error,
   close or disconnection began or ended it. *)
HolderTracksTransaction ==
    \A s \in Session : holder = s <=> (s \in sessions /\ conn[s].txn)

(* No wakeup is lost: when the worker goes back to its channel, requests are
   queued only behind a transaction that is still open. *)
QueueOnlyBehindHolder ==
    ~pumping /\ holder = NoSession => pending = <<>>

(* The jobs of a queue, and no two of the same session. *)
Jobs(q) == {q[i] : i \in DOMAIN q}

InQueue(q, s) == \E job \in Jobs(q) : job.id = s

Distinct(q) == \A i, j \in DOMAIN q : q[i].id = q[j].id => i = j

(* The queue never holds a request of the session that holds the transaction,
   nor of a session without a connection: such a request would wait for
   itself, or run on nothing. *)
QueuedWaitForOthers ==
    \A job \in Jobs(pending) : job.id # holder /\ job.id \in sessions

(* Every call is in flight exactly once: a thread that waits has its own job,
   with its own operation, in the channel or in the queue, or an answer, and
   nothing else is in flight.  No answer can go to a later request. *)
OneJobPerCall ==
    /\ Distinct(inbox) /\ Distinct(pending)
    /\ \A job \in Jobs(inbox) \cup Jobs(pending) : job.op = thread[job.id]
    /\ \A job \in Jobs(pending) : job.op \in Statements
    /\ \A s \in Session :
          /\ ~(InQueue(inbox, s) /\ InQueue(pending, s))
          /\ reply[s] # "none" =>
                thread[s] \in Ops /\ ~InQueue(inbox, s) /\ ~InQueue(pending, s)
          /\ thread[s] \in Ops /\ reply[s] = "none" =>
                InQueue(inbox, s) \/ InQueue(pending, s)

(* A session has its SQLite connection exactly from the handling of its Open
   to the handling of its Close or Drop. *)
ConnectionPerThread ==
    \A s \in Session : s \in sessions <=>
        \/ thread[s] \in {"read"} \cup Statements
        \/ thread[s] = "open" /\ reply[s] = "done"
        \/ thread[s] \in {"close", "drop"} /\ reply[s] = "none"

(* A session that ended left nothing behind: no connection, lock, queued
   request, answer or hold on the broker. *)
NoResidue ==
    \A s \in Session : thread[s] = "none" =>
        /\ s \notin sessions /\ conn[s] = Fresh
        /\ holder # s
        /\ reply[s] = "none"
        /\ ~InQueue(inbox, s) /\ ~InQueue(pending, s)

(* What makes the invariants above inductive: the loop of pump() runs only
   while it has work, and a session without a connection has no SQLite state. *)
PumpOnlyWithWork == pumping => holder = NoSession /\ pending # <<>>

ClosedIsFresh == \A s \in Session \ sessions : conn[s] = Fresh

IInv ==
    /\ TypeOK
    /\ HolderTracksTransaction
    /\ QueueOnlyBehindHolder
    /\ PumpOnlyWithWork
    /\ QueuedWaitForOthers
    /\ OneJobPerCall
    /\ ConnectionPerThread
    /\ ClosedIsFresh

(* "There is no SQLITE_BUSY for the application to retry"
   (docs/standalone.md:57). *)
NoBusy == \A s \in Session : reply[s] # "busy"

(* Why it holds: a connection keeps a lock only while its transaction is open,
   and the statements of others do not run then.  Both an exclusive-mode
   connection and an outside program break it. *)
LocksOnlyInTransaction ==
    /\ outside = FALSE
    /\ \A s \in Session :
          ~conn[s].sticky /\ (~conn[s].txn => conn[s].lock = "none")

(* The result of a call ends it: only its own answer, or the client's own
   death, takes a client out of a call ("The caller waits for its own
   result", docs/standalone.md:57). *)
CallersGetTheirResult ==
    [][\A s \in Session :
          peer[s] = "calling" /\ peer'[s] # "calling" =>
              reply[s] # "none" \/ peer'[s] = "gone"]_vars

(* The order in which requests reached the worker. *)
Arrived == pending \o inbox

HasStatement(q, s) == \E job \in Jobs(q) : job.id = s /\ job.op \in Statements

Before(q, s, t) ==
    \E i, j \in DOMAIN q :
        /\ i < j
        /\ q[i].id = s /\ q[i].op \in Statements
        /\ q[j].id = t /\ q[j].op \in Statements

(* Statements run in arrival order (docs/standalone.md:57): a statement that
   has not run yet stays ahead of every later one, except that the session in
   a transaction overtakes those who wait for it. *)
ArrivalOrder ==
    [][\A s, t \in Session :
          Before(Arrived, s, t) /\ holder # t /\ HasStatement(Arrived', s) =>
              Before(Arrived', s, t)]_vars

(* Callers are answered, as long as no transaction stays open for ever. *)
Waiting(s) == peer[s] \in {"connecting", "calling"} \cup Messages

CallersAnswered ==
    []<>(holder = NoSession) => \A s \in Session : Waiting(s) ~> ~Waiting(s)

(* A client that dies inside a transaction does not keep the others waiting. *)
DeadHolderReleased ==
    \A s \in Session : peer[s] = "gone" /\ holder = s ~> holder # s

-----------------------------------------------------------------------------
(* The broker seen as a SerialStore.  The clients inside a transaction are
   read off the SQLite connections, not off the `holder` field. *)
AbstractCall ==
    [s \in Session |->
        IF thread[s] \notin Statements THEN "idle"
        ELSE IF reply[s] = "none" THEN "asked" ELSE "ran"]

Serial == INSTANCE SerialStore WITH
    Client   <- Session,
    Contents <- Value,
    store    <- db,
    open     <- {s \in Session : conn[s].txn},
    call     <- AbstractCall

(* The broker implements the serial store, whatever dies or is restarted. *)
SerialService == Serial!Spec

=============================================================================
