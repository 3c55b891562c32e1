-------------------------------- MODULE Worker --------------------------------
(***************************************************************************)
(* The worker of server/src/broker.rs: one thread that owns every SQLite   *)
(* connection, receives jobs from one channel and answers each on its own  *)
(* reply channel.  While a session's connection is inside a transaction    *)
(* that session is the `holder`, and the statements of every other session *)
(* wait in `pending`.                                                      *)
(***************************************************************************)
EXTENDS SqliteFile, Sequences

CONSTANT NoSession

ASSUME NoSessionAssumption == NoSession \notin Session

VARIABLES
    inbox,      \* the mpsc channel: jobs sent and not yet received
    sessions,   \* Worker.sessions: the sessions with an open connection
    holder,     \* Worker.holder
    pending,    \* Worker.pending
    pumping,    \* the worker is in the loop of pump(), not in rx.recv()
    reply       \* reply[s]: the answer in the reply channel of s's last job

workerVars == <<inbox, sessions, holder, pending, pumping, reply>>

-----------------------------------------------------------------------------
(* "torn" is an exec or prepare whose text makes sql_brief panic: more than
   120 bytes once its whitespace is collapsed, byte 120 inside a character. *)
Statements == {"exec", "prepare", "torn"}
Ops        == Statements \cup {"open", "close", "drop"}
Job        == [id: Session, op: Ops]
Replies    == {"none", "done", "busy", "failed"}

Answer(s, code) == reply' = [reply EXCEPT ![s] = code]

(* The worker is free to receive, and the next job is one of ops. *)
Received(ops) ==
    /\ ~pumping
    /\ inbox # <<>>
    /\ Head(inbox).op \in ops
    /\ inbox' = Tail(inbox)

(* The handler ends in self.pump(), which goes on while nobody holds the
   transaction and something is queued. *)
ThenPump == pumping' = (holder' = NoSession /\ pending' # <<>>)

-----------------------------------------------------------------------------
(* The queue without session s's entries; unchanged when there are none. *)
Without(q, s) ==
    IF \E i \in DOMAIN q : q[i].id = s
    THEN SelectSeq(q, LAMBDA job : job.id # s)
    ELSE q

DropSession(s) ==
    /\ sessions' = sessions \ {s}
    /\ conn' = [conn EXCEPT ![s] = Fresh]
    /\ pending' = Without(pending, s)
    /\ holder' = IF holder = s THEN NoSession ELSE holder
    /\ Answer(s, "done")
    /\ UNCHANGED db

(* What running s's request may lead to; without a connection it is the
   "no session" error, which reports autocommit. *)
Outcomes(s, op) ==
    IF s \notin sessions THEN {[at |-> Here(s), code |-> "failed"]}
    ELSE IF op = "prepare" THEN PrepareOutcomes(s)
    ELSE ExecOutcomes(s)

RunPrepare(s) ==
    \E r \in Outcomes(s, "prepare") :
        /\ conn' = [conn EXCEPT ![s] = r.at.conn]
        /\ Answer(s, r.code)
        /\ UNCHANGED <<sessions, holder, db>>

(* Mutation of RunExec: autocommit is read before the text runs. *)
RunExecStaleAutocommit(s) ==
    \E r \in Outcomes(s, "exec") :
        /\ conn' = [conn EXCEPT ![s] = r.at.conn]
        /\ db' = r.at.db
        /\ holder' = IF conn[s].txn THEN s
                     ELSE IF holder = s THEN NoSession
                     ELSE holder
        /\ Answer(s, r.code)
        /\ UNCHANGED sessions

RunExec(s) ==
    \E r \in Outcomes(s, "exec") :
        /\ conn' = [conn EXCEPT ![s] = r.at.conn]
        /\ db' = r.at.db
        /\ holder' = IF r.at.conn.txn THEN s
                     ELSE IF holder = s THEN NoSession
                     ELSE holder
        /\ Answer(s, r.code)
        /\ UNCHANGED sessions

Dispatch(job) ==
    \/ job.op = "prepare" /\ RunPrepare(job.id)
    \/ job.op = "exec" /\ RunExec(job.id)

-----------------------------------------------------------------------------
HandleOpen ==
    /\ Received({"open"})
    /\ LET s == Head(inbox).id IN
          \/ /\ sessions' = sessions \cup {s}
             /\ Answer(s, "done")
          \/ /\ "open_fails" \in Faults
             /\ Answer(s, "failed")
             /\ UNCHANGED sessions
    /\ UNCHANGED <<holder, pending, conn, db, outside>>
    /\ ThenPump

(* Mutation of HandleDrop: the handler returns without pump(). *)
HandleDropWithoutPump ==
    /\ Received({"drop", "close"})
    /\ DropSession(Head(inbox).id)
    /\ UNCHANGED <<outside, pumping>>

(* Job::Drop, and Job::Req with Request::Close. *)
HandleDrop ==
    /\ Received({"drop", "close"})
    /\ DropSession(Head(inbox).id)
    /\ UNCHANGED outside
    /\ ThenPump

(* Mutations of MustWait: the holder waits too; nobody ever waits. *)
MustWaitHolderToo(s) == s \in Session /\ holder # NoSession
MustWaitNever(s)     == s \notin Session

MustWait(s) == holder \notin {NoSession, s}

(* Mutation of HandleQueued: the queue is a stack. *)
HandleQueuedInFront ==
    /\ Received(Statements)
    /\ MustWait(Head(inbox).id)
    /\ pending' = <<Head(inbox)>> \o pending
    /\ UNCHANGED <<sessions, holder, pumping, reply, conn, db, outside>>

(* Behind somebody else's transaction: queue, and return without pumping. *)
HandleQueued ==
    /\ Received(Statements)
    /\ MustWait(Head(inbox).id)
    /\ pending' = Append(pending, Head(inbox))
    /\ UNCHANGED <<sessions, holder, pumping, reply, conn, db, outside>>

HandleStatement ==
    /\ Received(Statements)
    /\ ~MustWait(Head(inbox).id)
    /\ Dispatch(Head(inbox))
    /\ UNCHANGED <<pending, outside>>
    /\ ThenPump

(* Mutation of PumpNext: the request is looked at and not taken. *)
PumpNextWithoutPop ==
    /\ pumping
    /\ Dispatch(Head(pending))
    /\ UNCHANGED <<pending, inbox, outside>>
    /\ ThenPump

PumpNext ==
    /\ pumping
    /\ Dispatch(Head(pending))
    /\ pending' = Tail(pending)
    /\ UNCHANGED <<inbox, outside>>
    /\ ThenPump

(* The job the worker dispatches next, if it is about to dispatch one. *)
AboutToDispatch(job) ==
    \/ pumping /\ job = Head(pending)
    \/ /\ ~pumping /\ inbox # <<>> /\ job = Head(inbox)
       /\ job.op \in Statements
       /\ ~MustWait(job.id)

WorkerStep ==
    \/ HandleOpen
    \/ HandleDrop
    \/ HandleQueued
    \/ HandleStatement
    \/ PumpNext

-----------------------------------------------------------------------------
WorkerTypeOK ==
    /\ FileTypeOK
    /\ inbox \in Seq(Job)
    /\ sessions \subseteq Session
    /\ holder \in Session \cup {NoSession}
    /\ pending \in Seq(Job)
    /\ pumping \in BOOLEAN
    /\ reply \in [Session -> Replies]

WorkerInit ==
    /\ FileInit
    /\ inbox = <<>>
    /\ sessions = {}
    /\ holder = NoSession
    /\ pending = <<>>
    /\ pumping = FALSE
    /\ reply = [s \in Session |-> "none"]

=============================================================================
