--------------------------------- MODULE Shim ---------------------------------
(***************************************************************************)
(* One proxied handle of shim/src/lib.rs: the ProxyDb behind an sqlite3*,  *)
(* the ProxyStmts prepared on it, the socket to its broker session, and    *)
(* the threads of the application that call it.  Every field of ProxyDb    *)
(* has a mutex of its own, so a call is a sequence of short critical       *)
(* sections; only the exchange with the broker holds one lock throughout.  *)
(*                                                                         *)
(* The application keeps SQLite's own rules: a statement is used by one    *)
(* thread at a time, nobody else is inside a call when the handle is       *)
(* closed, and a closed handle is only reached through its statements.     *)
(***************************************************************************)
EXTENDS Naturals, Sequences

CONSTANTS
    Thread,     \* threads of the application
    Stmt,       \* the statements it may have prepared at a time
    NoThread,
    NoStmt,
    MaxRows,    \* rows a query returns at most
    Calls,      \* the operations the application uses
    Faults

Operations == {"exec", "prepare", "step", "bind", "reset", "finalize", "close"}

ASSUME ShimAssumptions ==
    /\ NoThread \notin Thread
    /\ NoStmt \notin Stmt
    /\ MaxRows \in Nat
    /\ Calls \subseteq Operations
    /\ Faults \subseteq {"broker_dies", "write_fails", "undecodable"}

VARIABLES
    db,         \* the ProxyDb, and whether it is in DBS
    stmt,       \* stmt[q]: the ProxyStmt
    stream,     \* the thread that has ProxyDb.stream locked
    sent,       \* frames written and not yet read by the broker
    answers,    \* frames the broker has written and nobody has read
    session,    \* the broker's session: "open", "closed", or "dead"
    txn,        \* its connection is inside a transaction
    call,       \* call[t]: the call thread t is in
    code,       \* code[t]: what t's last call returned; "none" inside a call
    ran         \* ran[q]: history, how often q ran since prepare or reset

lineVars == <<stream, sent, answers, session, txn>>
vars     == <<db, stmt, lineVars, call, code, ran>>

-----------------------------------------------------------------------------
Values   == {"a", "b"}
Bindings == Values \cup {"unbound"}
ErrCodes == {"ok", "error", "abort"}
Codes    == ErrCodes \cup {"row", "done", "busy", "misuse", "none"}

Request  == [by: Thread, op: {"exec", "prepare", "step"},
             stmt: Stmt \cup {NoStmt}, params: Bindings]
Response == [by: Thread, code: ErrCodes, autocommit: BOOLEAN,
             rows: 0..MaxRows, of: Bindings, empty: BOOLEAN]

ProxyDb   == [registered: BOOLEAN, closed: BOOLEAN, stmts: SUBSET Stmt,
              autocommit: BOOLEAN, errcode: ErrCodes]
(* rows: how many the last run returned, and under which parameters. *)
ProxyStmt == [started: BOOLEAN, failed: BOOLEAN, rows: 0..MaxRows,
              of: Bindings, pos: 0..MaxRows, last: Codes, params: Bindings]

NewDb   == [registered |-> TRUE, closed |-> FALSE, stmts |-> {},
            autocommit |-> TRUE, errcode |-> "ok"]
NewStmt == [started |-> FALSE, failed |-> FALSE, rows |-> 0,
            of |-> "unbound", pos |-> 0, last |-> "none", params |-> "unbound"]

(* Where in its call a thread is: between calls; before stream.lock();
   holding it, before read_msg returns; the parts of apply(); fail(); the row
   callback of exec; about to report an error. *)
Places  == {"idle", "stream", "answer", "apply", "errcode", "fail",
            "callback", "error"}
NoReply == [code |-> "none"]
NoCall  == [op |-> "none", stmt |-> NoStmt, at |-> "idle", reply |-> NoReply]

Calling == [op: {"none", "exec", "prepare", "step"},
            stmt: Stmt \cup {NoStmt}, at: Places,
            reply: Response \cup {NoReply}]

WellFormed(c) ==
    /\ c.op = "none" <=> c.at = "idle"
    /\ c.op \in {"prepare", "step"} => c.stmt \in Stmt
    /\ c.at \in {"apply", "errcode", "callback"} => c.reply \in Response

AtPlace(t, p) == call[t].at = p
GoTo(t, p)    == call' = [call EXCEPT ![t].at = p]

Returns(t, c) ==
    /\ call' = [call EXCEPT ![t] = NoCall]
    /\ code' = [code EXCEPT ![t] = c]

(* The application may start operation op in thread t, and use statement q. *)
MayCall(t, op) == op \in Calls /\ AtPlace(t, "idle") /\ db.registered
MayUse(t, q) ==
    /\ q \in db.stmts
    /\ \A u \in Thread : call[u].stmt # q

-----------------------------------------------------------------------------
(* rpc: the closed flag is read before anything else. *)
Enter(t, op, q) ==
    /\ call' = [call EXCEPT ![t] =
                  [op |-> op, stmt |-> q, reply |-> NoReply,
                   at |-> IF db.closed THEN "fail" ELSE "stream"]]
    /\ code' = [code EXCEPT ![t] = "none"]
    /\ UNCHANGED <<db, stmt, lineVars, ran>>

Exec(t) == MayCall(t, "exec") /\ ~db.closed /\ Enter(t, "exec", NoStmt)

(* q is the address the allocator will return. *)
Prepare(t, q) ==
    /\ MayCall(t, "prepare") /\ ~db.closed
    /\ q \notin db.stmts /\ \A u \in Thread : call[u].stmt # q
    /\ Enter(t, "prepare", q)

Step(t, q) ==
    /\ MayCall(t, "step") /\ MayUse(t, q)
    /\ ~stmt[q].started
    /\ Enter(t, "step", q)

(* The next row on hand, or the end. *)
NextRow(s) ==
    IF s.pos < s.rows THEN [s EXCEPT !.pos = s.pos + 1, !.last = "row"]
    ELSE [s EXCEPT !.last = "done"]

(* step on a statement that has started: no message is sent. *)
StepOn(t, q) ==
    /\ MayCall(t, "step") /\ MayUse(t, q)
    /\ stmt[q].started
    /\ IF stmt[q].failed
       THEN Returns(t, stmt[q].last) /\ UNCHANGED stmt
       ELSE LET s == NextRow(stmt[q]) IN
            stmt' = [stmt EXCEPT ![q] = s] /\ Returns(t, s.last)
    /\ UNCHANGED <<db, lineVars, ran>>

-----------------------------------------------------------------------------
Params(q) == IF q = NoStmt THEN "unbound" ELSE stmt[q].params

Message(t) ==
    [by |-> t, op |-> call[t].op, stmt |-> call[t].stmt,
     params |-> IF call[t].op = "step" THEN Params(call[t].stmt) ELSE "unbound"]

(* Mutation of WriteRequest: the lock is taken for the write only. *)
WriteRequestAndUnlock(t) ==
    /\ AtPlace(t, "stream") /\ stream = NoThread
    /\ sent' = Append(sent, Message(t))
    /\ GoTo(t, "answer")
    /\ UNCHANGED <<db, stmt, stream, answers, session, txn, code, ran>>

(* stream.lock() and write_msg; nothing is written when the message is too
   large or the socket is down.  The lock is kept for the answer. *)
WriteRequest(t) ==
    /\ AtPlace(t, "stream") /\ stream = NoThread
    /\ \/ /\ sent' = IF session = "open" THEN Append(sent, Message(t)) ELSE sent
          /\ stream' = t
          /\ GoTo(t, "answer")
       \/ /\ session # "open" \/ "write_fails" \in Faults
          /\ GoTo(t, "fail")
          /\ UNCHANGED <<sent, stream>>
    /\ UNCHANGED <<db, stmt, answers, session, txn, code, ran>>

(* read_msg returns and the lock is released. *)
ReadAnswer(t) ==
    /\ AtPlace(t, "answer") /\ answers # <<>>
    /\ \/ call' = [call EXCEPT ![t].at = "apply", ![t].reply = Head(answers)]
       \/ "undecodable" \in Faults /\ GoTo(t, "fail")
    /\ answers' = Tail(answers)
    /\ stream' = NoThread
    /\ UNCHANGED <<db, stmt, sent, session, txn, code, ran>>

(* Mutation of ReadFails: the read gives up on a slow broker. *)
ReadTimesOut(t) ==
    /\ AtPlace(t, "answer") /\ answers = <<>>
    /\ GoTo(t, "fail")
    /\ stream' = NoThread
    /\ UNCHANGED <<db, stmt, sent, answers, session, txn, code, ran>>

(* Mutation of ReadFails: a failed read keeps the lock. *)
ReadFailsLocked(t) ==
    /\ AtPlace(t, "answer") /\ answers = <<>> /\ session # "open"
    /\ GoTo(t, "fail")
    /\ UNCHANGED <<db, stmt, lineVars, code, ran>>

ReadFails(t) ==
    /\ AtPlace(t, "answer") /\ answers = <<>> /\ session # "open"
    /\ GoTo(t, "fail")
    /\ stream' = NoThread
    /\ UNCHANGED <<db, stmt, sent, answers, session, txn, code, ran>>

-----------------------------------------------------------------------------
(* Mutation of ApplyState: an error response is not applied. *)
ApplyStateIfOk(t) ==
    /\ AtPlace(t, "apply")
    /\ db' = [db EXCEPT !.autocommit =
                IF call[t].reply.code = "ok" THEN call[t].reply.autocommit ELSE @]
    /\ GoTo(t, "errcode")
    /\ UNCHANGED <<stmt, lineVars, code, ran>>

(* apply(): first the counters and the autocommit flag ... *)
ApplyState(t) ==
    /\ AtPlace(t, "apply")
    /\ db' = [db EXCEPT !.autocommit = call[t].reply.autocommit]
    /\ GoTo(t, "errcode")
    /\ UNCHANGED <<stmt, lineVars, code, ran>>

(* ... then, under another lock, the error code. *)
ApplyError(t) ==
    /\ AtPlace(t, "errcode") /\ call[t].reply.code # "ok"
    /\ db' = [db EXCEPT !.errcode = call[t].reply.code]
    /\ GoTo(t, "error")
    /\ UNCHANGED <<stmt, lineVars, code, ran>>

(* The rest of a successful exec, prepare or step. *)
ExecSucceeds(t) ==
    /\ call[t].op = "exec"
    /\ \/ Returns(t, "ok")
       \/ /\ call[t].reply.rows > 0
          /\ GoTo(t, "callback")
          /\ UNCHANGED code
    /\ db' = [db EXCEPT !.errcode = "ok"]
    /\ UNCHANGED <<stmt, ran>>

PrepareSucceeds(t) ==
    /\ call[t].op = "prepare"
    /\ Returns(t, "ok")
    /\ IF call[t].reply.empty
       THEN db' = [db EXCEPT !.errcode = "ok"] /\ UNCHANGED <<stmt, ran>>
       ELSE /\ db' = [db EXCEPT !.errcode = "ok", !.stmts = @ \cup {call[t].stmt}]
            /\ stmt' = [stmt EXCEPT ![call[t].stmt] = NewStmt]
            /\ ran' = [ran EXCEPT ![call[t].stmt] = 0]

StepSucceeds(t) ==
    LET q == call[t].stmt
        s == NextRow([stmt[q] EXCEPT !.rows = call[t].reply.rows,
                                     !.of = call[t].reply.of,
                                     !.pos = 0, !.failed = FALSE,
                                     !.started = TRUE])
    IN /\ call[t].op = "step"
       /\ stmt' = [stmt EXCEPT ![q] = s]
       /\ Returns(t, s.last)
       /\ db' = [db EXCEPT !.errcode = "ok"]
       /\ UNCHANGED ran

ApplyOk(t) ==
    /\ AtPlace(t, "errcode") /\ call[t].reply.code = "ok"
    /\ ExecSucceeds(t) \/ PrepareSucceeds(t) \/ StepSucceeds(t)
    /\ UNCHANGED lineVars

(* The rows go to the callback; when it returns non-zero the response is
   applied a second time as an error. *)
Callback(t) ==
    /\ AtPlace(t, "callback")
    /\ \/ Returns(t, "ok")
       \/ /\ call' = [call EXCEPT ![t].at = "apply", ![t].reply.code = "abort"]
          /\ UNCHANGED code
    /\ UNCHANGED <<db, stmt, lineVars, ran>>

(* fail(): no answer to apply. *)
Fail(t) ==
    /\ AtPlace(t, "fail")
    /\ db' = [db EXCEPT !.errcode = "error"]
    /\ GoTo(t, "error")
    /\ UNCHANGED <<stmt, lineVars, code, ran>>

-----------------------------------------------------------------------------
(* Mutation of ErrorOf: the code is passed on as it is found. *)
ErrorAsFound(t) == db.errcode

(* The error path of exec and step reads errcode once more; the code 0 that
   another thread's success may have left there becomes SQLITE_ERROR. *)
ErrorOf(t) ==
    IF call[t].reply.code = "abort" THEN "abort"
    ELSE IF db.errcode = "ok" THEN "error"
    ELSE db.errcode

ExecFails(t) ==
    /\ AtPlace(t, "error") /\ call[t].op = "exec"
    /\ Returns(t, ErrorOf(t))
    /\ UNCHANGED <<db, stmt, lineVars, ran>>

(* prepare_v2 returns errcode as it finds it. *)
PrepareFails(t) ==
    /\ AtPlace(t, "error") /\ call[t].op = "prepare"
    /\ Returns(t, db.errcode)
    /\ UNCHANGED <<db, stmt, lineVars, ran>>

(* Mutation of StepFails: the statement does not remember that it ran. *)
StepFailsUnstarted(t) ==
    /\ AtPlace(t, "error") /\ call[t].op = "step"
    /\ stmt' = [stmt EXCEPT ![call[t].stmt].failed = TRUE,
                            ![call[t].stmt].last = ErrorOf(t)]
    /\ Returns(t, ErrorOf(t))
    /\ UNCHANGED <<db, lineVars, ran>>

StepFails(t) ==
    /\ AtPlace(t, "error") /\ call[t].op = "step"
    /\ stmt' = [stmt EXCEPT ![call[t].stmt].failed = TRUE,
                            ![call[t].stmt].started = TRUE,
                            ![call[t].stmt].last = ErrorOf(t)]
    /\ Returns(t, ErrorOf(t))
    /\ UNCHANGED <<db, lineVars, ran>>

-----------------------------------------------------------------------------
(* Mutation of Bind: a statement that has run can be bound. *)
BindAnyTime(t, q, v) ==
    /\ MayCall(t, "bind") /\ MayUse(t, q)
    /\ stmt' = [stmt EXCEPT ![q].params = v]
    /\ Returns(t, "ok")
    /\ UNCHANGED <<db, lineVars, ran>>

Bind(t, q, v) ==
    /\ MayCall(t, "bind") /\ MayUse(t, q)
    /\ IF stmt[q].started
       THEN Returns(t, "misuse") /\ UNCHANGED stmt
       ELSE /\ stmt' = [stmt EXCEPT ![q].params = v]
            /\ Returns(t, "ok")
    /\ UNCHANGED <<db, lineVars, ran>>

ClearBindings(t, q) ==
    /\ MayCall(t, "bind") /\ MayUse(t, q)
    /\ stmt' = [stmt EXCEPT ![q].params = "unbound"]
    /\ Returns(t, "ok")
    /\ UNCHANGED <<db, lineVars, ran>>

(* The bindings stay. *)
Reset(t, q) ==
    /\ MayCall(t, "reset") /\ MayUse(t, q)
    /\ stmt' = [stmt EXCEPT ![q] = [NewStmt EXCEPT !.params = stmt[q].params]]
    /\ ran' = [ran EXCEPT ![q] = 0]
    /\ Returns(t, "ok")
    /\ UNCHANGED <<db, lineVars>>

(* destroy_db: out of DBS, Close to the broker, and the memory is freed. *)
Destroy(d) ==
    /\ db' = [d EXCEPT !.registered = FALSE]
    /\ session' = "closed"
    /\ txn' = FALSE
    /\ UNCHANGED <<stream, sent, answers>>

(* Mutation of Finalize: the last statement of a closed handle leaves it. *)
FinalizeOnly(t, q) ==
    /\ MayCall(t, "finalize") /\ MayUse(t, q)
    /\ stmt' = [stmt EXCEPT ![q] = NewStmt]
    /\ ran' = [ran EXCEPT ![q] = 0]
    /\ db' = [db EXCEPT !.stmts = @ \ {q}]
    /\ Returns(t, "ok")
    /\ UNCHANGED lineVars

Finalize(t, q) ==
    /\ MayCall(t, "finalize") /\ MayUse(t, q)
    /\ stmt' = [stmt EXCEPT ![q] = NewStmt]
    /\ ran' = [ran EXCEPT ![q] = 0]
    /\ LET d == [db EXCEPT !.stmts = @ \ {q}] IN
          IF d.closed /\ d.stmts = {} THEN Destroy(d)
          ELSE db' = d /\ UNCHANGED lineVars
    /\ Returns(t, "ok")

(* sqlite3_close (v2 = FALSE) and sqlite3_close_v2 (TRUE). *)
Close(t, v2) ==
    /\ MayCall(t, "close") /\ ~db.closed
    /\ \A u \in Thread : AtPlace(u, "idle")
    /\ IF ~v2 /\ db.stmts # {}
       THEN Returns(t, "busy") /\ UNCHANGED <<db, lineVars>>
       ELSE /\ Returns(t, "ok")
            /\ LET d == [db EXCEPT !.closed = TRUE] IN
                  IF d.stmts = {} THEN Destroy(d) ELSE db' = d /\ UNCHANGED lineVars
    /\ UNCHANGED <<stmt, ran>>

(* open_v2 on the stub: a new handle on a new session. *)
Open(t) ==
    /\ ~db.registered /\ AtPlace(t, "idle")
    /\ db' = NewDb
    /\ session' = "open" /\ txn' = FALSE
    /\ Returns(t, "ok")
    /\ UNCHANGED <<stmt, stream, sent, answers, ran>>

-----------------------------------------------------------------------------
(* The broker runs the text: it may fail, and may leave the connection inside
   or outside a transaction whether it fails or not (module Worker). *)
AnswerExec(m) ==
    \E c \in {"ok", "error"}, n \in 0..MaxRows, open \in BOOLEAN :
        /\ c = "error" => n = 0
        /\ txn' = open
        /\ answers' = Append(answers, [by |-> m.by, code |-> c, rows |-> n,
              autocommit |-> ~open, of |-> m.params, empty |-> FALSE])
        /\ ran' = IF m.op = "step" THEN [ran EXCEPT ![m.stmt] = @ + 1] ELSE ran

AnswerPrepare(m) ==
    \E c \in {"ok", "error"}, e \in BOOLEAN :
        /\ answers' = Append(answers, [by |-> m.by, code |-> c, rows |-> 0,
              autocommit |-> ~txn, of |-> "unbound", empty |-> e])
        /\ UNCHANGED <<txn, ran>>

Serve ==
    /\ session = "open" /\ sent # <<>>
    /\ sent' = Tail(sent)
    /\ IF Head(sent).op = "prepare" THEN AnswerPrepare(Head(sent))
       ELSE AnswerExec(Head(sent))
    /\ UNCHANGED <<db, stmt, stream, session, call, code>>

(* The broker ends, or drops the session. *)
BrokerDies ==
    /\ "broker_dies" \in Faults /\ session = "open"
    /\ session' = "dead" /\ txn' = FALSE
    /\ sent' = <<>> /\ answers' \in {answers, <<>>}
    /\ UNCHANGED <<db, stmt, stream, call, code, ran>>

-----------------------------------------------------------------------------
Init ==
    /\ db = NewDb
    /\ stmt = [q \in Stmt |-> NewStmt]
    /\ stream = NoThread /\ sent = <<>> /\ answers = <<>>
    /\ session = "open" /\ txn = FALSE
    /\ call = [t \in Thread |-> NoCall]
    /\ code = [t \in Thread |-> "none"]
    /\ ran = [q \in Stmt |-> 0]

UseStmt(t, q) ==
    \/ Prepare(t, q)
    \/ Step(t, q)
    \/ StepOn(t, q)
    \/ \E v \in Values : Bind(t, q, v)
    \/ ClearBindings(t, q)
    \/ Reset(t, q)
    \/ Finalize(t, q)

Rpc(t) ==
    \/ WriteRequest(t)
    \/ ReadAnswer(t)
    \/ ReadFails(t)
    \/ ApplyState(t)
    \/ ApplyError(t)
    \/ ApplyOk(t)
    \/ Callback(t)
    \/ Fail(t)
    \/ ExecFails(t)
    \/ PrepareFails(t)
    \/ StepFails(t)

Next ==
    \/ \E t \in Thread :
          \/ Exec(t)
          \/ \E q \in Stmt : UseStmt(t, q)
          \/ \E v2 \in BOOLEAN : Close(t, v2)
          \/ Open(t)
          \/ Rpc(t)
    \/ Serve
    \/ BrokerDies

Spec == Init /\ [][Next]_vars

-----------------------------------------------------------------------------
(* Types of the handle, its statements and the calls in progress. *)
ShimTypeOK ==
    /\ db \in ProxyDb
    /\ stmt \in [Stmt -> ProxyStmt]
    /\ stream \in Thread \cup {NoThread}
    /\ sent \in Seq(Request) /\ answers \in Seq(Response)
    /\ session \in {"open", "closed", "dead"} /\ txn \in BOOLEAN
    /\ call \in [Thread -> Calling]
    /\ \A t \in Thread : WellFormed(call[t])
    /\ code \in [Thread -> Codes]
    /\ ran \in [Stmt -> Nat]

(* rpc holds the stream from write_msg to read_msg: whatever answer is on its
   way belongs to the one thread that waits for it, however many share the
   handle. *)
AnswersReachTheirCallers ==
    /\ \A i \in DOMAIN answers : answers[i].by = stream
    /\ \A t \in Thread :
          call[t].at \in {"apply", "errcode", "callback"} => call[t].reply.by = t

(* The discipline behind it: the lock is held exactly while its thread waits
   for an answer, at most one message is under way, none outlives the lock,
   and nothing is sent for a handle that is closed. *)
ExchangeIInv ==
    /\ \A t \in Thread : call[t].at = "answer" <=> stream = t
    /\ \A i \in DOMAIN sent : sent[i].by = stream
    /\ Len(sent) + Len(answers) <= 1
    /\ stream = NoThread => sent = <<>> /\ answers = <<>>
    /\ session # "open" => sent = <<>>
    /\ db.closed => \A t \in Thread : call[t].at \notin {"stream", "answer"}
    /\ ~db.registered => db.closed
    /\ session = "closed" <=> ~db.registered
    /\ AnswersReachTheirCallers

(* The life of the statements.  A statement is in one call at a time; a call
   on it is a prepare that does not have it yet, or the run of one that has
   not started; a closed handle is only reached through its statements. *)
CallsApart ==
    \A t, u \in Thread : call[t].stmt \in Stmt /\ call[u].stmt = call[t].stmt => u = t

CallsFit ==
    \A t \in Thread :
        /\ call[t].op \in {"none", "exec"} => call[t].stmt = NoStmt
        /\ call[t].op = "prepare" => call[t].stmt \notin db.stmts
        /\ call[t].op = "step" => /\ call[t].stmt \in db.stmts
                                 /\ ~stmt[call[t].stmt].started
        /\ call[t].at = "callback" => call[t].op = "exec"
        /\ db.closed => call[t].op \in {"none", "step"}

(* What is under way is the message of the thread that waits for its answer,
   and the rows it brings were computed with the parameters still bound. *)
RowsFit(t, r) == call[t].op = "step" => r.of = Params(call[t].stmt)

LineFits ==
    /\ \A i \in DOMAIN sent : sent[i] = Message(stream)
    /\ \A i \in DOMAIN answers : RowsFit(stream, answers[i])
    /\ \A t \in Thread : call[t].at \in {"apply", "errcode"} => RowsFit(t, call[t].reply)

(* Statements that cannot have run: not prepared, or not started and in no
   call that has got beyond the request. *)
NotRun(q) ==
    \/ q \notin db.stmts
    \/ /\ ~stmt[q].started
       /\ \A t \in Thread : call[t].stmt = q =>
             call[t].at = "stream" \/ (stream = t /\ sent # <<>>)

RunsCounted == \A q \in Stmt : ran[q] <= 1 /\ (NotRun(q) => ran[q] = 0)

(* sqlite3_step sends a statement's text to the broker once, whether it fails
   or not, and again only after sqlite3_reset (step_stmt, `started`). *)
RunsOncePerReset == \A q \in Stmt : ran[q] <= 1

(* The rows step hands out were computed with the parameters that are bound:
   binds are refused between the run and the reset. *)
RowsBelongToBindings ==
    \A q \in Stmt :
        stmt[q].started /\ ~stmt[q].failed /\ stmt[q].params # "unbound" =>
            stmt[q].of = stmt[q].params

(* The handle and its broker session live exactly until the handle is closed
   and its last statement finalized, in whichever order (close_v2 first). *)
HandleOutlivesItsStatements ==
    /\ db.registered <=> ~(db.closed /\ db.stmts = {})
    /\ session = "closed" <=> ~db.registered

(* The inductive invariant. *)
ShimIInv ==
    /\ ShimTypeOK /\ ExchangeIInv
    /\ CallsApart /\ CallsFit /\ LineFits
    /\ RunsCounted /\ RowsBelongToBindings /\ HandleOutlivesItsStatements

(* Between calls, sqlite3_get_autocommit tells the state of the broker's
   connection, also after a text that failed half way (apply). *)
MirrorTracksTransaction ==
    (session = "open" /\ \A t \in Thread : AtPlace(t, "idle")) =>
        (db.autocommit <=> ~txn)

(* The inductive invariant behind it, for one thread and answers that decode:
   the mirror is behind only from the moment the broker has run the text until
   its answer has been applied. *)
InStep == db.autocommit <=> ~txn
Told(r) == r.autocommit <=> ~txn

MirrorIInv ==
    session = "open" =>
        /\ \A i \in DOMAIN answers : Told(answers[i])
        /\ stream # NoThread => sent # <<>> \/ answers # <<>>
        /\ \A t \in Thread :
              /\ call[t].at \in {"apply", "errcode", "callback"} => Told(call[t].reply)
              /\ call[t].at \notin {"answer", "apply"} => InStep
        /\ sent # <<>> => InStep

(* A call whose exchange failed, or whose text the broker refused, does not
   return SQLITE_OK. *)
Reported(t, ops) ==
    AtPlace(t, "error") /\ call[t].op \in ops /\ call'[t] # call[t] =>
        code'[t] \notin {"ok", "row", "done"}

(* ... for sqlite3_exec and sqlite3_step, whatever other threads do between
   apply and the second look at errcode. *)
ExecAndStepReportErrors ==
    [][\A t \in Thread : Reported(t, {"exec", "step"})]_vars

(* ... and for sqlite3_prepare_v2.  "The caller waits for its own result"
   (docs/standalone.md:57). *)
PrepareReportsErrors ==
    [][\A t \in Thread : Reported(t, {"prepare"})]_vars

(* The handle as the broker's client_loop meets it. *)
OnLine(q) == IF session = "open" THEN Len(q) ELSE 0

Line == INSTANCE SessionLine WITH
    session  <- session,
    asked    <- OnLine(sent),
    answered <- OnLine(answers)

(* However many threads share the handle, its session sees one call at a
   time, and Close only after the last answer has been taken. *)
OneCallAtATime == Line!Spec

=============================================================================
