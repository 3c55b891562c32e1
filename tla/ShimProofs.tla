------------------------------ MODULE ShimProofs ------------------------------
(***************************************************************************)
(* The exchange of a shared handle with the broker, for every number of    *)
(* threads and statements, checked by TLAPS.                               *)
(***************************************************************************)
EXTENDS Shim, SequenceTheorems, TLAPS

-----------------------------------------------------------------------------
(* The record updates the actions are made of keep their types. *)
LEMMA RowTypes ==
    ASSUME NEW s \in ProxyStmt
    PROVE  NextRow(s) \in ProxyStmt
<1>1. MaxRows \in Nat /\ {"row", "done"} \subseteq Codes
  BY ShimAssumptions DEF Codes
<1>2. CASE s.pos < s.rows
  <2>1. s.pos \in 0..MaxRows /\ s.rows \in 0..MaxRows
    BY DEF ProxyStmt
  <2>2. s.pos + 1 \in 0..MaxRows
    BY <1>1, <1>2, <2>1
  <2> QED
    BY <1>1, <1>2, <2>2 DEF NextRow, ProxyStmt
<1>3. CASE ~(s.pos < s.rows)
  BY <1>1, <1>3 DEF NextRow, ProxyStmt
<1> QED
  BY <1>2, <1>3

LEMMA NewTypes == NewDb \in ProxyDb /\ NewStmt \in ProxyStmt /\ NoCall \in Calling
BY ShimAssumptions
   DEF NewDb, NewStmt, NoCall, NoReply, ProxyDb, ProxyStmt, Calling, ErrCodes,
       Codes, Bindings, Places

LEMMA GoToTypes ==
    ASSUME ShimTypeOK, NEW t \in Thread, NEW p \in Places, GoTo(t, p),
           p # "idle", ~AtPlace(t, "idle"),
           p \in {"apply", "errcode", "callback"} => call[t].reply \in Response
    PROVE  /\ call' \in [Thread -> Calling]
           /\ \A u \in Thread : WellFormed(call'[u])
           /\ call'[t] = [call[t] EXCEPT !.at = p]
           /\ \A u \in Thread \ {t} : call'[u] = call[u]
<1>1. call'[t] = [call[t] EXCEPT !.at = p] /\ \A u \in Thread \ {t} : call'[u] = call[u]
  BY DEF GoTo, ShimTypeOK
<1>2. call' \in [Thread -> Calling]
  BY DEF GoTo, ShimTypeOK, Calling
<1>3. call[t] \in Calling /\ WellFormed(call[t])
  BY DEF ShimTypeOK
<1>4. WellFormed(call'[t])
  BY <1>1, <1>3 DEF WellFormed, Calling, AtPlace
<1> QED
  BY <1>1, <1>2, <1>4 DEF ShimTypeOK

LEMMA ReturnTypes ==
    ASSUME ShimTypeOK, NEW t \in Thread, NEW c \in Codes, Returns(t, c)
    PROVE  /\ call' \in [Thread -> Calling] /\ code' \in [Thread -> Codes]
           /\ \A u \in Thread : WellFormed(call'[u])
           /\ call'[t] = NoCall
           /\ \A u \in Thread \ {t} : call'[u] = call[u]
<1>1. WellFormed(NoCall)
  BY DEF WellFormed, NoCall
<1> QED
  BY <1>1, NewTypes DEF Returns, ShimTypeOK

-----------------------------------------------------------------------------
(* The messages and answers are what their types say. *)
LEMMA MessageTypes ==
    ASSUME ShimTypeOK, NEW t \in Thread, call[t].op \in {"exec", "prepare", "step"}
    PROVE  Message(t) \in Request /\ Message(t).by = t
<1>1. call[t] \in Calling
  BY DEF ShimTypeOK
<1>2. call[t].stmt \in Stmt \cup {NoStmt}
  BY <1>1 DEF Calling
<1>3. Params(call[t].stmt) \in Bindings
  BY <1>2 DEF ShimTypeOK, Params, Bindings, ProxyStmt
<1>4. "unbound" \in Bindings
  BY DEF Bindings
<1> QED
  BY <1>2, <1>3, <1>4 DEF Message, Request

(* Serve answers the first request, for the thread that made it. *)
LEMMA ServeTypes ==
    ASSUME ShimTypeOK, Serve
    PROVE  /\ sent # <<>> /\ sent' = Tail(sent) /\ session = "open"
           /\ txn' \in BOOLEAN /\ ran' \in [Stmt -> Nat]
           /\ \E r \in Response :
                 r.by = Head(sent).by /\ answers' = Append(answers, r)
<1> DEFINE m == Head(sent)
<1>1. sent # <<>> /\ sent' = Tail(sent) /\ session = "open"
  BY DEF Serve
<1>2. m \in Request
  BY <1>1 DEF ShimTypeOK
<1>3. 0 \in 0..MaxRows
  BY ShimAssumptions
<1>4. CASE m.op = "prepare"
  <2>1. PICK c \in {"ok", "error"}, e \in BOOLEAN :
           /\ answers' = Append(answers, [by |-> m.by, code |-> c, rows |-> 0,
                 autocommit |-> ~txn, of |-> "unbound", empty |-> e])
           /\ UNCHANGED <<txn, ran>>
    BY <1>4 DEF Serve, AnswerPrepare
  <2>2. [by |-> m.by, code |-> c, rows |-> 0, autocommit |-> ~txn,
         of |-> "unbound", empty |-> e] \in Response
    BY <1>2, <1>3 DEF Response, Request, ErrCodes, Bindings
  <2> QED
    BY <1>1, <2>1, <2>2 DEF ShimTypeOK
<1>5. CASE m.op # "prepare"
  <2>1. PICK c \in {"ok", "error"}, n \in 0..MaxRows, open \in BOOLEAN :
           /\ txn' = open
           /\ answers' = Append(answers, [by |-> m.by, code |-> c, rows |-> n,
                 autocommit |-> ~open, of |-> m.params, empty |-> FALSE])
           /\ ran' = IF m.op = "step" THEN [ran EXCEPT ![m.stmt] = @ + 1] ELSE ran
    BY <1>5 DEF Serve, AnswerExec
  <2>2. [by |-> m.by, code |-> c, rows |-> n, autocommit |-> ~open,
         of |-> m.params, empty |-> FALSE] \in Response
    BY <1>2 DEF Response, Request, ErrCodes, Bindings
  <2>3. ran' \in [Stmt -> Nat]
    <3>1. ran \in [Stmt -> Nat] /\ \A q \in Stmt : ran[q] + 1 \in Nat
      BY DEF ShimTypeOK
    <3>2. [ran EXCEPT ![m.stmt] = ran[m.stmt] + 1] \in [Stmt -> Nat]
      <4>1. CASE m.stmt \in Stmt
        BY <3>1, <4>1
      <4>2. CASE m.stmt \notin Stmt
        BY <3>1, <4>2
      <4> QED
        BY <4>1, <4>2
    <3> QED
      BY <2>1, <3>1, <3>2
  <2> QED
    BY <1>1, <2>1, <2>2, <2>3
<1> QED
  BY <1>4, <1>5

-----------------------------------------------------------------------------
(* Every step keeps the types. *)
LEMMA EnterTypes ==
    ASSUME ShimTypeOK, NEW t \in Thread, NEW op \in {"exec", "prepare", "step"},
           NEW q \in Stmt \cup {NoStmt}, op # "exec" => q \in Stmt,
           Enter(t, op, q)
    PROVE  /\ ShimTypeOK'
           /\ call'[t] = [op |-> op, stmt |-> q, reply |-> NoReply,
                          at |-> IF db.closed THEN "fail" ELSE "stream"]
           /\ \A u \in Thread \ {t} : call'[u] = call[u]
<1> DEFINE c == [op |-> op, stmt |-> q, reply |-> NoReply,
                 at |-> IF db.closed THEN "fail" ELSE "stream"]
<1>1. c \in Calling
  BY DEF Calling, Places
<1>2. call' = [call EXCEPT ![t] = c] /\ code' = [code EXCEPT ![t] = "none"]
  BY DEF Enter
<1>3. call \in [Thread -> Calling] /\ code \in [Thread -> Codes] /\ "none" \in Codes
  BY DEF ShimTypeOK, Calling, Codes
<1>4. call' \in [Thread -> Calling] /\ code' \in [Thread -> Codes]
  BY <1>1, <1>2, <1>3
<1>5. WellFormed(c)
  BY DEF WellFormed
<1>6. /\ call'[t] = c
      /\ \A u \in Thread \ {t} : call'[u] = call[u]
      /\ \A u \in Thread : WellFormed(call'[u])
  BY <1>2, <1>3, <1>5 DEF ShimTypeOK
<1>7. UNCHANGED <<db, stmt, lineVars, ran>>
  BY DEF Enter
<1> QED
  BY <1>4, <1>6, <1>7 DEF ShimTypeOK, lineVars

(* A call that was entered: what its record holds at each place. *)
LEMMA CallFacts ==
    ASSUME ShimTypeOK, NEW t \in Thread
    PROVE  /\ call[t] \in Calling
           /\ ~AtPlace(t, "idle") => call[t].op \in {"exec", "prepare", "step"}
           /\ call[t].op \in {"prepare", "step"} => call[t].stmt \in Stmt
           /\ call[t].at \in {"apply", "errcode", "callback"} =>
                 /\ call[t].reply \in Response
                 /\ call[t].reply.code \in ErrCodes
                 /\ call[t].reply.autocommit \in BOOLEAN
                 /\ call[t].reply.rows \in 0..MaxRows
                 /\ call[t].reply.of \in Bindings
<1>1. call[t] \in Calling /\ WellFormed(call[t])
  BY DEF ShimTypeOK
<1>2. ~AtPlace(t, "idle") => call[t].op \in {"exec", "prepare", "step"}
  BY <1>1 DEF Calling, WellFormed, AtPlace
<1> QED
  BY <1>1, <1>2 DEF WellFormed, Response

LEMMA WriteRequestTypes ==
    ASSUME ShimTypeOK, NEW t \in Thread, WriteRequest(t)
    PROVE  ShimTypeOK'
<1>1. AtPlace(t, "stream")
  BY DEF WriteRequest
<1>2. PICK p \in {"answer", "fail"} : GoTo(t, p)
  BY DEF WriteRequest
<1>3. p \in Places /\ p # "idle" /\ p \notin {"apply", "errcode", "callback"}
  BY DEF Places
<1>4. call' \in [Thread -> Calling] /\ \A u \in Thread : WellFormed(call'[u])
  BY <1>1, <1>2, <1>3, GoToTypes DEF AtPlace
<1>5. Message(t) \in Request
  BY <1>1, CallFacts, MessageTypes DEF AtPlace
<1>6. sent \in Seq(Request) /\ Append(sent, Message(t)) \in Seq(Request)
  BY <1>5 DEF ShimTypeOK
<1>7. sent' \in {sent, Append(sent, Message(t))} /\ stream' \in {t, stream}
  BY DEF WriteRequest
<1>8. sent' \in Seq(Request) /\ stream' \in Thread \cup {NoThread}
  BY <1>6, <1>7 DEF ShimTypeOK
<1> QED
  BY <1>4, <1>8 DEF WriteRequest, ShimTypeOK

LEMMA ReadAnswerTypes ==
    ASSUME ShimTypeOK, NEW t \in Thread, ReadAnswer(t)
    PROVE  /\ ShimTypeOK'
           /\ \/ call'[t] = [call[t] EXCEPT !.at = "apply", !.reply = Head(answers)]
              \/ call'[t] = [call[t] EXCEPT !.at = "fail"]
           /\ \A u \in Thread \ {t} : call'[u] = call[u]
<1>1. AtPlace(t, "answer") /\ answers # <<>> /\ answers' = Tail(answers)
  BY DEF ReadAnswer
<1>2. Head(answers) \in Response /\ answers' \in Seq(Response)
  BY <1>1 DEF ShimTypeOK
<1>3. /\ call' \in [Thread -> Calling]
      /\ \A u \in Thread : WellFormed(call'[u])
      /\ \/ call'[t] = [call[t] EXCEPT !.at = "apply", !.reply = Head(answers)]
         \/ call'[t] = [call[t] EXCEPT !.at = "fail"]
      /\ \A u \in Thread \ {t} : call'[u] = call[u]
  <2>1. CASE GoTo(t, "fail")
    BY <1>1, <2>1, GoToTypes DEF Places, AtPlace
  <2>2. CASE call' = [call EXCEPT ![t].at = "apply", ![t].reply = Head(answers)]
    <3> DEFINE c == [call[t] EXCEPT !.at = "apply", !.reply = Head(answers)]
    <3>1. call[t] \in Calling /\ WellFormed(call[t])
      BY DEF ShimTypeOK
    <3>2. c \in Calling
      BY <1>2, <3>1 DEF Calling, Places
    <3>3. WellFormed(c)
      BY <1>1, <1>2, <3>1 DEF WellFormed, Calling, AtPlace
    <3>4. call' = [call EXCEPT ![t] = c]
      BY <2>2, <3>1 DEF ShimTypeOK, Calling
    <3> HIDE DEF c
    <3>5. call'[t] = c /\ \A u \in Thread \ {t} : call'[u] = call[u]
      BY <3>4 DEF ShimTypeOK
    <3>6. call' \in [Thread -> Calling] /\ \A u \in Thread : WellFormed(call'[u])
      BY <3>2, <3>3, <3>4, <3>5 DEF ShimTypeOK
    <3> QED
      BY <3>5, <3>6 DEF c
  <2> QED
    BY <2>1, <2>2 DEF ReadAnswer
<1> QED
  BY <1>2, <1>3 DEF ReadAnswer, ShimTypeOK

-----------------------------------------------------------------------------
(* What the steps that do not touch the exchange have in common. *)
Applying == {"apply", "errcode", "callback"}

Quiet(t) ==
    /\ UNCHANGED lineVars
    /\ db'.closed = db.closed /\ db'.registered = db.registered
    /\ \A u \in Thread \ {t} : call'[u] = call[u]
    /\ call[t].at # "answer" /\ call'[t].at # "answer"
    /\ call'[t].at = "stream" => ~db.closed
    /\ call'[t].at \in Applying =>
          call[t].at \in Applying /\ call'[t].reply.by = call[t].reply.by

LEMMA EnterQuiet ==
    ASSUME ShimTypeOK, NEW t \in Thread,
           \/ Exec(t)
           \/ \E q \in Stmt : Prepare(t, q) \/ Step(t, q)
    PROVE  ShimTypeOK' /\ Quiet(t)
<1>1. PICK op \in {"exec", "prepare", "step"}, q \in Stmt \cup {NoStmt} :
         Enter(t, op, q) /\ (op # "exec" => q \in Stmt)
  BY DEF Exec, Prepare, Step
<1>2. AtPlace(t, "idle")
  BY DEF Exec, Prepare, Step, MayCall
<1>3. /\ ShimTypeOK'
      /\ call'[t] = [op |-> op, stmt |-> q, reply |-> NoReply,
                     at |-> IF db.closed THEN "fail" ELSE "stream"]
      /\ \A u \in Thread \ {t} : call'[u] = call[u]
  BY <1>1, EnterTypes
<1>4. UNCHANGED <<db, lineVars>>
  BY <1>1 DEF Enter
<1> QED
  BY <1>2, <1>3, <1>4 DEF Quiet, Applying, AtPlace

(* A step that ends the call, or goes on to another local place. *)
LEMMA ReturnQuiet ==
    ASSUME ShimTypeOK, NEW t \in Thread, NEW c \in Codes, Returns(t, c),
           ~AtPlace(t, "answer"), UNCHANGED lineVars,
           db' \in ProxyDb, db'.closed = db.closed, db'.registered = db.registered,
           stmt' \in [Stmt -> ProxyStmt], ran' \in [Stmt -> Nat]
    PROVE  ShimTypeOK' /\ Quiet(t)
<1>1. /\ call' \in [Thread -> Calling] /\ code' \in [Thread -> Codes]
      /\ \A u \in Thread : WellFormed(call'[u])
      /\ call'[t] = NoCall
      /\ \A u \in Thread \ {t} : call'[u] = call[u]
  BY ReturnTypes
<1>2. ShimTypeOK'
  BY <1>1 DEF ShimTypeOK, lineVars
<1>3. Quiet(t)
  BY <1>1 DEF Quiet, NoCall, AtPlace, Applying
<1> QED
  BY <1>2, <1>3

LEMMA GoToQuiet ==
    ASSUME ShimTypeOK, NEW t \in Thread,
           NEW p \in {"errcode", "callback", "error"}, GoTo(t, p),
           p # "error" => call[t].at \in Applying,
           ~AtPlace(t, "answer"), ~AtPlace(t, "idle"), UNCHANGED lineVars,
           db' \in ProxyDb, db'.closed = db.closed, db'.registered = db.registered,
           UNCHANGED <<stmt, code, ran>>
    PROVE  ShimTypeOK' /\ Quiet(t)
<1>1. p \in Applying => call[t].reply \in Response
  BY CallFacts DEF Applying
<1>2. /\ call' \in [Thread -> Calling]
      /\ \A u \in Thread : WellFormed(call'[u])
      /\ call'[t] = [call[t] EXCEPT !.at = p]
      /\ \A u \in Thread \ {t} : call'[u] = call[u]
  BY <1>1, GoToTypes DEF Places, Applying
<1>3. ShimTypeOK'
  BY <1>2 DEF ShimTypeOK, lineVars
<1>4. call'[t].at = p /\ call'[t].reply = call[t].reply
  BY <1>2, CallFacts DEF Calling
<1>5. Quiet(t)
  BY <1>2, <1>4 DEF Quiet, Applying, AtPlace
<1> QED
  BY <1>3, <1>5

(* The error code is the only field most calls write. *)
LEMMA DbErrcode ==
    ASSUME ShimTypeOK, NEW e \in ErrCodes
    PROVE  /\ [db EXCEPT !.errcode = e] \in ProxyDb
           /\ [db EXCEPT !.errcode = e].closed = db.closed
           /\ [db EXCEPT !.errcode = e].registered = db.registered
BY DEF ShimTypeOK, ProxyDb

LEMMA ApplyQuiet ==
    ASSUME ShimTypeOK, NEW t \in Thread,
           ApplyState(t) \/ ApplyError(t) \/ Fail(t)
    PROVE  ShimTypeOK' /\ Quiet(t)
<1>1. CASE ApplyState(t)
  <2>1. call[t].reply.autocommit \in BOOLEAN /\ AtPlace(t, "apply")
    BY <1>1, CallFacts DEF ApplyState, AtPlace
  <2>2. /\ db' \in ProxyDb
        /\ db'.closed = db.closed /\ db'.registered = db.registered
    BY <1>1, <2>1 DEF ApplyState, ShimTypeOK, ProxyDb
  <2> QED
    BY <1>1, <2>1, <2>2, GoToQuiet DEF ApplyState, AtPlace, Applying
<1>2. CASE ApplyError(t)
  <2>1. call[t].reply.code \in ErrCodes /\ AtPlace(t, "errcode")
    BY <1>2, CallFacts DEF ApplyError, AtPlace
  <2> QED
    BY <1>2, <2>1, DbErrcode, GoToQuiet DEF ApplyError, AtPlace
<1>3. CASE Fail(t)
  BY <1>3, DbErrcode, GoToQuiet DEF Fail, AtPlace, ErrCodes
<1> QED
  BY <1>1, <1>2, <1>3

LEMMA ApplyOkQuiet ==
    ASSUME ShimTypeOK, NEW t \in Thread, ApplyOk(t)
    PROVE  ShimTypeOK' /\ Quiet(t)
<1>1. AtPlace(t, "errcode") /\ UNCHANGED lineVars
  BY DEF ApplyOk
<1>2. {"ok", "row", "done"} \subseteq Codes /\ "ok" \in ErrCodes
  BY DEF Codes, ErrCodes
<1>3. /\ stmt \in [Stmt -> ProxyStmt] /\ ran \in [Stmt -> Nat]
      /\ call[t].reply.rows \in 0..MaxRows /\ call[t].reply.of \in Bindings
  BY <1>1, CallFacts DEF ShimTypeOK, AtPlace
<1>4. CASE ExecSucceeds(t)
  <2>1. CASE Returns(t, "ok")
    BY <1>1, <1>2, <1>3, <1>4, <2>1, DbErrcode, ReturnQuiet DEF ExecSucceeds, AtPlace
  <2>2. CASE ~Returns(t, "ok")
    BY <1>1, <1>2, <1>4, <2>2, DbErrcode, GoToQuiet DEF ExecSucceeds, AtPlace, Applying
  <2> QED
    BY <2>1, <2>2
<1>5. CASE PrepareSucceeds(t)
  <2> DEFINE q == call[t].stmt
  <2>1. q \in Stmt
    BY <1>5, CallFacts DEF PrepareSucceeds
  <2>2. Returns(t, "ok")
    BY <1>5 DEF PrepareSucceeds
  <2>3. CASE call[t].reply.empty
    BY <1>1, <1>2, <1>3, <1>5, <2>2, <2>3, DbErrcode, ReturnQuiet
       DEF PrepareSucceeds, AtPlace
  <2>4. CASE ~call[t].reply.empty
    <3>1. /\ db' = [db EXCEPT !.errcode = "ok", !.stmts = @ \cup {q}]
          /\ stmt' = [stmt EXCEPT ![q] = NewStmt]
          /\ ran' = [ran EXCEPT ![q] = 0]
      BY <1>5, <2>4 DEF PrepareSucceeds
    <3>2. /\ db' \in ProxyDb
          /\ db'.closed = db.closed /\ db'.registered = db.registered
      BY <1>2, <2>1, <3>1 DEF ShimTypeOK, ProxyDb
    <3>3. stmt' \in [Stmt -> ProxyStmt] /\ ran' \in [Stmt -> Nat]
      BY <1>3, <3>1, NewTypes
    <3> QED
      BY <1>1, <1>2, <2>2, <3>2, <3>3, ReturnQuiet DEF AtPlace
  <2> QED
    BY <2>3, <2>4
<1>6. CASE StepSucceeds(t)
  <2> DEFINE q == call[t].stmt
             s == [stmt[q] EXCEPT !.rows = call[t].reply.rows,
                                  !.of = call[t].reply.of,
                                  !.pos = 0, !.failed = FALSE,
                                  !.started = TRUE]
  <2>1. q \in Stmt
    BY <1>6, CallFacts DEF StepSucceeds
  <2>2. 0 \in 0..MaxRows
    BY ShimAssumptions
  <2>3. s \in ProxyStmt
    BY <1>3, <2>1, <2>2 DEF ProxyStmt
  <2>4. NextRow(s) \in ProxyStmt /\ NextRow(s).last \in Codes
    BY <2>3, RowTypes DEF ProxyStmt
  <2>5. /\ stmt' = [stmt EXCEPT ![q] = NextRow(s)]
        /\ Returns(t, NextRow(s).last)
        /\ db' = [db EXCEPT !.errcode = "ok"]
        /\ UNCHANGED ran
    BY <1>6 DEF StepSucceeds
  <2>6. stmt' \in [Stmt -> ProxyStmt]
    BY <1>3, <2>4, <2>5
  <2> HIDE DEF s
  <2> QED
    BY <1>1, <1>2, <1>3, <2>4, <2>5, <2>6, DbErrcode, ReturnQuiet DEF AtPlace
<1> QED
  BY <1>4, <1>5, <1>6 DEF ApplyOk

LEMMA CallbackQuiet ==
    ASSUME ShimTypeOK, NEW t \in Thread, Callback(t)
    PROVE  ShimTypeOK' /\ Quiet(t)
<1>1. AtPlace(t, "callback") /\ UNCHANGED <<db, stmt, lineVars, ran>>
  BY DEF Callback
<1>2. /\ db \in ProxyDb /\ stmt \in [Stmt -> ProxyStmt] /\ ran \in [Stmt -> Nat]
      /\ call \in [Thread -> Calling]
  BY DEF ShimTypeOK
<1>3. CASE Returns(t, "ok")
  BY <1>1, <1>2, <1>3, ReturnQuiet DEF AtPlace, Codes, ErrCodes
<1>4. CASE /\ call' = [call EXCEPT ![t].at = "apply", ![t].reply.code = "abort"]
           /\ UNCHANGED code
  <2> DEFINE r == [call[t].reply EXCEPT !.code = "abort"]
             c == [call[t] EXCEPT !.at = "apply", !.reply = r]
  <2>1. call[t] \in Calling /\ call[t].reply \in Response /\ WellFormed(call[t])
    BY <1>1, CallFacts DEF AtPlace, ShimTypeOK
  <2>2. r \in Response /\ r.by = call[t].reply.by
    BY <2>1 DEF Response, ErrCodes
  <2>3. call' = [call EXCEPT ![t] = c]
    <3>1. call' = [call EXCEPT ![t] = [[call[t] EXCEPT !.at = "apply"] EXCEPT
                      !.reply = [[call[t] EXCEPT !.at = "apply"].reply EXCEPT !.code = "abort"]]]
      BY <1>2, <1>4
    <3>2. [call[t] EXCEPT !.at = "apply"].reply = call[t].reply
      BY <2>1 DEF Calling
    <3> QED
      BY <3>1, <3>2
  <2> HIDE DEF r
  <2>4. c \in Calling /\ c.at = "apply" /\ c.reply = r
    BY <2>1, <2>2 DEF Calling, Places
  <2>5. WellFormed(c)
    BY <1>1, <2>1, <2>2 DEF WellFormed, Calling, AtPlace
  <2> HIDE DEF c
  <2>6. call'[t] = c /\ \A u \in Thread \ {t} : call'[u] = call[u]
    BY <1>2, <2>3
  <2>7. call' \in [Thread -> Calling] /\ \A u \in Thread : WellFormed(call'[u])
    BY <1>2, <2>3, <2>4, <2>5, <2>6 DEF ShimTypeOK
  <2>8. ShimTypeOK'
    BY <1>1, <1>4, <2>7 DEF ShimTypeOK, lineVars
  <2>9. Quiet(t)
    BY <1>1, <2>2, <2>4, <2>6 DEF Quiet, Applying, AtPlace
  <2> QED
    BY <2>8, <2>9
<1> QED
  BY <1>3, <1>4 DEF Callback

LEMMA FailsQuiet ==
    ASSUME ShimTypeOK, NEW t \in Thread,
           ExecFails(t) \/ PrepareFails(t) \/ StepFails(t)
    PROVE  ShimTypeOK' /\ Quiet(t)
<1>1. AtPlace(t, "error") /\ UNCHANGED <<db, lineVars, ran>>
  BY DEF ExecFails, PrepareFails, StepFails
<1>2. /\ db \in ProxyDb /\ stmt \in [Stmt -> ProxyStmt] /\ ran \in [Stmt -> Nat]
      /\ db.errcode \in ErrCodes /\ ErrCodes \subseteq Codes
  BY DEF ShimTypeOK, ProxyDb, Codes
<1>3. ErrorOf(t) \in ErrCodes
  BY <1>2 DEF ErrorOf, ErrCodes
<1>4. CASE ExecFails(t)
  BY <1>1, <1>2, <1>3, <1>4, ReturnQuiet DEF ExecFails, AtPlace
<1>5. CASE PrepareFails(t)
  BY <1>1, <1>2, <1>5, ReturnQuiet DEF PrepareFails, AtPlace
<1>6. CASE StepFails(t)
  <2>1. call[t].stmt \in Stmt
    BY <1>6, CallFacts DEF StepFails
  <2>2. stmt' \in [Stmt -> ProxyStmt]
    <3> DEFINE q == call[t].stmt
               s == [stmt[q] EXCEPT !.failed = TRUE, !.started = TRUE,
                                    !.last = ErrorOf(t)]
    <3>1. stmt[q] \in ProxyStmt
      BY <1>2, <2>1
    <3>2. s \in ProxyStmt
      BY <1>2, <1>3, <3>1 DEF ProxyStmt
    <3>3. stmt' = [stmt EXCEPT ![q] = s]
      <4>1. stmt' = [stmt EXCEPT ![q].failed = TRUE, ![q].started = TRUE,
                                 ![q].last = ErrorOf(t)]
        BY <1>6 DEF StepFails
      <4> QED
        BY <1>2, <2>1, <3>1, <4>1 DEF ProxyStmt
    <3> HIDE DEF s
    <3> QED
      BY <1>2, <2>1, <3>2, <3>3
  <2> QED
    BY <1>1, <1>2, <1>3, <1>6, <2>2, ReturnQuiet DEF StepFails, AtPlace
<1> QED
  BY <1>4, <1>5, <1>6

LEMMA UseQuiet ==
    ASSUME ShimTypeOK, NEW t \in Thread, NEW q \in Stmt,
           \/ StepOn(t, q)
           \/ \E v \in Values : Bind(t, q, v)
           \/ ClearBindings(t, q)
           \/ Reset(t, q)
    PROVE  ShimTypeOK' /\ Quiet(t)
<1>1. AtPlace(t, "idle") /\ UNCHANGED <<db, lineVars>>
  BY DEF StepOn, Bind, ClearBindings, Reset, MayCall
<1>2. /\ db \in ProxyDb /\ stmt \in [Stmt -> ProxyStmt] /\ ran \in [Stmt -> Nat]
      /\ stmt[q].last \in Codes /\ stmt[q].params \in Bindings
      /\ {"ok", "misuse"} \subseteq Codes
      /\ stmt[q] \in ProxyStmt
  <2>1. stmt[q] \in ProxyStmt
    BY DEF ShimTypeOK
  <2>2. stmt[q].last \in Codes /\ stmt[q].params \in Bindings
    BY <2>1 DEF ProxyStmt
  <2> QED
    BY <2>1, <2>2 DEF ShimTypeOK, Codes, ErrCodes
<1>3. CASE StepOn(t, q)
  <2>1. NextRow(stmt[q]) \in ProxyStmt /\ NextRow(stmt[q]).last \in Codes
    BY <1>2, RowTypes DEF ProxyStmt
  <2>2. CASE stmt[q].failed
    BY <1>1, <1>2, <1>3, <2>2, ReturnQuiet DEF StepOn, AtPlace
  <2>3. CASE ~stmt[q].failed
    <3>1. /\ stmt' = [stmt EXCEPT ![q] = NextRow(stmt[q])]
          /\ Returns(t, NextRow(stmt[q]).last) /\ UNCHANGED ran
      BY <1>3, <2>3 DEF StepOn
    <3>2. stmt' \in [Stmt -> ProxyStmt]
      BY <1>2, <2>1, <3>1
    <3> QED
      BY <1>1, <1>2, <2>1, <3>1, <3>2, ReturnQuiet DEF AtPlace
  <2> QED
    BY <2>2, <2>3
<1>4. CASE \E v \in Values : Bind(t, q, v)
  <2>1. PICK v \in Values : Bind(t, q, v)
    BY <1>4
  <2>2. [stmt EXCEPT ![q].params = v] \in [Stmt -> ProxyStmt]
    BY <1>2 DEF ProxyStmt, Bindings
  <2>3. PICK c \in {"ok", "misuse"} : Returns(t, c)
    BY <2>1 DEF Bind
  <2>4. stmt' \in [Stmt -> ProxyStmt] /\ UNCHANGED ran
    BY <1>2, <2>1, <2>2 DEF Bind
  <2> QED
    BY <1>1, <1>2, <2>3, <2>4, ReturnQuiet DEF AtPlace
<1>5. CASE ClearBindings(t, q)
  <2>1. [stmt EXCEPT ![q].params = "unbound"] \in [Stmt -> ProxyStmt]
    BY <1>2 DEF ProxyStmt, Bindings
  <2> QED
    BY <1>1, <1>2, <1>5, <2>1, ReturnQuiet DEF ClearBindings, AtPlace
<1>6. CASE Reset(t, q)
  <2>1. [NewStmt EXCEPT !.params = stmt[q].params] \in ProxyStmt
    BY <1>2, NewTypes DEF ProxyStmt
  <2>2. stmt' \in [Stmt -> ProxyStmt] /\ ran' \in [Stmt -> Nat]
    BY <1>2, <1>6, <2>1 DEF Reset
  <2> QED
    BY <1>1, <1>2, <1>6, <2>2, ReturnQuiet DEF Reset, AtPlace
<1> QED
  BY <1>3, <1>4, <1>5, <1>6

-----------------------------------------------------------------------------
(* Quiet steps keep the exchange as it is. *)
LEMMA QuietInv ==
    ASSUME ShimTypeOK, ExchangeIInv, NEW t \in Thread, Quiet(t)
    PROVE  ExchangeIInv'
<1>1. /\ sent' = sent /\ answers' = answers /\ stream' = stream
      /\ session' = session /\ db'.closed = db.closed
      /\ db'.registered = db.registered
  BY DEF Quiet, lineVars
<1>2. \A u \in Thread : call'[u].at = "answer" <=> call[u].at = "answer"
  BY DEF Quiet
<1>3. \A u \in Thread : call'[u].at = "stream" /\ call[u].at # "stream" => ~db.closed
  BY DEF Quiet
<1>4. \A u \in Thread :
         call'[u].at \in {"apply", "errcode", "callback"} => call'[u].reply.by = u
  BY DEF Quiet, Applying, ExchangeIInv, AnswersReachTheirCallers
<1>5. db.closed => \A u \in Thread : call'[u].at \notin {"stream", "answer"}
  BY <1>2, <1>3 DEF ExchangeIInv
<1> QED
  BY <1>1, <1>2, <1>4, <1>5 DEF ExchangeIInv, AnswersReachTheirCallers

LEMMA OneOfTwo ==
    ASSUME NEW a \in Nat, NEW b \in Nat, a + b <= 1
    PROVE  (a # 0 => a = 1 /\ b = 0) /\ (b # 0 => b = 1 /\ a = 0)
OBVIOUS

LEMMA Singleton ==
    ASSUME NEW S, NEW q \in Seq(S), Len(q) = 1
    PROVE  Tail(q) = <<>> /\ Head(q) = q[1] /\ 1 \in DOMAIN q
<1>1. q # <<>>
  BY EmptySeq
<1>2. Tail(q) \in Seq(S) /\ Len(Tail(q)) = 0 /\ Head(q) = q[1]
  BY <1>1, HeadTailProperties
<1>3. Tail(q) = <<>>
  BY <1>2, EmptySeq
<1>4. DOMAIN q = 1..Len(q)
  BY LenProperties
<1>5. 1 \in DOMAIN q
  BY <1>4
<1> QED
  BY <1>2, <1>3, <1>5

(* With at most one message under way, queues are empty or singletons. *)
LEMMA AtMostOne ==
    ASSUME ShimTypeOK, ExchangeIInv
    PROVE  /\ Len(sent) \in Nat /\ Len(answers) \in Nat
           /\ sent # <<>> => /\ Len(sent) = 1 /\ Tail(sent) = <<>>
                             /\ answers = <<>> /\ Len(answers) = 0
                             /\ Head(sent).by = stream
           /\ answers # <<>> => /\ Len(answers) = 1 /\ Tail(answers) = <<>>
                                /\ sent = <<>> /\ Len(sent) = 0
                                /\ Head(answers).by = stream
<1>1. sent \in Seq(Request) /\ answers \in Seq(Response)
  BY DEF ShimTypeOK
<1>2. /\ Len(sent) \in Nat /\ (Len(sent) = 0 <=> sent = <<>>)
      /\ Len(answers) \in Nat /\ (Len(answers) = 0 <=> answers = <<>>)
  BY <1>1, EmptySeq, LenProperties
<1>3. Len(sent) + Len(answers) <= 1
  BY DEF ExchangeIInv
<1>4. ASSUME sent # <<>>
      PROVE  Len(sent) = 1 /\ Tail(sent) = <<>> /\ answers = <<>> /\ Head(sent).by = stream
  <2>1. Len(sent) = 1 /\ Len(answers) = 0
    <3>1. Len(sent) # 0
      BY <1>2, <1>4
    <3> QED
      BY <1>2, <1>3, <3>1, OneOfTwo
  <2>2. Tail(sent) = <<>> /\ Head(sent) = sent[1] /\ 1 \in DOMAIN sent
    BY <1>1, <2>1, Singleton
  <2>3. \A i \in DOMAIN sent : sent[i].by = stream
    BY DEF ExchangeIInv, AnswersReachTheirCallers
  <2> QED
    BY <1>2, <2>1, <2>2, <2>3
<1>5. ASSUME answers # <<>>
      PROVE  Len(answers) = 1 /\ Tail(answers) = <<>> /\ sent = <<>> /\ Head(answers).by = stream
  <2>1. Len(answers) = 1 /\ Len(sent) = 0
    <3>1. Len(answers) # 0
      BY <1>2, <1>5
    <3> QED
      BY <1>2, <1>3, <3>1, OneOfTwo
  <2>2. Tail(answers) = <<>> /\ Head(answers) = answers[1] /\ 1 \in DOMAIN answers
    BY <1>1, <2>1, Singleton
  <2>3. \A i \in DOMAIN answers : answers[i].by = stream
    BY DEF ExchangeIInv, AnswersReachTheirCallers
  <2> QED
    BY <1>2, <2>1, <2>2, <2>3
<1> QED
  BY <1>2, <1>4, <1>5

LEMMA WriteRequestInv ==
    ASSUME ShimTypeOK, ExchangeIInv, NEW t \in Thread, WriteRequest(t)
    PROVE  ExchangeIInv'
<1>1. /\ call[t].at = "stream" /\ stream = NoThread
      /\ UNCHANGED <<db, answers, session>>
      /\ sent = <<>> /\ answers = <<>>
      /\ ~db.closed
  BY DEF WriteRequest, AtPlace, ExchangeIInv
<1>2. NoThread \notin Thread /\ call[t] \in Calling
  BY ShimAssumptions DEF ShimTypeOK
<1>3. ASSUME NEW p, GoTo(t, p)
      PROVE  /\ call'[t].at = p /\ call'[t].reply = call[t].reply
             /\ \A u \in Thread \ {t} : call'[u] = call[u]
  BY <1>2, <1>3 DEF GoTo, ShimTypeOK, Calling
<1>4. CASE GoTo(t, "fail") /\ UNCHANGED <<sent, stream>>
  BY <1>1, <1>2, <1>3, <1>4 DEF ExchangeIInv, AnswersReachTheirCallers
<1>5. CASE /\ sent' = IF session = "open" THEN Append(sent, Message(t)) ELSE sent
           /\ stream' = t
           /\ GoTo(t, "answer")
  <2>1. Message(t).by = t
    BY DEF Message
  <2>2. Append(sent, Message(t)) = <<Message(t)>>
    BY <1>1
  <2>3. /\ sent' \in {<<>>, <<Message(t)>>} /\ answers' = <<>>
        /\ session' # "open" => sent' = <<>>
    BY <1>1, <1>5, <2>2
  <2>4. /\ Len(sent') + Len(answers') <= 1
        /\ \A i \in DOMAIN sent' : sent'[i].by = t
    BY <2>1, <2>3
  <2>5. \A u \in Thread : call'[u].at = "answer" <=> stream' = u
    BY <1>1, <1>2, <1>3, <1>5 DEF ExchangeIInv
  <2>6. \A u \in Thread :
           call'[u].at \in {"apply", "errcode", "callback"} => call'[u].reply.by = u
    BY <1>3, <1>5 DEF ExchangeIInv, AnswersReachTheirCallers
  <2>7. stream' # NoThread /\ ~db'.closed
    BY <1>1, <1>2, <1>5
  <2> QED
    BY <1>1, <1>5, <2>3, <2>4, <2>5, <2>6, <2>7
       DEF ExchangeIInv, AnswersReachTheirCallers
<1> QED
  BY <1>4, <1>5 DEF WriteRequest

(* The lock is released with nothing under way. *)
LEMMA ReleaseInv ==
    ASSUME ShimTypeOK, ExchangeIInv, NEW t \in Thread,
           call[t].at = "answer", stream' = NoThread,
           sent' = <<>>, answers' = <<>>, UNCHANGED <<db, session>>,
           call'[t].at \in {"apply", "fail"},
           call'[t].at = "apply" => call'[t].reply.by = t,
           \A u \in Thread \ {t} : call'[u] = call[u]
    PROVE  ExchangeIInv'
<1>1. stream = t /\ NoThread \notin Thread
  BY ShimAssumptions DEF ExchangeIInv
<1>2. \A u \in Thread : call'[u].at # "answer"
  BY <1>1 DEF ExchangeIInv
<1>3. \A u \in Thread :
         call'[u].at \in {"apply", "errcode", "callback"} => call'[u].reply.by = u
  BY DEF ExchangeIInv, AnswersReachTheirCallers
<1>4. Len(sent') + Len(answers') <= 1
  OBVIOUS
<1> QED
  BY <1>1, <1>2, <1>3, <1>4 DEF ExchangeIInv, AnswersReachTheirCallers

LEMMA ReadAnswerInv ==
    ASSUME ShimTypeOK, ExchangeIInv, NEW t \in Thread, ReadAnswer(t)
    PROVE  ExchangeIInv'
<1>1. /\ call[t].at = "answer" /\ answers # <<>> /\ stream' = NoThread
      /\ answers' = Tail(answers) /\ UNCHANGED <<db, sent, session>>
  BY DEF ReadAnswer, AtPlace
<1>2. answers' = <<>> /\ sent' = <<>> /\ Head(answers).by = stream /\ stream = t
  BY <1>1, AtMostOne DEF ExchangeIInv
<1>3. call[t] \in Calling
  BY DEF ShimTypeOK
<1>4. /\ call'[t].at \in {"apply", "fail"}
      /\ call'[t].at = "apply" => call'[t].reply.by = t
      /\ \A u \in Thread \ {t} : call'[u] = call[u]
  BY <1>2, <1>3, ReadAnswerTypes DEF Calling
<1> QED
  BY <1>1, <1>2, <1>4, ReleaseInv

LEMMA ReadFailsInv ==
    ASSUME ShimTypeOK, ExchangeIInv, NEW t \in Thread, ReadFails(t)
    PROVE  ShimTypeOK' /\ ExchangeIInv'
<1>1. /\ call[t].at = "answer" /\ stream' = NoThread /\ GoTo(t, "fail")
      /\ answers' = <<>> /\ sent' = <<>> /\ UNCHANGED <<db, session>>
  BY DEF ReadFails, AtPlace, ExchangeIInv
<1>2. /\ call' \in [Thread -> Calling]
      /\ \A u \in Thread : WellFormed(call'[u])
      /\ call'[t] = [call[t] EXCEPT !.at = "fail"]
      /\ \A u \in Thread \ {t} : call'[u] = call[u]
  BY <1>1, GoToTypes DEF AtPlace, Places
<1>3. ShimTypeOK'
  BY <1>2 DEF ReadFails, ShimTypeOK
<1>4. call'[t].at = "fail"
  BY <1>2 DEF ShimTypeOK, Calling
<1> QED
  BY <1>1, <1>2, <1>3, <1>4, ReleaseInv

-----------------------------------------------------------------------------
(* Closing: when Destroy is possible, nothing is under way. *)
LEMMA ClosedIsQuiet ==
    ASSUME ShimTypeOK, ExchangeIInv,
           db.closed \/ \A u \in Thread : AtPlace(u, "idle")
    PROVE  stream = NoThread /\ sent = <<>> /\ answers = <<>>
BY DEF ShimTypeOK, ExchangeIInv, AtPlace

(* The handle is marked closed (closing), and destroyed or kept. *)
LEMMA CloseStep ==
    ASSUME ShimTypeOK, ExchangeIInv, NEW t \in Thread, NEW c \in Codes,
           NEW d \in ProxyDb, d.closed, d.registered, db.registered,
           db.closed \/ \A u \in Thread : AtPlace(u, "idle"),
           Returns(t, c),
           Destroy(d) \/ (db' = d /\ UNCHANGED lineVars),
           stmt' \in [Stmt -> ProxyStmt], ran' \in [Stmt -> Nat]
    PROVE  ShimTypeOK' /\ ExchangeIInv'
<1>1. /\ call' \in [Thread -> Calling] /\ code' \in [Thread -> Codes]
      /\ \A u \in Thread : WellFormed(call'[u])
      /\ call'[t] = NoCall
      /\ \A u \in Thread \ {t} : call'[u] = call[u]
  BY ReturnTypes
<1>2. /\ db' \in ProxyDb /\ db'.closed
      /\ session' \in {"open", "closed", "dead"} /\ txn' \in BOOLEAN
      /\ session' = "closed" <=> ~db'.registered
      /\ UNCHANGED <<stream, sent, answers>>
  BY DEF Destroy, ProxyDb, ShimTypeOK, ExchangeIInv, lineVars
<1>3. ShimTypeOK'
  BY <1>1, <1>2 DEF ShimTypeOK
<1>4. stream = NoThread /\ sent = <<>> /\ answers = <<>> /\ NoThread \notin Thread
  BY ClosedIsQuiet, ShimAssumptions
<1>5. \A u \in Thread : call'[u].at \notin {"stream", "answer"}
  BY <1>1 DEF NoCall, ExchangeIInv, AtPlace
<1>6. \A u \in Thread :
         call'[u].at \in {"apply", "errcode", "callback"} => call'[u].reply.by = u
  BY <1>1 DEF NoCall, ExchangeIInv, AnswersReachTheirCallers
<1>7. \A u \in Thread : call'[u].at = "answer" <=> stream' = u
  BY <1>2, <1>4, <1>5
<1>8. Len(sent') + Len(answers') <= 1
  BY <1>2 DEF ExchangeIInv
<1> QED
  BY <1>2, <1>3, <1>4, <1>5, <1>6, <1>7, <1>8
     DEF ExchangeIInv, AnswersReachTheirCallers

LEMMA FinalizeInv ==
    ASSUME ShimTypeOK, ExchangeIInv, NEW t \in Thread, NEW q \in Stmt,
           Finalize(t, q)
    PROVE  ShimTypeOK' /\ ExchangeIInv'
<1> DEFINE d == [db EXCEPT !.stmts = @ \ {q}]
<1>1. /\ db.registered /\ AtPlace(t, "idle") /\ Returns(t, "ok")
      /\ stmt' = [stmt EXCEPT ![q] = NewStmt]
      /\ ran' = [ran EXCEPT ![q] = 0]
  BY DEF Finalize, MayCall
<1>2. /\ d \in ProxyDb /\ d.closed = db.closed /\ d.registered = db.registered
      /\ "ok" \in Codes
  BY DEF ShimTypeOK, ProxyDb, Codes, ErrCodes
<1>3. stmt' \in [Stmt -> ProxyStmt] /\ ran' \in [Stmt -> Nat]
  BY <1>1, NewTypes DEF ShimTypeOK
<1>4. CASE d.closed /\ d.stmts = {}
  <2>1. Destroy(d)
    BY <1>4 DEF Finalize
  <2> QED
    BY <1>1, <1>2, <1>3, <1>4, <2>1, CloseStep
<1>5. CASE ~(d.closed /\ d.stmts = {})
  <2>1. db' = d /\ UNCHANGED lineVars
    BY <1>5 DEF Finalize
  <2> QED
    BY <1>1, <1>2, <1>3, <2>1, ReturnQuiet, QuietInv DEF AtPlace
<1> QED
  BY <1>4, <1>5

LEMMA CloseInv ==
    ASSUME ShimTypeOK, ExchangeIInv, NEW t \in Thread, NEW v2 \in BOOLEAN,
           Close(t, v2)
    PROVE  ShimTypeOK' /\ ExchangeIInv'
<1> DEFINE d == [db EXCEPT !.closed = TRUE]
<1>1. /\ db.registered /\ UNCHANGED <<stmt, ran>>
      /\ \A u \in Thread : AtPlace(u, "idle")
  BY DEF Close, MayCall
<1>2. /\ stmt' \in [Stmt -> ProxyStmt] /\ ran' \in [Stmt -> Nat]
      /\ db \in ProxyDb /\ {"ok", "busy"} \subseteq Codes
  BY <1>1 DEF ShimTypeOK, Codes, ErrCodes
<1>3. CASE ~v2 /\ db.stmts # {}
  <2>1. Returns(t, "busy") /\ UNCHANGED <<db, lineVars>>
    BY <1>3 DEF Close
  <2> QED
    BY <1>1, <1>2, <2>1, ReturnQuiet, QuietInv DEF AtPlace
<1>4. CASE ~(~v2 /\ db.stmts # {})
  <2>1. Returns(t, "ok") /\ (Destroy(d) \/ (db' = d /\ UNCHANGED lineVars))
    BY <1>4 DEF Close
  <2>2. d \in ProxyDb /\ d.closed /\ d.registered
    BY <1>1, <1>2 DEF ProxyDb
  <2> HIDE DEF d
  <2> QED
    BY <1>1, <1>2, <2>1, <2>2, CloseStep
<1> QED
  BY <1>3, <1>4

LEMMA OpenInv ==
    ASSUME ShimTypeOK, ExchangeIInv, NEW t \in Thread, Open(t)
    PROVE  ShimTypeOK' /\ ExchangeIInv'
<1>1. /\ ~db.registered /\ db' = NewDb /\ session' = "open" /\ txn' = FALSE
      /\ Returns(t, "ok") /\ UNCHANGED <<stmt, stream, sent, answers, ran>>
  BY DEF Open
<1>2. /\ call' \in [Thread -> Calling] /\ code' \in [Thread -> Codes]
      /\ \A u \in Thread : WellFormed(call'[u])
      /\ call'[t] = NoCall
      /\ \A u \in Thread \ {t} : call'[u] = call[u]
  BY <1>1, ReturnTypes DEF Codes, ErrCodes
<1>3. ShimTypeOK'
  BY <1>1, <1>2, NewTypes DEF ShimTypeOK
<1>4. /\ stream = NoThread /\ sent = <<>> /\ answers = <<>>
      /\ \A u \in Thread : call[u].at # "answer"
  BY <1>1, ClosedIsQuiet DEF ExchangeIInv
<1>5. \A u \in Thread : call'[u].at # "answer"
  BY <1>2, <1>4 DEF NoCall
<1>6. \A u \in Thread :
         call'[u].at \in {"apply", "errcode", "callback"} => call'[u].reply.by = u
  BY <1>2 DEF NoCall, ExchangeIInv, AnswersReachTheirCallers
<1>7. /\ NoThread \notin Thread /\ NewDb.registered /\ ~NewDb.closed
      /\ Len(sent') + Len(answers') <= 1
  BY <1>1, ShimAssumptions DEF NewDb, ExchangeIInv
<1> QED
  BY <1>1, <1>3, <1>4, <1>5, <1>6, <1>7
     DEF ExchangeIInv, AnswersReachTheirCallers

-----------------------------------------------------------------------------
(* The broker's steps. *)
LEMMA ServeInv ==
    ASSUME ShimTypeOK, ExchangeIInv, Serve
    PROVE  ShimTypeOK' /\ ExchangeIInv' /\ Len(answers') = 1 /\ sent' = <<>>
<1>1. PICK r \in Response : r.by = Head(sent).by /\ answers' = Append(answers, r)
  BY ServeTypes
<1>2. /\ sent # <<>> /\ sent' = Tail(sent) /\ session = "open"
      /\ txn' \in BOOLEAN /\ ran' \in [Stmt -> Nat]
  BY ServeTypes
<1>3. UNCHANGED <<db, stmt, stream, session, call, code>>
  BY DEF Serve
<1>4. sent' = <<>> /\ answers = <<>> /\ r.by = stream
  BY <1>1, <1>2, AtMostOne
<1>5. answers' = <<r>>
  BY <1>1, <1>4
<1>6. ShimTypeOK'
  BY <1>2, <1>3, <1>4, <1>5 DEF ShimTypeOK
<1>7. Len(answers') = 1 /\ Len(sent') + Len(answers') <= 1
  BY <1>4, <1>5
<1>8. \A i \in DOMAIN answers' : answers'[i].by = stream'
  BY <1>3, <1>4, <1>5
<1>9. stream # NoThread
  BY <1>2 DEF ExchangeIInv
<1> QED
  BY <1>3, <1>4, <1>6, <1>7, <1>8, <1>9 DEF ExchangeIInv, AnswersReachTheirCallers

LEMMA BrokerDiesInv ==
    ASSUME ShimTypeOK, ExchangeIInv, BrokerDies
    PROVE  ShimTypeOK' /\ ExchangeIInv'
<1>1. /\ session = "open" /\ session' = "dead" /\ txn' = FALSE
      /\ sent' = <<>> /\ answers' \in {answers, <<>>}
      /\ UNCHANGED <<db, stmt, stream, call, code, ran>>
  BY DEF BrokerDies
<1>2. ShimTypeOK'
  <2>1. sent' \in Seq(Request) /\ answers' \in Seq(Response)
    BY <1>1, EmptySeq DEF ShimTypeOK
  <2> QED
    BY <1>1, <2>1 DEF ShimTypeOK
<1>3. Len(sent') + Len(answers') <= 1
  <2>1. Len(answers) <= 1 /\ Len(answers) \in Nat
    BY AtMostOne, OneOfTwo DEF ExchangeIInv
  <2> QED
    BY <1>1, <2>1
<1> QED
  BY <1>1, <1>2, <1>3 DEF ExchangeIInv, AnswersReachTheirCallers

-----------------------------------------------------------------------------
(* The steps of Next, sorted by what they do to the exchange. *)
Closes(t) ==
    \/ \E q \in Stmt : Finalize(t, q)
    \/ \E v2 \in BOOLEAN : Close(t, v2)

LEMMA NextCases ==
    ASSUME ShimTypeOK, Next
    PROVE  \/ \E t \in Thread :
                 \/ ShimTypeOK' /\ Quiet(t)
                 \/ WriteRequest(t)
                 \/ ReadAnswer(t)
                 \/ ReadFails(t)
                 \/ Closes(t)
                 \/ Open(t)
           \/ Serve
           \/ BrokerDies
<1>1. ASSUME NEW t \in Thread, Rpc(t)
      PROVE  \/ ShimTypeOK' /\ Quiet(t)
             \/ WriteRequest(t)
             \/ ReadAnswer(t)
             \/ ReadFails(t)
  BY <1>1, ApplyQuiet, ApplyOkQuiet, CallbackQuiet, FailsQuiet DEF Rpc
<1>2. ASSUME NEW t \in Thread, NEW q \in Stmt, UseStmt(t, q)
      PROVE  (ShimTypeOK' /\ Quiet(t)) \/ Closes(t)
  BY <1>2, EnterQuiet, UseQuiet DEF UseStmt, Closes
<1>3. ASSUME NEW t \in Thread, Exec(t)
      PROVE  ShimTypeOK' /\ Quiet(t)
  BY <1>3, EnterQuiet
<1> QED
  BY <1>1, <1>2, <1>3 DEF Next, Closes

LEMMA ShimInit == Init => ShimTypeOK /\ ExchangeIInv
<1> SUFFICES ASSUME Init
             PROVE  ShimTypeOK /\ ExchangeIInv
  OBVIOUS
<1>1. /\ db = NewDb /\ stmt = [q \in Stmt |-> NewStmt]
      /\ stream = NoThread /\ sent = <<>> /\ answers = <<>>
      /\ session = "open" /\ txn = FALSE
      /\ call = [t \in Thread |-> NoCall]
      /\ code = [t \in Thread |-> "none"]
      /\ ran = [q \in Stmt |-> 0]
  BY DEF Init
<1>2. sent \in Seq(Request) /\ answers \in Seq(Response)
  BY <1>1, EmptySeq
<1>3. WellFormed(NoCall)
  BY DEF WellFormed, NoCall
<1>4. ShimTypeOK
  BY <1>1, <1>2, <1>3, NewTypes DEF ShimTypeOK, Codes
<1>5. ExchangeIInv
  BY <1>1, ShimAssumptions
     DEF ExchangeIInv, AnswersReachTheirCallers, NoCall, NewDb
<1> QED
  BY <1>4, <1>5

LEMMA ShimStep == ShimTypeOK /\ ExchangeIInv /\ [Next]_vars => (ShimTypeOK /\ ExchangeIInv)'
<1> SUFFICES ASSUME ShimTypeOK, ExchangeIInv, [Next]_vars
             PROVE  ShimTypeOK' /\ ExchangeIInv'
  OBVIOUS
<1>1. CASE UNCHANGED vars
  BY <1>1 DEF vars, lineVars, ShimTypeOK, ExchangeIInv, AnswersReachTheirCallers
<1>2. CASE Next
  <2>1. ASSUME NEW t \in Thread, ShimTypeOK', Quiet(t)
        PROVE  ShimTypeOK' /\ ExchangeIInv'
    BY <2>1, QuietInv
  <2>2. ASSUME NEW t \in Thread, WriteRequest(t) \/ ReadAnswer(t) \/ ReadFails(t)
        PROVE  ShimTypeOK' /\ ExchangeIInv'
    BY <2>2, WriteRequestTypes, WriteRequestInv, ReadAnswerTypes,
       ReadAnswerInv, ReadFailsInv
  <2>3. ASSUME NEW t \in Thread, Closes(t) \/ Open(t)
        PROVE  ShimTypeOK' /\ ExchangeIInv'
    BY <2>3, FinalizeInv, CloseInv, OpenInv DEF Closes
  <2> QED
    BY <1>2, <2>1, <2>2, <2>3, NextCases, ServeInv, BrokerDiesInv
<1> QED
  BY <1>1, <1>2

(* The exchange discipline and the types hold for any number of threads and
   statements, whichever exchanges fail and whenever the broker dies. *)
THEOREM ExchangeCorrect == Spec => [](ShimTypeOK /\ ExchangeIInv)
<1> QED
  BY ShimInit, ShimStep, PTL DEF Spec

(* An answer under way belongs to the thread that waits for it: threads that
   share a handle never receive each other's results (rpc). *)
THEOREM CallersGetTheirOwnAnswers == Spec => []AnswersReachTheirCallers
<1>1. ShimTypeOK /\ ExchangeIInv => AnswersReachTheirCallers
  BY DEF ExchangeIInv
<1> QED
  BY <1>1, ExchangeCorrect, PTL

-----------------------------------------------------------------------------
(* Each step of the handle is a step of the session's line, or none. *)
LEMMA NoLineStep ==
    ASSUME UNCHANGED <<sent, answers, session>>
    PROVE  UNCHANGED Line!vars
BY DEF Line!vars, OnLine

LEMMA DestroyIsClose ==
    ASSUME ShimTypeOK, ExchangeIInv, NEW d, Destroy(d), db.registered,
           db.closed \/ \A u \in Thread : AtPlace(u, "idle")
    PROVE  Line!Close
<1>1. sent = <<>> /\ answers = <<>> /\ session # "closed"
  BY ClosedIsQuiet DEF ExchangeIInv
<1>2. session' = "closed" /\ UNCHANGED <<sent, answers>>
  BY DEF Destroy
<1> QED
  BY <1>1, <1>2 DEF Line!Close, Line!Idle, OnLine

LEMMA LineStep ==
    ASSUME ShimTypeOK, ExchangeIInv, Next
    PROVE  Line!Next \/ UNCHANGED Line!vars
<1>1. ASSUME NEW t \in Thread, Quiet(t)
      PROVE  UNCHANGED Line!vars
  BY <1>1, NoLineStep DEF Quiet, lineVars
<1>2. ASSUME NEW t \in Thread, WriteRequest(t)
      PROVE  Line!Ask \/ UNCHANGED Line!vars
  <2>1. CASE UNCHANGED sent
    BY <1>2, <2>1, NoLineStep DEF WriteRequest
  <2>2. CASE sent' # sent
    <3>1. /\ session = "open" /\ sent' = Append(sent, Message(t))
          /\ stream = NoThread /\ UNCHANGED <<answers, session>>
      BY <1>2, <2>2 DEF WriteRequest
    <3>2. sent = <<>> /\ answers = <<>>
      BY <3>1 DEF ExchangeIInv
    <3>3. sent' = <<Message(t)>> /\ Len(sent') = 1 /\ Len(sent) = 0 /\ Len(answers) = 0
      BY <3>1, <3>2
    <3> QED
      BY <3>1, <3>3 DEF Line!Ask, Line!Idle, OnLine
  <2> QED
    BY <2>1, <2>2
<1>3. ASSUME NEW t \in Thread, ReadAnswer(t)
      PROVE  Line!Take \/ UNCHANGED Line!vars
  <2>1. answers # <<>> /\ answers' = Tail(answers) /\ UNCHANGED <<sent, session>>
    BY <1>3 DEF ReadAnswer
  <2>2. Len(answers) = 1 /\ answers' = <<>> /\ Len(answers') = 0
    BY <2>1, AtMostOne
  <2> QED
    BY <2>1, <2>2 DEF Line!Take, Line!vars, OnLine
<1>4. ASSUME NEW t \in Thread, ReadFails(t)
      PROVE  UNCHANGED Line!vars
  BY <1>4, NoLineStep DEF ReadFails
<1>5. ASSUME NEW t \in Thread, Closes(t)
      PROVE  Line!Close \/ UNCHANGED Line!vars
  <2>1. CASE \E q \in Stmt : Finalize(t, q)
    <3>1. PICK q \in Stmt : Finalize(t, q)
      BY <2>1
    <3> DEFINE d == [db EXCEPT !.stmts = @ \ {q}]
    <3>2. db.registered /\ d.closed = db.closed
      BY <3>1 DEF Finalize, MayCall, ShimTypeOK, ProxyDb
    <3>3. \/ d.closed /\ Destroy(d)
          \/ UNCHANGED lineVars
      BY <3>1 DEF Finalize
    <3> HIDE DEF d
    <3> QED
      BY <3>2, <3>3, DestroyIsClose, NoLineStep DEF lineVars
  <2>2. CASE \E v2 \in BOOLEAN : Close(t, v2)
    <3>1. PICK v2 \in BOOLEAN : Close(t, v2)
      BY <2>2
    <3>2. db.registered /\ \A u \in Thread : AtPlace(u, "idle")
      BY <3>1 DEF Close, MayCall
    <3>3. \/ Destroy([db EXCEPT !.closed = TRUE])
          \/ UNCHANGED lineVars
      BY <3>1 DEF Close
    <3> QED
      BY <3>2, <3>3, DestroyIsClose, NoLineStep DEF lineVars
  <2> QED
    BY <1>5, <2>1, <2>2 DEF Closes
<1>6. ASSUME NEW t \in Thread, Open(t)
      PROVE  Line!Reopen
  <2>1. /\ session' = "open" /\ UNCHANGED <<sent, answers>> /\ ~db.registered
    BY <1>6 DEF Open
  <2>2. sent = <<>> /\ answers = <<>> /\ session = "closed"
    BY <2>1, ClosedIsQuiet DEF ExchangeIInv
  <2> QED
    BY <2>1, <2>2 DEF Line!Reopen, OnLine
<1>7. ASSUME Serve
      PROVE  Line!Reply
  <2>1. sent # <<>> /\ session = "open" /\ session' = session
    BY <1>7 DEF Serve
  <2>2. Len(sent) = 1 /\ sent' = <<>> /\ Len(sent') = 0 /\ Len(answers') = 1
    BY <1>7, <2>1, AtMostOne, ServeInv
  <2> QED
    BY <2>1, <2>2 DEF Line!Reply, OnLine
<1>8. ASSUME BrokerDies
      PROVE  Line!Die
  BY <1>8 DEF BrokerDies, Line!Die, OnLine
<1> QED
  BY <1>1, <1>2, <1>3, <1>4, <1>5, <1>6, <1>7, <1>8, NextCases DEF Line!Next

(* However many threads share it, the handle makes one call at a time on its
   session, takes every answer, and closes only in between: what the broker's
   client_loop relies on. *)
THEOREM HandleKeepsTheLine == Spec => OneCallAtATime
<1>1. Init => Line!Init
  BY DEF Init, Line!Init, Line!Idle, OnLine
<1>2. ShimTypeOK /\ ExchangeIInv /\ [Next]_vars => [Line!Next]_(Line!vars)
  <2>1. UNCHANGED vars => UNCHANGED Line!vars
    BY NoLineStep DEF vars, lineVars
  <2> QED
    BY <2>1, LineStep
<1> QED
  BY <1>1, <1>2, ExchangeCorrect, PTL DEF Spec, OneCallAtATime, Line!Spec

(* The handle, its statements and the threads on it keep their types: what is
   linked to a handle, how far a statement may be into its rows, and what a
   thread at each place is in the middle of. *)
THEOREM ShimTypesHold == Spec => []ShimTypeOK
<1>1. ShimTypeOK /\ ExchangeIInv => ShimTypeOK
  OBVIOUS
<1> QED
  BY <1>1, ExchangeCorrect, PTL


-----------------------------------------------------------------------------
(* The life of statements and handle.  Steps are sorted by what they do to a
   call: it goes on, it begins, or it ends. *)
Life ==
    /\ CallsApart /\ CallsFit /\ LineFits
    /\ RunsCounted /\ RowsBelongToBindings /\ HandleOutlivesItsStatements

SameStmts == UNCHANGED <<stmt, ran, session>> /\ db'.stmts = db.stmts
             /\ db'.closed = db.closed /\ db'.registered = db.registered

LEMMA GoesOnLife ==
    ASSUME ShimTypeOK, ExchangeIInv, Life, SameStmts, NEW t \in Thread,
           call'[t].op = call[t].op, call'[t].stmt = call[t].stmt,
           \A u \in Thread \ {t} : call'[u] = call[u],
           call'[t].at # "stream", call'[t].at = "callback" => call[t].op = "exec",
           sent' = sent, answers' \in {answers, <<>>},
           stream' = stream \/ (sent = <<>> /\ answers' = <<>>),
           call'[t].at \in {"apply", "errcode"} => RowsFit(t, call'[t].reply)
    PROVE  Life'
<1>1. \A u \in Thread : call'[u].op = call[u].op /\ call'[u].stmt = call[u].stmt
  OBVIOUS
<1>2. CallsApart' /\ CallsFit'
  BY <1>1 DEF Life, CallsApart, CallsFit, SameStmts
<1>3. \A u \in Thread : \A r : RowsFit(u, r) => RowsFit(u, r)'
  BY <1>1 DEF RowsFit, Params, SameStmts
<1>4. LineFits'
  <2>1. ASSUME sent # <<>>
        PROVE  stream' = stream /\ stream \in Thread
    BY <2>1 DEF ExchangeIInv, ShimTypeOK
  <2>2. ASSUME sent # <<>>
        PROVE  Message(stream)' = Message(stream)
    BY <1>1, <2>1, <2>2 DEF Message, Params, SameStmts
  <2>3. ASSUME NEW i \in DOMAIN sent'
        PROVE  sent'[i] = Message(stream)'
    BY <2>2, <2>3 DEF Life, LineFits
  <2>4. ASSUME NEW i \in DOMAIN answers'
        PROVE  RowsFit(stream, answers[i])'
    <3>1. answers' = answers /\ stream' = stream /\ stream \in Thread
      BY <2>4 DEF ExchangeIInv, ShimTypeOK
    <3> QED
      BY <1>3, <2>4, <3>1 DEF Life, LineFits, RowsFit
  <2>5. ASSUME NEW u \in Thread, call'[u].at \in {"apply", "errcode"}
        PROVE  RowsFit(u, call[u].reply)'
    <3>1. CASE u = t
      BY <1>3, <2>5, <3>1 DEF RowsFit
    <3>2. CASE u # t
      BY <1>3, <2>5, <3>2 DEF Life, LineFits, RowsFit
    <3> QED
      BY <3>1, <3>2
  <2> QED
    BY <2>3, <2>4, <2>5 DEF LineFits
<1>5. RunsCounted'
  <2>1. ASSUME NEW q \in Stmt, NotRun(q)'
        PROVE  NotRun(q)
    BY <1>1, <2>1 DEF NotRun, SameStmts
  <2> QED
    BY <2>1 DEF Life, RunsCounted, SameStmts
<1>6. RowsBelongToBindings' /\ HandleOutlivesItsStatements'
  BY DEF Life, RowsBelongToBindings, HandleOutlivesItsStatements, SameStmts
<1> QED
  BY <1>2, <1>4, <1>5, <1>6 DEF Life

LEMMA EnterLife ==
    ASSUME ShimTypeOK, ExchangeIInv, Life, NEW t \in Thread,
           \/ Exec(t)
           \/ \E q \in Stmt : Prepare(t, q) \/ Step(t, q)
    PROVE  Life'
<1>1. PICK op \in {"exec", "prepare", "step"}, q \in Stmt \cup {NoStmt} :
         /\ Enter(t, op, q)
         /\ op # "exec" => q \in Stmt
         /\ op = "exec" => q = NoStmt /\ ~db.closed
         /\ op = "prepare" => q \in Stmt /\ q \notin db.stmts /\ ~db.closed
         /\ op = "step" => q \in Stmt /\ q \in db.stmts /\ ~stmt[q].started
         /\ q \in Stmt => \A u \in Thread : call[u].stmt # q
  BY ShimAssumptions DEF Exec, Prepare, Step, MayUse
<1>2. AtPlace(t, "idle") /\ call[t].stmt = NoStmt
  BY DEF Exec, Prepare, Step, MayCall, ShimTypeOK, WellFormed, AtPlace, Life, CallsFit
<1>3. /\ call'[t].op = op /\ call'[t].stmt = q
      /\ call'[t].at = IF db.closed THEN "fail" ELSE "stream"
      /\ \A u \in Thread \ {t} : call'[u] = call[u]
  <2>1. call'[t] = [op |-> op, stmt |-> q, reply |-> NoReply,
                    at |-> IF db.closed THEN "fail" ELSE "stream"]
    BY <1>1, EnterTypes
  <2>2. \A u \in Thread \ {t} : call'[u] = call[u]
    BY <1>1, EnterTypes
  <2> QED
    BY <2>1, <2>2
<1>4. UNCHANGED <<db, stmt, sent, answers, stream, session, ran>>
  BY <1>1 DEF Enter, lineVars
<1>5. CallsApart'
  BY <1>1, <1>3 DEF Life, CallsApart
<1>6. CallsFit'
  BY <1>1, <1>3, <1>4 DEF Life, CallsFit
<1>7. LineFits'
  <2>1. stream # t
    BY <1>2 DEF ExchangeIInv, AtPlace
  <2>2. ASSUME NEW u \in Thread \ {t}
        PROVE  /\ Message(u)' = Message(u)
               /\ \A r : RowsFit(u, r) => RowsFit(u, r)'
    BY <1>3, <1>4 DEF Message, RowsFit, Params
  <2>3. sent # <<>> \/ answers # <<>> => stream \in Thread \ {t}
    BY <2>1 DEF ExchangeIInv, ShimTypeOK
  <2>4. ASSUME NEW i \in DOMAIN sent'
        PROVE  sent'[i] = Message(stream)'
    <3>1. stream \in Thread \ {t} /\ sent[i] = Message(stream)
      BY <1>4, <2>3, <2>4 DEF Life, LineFits
    <3>2. Message(stream)' = Message(stream)
      BY <1>3, <1>4, <3>1 DEF Message, Params
    <3> QED
      BY <1>4, <3>1, <3>2
  <2>5. \A i \in DOMAIN answers' : RowsFit(stream, answers[i])'
    BY <1>4, <2>2, <2>3 DEF Life, LineFits, RowsFit
  <2>6. \A u \in Thread : call'[u].at \in {"apply", "errcode"} => RowsFit(u, call[u].reply)'
    BY <1>3, <2>2 DEF Life, LineFits, RowsFit
  <2> QED
    BY <2>4, <2>5, <2>6 DEF LineFits
<1>8. RunsCounted'
  <2>1. ASSUME NEW p \in Stmt, NotRun(p)'
        PROVE  NotRun(p)
    BY <1>1, <1>2, <1>3, <1>4, <2>1, ShimAssumptions DEF NotRun, AtPlace
  <2> QED
    BY <1>4, <2>1 DEF Life, RunsCounted
<1>9. RowsBelongToBindings' /\ HandleOutlivesItsStatements'
  BY <1>4 DEF Life, RowsBelongToBindings, HandleOutlivesItsStatements
<1> QED
  BY <1>5, <1>6, <1>7, <1>8, <1>9 DEF Life

(* A call that ends, and may have changed the statements T, which no other
   call uses: those that have run are prepared and started. *)
LEMMA ReturnLife ==
    ASSUME ShimTypeOK, ExchangeIInv, Life, NEW t \in Thread, NEW T \in SUBSET Stmt,
           call[t].at # "answer", call'[t] = NoCall,
           \A u \in Thread \ {t} : call'[u] = call[u] /\ call[u].stmt \notin T,
           UNCHANGED <<stream, sent, answers>>,
           \A q \in Stmt \ T : /\ stmt'[q] = stmt[q] /\ ran'[q] = ran[q]
                               /\ q \in db'.stmts <=> q \in db.stmts,
           \A q \in T : /\ \/ ran'[q] = 0
                           \/ ran'[q] <= 1 /\ q \in db'.stmts /\ stmt'[q].started
                        /\ stmt'[q].started /\ ~stmt'[q].failed
                              /\ stmt'[q].params # "unbound" =>
                                    stmt'[q].of = stmt'[q].params,
           call[t].stmt \in T \cup {NoStmt},
           db'.closed => db.closed \/ \A u \in Thread : AtPlace(u, "idle"),
           HandleOutlivesItsStatements'
    PROVE  Life'
<1>1. /\ NoCall.op = "none" /\ NoCall.stmt = NoStmt /\ NoCall.at = "idle"
      /\ NoStmt \notin Stmt
  BY ShimAssumptions DEF NoCall
<1>2. CallsApart'
  BY <1>1 DEF Life, CallsApart
<1>3. \A u \in Thread : call[u].op \in {"prepare", "step"} => call[u].stmt \in Stmt
  BY CallFacts
<1>4. CallsFit'
  <2>1. ASSUME NEW u \in Thread \ {t}
        PROVE  db'.closed => call[u].op \in {"none", "step"}
    BY <2>1 DEF Life, CallsFit, AtPlace, ShimTypeOK, WellFormed
  <2> QED
    BY <1>1, <1>3, <2>1 DEF Life, CallsFit
<1>5. LineFits'
  <2>1. ASSUME NEW u \in Thread \ {t}
        PROVE  call[u].op = "step" => Params(call[u].stmt)' = Params(call[u].stmt)
    BY <1>1, <1>3, <2>1 DEF Params
  <2>2. ASSUME NEW u \in Thread \ {t}
        PROVE  /\ Message(u)' = Message(u)
               /\ \A r : RowsFit(u, r) => RowsFit(u, r)'
    BY <2>1, <2>2 DEF Message, RowsFit
  <2>3. sent # <<>> \/ answers # <<>> => stream \in Thread \ {t}
    BY DEF ExchangeIInv, ShimTypeOK
  <2>4. ASSUME NEW i \in DOMAIN sent'
        PROVE  sent'[i] = Message(stream)'
    <3>1. stream \in Thread \ {t} /\ sent[i] = Message(stream) /\ stream' = stream
      BY <2>3, <2>4 DEF Life, LineFits
    <3>2. Message(stream)' = Message(stream)
      BY <2>1, <3>1 DEF Message, Params
    <3> QED
      BY <3>1, <3>2
  <2>5. \A i \in DOMAIN answers' : RowsFit(stream, answers[i])'
    BY <2>2, <2>3 DEF Life, LineFits, RowsFit
  <2>6. \A u \in Thread : call'[u].at \in {"apply", "errcode"} => RowsFit(u, call[u].reply)'
    BY <1>1, <2>2 DEF Life, LineFits, RowsFit
  <2> QED
    BY <2>4, <2>5, <2>6 DEF LineFits
<1>6. RunsCounted'
  <2>1. ASSUME NEW q \in T
        PROVE  ran'[q] <= 1 /\ (NotRun(q)' => ran'[q] = 0)
    BY <2>1 DEF NotRun
  <2>2. ASSUME NEW q \in Stmt \ T, NotRun(q)'
        PROVE  NotRun(q)
    BY <1>1, <2>2 DEF NotRun
  <2> QED
    BY <2>1, <2>2 DEF Life, RunsCounted
<1>7. RowsBelongToBindings'
  BY DEF Life, RowsBelongToBindings
<1> QED
  BY <1>2, <1>4, <1>5, <1>6, <1>7 DEF Life

(* One statement changes. *)
LEMMA ReturnOneLife ==
    ASSUME ShimTypeOK, ExchangeIInv, Life, NEW t \in Thread, NEW q \in Stmt,
           call[t].at # "answer", call'[t] = NoCall,
           \A u \in Thread \ {t} : call'[u] = call[u] /\ call[u].stmt # q,
           UNCHANGED <<stream, sent, answers>>,
           \A p \in Stmt \ {q} : /\ stmt'[p] = stmt[p] /\ ran'[p] = ran[p]
                                 /\ p \in db'.stmts <=> p \in db.stmts,
           ran'[q] = 0 \/ (ran'[q] <= 1 /\ q \in db'.stmts /\ stmt'[q].started),
           stmt'[q].started /\ ~stmt'[q].failed /\ stmt'[q].params # "unbound" =>
               stmt'[q].of = stmt'[q].params,
           call[t].stmt \in {q, NoStmt},
           db'.closed => db.closed \/ \A u \in Thread : AtPlace(u, "idle"),
           HandleOutlivesItsStatements'
    PROVE  Life'
<1> DEFINE T == {q}
<1>1. T \in SUBSET Stmt /\ call[t].stmt \in T \cup {NoStmt}
  OBVIOUS
<1>2. \A u \in Thread \ {t} : call'[u] = call[u] /\ call[u].stmt \notin T
  OBVIOUS
<1>3. \A p \in Stmt \ T : /\ stmt'[p] = stmt[p] /\ ran'[p] = ran[p]
                          /\ p \in db'.stmts <=> p \in db.stmts
  OBVIOUS
<1>4. \A p \in T : /\ \/ ran'[p] = 0
                      \/ ran'[p] <= 1 /\ p \in db'.stmts /\ stmt'[p].started
                   /\ stmt'[p].started /\ ~stmt'[p].failed
                         /\ stmt'[p].params # "unbound" =>
                               stmt'[p].of = stmt'[p].params
  OBVIOUS
<1> HIDE DEF T
<1> QED
  BY <1>1, <1>2, <1>3, <1>4, ReturnLife

LEMMA NextRowKeeps ==
    ASSUME NEW s \in ProxyStmt
    PROVE  /\ NextRow(s).started = s.started /\ NextRow(s).failed = s.failed
           /\ NextRow(s).of = s.of /\ NextRow(s).params = s.params
BY DEF NextRow, ProxyStmt

(* The steps of rpc that go on. *)
LEMMA GoToFacts ==
    ASSUME ShimTypeOK, NEW t \in Thread, NEW p, GoTo(t, p)
    PROVE  /\ call'[t].op = call[t].op /\ call'[t].stmt = call[t].stmt
           /\ call'[t].at = p /\ call'[t].reply = call[t].reply
           /\ \A u \in Thread \ {t} : call'[u] = call[u]
<1>1. call[t] \in Calling /\ call \in [Thread -> Calling]
  BY DEF ShimTypeOK
<1> QED
  BY <1>1 DEF GoTo, Calling

LEMMA ApplyLife ==
    ASSUME ShimTypeOK, ExchangeIInv, Life, NEW t \in Thread,
           ApplyState(t) \/ ApplyError(t) \/ Fail(t)
    PROVE  Life'
<1>1. PICK p \in {"errcode", "error"} :
         /\ GoTo(t, p)
         /\ p = "errcode" => AtPlace(t, "apply")
  BY DEF ApplyState, ApplyError, Fail
<1>2. UNCHANGED <<stmt, lineVars, ran>>
  BY DEF ApplyState, ApplyError, Fail
<1>3. SameStmts
  BY <1>2 DEF ApplyState, ApplyError, Fail, SameStmts, lineVars, ShimTypeOK, ProxyDb
<1>4. p = "errcode" => RowsFit(t, call[t].reply)
  BY <1>1 DEF AtPlace, Life, LineFits
<1>5. /\ call'[t].op = call[t].op /\ call'[t].stmt = call[t].stmt
      /\ call'[t].at = p /\ call'[t].reply = call[t].reply
      /\ \A u \in Thread \ {t} : call'[u] = call[u]
  BY <1>1, GoToFacts
<1> QED
  BY <1>2, <1>3, <1>4, <1>5, GoesOnLife DEF lineVars

LEMMA CallbackLife ==
    ASSUME ShimTypeOK, ExchangeIInv, Life, NEW t \in Thread, Callback(t)
    PROVE  Life'
<1>1. AtPlace(t, "callback") /\ UNCHANGED <<db, stmt, lineVars, ran>>
  BY DEF Callback
<1>2. call[t] \in Calling /\ call \in [Thread -> Calling] /\ call[t].op = "exec"
  BY <1>1 DEF ShimTypeOK, Life, CallsFit, AtPlace
<1>3. CASE Returns(t, "ok")
  <2>1. /\ call'[t] = NoCall /\ \A u \in Thread \ {t} : call'[u] = call[u]
        /\ call[t].stmt = NoStmt
    BY <1>2, <1>3 DEF Returns, Life, CallsFit
  <2>2. HandleOutlivesItsStatements'
    BY <1>1 DEF Life, HandleOutlivesItsStatements, lineVars
  <2> QED
    BY <1>1, <2>1, <2>2, ReturnLife, {} \in SUBSET Stmt DEF AtPlace, lineVars
<1>4. CASE call' = [call EXCEPT ![t].at = "apply", ![t].reply.code = "abort"]
  <2>1. /\ call'[t].op = "exec" /\ call'[t].stmt = call[t].stmt
        /\ call'[t].at = "apply"
        /\ \A u \in Thread \ {t} : call'[u] = call[u]
    BY <1>2, <1>4 DEF Calling
  <2>2. RowsFit(t, call'[t].reply)
    BY <1>2 DEF RowsFit
  <2> QED
    BY <1>1, <1>2, <2>1, <2>2, GoesOnLife DEF SameStmts, lineVars
<1> QED
  BY <1>3, <1>4 DEF Callback

(* A text runs its course: ApplyOk of the three operations. *)
LEMMA ApplyOkLife ==
    ASSUME ShimTypeOK, ExchangeIInv, Life, NEW t \in Thread, ApplyOk(t)
    PROVE  Life'
<1> DEFINE q == call[t].stmt
<1>1. AtPlace(t, "errcode") /\ UNCHANGED <<stream, sent, answers, session>>
  BY DEF ApplyOk, lineVars
<1>2. /\ call[t] \in Calling /\ call \in [Thread -> Calling]
      /\ db \in ProxyDb /\ stmt \in [Stmt -> ProxyStmt] /\ ran \in [Stmt -> Nat]
  BY DEF ShimTypeOK
<1>3. ASSUME NEW c, Returns(t, c)
      PROVE  call'[t] = NoCall /\ \A u \in Thread \ {t} : call'[u] = call[u]
  BY <1>2, <1>3 DEF Returns
<1>4. q \in Stmt => \A u \in Thread \ {t} : call[u].stmt # q
  BY DEF Life, CallsApart
<1>5. CASE ExecSucceeds(t)
  <2>1. /\ db'.stmts = db.stmts /\ db'.closed = db.closed
        /\ db'.registered = db.registered /\ UNCHANGED <<stmt, ran>>
        /\ call[t].op = "exec" /\ q = NoStmt
    BY <1>2, <1>5 DEF ExecSucceeds, ProxyDb, Life, CallsFit
  <2>2. CASE Returns(t, "ok")
    <3>1. HandleOutlivesItsStatements'
      BY <1>1, <2>1 DEF Life, HandleOutlivesItsStatements
    <3> QED
      BY <1>1, <1>3, <2>1, <2>2, <3>1, ReturnLife, {} \in SUBSET Stmt DEF AtPlace
  <2>3. CASE GoTo(t, "callback")
    <3>1. /\ call'[t].op = call[t].op /\ call'[t].stmt = call[t].stmt
          /\ call'[t].at = "callback"
          /\ \A u \in Thread \ {t} : call'[u] = call[u]
      BY <2>3, GoToFacts
    <3> QED
      BY <1>1, <2>1, <3>1, GoesOnLife DEF SameStmts
  <2> QED
    BY <1>5, <2>2, <2>3 DEF ExecSucceeds
<1>6. CASE PrepareSucceeds(t)
  <2>1. q \in Stmt /\ q \notin db.stmts /\ ~db.closed
    BY <1>6, CallFacts DEF PrepareSucceeds, Life, CallsFit
  <2>2. ran[q] = 0
    BY <2>1 DEF Life, RunsCounted, NotRun
  <2>3. db'.closed = db.closed /\ db'.registered = db.registered
    BY <1>2, <1>6 DEF PrepareSucceeds, ProxyDb
  <2>4. HandleOutlivesItsStatements'
    <3>1. ~db'.closed /\ db'.registered /\ session' # "closed"
      BY <1>1, <2>1, <2>3 DEF Life, HandleOutlivesItsStatements
    <3> QED
      BY <3>1 DEF HandleOutlivesItsStatements
  <2>5. ran'[q] = 0 /\ \A p \in Stmt \ {q} : ran'[p] = ran[p]
    BY <1>2, <1>6, <2>1, <2>2 DEF PrepareSucceeds
  <2>6. \A p \in Stmt \ {q} : stmt'[p] = stmt[p] /\ (p \in db'.stmts <=> p \in db.stmts)
    <3>1. db'.stmts \in {db.stmts, db.stmts \cup {q}}
      <4>1. CASE call[t].reply.empty
        BY <1>2, <1>6, <4>1 DEF PrepareSucceeds, ProxyDb
      <4>2. CASE ~call[t].reply.empty
        BY <1>2, <1>6, <4>2 DEF PrepareSucceeds, ProxyDb
      <4> QED
        BY <4>1, <4>2
    <3>2. \A p \in Stmt \ {q} : stmt'[p] = stmt[p]
      BY <1>2, <1>6 DEF PrepareSucceeds
    <3> QED
      BY <3>1, <3>2
  <2>7. stmt'[q] \in {stmt[q], NewStmt} /\ ~NewStmt.started
    BY <1>2, <1>6, <2>1 DEF PrepareSucceeds, NewStmt
  <2>8. stmt'[q].started /\ ~stmt'[q].failed /\ stmt'[q].params # "unbound" =>
           stmt'[q].of = stmt'[q].params
    BY <2>1, <2>7 DEF Life, RowsBelongToBindings
  <2>9. call'[t] = NoCall /\ \A u \in Thread \ {t} : call'[u] = call[u]
    BY <1>3, <1>6 DEF PrepareSucceeds
  <2> QED
    BY <1>1, <1>4, <2>1, <2>3, <2>4, <2>5, <2>6, <2>8, <2>9, ReturnOneLife DEF AtPlace
<1>7. CASE StepSucceeds(t)
  <2> DEFINE r == [stmt[q] EXCEPT !.rows = call[t].reply.rows,
                                  !.of = call[t].reply.of,
                                  !.pos = 0, !.failed = FALSE,
                                  !.started = TRUE]
             s == NextRow(r)
  <2>1. q \in Stmt /\ q \in db.stmts /\ call[t].op = "step"
    BY <1>7, CallFacts DEF StepSucceeds, Life, CallsFit
  <2>2. call[t].reply.of = stmt[q].params
    <3>1. q # NoStmt
      BY <2>1, ShimAssumptions
    <3> QED
      BY <1>1, <2>1, <3>1 DEF Life, LineFits, RowsFit, Params, AtPlace
  <2>3. r.started /\ ~r.failed /\ r.of = call[t].reply.of /\ r.params = stmt[q].params
    BY <1>2, <2>1 DEF ProxyStmt
  <2>4. s.started /\ ~s.failed /\ s.of = r.of /\ s.params = r.params
    <3>1. call[t].reply.rows \in 0..MaxRows /\ call[t].reply.of \in Bindings
      BY <1>1, CallFacts DEF AtPlace
    <3>2. 0 \in 0..MaxRows
      BY ShimAssumptions
    <3>3. r \in ProxyStmt
      BY <1>2, <2>1, <3>1, <3>2 DEF ProxyStmt
    <3> QED
      BY <2>3, <3>3, NextRowKeeps
  <2>5. stmt' = [stmt EXCEPT ![q] = s] /\ ran' = ran
    BY <1>7 DEF StepSucceeds
  <2>6. /\ db'.stmts = db.stmts /\ db'.closed = db.closed
        /\ db'.registered = db.registered
    BY <1>2, <1>7 DEF StepSucceeds, ProxyDb
  <2>7. HandleOutlivesItsStatements'
    BY <1>1, <2>6 DEF Life, HandleOutlivesItsStatements
  <2>8. call'[t] = NoCall /\ \A u \in Thread \ {t} : call'[u] = call[u]
    BY <1>3, <1>7 DEF StepSucceeds
  <2>9. ran[q] <= 1
    BY <2>1 DEF Life, RunsCounted
  <2> HIDE DEF r, s
  <2>10. stmt'[q] = s /\ \A p \in Stmt \ {q} : stmt'[p] = stmt[p]
    BY <1>2, <2>1, <2>5
  <2> QED
    BY <1>1, <1>4, <2>1, <2>2, <2>3, <2>4, <2>5, <2>6, <2>7, <2>8, <2>9, <2>10,
       ReturnOneLife DEF AtPlace
<1> QED
  BY <1>5, <1>6, <1>7 DEF ApplyOk

LEMMA FailsLife ==
    ASSUME ShimTypeOK, ExchangeIInv, Life, NEW t \in Thread,
           ExecFails(t) \/ PrepareFails(t) \/ StepFails(t)
    PROVE  Life'
<1> DEFINE q == call[t].stmt
<1>1. AtPlace(t, "error") /\ UNCHANGED <<db, stream, sent, answers, session, ran>>
  BY DEF ExecFails, PrepareFails, StepFails, lineVars
<1>2. /\ call[t] \in Calling /\ call \in [Thread -> Calling]
      /\ stmt \in [Stmt -> ProxyStmt]
  BY DEF ShimTypeOK
<1>3. call'[t] = NoCall /\ \A u \in Thread \ {t} : call'[u] = call[u]
  BY <1>2 DEF Returns, ExecFails, PrepareFails, StepFails
<1>4. HandleOutlivesItsStatements'
  BY <1>1 DEF Life, HandleOutlivesItsStatements
<1>5. q \in Stmt => \A u \in Thread \ {t} : call[u].stmt # q
  BY DEF Life, CallsApart
<1>6. CASE ExecFails(t)
  <2>1. q = NoStmt /\ UNCHANGED stmt
    BY <1>6 DEF ExecFails, Life, CallsFit
  <2> QED
    BY <1>1, <1>3, <1>4, <2>1, ReturnLife, {} \in SUBSET Stmt DEF AtPlace
<1>7. CASE PrepareFails(t)
  <2>1. q \in Stmt /\ q \notin db.stmts /\ UNCHANGED stmt
    BY <1>7, CallFacts DEF PrepareFails, Life, CallsFit
  <2>2. ran[q] = 0
    BY <2>1 DEF Life, RunsCounted, NotRun
  <2>3. stmt[q].started /\ ~stmt[q].failed /\ stmt[q].params # "unbound" =>
           stmt[q].of = stmt[q].params
    BY <2>1 DEF Life, RowsBelongToBindings
  <2> QED
    BY <1>1, <1>3, <1>4, <1>5, <2>1, <2>2, <2>3, ReturnOneLife DEF AtPlace
<1>8. CASE StepFails(t)
  <2>1. q \in Stmt /\ q \in db.stmts /\ ran[q] <= 1
    BY <1>8, CallFacts DEF StepFails, Life, CallsFit, RunsCounted
  <2>2. /\ stmt'[q].started /\ stmt'[q].failed
        /\ \A p \in Stmt \ {q} : stmt'[p] = stmt[p]
    BY <1>2, <1>8, <2>1 DEF StepFails, ProxyStmt
  <2> QED
    BY <1>1, <1>3, <1>4, <1>5, <2>1, <2>2, ReturnOneLife DEF AtPlace
<1> QED
  BY <1>6, <1>7, <1>8

(* The calls that send nothing. *)
LEMMA IdleCall ==
    ASSUME ShimTypeOK, Life, NEW t \in Thread, AtPlace(t, "idle")
    PROVE  call[t].stmt = NoStmt /\ call[t].at # "answer"
BY DEF ShimTypeOK, WellFormed, AtPlace, Life, CallsFit

LEMMA UseLife ==
    ASSUME ShimTypeOK, ExchangeIInv, Life, NEW t \in Thread, NEW q \in Stmt,
           \/ StepOn(t, q)
           \/ \E v \in Values : Bind(t, q, v)
           \/ ClearBindings(t, q)
           \/ Reset(t, q)
    PROVE  Life'
<1>1. /\ AtPlace(t, "idle") /\ MayUse(t, q)
      /\ UNCHANGED <<db, stream, sent, answers, session>>
  BY DEF StepOn, Bind, ClearBindings, Reset, MayCall, lineVars
<1>2. stmt \in [Stmt -> ProxyStmt] /\ stmt[q] \in ProxyStmt /\ ran \in [Stmt -> Nat]
  BY DEF ShimTypeOK
<1>3. call'[t] = NoCall /\ \A u \in Thread \ {t} : call'[u] = call[u]
  BY DEF Returns, StepOn, Bind, ClearBindings, Reset, ShimTypeOK
<1>4. HandleOutlivesItsStatements'
  BY <1>1 DEF Life, HandleOutlivesItsStatements
<1>5. q \in db.stmts /\ \A u \in Thread : call[u].stmt # q
  BY <1>1 DEF MayUse
<1>6. ran[q] <= 1 /\ (~stmt[q].started => ran[q] = 0)
  BY <1>5 DEF Life, RunsCounted, NotRun
<1>7. \A p \in Stmt \ {q} : stmt'[p] = stmt[p] /\ ran'[p] = ran[p]
  BY <1>2 DEF StepOn, Bind, ClearBindings, Reset
<1>8. \/ ran'[q] = 0
      \/ ran'[q] <= 1 /\ stmt'[q].started
  <2>1. CASE StepOn(t, q)
    BY <1>2, <1>6, <2>1, NextRowKeeps DEF StepOn
  <2>2. CASE \E v \in Values : Bind(t, q, v)
    BY <1>2, <1>6, <2>2 DEF Bind, ProxyStmt
  <2>3. CASE ClearBindings(t, q)
    BY <1>2, <1>6, <2>3 DEF ClearBindings, ProxyStmt
  <2>4. CASE Reset(t, q)
    BY <1>2, <2>4 DEF Reset
  <2> QED
    BY <2>1, <2>2, <2>3, <2>4
<1>9. stmt'[q].started /\ ~stmt'[q].failed /\ stmt'[q].params # "unbound" =>
         stmt'[q].of = stmt'[q].params
  <2>1. stmt[q].started /\ ~stmt[q].failed /\ stmt[q].params # "unbound" =>
           stmt[q].of = stmt[q].params
    BY DEF Life, RowsBelongToBindings
  <2>2. CASE StepOn(t, q)
    BY <1>2, <2>1, <2>2, NextRowKeeps DEF StepOn
  <2>3. CASE \E v \in Values : Bind(t, q, v)
    BY <1>2, <2>1, <2>3 DEF Bind, ProxyStmt
  <2>4. CASE ClearBindings(t, q)
    BY <1>2, <2>4 DEF ClearBindings, ProxyStmt
  <2>5. CASE Reset(t, q)
    <3>1. stmt'[q] = [NewStmt EXCEPT !.params = stmt[q].params]
      BY <1>2, <2>5 DEF Reset
    <3> QED
      BY <3>1 DEF NewStmt
  <2> QED
    BY <2>2, <2>3, <2>4, <2>5
<1> QED
  BY <1>1, <1>3, <1>4, <1>5, <1>7, <1>8, <1>9, IdleCall, ReturnOneLife

LEMMA FinalizeLife ==
    ASSUME ShimTypeOK, ExchangeIInv, Life, NEW t \in Thread, NEW q \in Stmt,
           Finalize(t, q)
    PROVE  Life'
<1> DEFINE d == [db EXCEPT !.stmts = @ \ {q}]
<1>1. db.registered /\ AtPlace(t, "idle") /\ \A u \in Thread : call[u].stmt # q
  BY DEF Finalize, MayCall, MayUse
<1>2. stmt \in [Stmt -> ProxyStmt] /\ ran \in [Stmt -> Nat] /\ db \in ProxyDb
  BY DEF ShimTypeOK
<1>3. call'[t] = NoCall /\ \A u \in Thread \ {t} : call'[u] = call[u]
  BY DEF Returns, Finalize, ShimTypeOK
<1>4. /\ stmt'[q] = NewStmt /\ ~NewStmt.started /\ ran'[q] = 0
      /\ \A p \in Stmt \ {q} : stmt'[p] = stmt[p] /\ ran'[p] = ran[p]
  BY <1>2 DEF Finalize, NewStmt
<1>5. d.stmts = db.stmts \ {q} /\ d.closed = db.closed /\ d.registered
  BY <1>1, <1>2 DEF ProxyDb
<1>6. /\ db'.stmts = db.stmts \ {q} /\ db'.closed = db.closed
      /\ UNCHANGED <<stream, sent, answers>>
      /\ HandleOutlivesItsStatements'
  <2>1. CASE d.closed /\ d.stmts = {}
    <3>1. db' = [d EXCEPT !.registered = FALSE] /\ session' = "closed"
          /\ UNCHANGED <<stream, sent, answers>>
      BY <2>1 DEF Finalize, Destroy
    <3>2. db'.stmts = d.stmts /\ db'.closed = d.closed /\ ~db'.registered
      BY <1>2, <3>1 DEF ProxyDb
    <3> HIDE DEF d
    <3> QED
      BY <1>5, <2>1, <3>1, <3>2 DEF HandleOutlivesItsStatements
  <2>2. CASE ~(d.closed /\ d.stmts = {})
    <3>1. db' = d /\ UNCHANGED lineVars
      BY <2>2 DEF Finalize
    <3> HIDE DEF d
    <3> QED
      BY <1>1, <1>5, <2>2, <3>1 DEF Life, HandleOutlivesItsStatements, lineVars
  <2> QED
    BY <2>1, <2>2
<1>7. \A p \in Stmt \ {q} : p \in db'.stmts <=> p \in db.stmts
  BY <1>6
<1> QED
  BY <1>1, <1>3, <1>4, <1>6, <1>7, IdleCall, ReturnOneLife

LEMMA CloseLife ==
    ASSUME ShimTypeOK, ExchangeIInv, Life, NEW t \in Thread, NEW v2 \in BOOLEAN,
           Close(t, v2)
    PROVE  Life'
<1> DEFINE d == [db EXCEPT !.closed = TRUE]
<1>1. /\ db.registered /\ ~db.closed /\ UNCHANGED <<stmt, ran>>
      /\ \A u \in Thread : AtPlace(u, "idle")
  BY DEF Close, MayCall
<1>2. call'[t] = NoCall /\ \A u \in Thread \ {t} : call'[u] = call[u]
  BY DEF Returns, Close, ShimTypeOK
<1>3. d.stmts = db.stmts /\ d.closed /\ d.registered /\ db \in ProxyDb
  BY <1>1 DEF ShimTypeOK, ProxyDb
<1>4. /\ db'.stmts = db.stmts /\ UNCHANGED <<stream, sent, answers>>
      /\ HandleOutlivesItsStatements'
  <2>1. CASE ~v2 /\ db.stmts # {}
    BY <2>1 DEF Close, Life, HandleOutlivesItsStatements, lineVars
  <2>2. CASE ~(~v2 /\ db.stmts # {}) /\ d.stmts = {}
    <3>1. db' = [d EXCEPT !.registered = FALSE] /\ session' = "closed"
          /\ UNCHANGED <<stream, sent, answers>>
      BY <2>2 DEF Close, Destroy
    <3>2. db'.stmts = d.stmts /\ db'.closed = d.closed /\ ~db'.registered
      BY <1>3, <3>1 DEF ProxyDb
    <3> HIDE DEF d
    <3> QED
      BY <1>3, <2>2, <3>1, <3>2 DEF HandleOutlivesItsStatements
  <2>3. CASE ~(~v2 /\ db.stmts # {}) /\ d.stmts # {}
    <3>1. db' = d /\ UNCHANGED lineVars
      BY <2>3 DEF Close
    <3> HIDE DEF d
    <3> QED
      BY <1>1, <1>3, <2>3, <3>1 DEF Life, HandleOutlivesItsStatements, lineVars
  <2> QED
    BY <2>1, <2>2, <2>3
<1>5. call[t].stmt = NoStmt /\ call[t].at # "answer"
  BY <1>1, IdleCall
<1> QED
  BY <1>1, <1>2, <1>4, <1>5, ReturnLife, {} \in SUBSET Stmt

LEMMA OpenLife ==
    ASSUME ShimTypeOK, ExchangeIInv, Life, NEW t \in Thread, Open(t)
    PROVE  Life'
<1>1. /\ ~db.registered /\ AtPlace(t, "idle") /\ db' = NewDb
      /\ session' = "open" /\ UNCHANGED <<stmt, stream, sent, answers, ran>>
  BY DEF Open
<1>2. call'[t] = NoCall /\ \A u \in Thread \ {t} : call'[u] = call[u]
  BY DEF Returns, Open, ShimTypeOK
<1>3. db.stmts = {} /\ db'.stmts = {} /\ ~db'.closed /\ db'.registered
  BY <1>1 DEF Life, HandleOutlivesItsStatements, NewDb
<1>4. HandleOutlivesItsStatements'
  BY <1>1, <1>3 DEF HandleOutlivesItsStatements
<1>5. call[t].stmt = NoStmt /\ call[t].at # "answer"
  BY <1>1, IdleCall
<1> QED
  BY <1>1, <1>2, <1>3, <1>4, <1>5, ReturnLife, {} \in SUBSET Stmt

-----------------------------------------------------------------------------
(* The exchange. *)
LEMMA WriteRequestLife ==
    ASSUME ShimTypeOK, ExchangeIInv, Life, NEW t \in Thread, WriteRequest(t)
    PROVE  Life'
<1>1. /\ call[t].at = "stream" /\ stream = NoThread
      /\ UNCHANGED <<db, stmt, answers, session, ran>>
      /\ sent = <<>> /\ answers = <<>>
  BY DEF WriteRequest, AtPlace, ExchangeIInv
<1>2. PICK p \in {"answer", "fail"} :
         /\ GoTo(t, p)
         /\ \/ sent' \in {sent, Append(sent, Message(t))} /\ stream' = t /\ p = "answer"
            \/ UNCHANGED <<sent, stream>>
  BY DEF WriteRequest
<1>3. /\ call'[t].op = call[t].op /\ call'[t].stmt = call[t].stmt
      /\ call'[t].at = p /\ call'[t].reply = call[t].reply
      /\ \A u \in Thread \ {t} : call'[u] = call[u]
  BY <1>2, GoToFacts
<1>4. CASE sent' = sent
  BY <1>1, <1>2, <1>3, <1>4, GoesOnLife DEF SameStmts
<1>5. CASE sent' # sent
  <2>1. sent' = <<Message(t)>> /\ stream' = t /\ p = "answer"
    BY <1>1, <1>2, <1>5
  <2>2. \A u \in Thread : call'[u].op = call[u].op /\ call'[u].stmt = call[u].stmt
    BY <1>3
  <2>3. CallsApart' /\ CallsFit'
    BY <1>1, <1>3, <2>1, <2>2 DEF Life, CallsApart, CallsFit
  <2>4. LineFits'
    <3>1. Message(stream)' = Message(t)
      BY <1>1, <1>3, <2>1 DEF Message, Params
    <3>2. \A i \in DOMAIN sent' : sent'[i] = Message(stream)'
      BY <2>1, <3>1
    <3>3. \A u \in Thread \ {t} : call'[u].at \in {"apply", "errcode"} =>
             RowsFit(u, call[u].reply)'
      BY <1>1, <1>3 DEF Life, LineFits, RowsFit, Params
    <3> QED
      BY <1>1, <1>3, <2>1, <3>2, <3>3 DEF LineFits
  <2>5. RunsCounted'
    <3>1. ASSUME NEW q \in Stmt, NotRun(q)'
          PROVE  NotRun(q)
      BY <1>1, <1>3, <2>1, <2>2, <3>1 DEF NotRun
    <3> QED
      BY <1>1, <3>1 DEF Life, RunsCounted
  <2>6. RowsBelongToBindings' /\ HandleOutlivesItsStatements'
    BY <1>1 DEF Life, RowsBelongToBindings, HandleOutlivesItsStatements
  <2> QED
    BY <2>3, <2>4, <2>5, <2>6 DEF Life
<1> QED
  BY <1>4, <1>5

LEMMA ReadAnswerLife ==
    ASSUME ShimTypeOK, ExchangeIInv, Life, NEW t \in Thread, ReadAnswer(t)
    PROVE  Life'
<1>1. /\ AtPlace(t, "answer") /\ answers # <<>> /\ answers' = Tail(answers)
      /\ stream' = NoThread /\ UNCHANGED <<db, stmt, sent, session, ran>>
  BY DEF ReadAnswer
<1>2. sent = <<>> /\ answers' = <<>> /\ stream = t /\ Len(answers) = 1
  BY <1>1, AtMostOne DEF AtPlace, ExchangeIInv
<1>3. call[t] \in Calling
  BY DEF ShimTypeOK
<1>4. /\ \/ call'[t] = [call[t] EXCEPT !.at = "apply", !.reply = Head(answers)]
         \/ call'[t] = [call[t] EXCEPT !.at = "fail"]
      /\ \A u \in Thread \ {t} : call'[u] = call[u]
  BY ReadAnswerTypes
<1>5. /\ call'[t].op = call[t].op /\ call'[t].stmt = call[t].stmt
      /\ call'[t].at \in {"apply", "fail"}
      /\ call'[t].at = "apply" => call'[t].reply = Head(answers)
  BY <1>3, <1>4 DEF Calling
<1>6. RowsFit(t, Head(answers))
  <2>1. Head(answers) = answers[1] /\ 1 \in DOMAIN answers
    BY <1>2, Singleton DEF ShimTypeOK
  <2> QED
    BY <1>2, <2>1 DEF Life, LineFits
<1> QED
  BY <1>1, <1>2, <1>4, <1>5, <1>6, GoesOnLife DEF SameStmts

LEMMA ReadFailsLife ==
    ASSUME ShimTypeOK, ExchangeIInv, Life, NEW t \in Thread, ReadFails(t)
    PROVE  Life'
<1>1. /\ GoTo(t, "fail") /\ answers = <<>> /\ sent = <<>>
      /\ UNCHANGED <<db, stmt, sent, answers, session, ran>>
  BY DEF ReadFails, ExchangeIInv
<1>2. /\ call'[t].op = call[t].op /\ call'[t].stmt = call[t].stmt
      /\ call'[t].at = "fail" /\ \A u \in Thread \ {t} : call'[u] = call[u]
  BY <1>1, GoToFacts
<1> QED
  BY <1>1, <1>2, GoesOnLife DEF SameStmts

(* A text runs when its request is taken, and its rows are of the parameters
   that were sent with it. *)
LEMMA ServeLife ==
    ASSUME ShimTypeOK, ExchangeIInv, Life, Serve
    PROVE  Life'
<1> DEFINE m == Head(sent)
<1>1. /\ sent # <<>> /\ sent' = <<>> /\ answers = <<>>
      /\ UNCHANGED <<db, stmt, stream, session, call>>
  BY AtMostOne DEF Serve
<1>2. m = Message(stream) /\ stream \in Thread /\ call[stream].at = "answer"
  <2>1. m = sent[1] /\ 1 \in DOMAIN sent
    BY <1>1, AtMostOne, Singleton DEF ShimTypeOK
  <2> QED
    BY <1>1, <2>1 DEF Life, LineFits, ExchangeIInv, ShimTypeOK
<1>3. /\ m.op = call[stream].op /\ m.stmt = call[stream].stmt
      /\ m.op = "step" => m.params = Params(call[stream].stmt)
  BY <1>2 DEF Message
<1>4. PICK r : /\ answers' = Append(answers, r)
               /\ m.op = "step" => r.of = m.params
               /\ ran' = IF m.op = "step" THEN [ran EXCEPT ![m.stmt] = @ + 1] ELSE ran
  BY DEF Serve, AnswerExec, AnswerPrepare
<1>5. answers' = <<r>>
  BY <1>1, <1>4
<1>6. CallsApart' /\ CallsFit' /\ RowsBelongToBindings' /\ HandleOutlivesItsStatements'
  BY <1>1 DEF Life, CallsApart, CallsFit, RowsBelongToBindings,
              HandleOutlivesItsStatements
<1>7. LineFits'
  <2>1. RowsFit(stream, r)'
    BY <1>1, <1>3, <1>4 DEF RowsFit, Params
  <2>2. \A i \in DOMAIN answers' : answers'[i] = r
    BY <1>5
  <2>3. \A u \in Thread : call'[u].at \in {"apply", "errcode"} => RowsFit(u, call[u].reply)'
    BY <1>1 DEF Life, LineFits, RowsFit, Params
  <2> QED
    BY <1>1, <2>1, <2>2, <2>3 DEF LineFits, RowsFit
<1>8. RunsCounted'
  <2>1. ASSUME NEW q \in Stmt, NotRun(q)'
        PROVE  NotRun(q) /\ (m.op = "step" => m.stmt # q)
    BY <1>1, <1>2, <1>3, <2>1 DEF NotRun, Life, CallsFit
  <2>2. m.op = "step" => m.stmt \in Stmt /\ ran[m.stmt] = 0
    <3>1. ASSUME m.op = "step"
          PROVE  NotRun(m.stmt) /\ m.stmt \in Stmt
      <4>1. m.stmt \in Stmt /\ ~stmt[m.stmt].started
        BY <1>2, <1>3, <3>1, CallFacts DEF Life, CallsFit
      <4>2. \A u \in Thread : call[u].stmt = m.stmt => u = stream
        BY <1>2, <1>3, <4>1 DEF Life, CallsApart
      <4> QED
        BY <1>1, <4>1, <4>2 DEF NotRun
    <3> QED
      BY <3>1 DEF Life, RunsCounted
  <2>3. ran \in [Stmt -> Nat]
    BY DEF ShimTypeOK
  <2>4. ASSUME NEW q \in Stmt
        PROVE  ran'[q] = IF m.op = "step" /\ q = m.stmt THEN 1 ELSE ran[q]
    BY <1>4, <2>2, <2>3
  <2> HIDE DEF m
  <2> QED
    BY <2>1, <2>4 DEF Life, RunsCounted
<1> QED
  BY <1>6, <1>7, <1>8 DEF Life

LEMMA BrokerDiesLife ==
    ASSUME ShimTypeOK, ExchangeIInv, Life, BrokerDies
    PROVE  Life'
<1>1. /\ session = "open" /\ session' = "dead" /\ sent' = <<>>
      /\ answers' \in {answers, <<>>}
      /\ UNCHANGED <<db, stmt, stream, call, ran>>
  BY DEF BrokerDies
<1>2. CallsApart' /\ CallsFit' /\ RowsBelongToBindings' /\ HandleOutlivesItsStatements'
  BY <1>1 DEF Life, CallsApart, CallsFit, RowsBelongToBindings,
              HandleOutlivesItsStatements
<1>3. LineFits'
  BY <1>1 DEF Life, LineFits, RowsFit, Params
<1>4. RunsCounted'
  <2>1. ASSUME NEW q \in Stmt, NotRun(q)'
        PROVE  NotRun(q)
    BY <1>1, <2>1 DEF NotRun
  <2> QED
    BY <1>1, <2>1 DEF Life, RunsCounted
<1> QED
  BY <1>2, <1>3, <1>4 DEF Life

-----------------------------------------------------------------------------
LEMMA LifeInit == Init => Life
<1> SUFFICES ASSUME Init
             PROVE  Life
  OBVIOUS
<1>1. /\ db = NewDb /\ stmt = [q \in Stmt |-> NewStmt]
      /\ sent = <<>> /\ answers = <<>> /\ session = "open"
      /\ call = [t \in Thread |-> NoCall] /\ ran = [q \in Stmt |-> 0]
  BY DEF Init
<1>2. /\ NoCall.stmt = NoStmt /\ NoCall.op = "none" /\ NoCall.at = "idle"
      /\ ~NewStmt.started /\ NewDb.registered /\ ~NewDb.closed
      /\ NoStmt \notin Stmt
  BY ShimAssumptions DEF NoCall, NewStmt, NewDb
<1> QED
  BY <1>1, <1>2 DEF Life, CallsApart, CallsFit, LineFits, RunsCounted,
                    RowsBelongToBindings, HandleOutlivesItsStatements

LEMMA LifeStep == ShimIInv /\ [Next]_vars => ShimIInv'
<1> SUFFICES ASSUME ShimTypeOK, ExchangeIInv, Life, [Next]_vars
             PROVE  ShimTypeOK' /\ ExchangeIInv' /\ Life'
  BY DEF ShimIInv, Life
<1>1. ShimTypeOK' /\ ExchangeIInv'
  BY ShimStep
<1>2. CASE UNCHANGED vars
  BY <1>1, <1>2 DEF vars, lineVars, Life, CallsApart, CallsFit, LineFits, RowsFit,
              Message, Params, RunsCounted, NotRun, RowsBelongToBindings,
              HandleOutlivesItsStatements
<1>3. CASE Next
  <2>1. ASSUME NEW t \in Thread, Exec(t) \/ \E q \in Stmt : UseStmt(t, q)
        PROVE  Life'
    BY <2>1, EnterLife, UseLife, FinalizeLife DEF UseStmt
  <2>2. ASSUME NEW t \in Thread, Open(t) \/ \E v2 \in BOOLEAN : Close(t, v2)
        PROVE  Life'
    BY <2>2, OpenLife, CloseLife
  <2>3. ASSUME NEW t \in Thread, Rpc(t)
        PROVE  Life'
    BY <2>3, WriteRequestLife, ReadAnswerLife, ReadFailsLife, ApplyLife,
       ApplyOkLife, CallbackLife, FailsLife DEF Rpc
  <2> QED
    BY <1>1, <1>3, <2>1, <2>2, <2>3, ServeLife, BrokerDiesLife DEF Next
<1> QED
  BY <1>1, <1>2, <1>3

(* The invariant of a handle, its statements and its threads, for any number
   of each, whichever exchanges fail and whenever the broker dies. *)
THEOREM ShimInductive == Spec => []ShimIInv
<1>1. Init => ShimIInv
  BY ShimInit, LifeInit DEF ShimIInv, Life
<1> QED
  BY <1>1, LifeStep, PTL DEF Spec

(* A text is not run twice without a reset: not after an error, not after an
   answer that was lost, not by a second step (step_stmt, `started`). *)
THEOREM StepRunsOnce == Spec => []RunsOncePerReset
<1>1. ShimIInv => RunsOncePerReset
  BY DEF ShimIInv, RunsCounted, RunsOncePerReset
<1> QED
  BY <1>1, ShimInductive, PTL

(* The rows on hand are those of the parameters that are bound, though other
   threads bind, reset and finalize other statements meanwhile. *)
THEOREM RowsAreOfTheBindings == Spec => []RowsBelongToBindings
<1>1. ShimIInv => RowsBelongToBindings
  BY DEF ShimIInv
<1> QED
  BY <1>1, ShimInductive, PTL

(* The handle and its session end with the close or the last finalize,
   whichever comes last, and not before (closing, destroy_db). *)
THEOREM HandleLivesAsLong == Spec => []HandleOutlivesItsStatements
<1>1. ShimIInv => HandleOutlivesItsStatements
  BY DEF ShimIInv
<1> QED
  BY <1>1, ShimInductive, PTL

-----------------------------------------------------------------------------
(* What a call returns whose exchange failed. *)
LEMMA ErrorStaysError ==
    ASSUME ShimTypeOK, Next, NEW t \in Thread, AtPlace(t, "error"),
           call'[t] # call[t]
    PROVE  ExecFails(t) \/ PrepareFails(t) \/ StepFails(t)
<1>1. call \in [Thread -> Calling]
  BY DEF ShimTypeOK
<1>2. ASSUME NEW u \in Thread, NEW c, call' = [call EXCEPT ![u] = c]
      PROVE  u = t
  BY <1>1, <1>2
<1>3. ASSUME NEW u \in Thread, Rpc(u)
      PROVE  ExecFails(t) \/ PrepareFails(t) \/ StepFails(t)
  <2>1. \E c : call' = [call EXCEPT ![u] = c]
    <3>1. ASSUME NEW p, GoTo(u, p)
          PROVE  call' = [call EXCEPT ![u] = [call[u] EXCEPT !.at = p]]
      BY <3>1 DEF GoTo
    <3>2. CASE WriteRequest(u) \/ ReadFails(u) \/ ApplyState(u) \/ ApplyError(u) \/ Fail(u)
      BY <3>1, <3>2 DEF WriteRequest, ReadFails, ApplyState, ApplyError, Fail
    <3>3. CASE ReadAnswer(u)
      <4>1. CASE call' = [call EXCEPT ![u].at = "apply", ![u].reply = Head(answers)]
        <5>1. call' = [call EXCEPT ![u] = [[call[u] EXCEPT !.at = "apply"]
                                              EXCEPT !.reply = Head(answers)]]
          BY <1>1, <4>1
        <5> QED
          BY <5>1
      <4> QED
        BY <3>1, <3>3, <4>1 DEF ReadAnswer
    <3>4. CASE ApplyOk(u)
      BY <3>1, <3>4 DEF ApplyOk, ExecSucceeds, PrepareSucceeds, StepSucceeds, Returns
    <3>5. CASE Callback(u)
      <4>1. CASE call' = [call EXCEPT ![u].at = "apply", ![u].reply.code = "abort"]
        <5> DEFINE d == [call[u] EXCEPT !.at = "apply"]
        <5>1. call' = [call EXCEPT ![u] = [d EXCEPT !.reply =
                                              [d.reply EXCEPT !.code = "abort"]]]
          BY <1>1, <4>1
        <5> QED
          BY <5>1
      <4> QED
        BY <3>5, <4>1 DEF Callback, Returns
    <3>6. CASE ExecFails(u) \/ PrepareFails(u) \/ StepFails(u)
      BY <3>6 DEF ExecFails, PrepareFails, StepFails, Returns
    <3> QED
      BY <1>3, <3>2, <3>3, <3>4, <3>5, <3>6 DEF Rpc
  <2>2. u = t
    BY <1>2, <2>1
  <2> QED
    BY <1>3, <2>2 DEF Rpc, AtPlace, WriteRequest, ReadFails, ReadAnswer, ApplyState,
       ApplyError, ApplyOk, Callback, Fail
<1>4. ASSUME NEW u \in Thread, AtPlace(u, "idle"),
             \/ \E c : Returns(u, c)
             \/ \E op, q : Enter(u, op, q)
      PROVE  FALSE
  <2>1. u # t
    BY <1>4 DEF AtPlace
  <2> QED
    BY <1>2, <1>4, <2>1 DEF Returns, Enter
<1>5. ASSUME NEW u \in Thread, NEW q \in Stmt, UseStmt(u, q)
      PROVE  FALSE
  BY <1>4, <1>5 DEF UseStmt, Prepare, Step, StepOn, Bind, ClearBindings, Reset,
     Finalize, MayCall
<1>6. ASSUME NEW u \in Thread, Exec(u) \/ Open(u) \/ \E v2 \in BOOLEAN : Close(u, v2)
      PROVE  FALSE
  BY <1>4, <1>6 DEF Exec, Open, Close, MayCall
<1> QED
  BY <1>3, <1>5, <1>6 DEF Next, Serve, BrokerDies

(* sqlite3_exec and sqlite3_step report what went wrong, whatever other threads
   leave in errcode between apply and the second look at it (exec_sql,
   step_stmt: a 0 becomes SQLITE_ERROR). *)
THEOREM ErrorsAreReported == Spec => ExecAndStepReportErrors
<1>1. ASSUME ShimTypeOK, [Next]_vars, NEW t \in Thread
      PROVE  Reported(t, {"exec", "step"})
  <2>1. SUFFICES ASSUME AtPlace(t, "error"), call[t].op \in {"exec", "step"},
                        call'[t] # call[t]
                 PROVE  code'[t] \notin {"ok", "row", "done"}
    BY DEF Reported
  <2>2. ExecFails(t) \/ StepFails(t)
    BY <1>1, <2>1, ErrorStaysError DEF vars, PrepareFails
  <2>3. ErrorOf(t) \in {"error", "abort"}
    BY <1>1 DEF ErrorOf, ShimTypeOK, ProxyDb, ErrCodes
  <2>4. code'[t] = ErrorOf(t)
    BY <1>1, <2>2 DEF ExecFails, StepFails, Returns, ShimTypeOK
  <2> QED
    BY <2>3, <2>4
<1>2. ShimTypeOK /\ [Next]_vars => [\A t \in Thread : Reported(t, {"exec", "step"})]_vars
  BY <1>1
<1> QED
  BY <1>2, ShimTypesHold, PTL DEF ExecAndStepReportErrors, Spec

-----------------------------------------------------------------------------
(* The mirrored autocommit flag, for an application with one thread on the
   handle and answers that decode. *)
OneThread == (\E t : Thread = {t}) /\ "undecodable" \notin Faults

(* What the invariant comes to when that thread is not waiting. *)
Settled(t) ==
    session = "open" =>
        /\ call[t].at \in {"apply", "errcode", "callback"} => Told(call[t].reply)
        /\ call[t].at # "apply" => InStep

LEMMA MirrorBefore ==
    ASSUME MirrorIInv, NEW t \in Thread, call[t].at # "answer"
    PROVE  Settled(t)
BY DEF MirrorIInv, Settled

LEMMA MirrorAfter ==
    ASSUME ExchangeIInv', ShimTypeOK', OneThread, NEW t \in Thread,
           call'[t].at # "answer", Settled(t)'
    PROVE  MirrorIInv'
<1>1. stream' = NoThread /\ sent' = <<>> /\ answers' = <<>>
  BY DEF ExchangeIInv, ShimTypeOK, OneThread
<1> QED
  BY <1>1 DEF MirrorIInv, Settled, OneThread

(* Calls that leave the mirror and the transaction alone, or close the handle. *)
LEMMA SettledStays ==
    ASSUME NEW t \in Thread, Settled(t), call[t].at # "apply",
           call'[t].at \notin {"apply", "errcode", "callback"},
           \/ session' = "closed"
           \/ session' = session /\ txn' = txn /\ db'.autocommit = db.autocommit
    PROVE  Settled(t)'
BY DEF Settled, InStep

LEMMA UseSettled ==
    ASSUME ShimTypeOK, NEW t \in Thread, Settled(t),
           \/ Exec(t)
           \/ \E q \in Stmt : UseStmt(t, q)
           \/ \E v2 \in BOOLEAN : Close(t, v2)
    PROVE  call'[t].at # "answer" /\ Settled(t)'
<1>1. AtPlace(t, "idle")
  BY DEF Exec, UseStmt, Prepare, Step, StepOn, Bind, ClearBindings, Reset,
         Finalize, Close, MayCall
<1>2. call'[t].at \in {"idle", "fail", "stream"}
  <2>1. ASSUME NEW op, NEW q, Enter(t, op, q)
        PROVE  call'[t].at \in {"fail", "stream"}
    BY <2>1 DEF Enter, ShimTypeOK
  <2>2. ASSUME NEW c, Returns(t, c)
        PROVE  call'[t].at = "idle"
    BY <2>2 DEF Returns, NoCall, ShimTypeOK
  <2>3. CASE Exec(t)
    BY <2>1, <2>3 DEF Exec
  <2>4. CASE \E q \in Stmt : UseStmt(t, q)
    BY <2>1, <2>2, <2>4 DEF UseStmt, Prepare, Step, StepOn, Bind, ClearBindings,
       Reset, Finalize
  <2>5. CASE \E v2 \in BOOLEAN : Close(t, v2)
    BY <2>2, <2>5 DEF Close
  <2> QED
    BY <2>3, <2>4, <2>5
<1>3. \/ session' = "closed"
      \/ session' = session /\ txn' = txn /\ db'.autocommit = db.autocommit
  <2>1. db \in ProxyDb
    BY DEF ShimTypeOK
  <2>2. CASE Exec(t)
    BY <2>2 DEF Exec, Enter, lineVars
  <2>3. CASE \E q \in Stmt : UseStmt(t, q)
    <3>1. PICK q \in Stmt : UseStmt(t, q)
      BY <2>3
    <3>2. CASE Finalize(t, q)
      BY <2>1, <3>2 DEF Finalize, Destroy, lineVars, ProxyDb
    <3>3. CASE ~Finalize(t, q)
      BY <3>1, <3>3 DEF UseStmt, Prepare, Step, Enter, StepOn, Bind,
         ClearBindings, Reset, lineVars
    <3> QED
      BY <3>2, <3>3
  <2>4. CASE \E v2 \in BOOLEAN : Close(t, v2)
    BY <2>1, <2>4 DEF Close, Destroy, lineVars, ProxyDb
  <2> QED
    BY <2>2, <2>3, <2>4
<1> QED
  BY <1>1, <1>2, <1>3, SettledStays DEF AtPlace

LEMMA ApplySettled ==
    ASSUME ShimTypeOK, NEW t \in Thread, Settled(t),
           \/ ApplyState(t) \/ ApplyError(t) \/ ApplyOk(t)
           \/ Callback(t) \/ Fail(t)
           \/ ExecFails(t) \/ PrepareFails(t) \/ StepFails(t)
    PROVE  call[t].at # "answer" /\ call'[t].at # "answer" /\ Settled(t)'
<1>1. /\ call[t] \in Calling /\ call \in [Thread -> Calling] /\ db \in ProxyDb
      /\ NoCall.at = "idle"
  BY DEF ShimTypeOK, NoCall
<1>2. session' = session /\ txn' = txn
  BY DEF ApplyState, ApplyError, ApplyOk, Callback, Fail, ExecFails, PrepareFails,
         StepFails, lineVars
<1>3. CASE ApplyState(t)
  <2>1. AtPlace(t, "apply") /\ db'.autocommit = call[t].reply.autocommit
    BY <1>1, <1>3 DEF ApplyState, ProxyDb
  <2>2. call'[t].at = "errcode" /\ call'[t].reply = call[t].reply
    BY <1>3, GoToFacts DEF ApplyState
  <2> QED
    BY <1>2, <2>1, <2>2 DEF Settled, Told, InStep, AtPlace
<1>4. CASE ApplyError(t) \/ Fail(t)
  <2>1. call[t].at \in {"errcode", "fail"} /\ db'.autocommit = db.autocommit
    BY <1>1, <1>4 DEF ApplyError, Fail, AtPlace, ProxyDb
  <2>2. call'[t].at = "error"
    BY <1>4, GoToFacts DEF ApplyError, Fail
  <2> QED
    BY <1>2, <2>1, <2>2, SettledStays
<1>5. CASE ApplyOk(t)
  <2>1. AtPlace(t, "errcode")
    BY <1>5 DEF ApplyOk
  <2>2. db'.autocommit = db.autocommit
    <3>1. CASE ExecSucceeds(t) \/ StepSucceeds(t)
      BY <1>1, <3>1 DEF ExecSucceeds, StepSucceeds, ProxyDb
    <3>2. CASE PrepareSucceeds(t)
      <4>1. CASE call[t].reply.empty
        BY <1>1, <3>2, <4>1 DEF PrepareSucceeds, ProxyDb
      <4>2. CASE ~call[t].reply.empty
        BY <1>1, <3>2, <4>2 DEF PrepareSucceeds, ProxyDb
      <4> QED
        BY <4>1, <4>2
    <3> QED
      BY <1>5, <3>1, <3>2 DEF ApplyOk
  <2>3. CASE GoTo(t, "callback")
    <3>1. call'[t].at = "callback" /\ call'[t].reply = call[t].reply
      BY <2>3, GoToFacts
    <3> QED
      BY <1>2, <2>1, <2>2, <3>1 DEF Settled, Told, InStep, AtPlace
  <2>4. CASE ~GoTo(t, "callback")
    <3>1. call'[t] = NoCall
      BY <1>1, <1>5, <2>4 DEF ApplyOk, ExecSucceeds, PrepareSucceeds, StepSucceeds,
         Returns
    <3> QED
      BY <1>1, <1>2, <2>1, <2>2, <3>1, SettledStays DEF AtPlace
  <2> QED
    BY <2>3, <2>4
<1>6. CASE Callback(t)
  <2>1. AtPlace(t, "callback") /\ db' = db
    BY <1>6 DEF Callback
  <2>2. CASE Returns(t, "ok")
    BY <1>1, <1>2, <2>1, <2>2, SettledStays DEF Returns, AtPlace
  <2>3. CASE call' = [call EXCEPT ![t].at = "apply", ![t].reply.code = "abort"]
    <3>1. call[t].reply \in Response
      BY <2>1, CallFacts DEF AtPlace
    <3>2. /\ call'[t].at = "apply"
          /\ call'[t].reply = [call[t].reply EXCEPT !.code = "abort"]
      BY <1>1, <2>3 DEF Calling
    <3>3. call'[t].reply.autocommit = call[t].reply.autocommit
      BY <3>1, <3>2 DEF Response
    <3> QED
      BY <1>2, <2>1, <3>2, <3>3 DEF Settled, Told, AtPlace
  <2> QED
    BY <1>6, <2>2, <2>3 DEF Callback
<1>7. CASE ExecFails(t) \/ PrepareFails(t) \/ StepFails(t)
  <2>1. AtPlace(t, "error") /\ db' = db /\ call'[t] = NoCall
    BY <1>1, <1>7 DEF ExecFails, PrepareFails, StepFails, Returns
  <2> QED
    BY <1>1, <1>2, <2>1, SettledStays DEF AtPlace
<1> QED
  BY <1>3, <1>4, <1>5, <1>6, <1>7

LEMMA WriteRequestMirror ==
    ASSUME ShimTypeOK, ExchangeIInv, ShimTypeOK', ExchangeIInv', MirrorIInv,
           OneThread, NEW t \in Thread, WriteRequest(t)
    PROVE  MirrorIInv'
<1>1. /\ AtPlace(t, "stream") /\ UNCHANGED <<db, session, txn, answers>>
      /\ answers = <<>> /\ sent = <<>>
  BY DEF WriteRequest, ExchangeIInv
<1>2. Settled(t)
  BY <1>1, MirrorBefore DEF AtPlace
<1>3. CASE GoTo(t, "fail")
  <2>1. call'[t].at = "fail"
    BY <1>3, GoToFacts
  <2> QED
    BY <1>1, <1>2, <2>1, SettledStays, MirrorAfter DEF AtPlace
<1>4. CASE /\ sent' = IF session = "open" THEN Append(sent, Message(t)) ELSE sent
           /\ GoTo(t, "answer")
  <2>1. call'[t].at = "answer"
    BY <1>4, GoToFacts
  <2>2. session = "open" => sent' = <<Message(t)>> /\ InStep'
    BY <1>1, <1>2, <1>4 DEF Settled, InStep, AtPlace
  <2> QED
    BY <1>1, <2>1, <2>2 DEF MirrorIInv, OneThread
<1> QED
  BY <1>3, <1>4 DEF WriteRequest

LEMMA ReadMirror ==
    ASSUME ShimTypeOK, ExchangeIInv, ShimTypeOK', ExchangeIInv', MirrorIInv,
           OneThread, NEW t \in Thread, ReadAnswer(t) \/ ReadFails(t)
    PROVE  MirrorIInv'
<1>1. CASE ReadFails(t)
  <2>1. session' # "open"
    BY <1>1 DEF ReadFails
  <2> QED
    BY <2>1 DEF MirrorIInv
<1>2. CASE ReadAnswer(t)
  <2>1. answers # <<>> /\ UNCHANGED <<db, session, txn>>
    BY <1>2 DEF ReadAnswer
  <2>2. call' = [call EXCEPT ![t].at = "apply", ![t].reply = Head(answers)]
    BY <1>2 DEF ReadAnswer, OneThread
  <2>3. call'[t].at = "apply" /\ call'[t].reply = Head(answers)
    BY <2>2 DEF ShimTypeOK, Calling
  <2>4. Head(answers) = answers[1] /\ 1 \in DOMAIN answers
    BY <2>1, AtMostOne, Singleton DEF ShimTypeOK
  <2>5. Settled(t)'
    BY <2>1, <2>3, <2>4 DEF MirrorIInv, Settled, Told
  <2> QED
    BY <2>3, <2>5, MirrorAfter
<1> QED
  BY <1>1, <1>2

LEMMA ServeMirror ==
    ASSUME ShimTypeOK, ExchangeIInv, MirrorIInv, OneThread, Serve
    PROVE  MirrorIInv'
<1>1. /\ sent # <<>> /\ sent' = <<>> /\ answers = <<>>
      /\ UNCHANGED <<db, session, stream, call>> /\ session = "open"
  BY AtMostOne DEF Serve
<1>2. \A u \in Thread : call[u].at = "answer"
  BY <1>1 DEF ExchangeIInv, ShimTypeOK, OneThread
<1>3. txn \in BOOLEAN
  BY DEF ShimTypeOK
<1>4. \E r : answers' = Append(answers, r) /\ (r.autocommit <=> ~txn')
  <2>1. CASE Head(sent).op = "prepare"
    <3>1. AnswerPrepare(Head(sent))
      BY <2>1 DEF Serve
    <3>2. PICK c \in {"ok", "error"}, e \in BOOLEAN :
            /\ answers' = Append(answers,
                 [by |-> Head(sent).by, code |-> c, rows |-> 0,
                  autocommit |-> ~txn, of |-> "unbound", empty |-> e])
            /\ UNCHANGED <<txn, ran>>
      BY <3>1 DEF AnswerPrepare
    <3> DEFINE r == [by |-> Head(sent).by, code |-> c, rows |-> 0,
                     autocommit |-> ~txn, of |-> "unbound", empty |-> e]
    <3>3. r.autocommit = ~txn
      OBVIOUS
    <3>4. r.autocommit <=> ~txn'
      BY <3>2, <3>3
    <3> QED
      BY <3>2, <3>4
  <2>2. CASE Head(sent).op # "prepare"
    <3>1. AnswerExec(Head(sent))
      BY <2>2 DEF Serve
    <3>2. PICK c \in {"ok", "error"}, n \in 0..MaxRows, open \in BOOLEAN :
            /\ txn' = open
            /\ answers' = Append(answers,
                 [by |-> Head(sent).by, code |-> c, rows |-> n,
                  autocommit |-> ~open, of |-> Head(sent).params, empty |-> FALSE])
      BY <3>1 DEF AnswerExec
    <3> DEFINE r == [by |-> Head(sent).by, code |-> c, rows |-> n,
                     autocommit |-> ~open, of |-> Head(sent).params, empty |-> FALSE]
    <3>3. r.autocommit = ~open
      OBVIOUS
    <3>4. r.autocommit <=> ~txn'
      BY <3>2, <3>3
    <3> QED
      BY <3>2, <3>4
  <2> QED
    BY <2>1, <2>2
<1> PICK r : answers' = Append(answers, r) /\ (r.autocommit <=> ~txn')
  BY <1>4
<1>5. answers' = <<r>>
  BY <1>1
<1> QED
  BY <1>1, <1>2, <1>5 DEF MirrorIInv, Told

LEMMA MirrorStep ==
    OneThread /\ ShimTypeOK /\ ExchangeIInv /\ MirrorIInv /\ [Next]_vars => MirrorIInv'
<1> SUFFICES ASSUME OneThread, ShimTypeOK, ExchangeIInv, MirrorIInv, [Next]_vars
             PROVE  MirrorIInv'
  OBVIOUS
<1>1. ShimTypeOK' /\ ExchangeIInv'
  BY ShimStep
<1>2. CASE UNCHANGED vars
  BY <1>2 DEF vars, lineVars, MirrorIInv, Told, InStep
<1>3. CASE Next
  <2>1. ASSUME NEW t \in Thread,
               \/ Exec(t)
               \/ \E q \in Stmt : UseStmt(t, q)
               \/ \E v2 \in BOOLEAN : Close(t, v2)
        PROVE  MirrorIInv'
    <3>1. AtPlace(t, "idle")
      BY <2>1 DEF Exec, UseStmt, Prepare, Step, StepOn, Bind, ClearBindings, Reset,
         Finalize, Close, MayCall
    <3> QED
      BY <1>1, <2>1, <3>1, MirrorBefore, UseSettled, MirrorAfter DEF AtPlace
  <2>2. ASSUME NEW t \in Thread, Open(t)
        PROVE  MirrorIInv'
    <3>1. db'.autocommit /\ ~txn' /\ call'[t].at = "idle"
      BY <2>2 DEF Open, NewDb, Returns, NoCall, ShimTypeOK
    <3> QED
      BY <1>1, <3>1, MirrorAfter DEF Settled, InStep
  <2>3. ASSUME NEW t \in Thread,
               \/ ApplyState(t) \/ ApplyError(t) \/ ApplyOk(t)
               \/ Callback(t) \/ Fail(t)
               \/ ExecFails(t) \/ PrepareFails(t) \/ StepFails(t)
        PROVE  MirrorIInv'
    <3>1. call[t].at # "answer"
      BY <2>3 DEF ApplyState, ApplyError, ApplyOk, Callback, Fail, ExecFails,
         PrepareFails, StepFails, AtPlace
    <3> QED
      BY <1>1, <2>3, <3>1, MirrorBefore, ApplySettled, MirrorAfter
  <2>4. ASSUME NEW t \in Thread, Rpc(t)
        PROVE  MirrorIInv'
    BY <1>1, <2>3, <2>4, WriteRequestMirror, ReadMirror DEF Rpc
  <2>5. ASSUME BrokerDies
        PROVE  MirrorIInv'
    BY <2>5 DEF BrokerDies, MirrorIInv
  <2> QED
    BY <1>3, <2>1, <2>2, <2>4, <2>5, ServeMirror DEF Next
<1> QED
  BY <1>2, <1>3

(* sqlite3_get_autocommit tells the state of the broker's connection between
   calls, also after texts that failed half way, lost answers and a handle
   opened anew (apply). *)
THEOREM MirrorFollows ==
    ASSUME OneThread
    PROVE  Spec => []MirrorTracksTransaction
<1>1. Init => MirrorIInv
  BY DEF Init, MirrorIInv, InStep, NewDb, NoCall
<1>2. MirrorIInv => MirrorTracksTransaction
  <2> SUFFICES ASSUME MirrorIInv, session = "open", \A t \in Thread : AtPlace(t, "idle")
               PROVE  db.autocommit <=> ~txn
    BY DEF MirrorTracksTransaction
  <2> QED
    BY DEF MirrorIInv, AtPlace, InStep, OneThread
<1>3. Spec => []MirrorIInv
  BY <1>1, MirrorStep, ExchangeCorrect, PTL DEF Spec
<1> QED
  BY <1>2, <1>3, PTL
=============================================================================
