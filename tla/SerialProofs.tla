----------------------------- MODULE SerialProofs -----------------------------
(***************************************************************************)
(* The broker implements SerialStore, for every set of sessions and every  *)
(* combination of faults: a statement that the worker executes is a turn   *)
(* of the serial store, a crash is a crash, the rest is invisible.         *)
(***************************************************************************)
EXTENDS BrokerProofs

Open == {s \in Session : conn[s].txn}

(* How a call's phase follows the thread and its reply channel. *)
Phase(op, answer) ==
    IF op \notin Statements THEN "idle"
    ELSE IF answer = "none" THEN "asked" ELSE "ran"

LEMMA CallPhases == AbstractCall = [s \in Session |-> Phase(thread[s], reply[s])]
BY DEF AbstractCall, Phase

(* A step that changes at most s's thread and reply changes at most s's phase. *)
LEMMA OnlyOnePhase ==
    ASSUME NEW s \in Session,
           \A t \in Session \ {s} : thread'[t] = thread[t] /\ reply'[t] = reply[t]
    PROVE  AbstractCall' =
               [AbstractCall EXCEPT ![s] = Phase(thread'[s], reply'[s])]
BY DEF AbstractCall, Phase

LEMMA SamePhases ==
    ASSUME NEW s \in Session,
           \A t \in Session \ {s} : thread'[t] = thread[t] /\ reply'[t] = reply[t],
           Phase(thread'[s], reply'[s]) = Phase(thread[s], reply[s])
    PROVE  AbstractCall' = AbstractCall
BY DEF AbstractCall, Phase

(* Whoever may run finds nobody else inside a transaction. *)
LEMMA OpenWithHolder ==
    ASSUME IInv, NEW s, holder = NoSession \/ holder = s
    PROVE  Open \subseteq {s}
<1> SUFFICES ASSUME NEW t \in Session, conn[t].txn
             PROVE  t = s
  BY DEF Open
<1>1. t \in sessions
  BY DEF IInv, ClosedIsFresh, Fresh
<1>2. holder = t
  BY <1>1 DEF IInv, HolderTracksTransaction
<1> QED
  BY <1>2, NoSessionAssumption

(* Running a statement is a turn. *)
LEMMA DispatchIsRun ==
    ASSUME IInv, NEW job \in Job, job.op \in Statements, job.op = thread[job.id],
           reply[job.id] = "none", job.id \in sessions,
           holder = NoSession \/ holder = job.id,
           Dispatch(job), UNCHANGED thread
    PROVE  \E s \in Session : Serial!Run(s)
<1> DEFINE s == job.id
<1>1. s \in Session
  BY DEF Job
<1>2. PICK code \in Replies \ {"none"} : reply' = [reply EXCEPT ![s] = code]
  BY DispatchEffect
<1>3. /\ reply \in [Session -> Replies] /\ conn \in [Session -> Conn]
      /\ db' \in Value
  BY DispatchEffect DEF IInv, TypeOK, WorkerTypeOK, FileTypeOK
<1>4. AbstractCall' = [AbstractCall EXCEPT ![s] = "ran"]
  <2>1. \A t \in Session \ {s} : thread'[t] = thread[t] /\ reply'[t] = reply[t]
    BY <1>2, <1>3
  <2>2. Phase(thread'[s], reply'[s]) = "ran"
    BY <1>1, <1>2, <1>3 DEF Phase
  <2> QED
    BY <1>1, <2>1, <2>2, OnlyOnePhase
<1>5. AbstractCall[s] = "asked"
  BY <1>1 DEF AbstractCall
<1>6. Open \subseteq {s}
  BY OpenWithHolder
<1>7. Open' \subseteq {s}
  <2>1. \A t \in Session \ {s} : conn'[t] = conn[t]
    BY <1>3 DEF Dispatch, RunExec, RunPrepare
  <2> QED
    BY <1>6, <2>1 DEF Open
<1>8. Open' \in SUBSET {s}
  BY <1>7
<1> HIDE DEF s
<1>9. Serial!Run(s)
  BY <1>3, <1>4, <1>5, <1>6, <1>8 DEF Serial!Run, Serial!MayRun, Open
<1> QED
  BY <1>1, <1>9

(* Dropping a session is leaving, if it was inside a transaction. *)
LEMMA DropIsLeave ==
    ASSUME IInv, HandleDrop, UNCHANGED thread
    PROVE  \/ \E s \in Session : Serial!Leave(s)
           \/ UNCHANGED Serial!vars
<1> DEFINE s == Head(inbox).id
<1>1. /\ s \in Session /\ thread[s] \in {"drop", "close"}
  BY ReceivedJob DEF HandleDrop, Job
<1>2. /\ conn' = [conn EXCEPT ![s] = Fresh]
      /\ reply' = [reply EXCEPT ![s] = "done"]
      /\ db' = db
      /\ conn \in [Session -> Conn] /\ reply \in [Session -> Replies]
  BY DEF HandleDrop, DropSession, Answer, IInv, TypeOK, WorkerTypeOK, FileTypeOK
<1>3. AbstractCall' = AbstractCall /\ AbstractCall[s] = "idle"
  <2>1. thread[s] \notin Statements /\ thread'[s] = thread[s]
    BY <1>1 DEF Statements
  <2>2. \A t \in Session \ {s} : thread'[t] = thread[t] /\ reply'[t] = reply[t]
    BY <1>2
  <2>3. AbstractCall' = AbstractCall
    BY <1>1, <2>1, <2>2, SamePhases DEF Phase
  <2> QED
    BY <1>1, <2>1, <2>3 DEF AbstractCall
<1>4. Open' = Open \ {s}
  BY <1>1, <1>2 DEF Open, Fresh
<1>5. CASE s \in Open
  BY <1>1, <1>2, <1>3, <1>4, <1>5 DEF Serial!Leave, Open
<1>6. CASE s \notin Open
  <2>1. Open' = Open
    BY <1>4, <1>6
  <2> QED
    BY <1>2, <1>3, <2>1 DEF Serial!vars, Open
<1> QED
  BY <1>5, <1>6

LEMMA WorkerImplements ==
    ASSUME IInv, Worker_
    PROVE  [Serial!Next]_(Serial!vars)
<1>1. thread' = thread
  BY DEF Worker_
<1>2. CASE HandleOpen
  <2> DEFINE s == Head(inbox).id
  <2>1. s \in Session /\ thread[s] = "open"
    BY <1>2, ReceivedJob DEF HandleOpen, Job
  <2>2. PICK code : reply' = [reply EXCEPT ![s] = code]
    BY <1>2 DEF HandleOpen, Answer
  <2>3. UNCHANGED <<conn, db>>
    BY <1>2 DEF HandleOpen
  <2>4. AbstractCall' = AbstractCall
    <3>1. \A t \in Session \ {s} : thread'[t] = thread[t] /\ reply'[t] = reply[t]
      BY <1>1, <2>2 DEF IInv, TypeOK, WorkerTypeOK
    <3> QED
      BY <1>1, <2>1, <3>1, SamePhases DEF Phase, Statements
  <2> QED
    BY <2>3, <2>4 DEF Serial!vars
<1>3. CASE HandleDrop
  BY <1>1, <1>3, DropIsLeave DEF Serial!Next
<1>4. CASE HandleQueued
  BY <1>1, <1>4 DEF HandleQueued, Serial!vars, AbstractCall
<1>5. CASE HandleStatement
  <2> DEFINE job == Head(inbox)
  <2>1. /\ Received(Statements) /\ Dispatch(job)
        /\ holder = NoSession \/ holder = job.id
    BY <1>5 DEF HandleStatement, MustWait
  <2>2. /\ job \in Job /\ job.op \in Statements
        /\ thread[job.id] = job.op /\ reply[job.id] = "none"
    BY <2>1, ReceivedJob
  <2>3. job.id \in Session /\ job.id \in sessions
    BY <2>2 DEF Job, IInv, ConnectionPerThread
  <2> QED
    BY <1>1, <2>1, <2>2, <2>3, DispatchIsRun DEF Serial!Next
<1>6. CASE PumpNext
  <2> DEFINE job == Head(pending)
  <2>1. pumping /\ Dispatch(job)
    BY <1>6 DEF PumpNext
  <2>2. /\ holder = NoSession /\ job \in Job /\ job.op \in Statements
        /\ thread[job.id] = job.op /\ reply[job.id] = "none"
        /\ job.id \in sessions
    BY <2>1, PumpedJob
  <2> QED
    BY <1>1, <2>1, <2>2, DispatchIsRun DEF Serial!Next
<1> QED
  BY <1>2, <1>3, <1>4, <1>5, <1>6 DEF Worker_, WorkerStep

LEMMA ThreadImplements ==
    ASSUME IInv, NEW s \in Session, ThreadStep(s)
    PROVE  [Serial!Next]_(Serial!vars)
<1>1. UNCHANGED <<conn, db>>
  BY DEF ThreadStep, Accept, OpenFailed, OpenSucceeded, ReadRequest, ReadFailed,
     WriteReply, ThreadEnds, WorkerRest, fileVars
<1>2. thread \in [Session -> Threads] /\ reply \in [Session -> Replies]
  BY DEF IInv, TypeOK, WorkerTypeOK
<1>3. \A t \in Session \ {s} : thread'[t] = thread[t] /\ reply'[t] = reply[t]
  BY <1>2 DEF ThreadStep, Accept, OpenFailed, OpenSucceeded, ReadRequest, ReadFailed,
     WriteReply, ThreadEnds, TakeReply, Send, GoOn
<1>4. CASE Phase(thread'[s], reply'[s]) = Phase(thread[s], reply[s])
  <2>1. AbstractCall' = AbstractCall
    BY <1>3, <1>4, SamePhases
  <2> QED
    BY <1>1, <2>1 DEF Serial!vars
<1>5. CASE ReadRequest(s)
  <2>1. thread[s] = "read" /\ peer[s] \in Messages \ {"bad"} /\ Send(s, peer[s])
        /\ reply' = reply
    BY <1>5 DEF ReadRequest
  <2>2. thread'[s] = peer[s] /\ reply'[s] = "none"
    BY <1>2, <2>1 DEF Send, IInv, OneJobPerCall, Ops, Statements
  <2>3. CASE peer[s] \in Statements
    <3>1. AbstractCall' = [AbstractCall EXCEPT ![s] = "asked"]
      BY <1>3, <2>2, <2>3, OnlyOnePhase DEF Phase
    <3>2. AbstractCall[s] = "idle"
      BY <2>1 DEF AbstractCall, Statements
    <3> QED
      BY <1>1, <3>1, <3>2 DEF Serial!Ask, Serial!Next
  <2>4. CASE peer[s] \notin Statements
    <3>1. Phase(thread'[s], reply'[s]) = Phase(thread[s], reply[s])
      BY <2>1, <2>2, <2>4 DEF Phase, Statements
    <3> QED
      BY <1>4, <3>1
  <2> QED
    BY <2>3, <2>4
<1>6. CASE WriteReply(s)
  <2>1. thread[s] \in Statements /\ reply[s] # "none"
    BY <1>6 DEF WriteReply, TakeReply
  <2>2. thread'[s] \in {"read", "drop"}
    BY <1>2, <1>6 DEF WriteReply, GoOn, Send
  <2>3. AbstractCall' = [AbstractCall EXCEPT ![s] = "idle"]
    BY <1>3, <2>2, OnlyOnePhase DEF Phase, Statements
  <2>4. AbstractCall[s] = "ran"
    BY <2>1 DEF AbstractCall
  <2> QED
    BY <1>1, <2>3, <2>4 DEF Serial!Answer, Serial!Next
<1>7. CASE \/ Accept(s) \/ OpenFailed(s) \/ OpenSucceeded(s) \/ ReadFailed(s)
           \/ ThreadEnds(s)
  <2>1. /\ thread[s] \in {"none", "open", "read", "close", "drop"}
        /\ thread'[s] \in {"none", "open", "read", "drop"}
    BY <1>2, <1>7 DEF Accept, OpenFailed, OpenSucceeded, ReadFailed, ThreadEnds, Send, GoOn
  <2>2. Phase(thread'[s], reply'[s]) = Phase(thread[s], reply[s])
    BY <2>1 DEF Phase, Statements
  <2> QED
    BY <1>4, <2>2
<1> QED
  BY <1>5, <1>6, <1>7 DEF ThreadStep

LEMMA EndIsCrash ==
    ASSUME IInv, ProcessEnds,
           \/ db' = db
           \/ db' \in Value /\ \E s \in Session : Serial!MayRun(s)
    PROVE  Serial!Crash
<1>1. Open' = {}
  BY DEF ProcessEnds, Open, Fresh
<1>2. AbstractCall' = [s \in Session |-> "idle"]
  BY DEF ProcessEnds, AbstractCall, Statements
<1> QED
  BY <1>1, <1>2 DEF Serial!Crash, Open

LEMMA PanicImplements ==
    ASSUME IInv, Panic
    PROVE  Serial!Crash
<1>1. PICK s \in Session :
          /\ AboutToDispatch([id |-> s, op |-> "torn"])
          /\ \E r \in Outcomes(s, "exec") : db' = r.at.db
  BY DEF Panic
<1> DEFINE job == [id |-> s, op |-> "torn"]
<1>2. db' \in Value
  <2>1. WorkerTypeOK /\ "exec" \in Statements
    BY DEF IInv, TypeOK, Statements
  <2> QED
    BY <1>1, <2>1, OutcomesType DEF Point
<1>3. /\ holder = NoSession \/ holder = s
      /\ thread[s] = "torn" /\ reply[s] = "none"
  <2>1. CASE pumping /\ job = Head(pending)
    BY <2>1, PumpedJob
  <2>2. CASE ~pumping /\ inbox # <<>> /\ job = Head(inbox) /\ ~MustWait(s)
    <3>1. Head(inbox) \in Jobs(inbox) /\ Distinct(inbox)
      BY <2>2, TailJobs DEF IInv, OneJobPerCall, TypeOK, WorkerTypeOK
    <3>2. thread[s] = "torn" /\ InQueue(inbox, s)
      BY <2>2, <3>1 DEF IInv, OneJobPerCall, InQueue
    <3>3. reply[s] = "none"
      BY <3>2 DEF IInv, OneJobPerCall
    <3> QED
      BY <2>2, <3>2, <3>3 DEF MustWait
  <2> QED
    BY <1>1, <2>1, <2>2 DEF AboutToDispatch
<1>4. Serial!MayRun(s)
  <2>1. AbstractCall[s] = "asked"
    BY <1>3 DEF AbstractCall, Statements
  <2>2. Open \subseteq {s}
    BY <1>3, OpenWithHolder
  <2> QED
    BY <2>1, <2>2 DEF Serial!MayRun, Open
<1> QED
  BY <1>2, <1>4, EndIsCrash DEF Panic

LEMMA StepImplements ==
    IInv /\ [Next]_vars => [Serial!Next]_(Serial!vars)
<1> SUFFICES ASSUME IInv, [Next]_vars
             PROVE  [Serial!Next]_(Serial!vars)
  OBVIOUS
<1>1. CASE Worker_
  BY <1>1, WorkerImplements
<1>2. ASSUME NEW s \in Session, ThreadStep(s)
      PROVE  [Serial!Next]_(Serial!vars)
  BY <1>2, ThreadImplements
<1>3. CASE UNCHANGED <<conn, db, thread, reply>>
  BY <1>3 DEF Serial!vars, AbstractCall
<1>4. ASSUME NEW s \in Session, ClientStep(s)
      PROVE  UNCHANGED <<conn, db, thread, reply>>
  BY <1>4 DEF ClientStep, Connect, Call, Die, ClientRest, workerVars, fileVars
<1>5. CASE OutsideRead
  BY <1>3, <1>5 DEF OutsideRead, workerVars
<1>6. CASE Restart
  BY <1>6, EndIsCrash DEF Restart, Serial!Next
<1>7. CASE Panic
  BY <1>7, PanicImplements DEF Serial!Next
<1>8. CASE UNCHANGED vars
  BY <1>3, <1>8 DEF vars
<1> QED
  BY <1>1, <1>2, <1>3, <1>4, <1>5, <1>6, <1>7, <1>8 DEF Next

LEMMA InitImplements == Init => Serial!Init
BY DEF Init, WorkerInit, FileInit, Fresh, Serial!Init, AbstractCall, Statements

(* The broker is a serial store: every call runs once, in a turn that no
   other session's transaction interrupts, and no failure undoes or invents
   a commit. *)
THEOREM BrokerIsSerial == Spec => SerialService
BY InitImplements, StepImplements, Inductive, PTL DEF Spec, SerialService, Serial!Spec

=============================================================================
