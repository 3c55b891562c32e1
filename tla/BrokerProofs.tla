----------------------------- MODULE BrokerProofs -----------------------------
(***************************************************************************)
(* Safety of the broker for every set of sessions, every database and      *)
(* every combination of faults, checked by TLAPS.                          *)
(***************************************************************************)
EXTENDS Broker, SequenceTheorems, TLAPS

-----------------------------------------------------------------------------
(* What appending does to a queue's jobs. *)
LEMMA AppendJobs ==
    ASSUME NEW q \in Seq(Job), NEW job \in Job
    PROVE  /\ Append(q, job) \in Seq(Job)
           /\ Jobs(Append(q, job)) = Jobs(q) \cup {job}
           /\ Distinct(q) /\ ~InQueue(q, job.id) => Distinct(Append(q, job))
<1> DEFINE a == Append(q, job)
<1>1. /\ a \in Seq(Job)
      /\ Len(a) = Len(q) + 1
      /\ \A i \in 1..Len(q) : a[i] = q[i]
      /\ a[Len(q) + 1] = job
  BY AppendProperties
<1>2. Len(q) \in Nat /\ DOMAIN q = 1..Len(q) /\ DOMAIN a = 1..Len(a)
  BY <1>1, LenProperties
<1>3. DOMAIN a = DOMAIN q \cup {Len(q) + 1}
  BY <1>1, <1>2
<1>4. Jobs(a) = Jobs(q) \cup {job}
  BY <1>1, <1>2, <1>3 DEF Jobs
<1>5. ASSUME Distinct(q), ~InQueue(q, job.id)
      PROVE  Distinct(a)
  <2>1. \A i \in DOMAIN q : a[i] = q[i] /\ q[i].id # job.id
    BY <1>1, <1>2, <1>5 DEF InQueue, Jobs
  <2> QED
    BY <1>1, <1>3, <1>5, <2>1 DEF Distinct
<1> QED
  BY <1>1, <1>4, <1>5

(* What taking the first job does to a queue's jobs. *)
LEMMA TailJobs ==
    ASSUME NEW q \in Seq(Job), q # <<>>
    PROVE  /\ Tail(q) \in Seq(Job)
           /\ Head(q) \in Job
           /\ Head(q) \in Jobs(q)
           /\ Jobs(q) = Jobs(Tail(q)) \cup {Head(q)}
           /\ Distinct(q) =>
                 Distinct(Tail(q)) /\ ~InQueue(Tail(q), Head(q).id)
<1> DEFINE t == Tail(q)
<1>1. /\ t \in Seq(Job)
      /\ Len(t) = Len(q) - 1
      /\ \A i \in 1..Len(t) : t[i] = q[i + 1]
      /\ Head(q) = q[1]
  BY HeadTailProperties
<1>2. /\ Len(q) \in Nat \ {0}
      /\ DOMAIN q = 1..Len(q)
      /\ DOMAIN t = 1..Len(t)
      /\ Head(q) \in Job
  BY <1>1, LenProperties, EmptySeq, HeadTailProperties
<1>3. \A i \in DOMAIN t : i + 1 \in DOMAIN q /\ t[i] = q[i + 1] /\ i + 1 # 1
  BY <1>1, <1>2
<1>4. \A i \in DOMAIN q : i = 1 \/ (i - 1 \in DOMAIN t /\ t[i - 1] = q[i])
  <2> SUFFICES ASSUME NEW i \in DOMAIN q, i # 1
               PROVE  i - 1 \in DOMAIN t /\ t[i - 1] = q[i]
    OBVIOUS
  <2>1. i - 1 \in 1..Len(t) /\ (i - 1) + 1 = i
    BY <1>1, <1>2
  <2> QED
    BY <2>1, <1>1, <1>2
<1>5. 1 \in DOMAIN q
  BY <1>2
<1>6. Head(q) \in Jobs(q) /\ Jobs(q) = Jobs(t) \cup {Head(q)}
  <2>1. Jobs(t) \cup {Head(q)} \subseteq Jobs(q)
    BY <1>1, <1>3, <1>5 DEF Jobs
  <2>2. Jobs(q) \subseteq Jobs(t) \cup {Head(q)}
    BY <1>1, <1>4 DEF Jobs
  <2> QED
    BY <2>1, <2>2
<1>7. ASSUME Distinct(q)
      PROVE  Distinct(t) /\ ~InQueue(t, Head(q).id)
  <2>1. Distinct(t)
    <3> SUFFICES ASSUME NEW i \in DOMAIN t, NEW j \in DOMAIN t, t[i].id = t[j].id
                 PROVE  i = j
      BY DEF Distinct
    <3>1. i + 1 = j + 1
      BY <1>3, <1>7 DEF Distinct
    <3> QED
      BY <3>1, <1>2
  <2>2. ASSUME NEW i \in DOMAIN t, t[i].id = Head(q).id
        PROVE  FALSE
    BY <2>2, <1>1, <1>3, <1>5, <1>7 DEF Distinct
  <2> QED
    BY <2>1, <2>2 DEF InQueue, Jobs
<1> QED
  BY <1>1, <1>2, <1>6, <1>7

(* A queue without entries of s is not touched when s is dropped. *)
LEMMA WithoutNone ==
    ASSUME NEW q, NEW s, ~InQueue(q, s)
    PROVE  Without(q, s) = q
BY DEF Without, InQueue, Jobs

-----------------------------------------------------------------------------
(* A connection and a database, as a script sees them. *)
Point == [conn: Conn, db: Value]

LEMMA RaiseType ==
    ASSUME NEW c \in Conn, NEW l \in Lock
    PROVE  Raise(c, l) \in Conn /\ Raise(c, l).txn = c.txn
BY DEF Raise, Conn, Lock

LEMMA SettleType ==
    ASSUME NEW c \in Conn
    PROVE  Settle(c) \in Conn
BY DEF Settle, Conn, Lock

(* One statement leads from a point to points. *)
LEMMA StatementType ==
    ASSUME NEW p \in Point, NEW held, NEW q \in Statement(p, held)
    PROVE  q \in Point
<1>0. /\ p.conn \in Conn
      /\ p.db \in Value
      /\ \A c \in Conn, d \in Value : At(c, d) \in Point
  BY DEF Point, At
<1>1. \A l \in Lock : Raise(p.conn, l) \in Conn /\ Settle(Raise(p.conn, l)) \in Conn
  BY <1>0, RaiseType, SettleType
<1>2. Settle(p.conn) \in Conn
  BY <1>0, SettleType
<1>3. {"none", "shared", "reserved", "exclusive"} = Lock
  BY DEF Lock
<1>4. CASE q = p
  BY <1>4
<1>5. CASE q \in Read(p, held)
  BY <1>0, <1>1, <1>3, <1>5 DEF Read
<1>6. CASE q \in WriteInTransaction(p, held)
  <2>1. PICK v \in Value :
            q = At([Raise(p.conn, "reserved") EXCEPT !.dirty = v], p.db)
    BY <1>6 DEF WriteInTransaction
  <2>2. Raise(p.conn, "reserved") \in Conn
    BY <1>1, <1>3
  <2>3. [Raise(p.conn, "reserved") EXCEPT !.dirty = v] \in Conn
    BY <2>2 DEF Conn
  <2> QED
    BY <1>0, <2>1, <2>3
<1>7. CASE q \in WriteInAutocommit(p, held)
  BY <1>0, <1>1, <1>3, <1>7 DEF WriteInAutocommit
<1>8. CASE q \in Begin(p, held)
  <2>1. PICK l \in Lock :
            q = At([Raise(p.conn, l) EXCEPT !.txn = TRUE], p.db)
    BY <1>3, <1>8 DEF Begin
  <2>2. Raise(p.conn, l) \in Conn
    BY <1>1
  <2>3. [Raise(p.conn, l) EXCEPT !.txn = TRUE] \in Conn
    BY <2>2 DEF Conn
  <2> QED
    BY <1>0, <2>1, <2>3
<1>9. CASE q \in Commit(p, held)
  <2>1. p.conn.dirty # Clean => p.conn.dirty \in Value
    BY <1>0 DEF Conn
  <2> QED
    BY <1>0, <1>1, <1>2, <1>3, <1>9, <2>1 DEF Commit
<1>10. CASE q \in Rollback(p)
  BY <1>0, <1>2, <1>10 DEF Rollback
<1>11. CASE q \in SetLockingMode(p)
  <2>1. [p.conn EXCEPT !.sticky = ~@] \in Conn
    BY <1>0 DEF Conn
  <2> QED
    BY <1>0, <1>11, <2>1 DEF SetLockingMode
<1> QED
  BY <1>4, <1>5, <1>6, <1>7, <1>8, <1>9, <1>10, <1>11 DEF Statement

(* What a request leads to: a point, and an answer. *)
LEMMA OutcomesType ==
    ASSUME NEW s \in Session, WorkerTypeOK, NEW op \in Statements,
           NEW r \in Outcomes(s, op)
    PROVE  r.at \in Point /\ r.code \in {"done", "busy", "failed"}
<1>1. Here(s) \in Point
  BY DEF Here, At, Point, WorkerTypeOK, FileTypeOK
<1>2. CASE s \notin sessions
  BY <1>1, <1>2 DEF Outcomes
<1>3. CASE r \in PrepareOutcomes(s)
  <2>1. At(Raise(conn[s], "shared"), db) \in Point
    BY RaiseType DEF At, Point, WorkerTypeOK, FileTypeOK, Lock
  <2> QED
    BY <1>1, <1>3, <2>1 DEF PrepareOutcomes
<1>4. CASE r \in ExecOutcomes(s)
  <2>1. \A p \in Script(Here(s), HeldByOthers(s)) : p \in Point
    BY <1>1, StatementType DEF Script
  <2> QED
    BY <1>4, <2>1 DEF ExecOutcomes
<1> QED
  BY <1>2, <1>3, <1>4 DEF Outcomes

(* Compiling a statement neither opens nor ends a transaction. *)
LEMMA PrepareKeeps ==
    ASSUME NEW s \in Session, WorkerTypeOK, NEW r \in Outcomes(s, "prepare")
    PROVE  r.at.conn.txn = conn[s].txn /\ r.at.db = db
<1>1. conn[s] \in Conn
  BY DEF WorkerTypeOK, FileTypeOK
<1>2. Raise(conn[s], "shared").txn = conn[s].txn
  BY <1>1, RaiseType DEF Lock
<1> QED
  BY <1>2 DEF Outcomes, PrepareOutcomes, Here, At

-----------------------------------------------------------------------------
(* The three ways a job moves: it is sent, it leaves a queue answered, or
   its answer is taken. *)

(* A thread that waits for nothing has nothing in flight. *)
LEMMA NothingInFlight ==
    ASSUME IInv, NEW s \in Session, thread[s] \notin Ops \/ reply[s] # "none"
    PROVE  ~InQueue(inbox, s) /\ ~InQueue(pending, s)
<1>1. \A job \in Jobs(inbox) \cup Jobs(pending) : job \in Job
  BY DEF IInv, TypeOK, WorkerTypeOK, Jobs
<1>2. \A job \in Jobs(inbox) \cup Jobs(pending) : job.op = thread[job.id]
  BY DEF IInv, OneJobPerCall
<1>3. CASE thread[s] \notin Ops
  BY <1>1, <1>2, <1>3 DEF InQueue, Job
<1>4. CASE reply[s] # "none"
  BY <1>4 DEF IInv, OneJobPerCall
<1> QED
  BY <1>3, <1>4

LEMMA JobSent ==
    ASSUME IInv, NEW s \in Session, NEW o \in Ops, Send(s, o),
           thread[s] \notin Ops \/ reply[s] # "none",
           reply' = [reply EXCEPT ![s] = "none"],
           UNCHANGED pending
    PROVE  OneJobPerCall' /\ inbox' \in Seq(Job) /\ thread' \in [Session -> Threads]
<1> DEFINE sent == [id |-> s, op |-> o]
<1>1. sent \in Job /\ sent.id = s /\ sent.op = o
  BY DEF Job
<1>2. inbox \in Seq(Job) /\ thread \in [Session -> Threads] /\ reply \in [Session -> Replies]
  BY DEF IInv, TypeOK, WorkerTypeOK
<1>3. ~InQueue(inbox, s) /\ ~InQueue(pending, s)
  BY NothingInFlight
<1>4. inbox' = Append(inbox, sent) /\ thread' = [thread EXCEPT ![s] = o]
  BY DEF Send
<1>5. /\ inbox' \in Seq(Job)
      /\ Jobs(inbox') = Jobs(inbox) \cup {sent}
      /\ Distinct(inbox) => Distinct(inbox')
  BY <1>1, <1>2, <1>3, <1>4, AppendJobs
<1>6. thread' \in [Session -> Threads]
  BY <1>2, <1>4 DEF Threads
<1>7. Distinct(inbox') /\ Distinct(pending')
  BY <1>5 DEF IInv, OneJobPerCall
<1>8. \A j \in Jobs(inbox) \cup Jobs(pending) : j.id # s /\ j \in Job
  BY <1>3 DEF InQueue, Jobs, IInv, TypeOK, WorkerTypeOK
<1>9. \A j \in Jobs(inbox') \cup Jobs(pending') : j.op = thread'[j.id]
  BY <1>1, <1>2, <1>4, <1>5, <1>8 DEF IInv, OneJobPerCall, Job
<1>10. \A j \in Jobs(pending') : j.op \in Statements
  BY DEF IInv, OneJobPerCall
<1>11. ASSUME NEW t \in Session
       PROVE  /\ ~(InQueue(inbox', t) /\ InQueue(pending', t))
              /\ reply'[t] # "none" =>
                    thread'[t] \in Ops /\ ~InQueue(inbox', t) /\ ~InQueue(pending', t)
              /\ thread'[t] \in Ops /\ reply'[t] = "none" =>
                    InQueue(inbox', t) \/ InQueue(pending', t)
  <2>1. InQueue(inbox', t) <=> InQueue(inbox, t) \/ t = s
    BY <1>1, <1>5 DEF InQueue
  <2>2. CASE t = s
    BY <1>2, <1>3, <2>1, <2>2
  <2>3. CASE t # s
    <3>1. reply'[t] = reply[t] /\ thread'[t] = thread[t]
      BY <1>2, <1>4, <2>3
    <3> QED
      BY <2>1, <2>3, <3>1 DEF IInv, OneJobPerCall
  <2> QED
    BY <2>2, <2>3
<1> QED
  BY <1>5, <1>6, <1>7, <1>9, <1>10, <1>11 DEF OneJobPerCall

(* The thread of s takes its answer, or had none to take, and goes on to
   read or ends. *)
LEMMA ReplyTaken ==
    ASSUME IInv, NEW s \in Session, NEW t \in {"none", "read"}, GoOn(s, t),
           reply[s] # "none", reply' = [reply EXCEPT ![s] = "none"],
           UNCHANGED pending
    PROVE  OneJobPerCall' /\ thread' \in [Session -> Threads]
<1>1. thread \in [Session -> Threads] /\ reply \in [Session -> Replies]
  BY DEF IInv, TypeOK, WorkerTypeOK
<1>2. thread' = [thread EXCEPT ![s] = t] /\ inbox' = inbox
  BY DEF GoOn
<1>3. thread' \in [Session -> Threads]
  BY <1>1, <1>2 DEF Threads
<1>4. ~InQueue(inbox, s) /\ ~InQueue(pending, s)
  BY NothingInFlight
<1>5. \A j \in Jobs(inbox) \cup Jobs(pending) : j.id # s /\ j \in Job
  BY <1>4 DEF InQueue, Jobs, IInv, TypeOK, WorkerTypeOK
<1>6. \A j \in Jobs(inbox) \cup Jobs(pending) : j.op = thread'[j.id]
  BY <1>1, <1>2, <1>5 DEF IInv, OneJobPerCall, Job
<1>7. t \notin Ops
  BY DEF Ops, Statements
<1>8. ASSUME NEW u \in Session
      PROVE  /\ ~(InQueue(inbox, u) /\ InQueue(pending, u))
             /\ reply'[u] # "none" =>
                   thread'[u] \in Ops /\ ~InQueue(inbox, u) /\ ~InQueue(pending, u)
             /\ thread'[u] \in Ops /\ reply'[u] = "none" =>
                   InQueue(inbox, u) \/ InQueue(pending, u)
  <2>1. CASE u = s
    BY <1>1, <1>2, <1>4, <1>7, <2>1
  <2>2. CASE u # s
    <3>1. reply'[u] = reply[u] /\ thread'[u] = thread[u]
      BY <1>1, <1>2, <2>2
    <3> QED
      BY <3>1 DEF IInv, OneJobPerCall
  <2> QED
    BY <2>1, <2>2
<1> QED
  BY <1>2, <1>3, <1>6, <1>8 DEF IInv, OneJobPerCall

(* The job the worker receives is its session's only one. *)
LEMMA ReceivedJob ==
    ASSUME IInv, NEW ops, Received(ops)
    PROVE  LET job == Head(inbox) IN
           /\ job \in Job /\ job.op \in ops
           /\ thread[job.id] = job.op /\ reply[job.id] = "none"
           /\ inbox' \in Seq(Job) /\ Distinct(inbox')
           /\ Jobs(inbox) = Jobs(inbox') \cup {job}
           /\ ~InQueue(inbox', job.id) /\ ~InQueue(pending, job.id)
<1> DEFINE first == Head(inbox)
<1>1. inbox \in Seq(Job) /\ inbox # <<>> /\ inbox' = Tail(inbox) /\ first.op \in ops
  BY DEF Received, IInv, TypeOK, WorkerTypeOK
<1>2. /\ Distinct(inbox)
      /\ \A job \in Jobs(inbox) : job.op = thread[job.id]
      /\ \A s \in Session :
            /\ ~(InQueue(inbox, s) /\ InQueue(pending, s))
            /\ reply[s] # "none" => ~InQueue(inbox, s)
  BY DEF IInv, OneJobPerCall
<1>3. /\ first \in Job /\ first \in Jobs(inbox)
      /\ inbox' \in Seq(Job) /\ Distinct(inbox')
      /\ Jobs(inbox) = Jobs(inbox') \cup {first}
      /\ ~InQueue(inbox', first.id)
  BY <1>1, <1>2, TailJobs
<1>4. first.id \in Session /\ InQueue(inbox, first.id)
  BY <1>3 DEF InQueue, Job
<1> QED
  BY <1>1, <1>2, <1>3, <1>4

(* So is the job that pump() takes, and its session is not in the way. *)
LEMMA PumpedJob ==
    ASSUME IInv, pumping
    PROVE  LET job == Head(pending) IN
           /\ holder = NoSession
           /\ job \in Job /\ job.op \in Statements
           /\ thread[job.id] = job.op /\ reply[job.id] = "none"
           /\ job.id \in sessions
           /\ Tail(pending) \in Seq(Job) /\ Distinct(Tail(pending))
           /\ Jobs(pending) = Jobs(Tail(pending)) \cup {job}
           /\ ~InQueue(Tail(pending), job.id) /\ ~InQueue(inbox, job.id)
<1> DEFINE first == Head(pending)
<1>1. pending \in Seq(Job) /\ pending # <<>> /\ holder = NoSession
  BY DEF PumpOnlyWithWork, IInv, TypeOK, WorkerTypeOK
<1>2. /\ Distinct(pending)
      /\ \A job \in Jobs(pending) : job.op = thread[job.id] /\ job.op \in Statements
      /\ \A s \in Session :
            /\ ~(InQueue(inbox, s) /\ InQueue(pending, s))
            /\ reply[s] # "none" => ~InQueue(pending, s)
  BY DEF IInv, OneJobPerCall
<1>3. /\ first \in Job /\ first \in Jobs(pending)
      /\ Tail(pending) \in Seq(Job) /\ Distinct(Tail(pending))
      /\ Jobs(pending) = Jobs(Tail(pending)) \cup {first}
      /\ ~InQueue(Tail(pending), first.id)
  BY <1>1, <1>2, TailJobs
<1>4. first.id \in Session /\ InQueue(pending, first.id)
  BY <1>3 DEF InQueue, Job
<1>5. first.id \in sessions
  BY <1>3 DEF IInv, QueuedWaitForOthers
<1> QED
  BY <1>1, <1>2, <1>3, <1>4, <1>5

(* A job that leaves its queue with an answer keeps the calls in order. *)
LEMMA JobAnswered ==
    ASSUME IInv, NEW job \in Job, NEW code \in Replies \ {"none"},
           job.op = thread[job.id], job.op \in Ops,
           reply' = [reply EXCEPT ![job.id] = code],
           UNCHANGED thread,
           Distinct(inbox'), Distinct(pending'),
           ~InQueue(inbox', job.id), ~InQueue(pending', job.id),
           Jobs(inbox') \subseteq Jobs(inbox),
           Jobs(inbox) \subseteq Jobs(inbox') \cup {job},
           Jobs(pending') \subseteq Jobs(pending),
           Jobs(pending) \subseteq Jobs(pending') \cup {job}
    PROVE  OneJobPerCall' /\ reply' \in [Session -> Replies]
<1>1. reply \in [Session -> Replies] /\ job.id \in Session
  BY DEF IInv, TypeOK, WorkerTypeOK, Job
<1>2. reply' \in [Session -> Replies]
  BY <1>1
<1>3. /\ \A j \in Jobs(inbox') \cup Jobs(pending') : j.op = thread'[j.id]
      /\ \A j \in Jobs(pending') : j.op \in Statements
  BY DEF IInv, OneJobPerCall
<1>4. ASSUME NEW t \in Session
      PROVE  /\ ~(InQueue(inbox', t) /\ InQueue(pending', t))
             /\ reply'[t] # "none" =>
                   thread'[t] \in Ops /\ ~InQueue(inbox', t) /\ ~InQueue(pending', t)
             /\ thread'[t] \in Ops /\ reply'[t] = "none" =>
                   InQueue(inbox', t) \/ InQueue(pending', t)
  <2>1. CASE t = job.id
    BY <1>1, <2>1
  <2>2. CASE t # job.id
    <3>1. reply'[t] = reply[t]
      BY <1>1, <2>2
    <3>2. InQueue(inbox', t) <=> InQueue(inbox, t)
      BY <2>2 DEF InQueue
    <3>3. InQueue(pending', t) <=> InQueue(pending, t)
      BY <2>2 DEF InQueue
    <3> QED
      BY <3>1, <3>2, <3>3 DEF IInv, OneJobPerCall
  <2> QED
    BY <2>1, <2>2
<1> QED
  BY <1>2, <1>3, <1>4 DEF OneJobPerCall

-----------------------------------------------------------------------------
(* Each step of the worker preserves the inductive invariant. *)

LEMMA HandleOpenInv ==
    ASSUME IInv, HandleOpen, UNCHANGED <<thread, peer>>
    PROVE  IInv'
<1> DEFINE job == Head(inbox)
           s   == job.id
<1>1. Received({"open"})
  BY DEF HandleOpen
<1>2. /\ job \in Job /\ job.op = "open"
      /\ thread[s] = "open" /\ reply[s] = "none"
      /\ inbox' \in Seq(Job) /\ Distinct(inbox')
      /\ Jobs(inbox) = Jobs(inbox') \cup {job}
      /\ ~InQueue(inbox', s) /\ ~InQueue(pending, s)
  BY <1>1, ReceivedJob
<1>3. s \in Session /\ s \notin sessions
  BY <1>2 DEF Job, IInv, ConnectionPerThread, Statements
<1>4. PICK code \in {"done", "failed"} :
          /\ sessions' = IF code = "done" THEN sessions \cup {s} ELSE sessions
          /\ reply' = [reply EXCEPT ![s] = code]
  BY DEF HandleOpen, Answer
<1>5. /\ UNCHANGED <<holder, pending, conn, db, outside>>
      /\ pumping' = (holder' = NoSession /\ pending' # <<>>)
  BY DEF HandleOpen, ThenPump
<1>6. Distinct(pending')
  BY <1>5 DEF IInv, OneJobPerCall
<1>7. OneJobPerCall' /\ reply' \in [Session -> Replies]
  BY <1>2, <1>4, <1>5, <1>6, JobAnswered DEF Replies, Ops
<1>8. TypeOK'
  BY <1>2, <1>3, <1>4, <1>5, <1>7 DEF IInv, TypeOK, WorkerTypeOK, FileTypeOK
<1>9. conn[s] = Fresh
  BY <1>3 DEF IInv, ClosedIsFresh
<1>10. HolderTracksTransaction'
  <2>1. Fresh.txn = FALSE
    BY DEF Fresh
  <2> QED
    BY <1>3, <1>4, <1>5, <1>9, <2>1 DEF IInv, HolderTracksTransaction
<1>11. QueueOnlyBehindHolder' /\ PumpOnlyWithWork'
  BY <1>5 DEF QueueOnlyBehindHolder, PumpOnlyWithWork
<1>12. QueuedWaitForOthers'
  BY <1>4, <1>5 DEF IInv, QueuedWaitForOthers
<1>13. ConnectionPerThread'
  BY <1>2, <1>3, <1>4 DEF IInv, ConnectionPerThread, TypeOK, WorkerTypeOK
<1>14. ClosedIsFresh'
  BY <1>4, <1>5 DEF IInv, ClosedIsFresh
<1> QED
  BY <1>7, <1>8, <1>10, <1>11, <1>12, <1>13, <1>14 DEF IInv

LEMMA HandleDropInv ==
    ASSUME IInv, HandleDrop, UNCHANGED <<thread, peer>>
    PROVE  IInv'
<1> DEFINE job == Head(inbox)
           s   == job.id
<1>1. Received({"drop", "close"}) /\ DropSession(s)
  BY DEF HandleDrop
<1>2. /\ job \in Job /\ job.op \in {"drop", "close"}
      /\ thread[s] = job.op /\ reply[s] = "none"
      /\ inbox' \in Seq(Job) /\ Distinct(inbox')
      /\ Jobs(inbox) = Jobs(inbox') \cup {job}
      /\ ~InQueue(inbox', s) /\ ~InQueue(pending, s)
  BY <1>1, ReceivedJob
<1>3. s \in Session
  BY <1>2 DEF Job
<1>4. pending' = pending
  BY <1>1, <1>2, WithoutNone DEF DropSession
<1>5. /\ sessions' = sessions \ {s}
      /\ conn' = [conn EXCEPT ![s] = Fresh]
      /\ holder' = IF holder = s THEN NoSession ELSE holder
      /\ reply' = [reply EXCEPT ![s] = "done"]
      /\ UNCHANGED <<db, outside>>
      /\ pumping' = (holder' = NoSession /\ pending' # <<>>)
  BY <1>1 DEF HandleDrop, DropSession, Answer, ThenPump
<1>6. Distinct(pending')
  BY <1>4 DEF IInv, OneJobPerCall
<1>7. OneJobPerCall' /\ reply' \in [Session -> Replies]
  BY <1>2, <1>4, <1>5, <1>6, JobAnswered DEF Replies, Ops
<1>8. Fresh \in Conn /\ Fresh.txn = FALSE
  BY DEF Fresh, Conn, Lock
<1>9. TypeOK'
  BY <1>2, <1>3, <1>4, <1>5, <1>7, <1>8 DEF IInv, TypeOK, WorkerTypeOK, FileTypeOK
<1>10. \A t \in Session : conn'[t] = IF t = s THEN Fresh ELSE conn[t]
  BY <1>5 DEF IInv, TypeOK, WorkerTypeOK, FileTypeOK
<1>11. HolderTracksTransaction'
  BY <1>3, <1>5, <1>8, <1>10, NoSessionAssumption DEF IInv, HolderTracksTransaction
<1>12. QueueOnlyBehindHolder' /\ PumpOnlyWithWork'
  BY <1>5 DEF QueueOnlyBehindHolder, PumpOnlyWithWork
<1>13. QueuedWaitForOthers'
  <2>1. \A j \in Jobs(pending) : j.id # s
    BY <1>2 DEF InQueue
  <2>2. \A j \in Jobs(pending) : j \in Job
    BY DEF Jobs, IInv, TypeOK, WorkerTypeOK
  <2>3. \A j \in Jobs(pending) : j.id # NoSession
    BY <2>2, NoSessionAssumption DEF Job
  <2> QED
    BY <1>4, <1>5, <2>1, <2>3 DEF IInv, QueuedWaitForOthers
<1>14. ConnectionPerThread'
  BY <1>2, <1>3, <1>5 DEF IInv, ConnectionPerThread, TypeOK, WorkerTypeOK, Statements
<1>15. ClosedIsFresh'
  BY <1>5, <1>10 DEF IInv, ClosedIsFresh
<1> QED
  BY <1>7, <1>9, <1>11, <1>12, <1>13, <1>14, <1>15 DEF IInv

LEMMA HandleQueuedInv ==
    ASSUME IInv, HandleQueued, UNCHANGED <<thread, peer>>
    PROVE  IInv'
<1> DEFINE job == Head(inbox)
           s   == job.id
<1>1. Received(Statements) /\ holder # NoSession /\ holder # s
  BY DEF HandleQueued, MustWait
<1>2. /\ job \in Job /\ job.op \in Statements
      /\ thread[s] = job.op /\ reply[s] = "none"
      /\ inbox' \in Seq(Job) /\ Distinct(inbox')
      /\ Jobs(inbox) = Jobs(inbox') \cup {job}
      /\ ~InQueue(inbox', s) /\ ~InQueue(pending, s)
  BY <1>1, ReceivedJob
<1>3. s \in Session /\ s \in sessions
  BY <1>2 DEF Job, IInv, ConnectionPerThread
<1>4. /\ pending' = Append(pending, job)
      /\ UNCHANGED <<sessions, holder, pumping, reply, conn, db, outside>>
  BY DEF HandleQueued
<1>5. pending \in Seq(Job) /\ Distinct(pending)
  BY DEF IInv, TypeOK, WorkerTypeOK, OneJobPerCall
<1>6. /\ pending' \in Seq(Job) /\ Distinct(pending')
      /\ Jobs(pending') = Jobs(pending) \cup {job}
  BY <1>2, <1>4, <1>5, AppendJobs
<1>7. OneJobPerCall'
  <2>1. /\ \A j \in Jobs(inbox') \cup Jobs(pending') : j.op = thread'[j.id]
        /\ \A j \in Jobs(pending') : j.op \in Statements
    BY <1>2, <1>6 DEF IInv, OneJobPerCall
  <2>2. ASSUME NEW t \in Session
        PROVE  /\ ~(InQueue(inbox', t) /\ InQueue(pending', t))
               /\ reply'[t] # "none" =>
                     thread'[t] \in Ops /\ ~InQueue(inbox', t) /\ ~InQueue(pending', t)
               /\ thread'[t] \in Ops /\ reply'[t] = "none" =>
                     InQueue(inbox', t) \/ InQueue(pending', t)
    <3>1. CASE t = s
      <4>1. ~InQueue(inbox', t) /\ InQueue(pending', t) /\ reply'[t] = "none"
        BY <1>2, <1>4, <1>6, <3>1 DEF InQueue
      <4> QED
        BY <4>1
    <3>2. CASE t # s
      <4>1. InQueue(inbox', t) <=> InQueue(inbox, t)
        BY <1>2, <3>2 DEF InQueue
      <4>2. InQueue(pending', t) <=> InQueue(pending, t)
        BY <1>6, <3>2 DEF InQueue
      <4> QED
        BY <1>4, <4>1, <4>2 DEF IInv, OneJobPerCall
    <3> QED
      BY <3>1, <3>2
  <2> QED
    BY <1>2, <1>6, <2>1, <2>2 DEF OneJobPerCall
<1>8. TypeOK'
  BY <1>2, <1>4, <1>6 DEF IInv, TypeOK, WorkerTypeOK, FileTypeOK
<1>9. QueuedWaitForOthers'
  BY <1>1, <1>3, <1>4, <1>6 DEF IInv, QueuedWaitForOthers
<1>10. QueueOnlyBehindHolder' /\ PumpOnlyWithWork'
  BY <1>1, <1>4 DEF Received, QueueOnlyBehindHolder, PumpOnlyWithWork
<1>11. HolderTracksTransaction' /\ ConnectionPerThread' /\ ClosedIsFresh'
  BY <1>4 DEF IInv, HolderTracksTransaction, ConnectionPerThread, ClosedIsFresh
<1> QED
  BY <1>7, <1>8, <1>9, <1>10, <1>11 DEF IInv

(* Running a statement of s, when s may run, keeps holder and connections
   in step. *)
LEMMA DispatchEffect ==
    ASSUME IInv, NEW job \in Job, job.id \in sessions,
           holder = NoSession \/ holder = job.id,
           Dispatch(job)
    PROVE  /\ \E code \in Replies \ {"none"} :
                  reply' = [reply EXCEPT ![job.id] = code]
           /\ sessions' = sessions
           /\ conn' \in [Session -> Conn] /\ db' \in Value
           /\ holder' \in {NoSession, job.id}
           /\ HolderTracksTransaction'
           /\ ClosedIsFresh'
<1> DEFINE s == job.id
<1>1. s \in Session
  BY DEF Job
<1>2. /\ conn \in [Session -> Conn] /\ db \in Value /\ WorkerTypeOK
      /\ \A t \in Session : holder = t <=> (t \in sessions /\ conn[t].txn)
      /\ \A t \in Session \ sessions : conn[t] = Fresh
  BY DEF IInv, TypeOK, WorkerTypeOK, FileTypeOK, HolderTracksTransaction, ClosedIsFresh
<1>3. CASE RunPrepare(s)
  <2>1. PICK r \in Outcomes(s, "prepare") :
            /\ conn' = [conn EXCEPT ![s] = r.at.conn]
            /\ reply' = [reply EXCEPT ![s] = r.code]
            /\ UNCHANGED <<sessions, holder, db>>
    BY <1>3 DEF RunPrepare, Answer
  <2>2. "prepare" \in Statements
    BY DEF Statements
  <2>3. r.at \in Point /\ r.code \in {"done", "busy", "failed"}
    BY <1>1, <1>2, <2>2, OutcomesType
  <2>4. r.at.conn \in Conn
    BY <2>3 DEF Point
  <2>5. r.at.conn.txn = conn[s].txn
    BY <1>1, <1>2, PrepareKeeps
  <2>6. \A t \in Session : conn'[t].txn = conn[t].txn
    BY <1>2, <2>1, <2>5
  <2>7. HolderTracksTransaction'
    BY <1>2, <2>1, <2>6 DEF HolderTracksTransaction
  <2>8. ClosedIsFresh'
    BY <1>2, <2>1 DEF ClosedIsFresh
  <2> QED
    BY <1>2, <2>1, <2>3, <2>4, <2>7, <2>8 DEF Replies
<1>4. CASE RunExec(s)
  <2>1. PICK r \in Outcomes(s, "exec") :
            /\ conn' = [conn EXCEPT ![s] = r.at.conn]
            /\ db' = r.at.db
            /\ holder' = IF r.at.conn.txn THEN s
                         ELSE IF holder = s THEN NoSession
                         ELSE holder
            /\ reply' = [reply EXCEPT ![s] = r.code]
            /\ UNCHANGED sessions
    BY <1>4 DEF RunExec, Answer
  <2>2. "exec" \in Statements
    BY DEF Statements
  <2>3. r.at \in Point /\ r.code \in {"done", "busy", "failed"}
    BY <1>1, <1>2, <2>2, OutcomesType
  <2>4. r.at.conn \in Conn /\ r.at.db \in Value
    BY <2>3 DEF Point
  <2>5. holder' = IF r.at.conn.txn THEN s ELSE NoSession
    BY <2>1
  <2>6. ASSUME NEW t \in Session
        PROVE  holder' = t <=> (t \in sessions' /\ conn'[t].txn)
    <3>1. CASE t = s
      <4>1. conn'[t] = r.at.conn
        BY <1>2, <2>1, <3>1
      <4> QED
        BY <1>1, <2>1, <2>5, <3>1, <4>1, NoSessionAssumption
    <3>2. CASE t # s
      <4>1. conn'[t] = conn[t] /\ holder # t
        BY <1>2, <2>1, <3>2, NoSessionAssumption
      <4>2. ~(t \in sessions /\ conn[t].txn)
        BY <1>2, <4>1
      <4> QED
        BY <2>1, <2>5, <3>2, <4>1, <4>2, NoSessionAssumption
    <3> QED
      BY <3>1, <3>2
  <2>7. ClosedIsFresh'
    BY <1>2, <2>1 DEF ClosedIsFresh
  <2> QED
    BY <1>2, <2>1, <2>3, <2>4, <2>5, <2>6, <2>7 DEF Replies, HolderTracksTransaction
<1> QED
  BY <1>3, <1>4 DEF Dispatch

LEMMA HandleStatementInv ==
    ASSUME IInv, HandleStatement, UNCHANGED <<thread, peer>>
    PROVE  IInv'
<1> DEFINE job == Head(inbox)
           s   == job.id
<1>1. /\ Received(Statements) /\ (holder = NoSession \/ holder = s)
      /\ Dispatch(job)
      /\ UNCHANGED <<pending, outside>>
      /\ pumping' = (holder' = NoSession /\ pending' # <<>>)
  BY DEF HandleStatement, MustWait, ThenPump
<1>2. /\ job \in Job /\ job.op \in Statements
      /\ thread[s] = job.op /\ reply[s] = "none"
      /\ inbox' \in Seq(Job) /\ Distinct(inbox')
      /\ Jobs(inbox) = Jobs(inbox') \cup {job}
      /\ ~InQueue(inbox', s) /\ ~InQueue(pending, s)
  BY <1>1, ReceivedJob
<1>3. s \in Session /\ s \in sessions
  BY <1>2 DEF Job, IInv, ConnectionPerThread
<1>4. PICK code \in Replies \ {"none"} : reply' = [reply EXCEPT ![s] = code]
  BY <1>1, <1>2, <1>3, DispatchEffect
<1>5. /\ sessions' = sessions
      /\ conn' \in [Session -> Conn] /\ db' \in Value
      /\ holder' \in {NoSession, s}
      /\ HolderTracksTransaction'
      /\ ClosedIsFresh'
  BY <1>1, <1>2, <1>3, DispatchEffect
<1>6. Distinct(pending')
  BY <1>1 DEF IInv, OneJobPerCall
<1>7. OneJobPerCall' /\ reply' \in [Session -> Replies]
  BY <1>1, <1>2, <1>4, <1>6, JobAnswered DEF Ops
<1>8. TypeOK'
  BY <1>1, <1>2, <1>3, <1>5, <1>7 DEF IInv, TypeOK, WorkerTypeOK, FileTypeOK
<1>9. QueueOnlyBehindHolder' /\ PumpOnlyWithWork'
  BY <1>1 DEF QueueOnlyBehindHolder, PumpOnlyWithWork
<1>10. QueuedWaitForOthers'
  <2>1. \A j \in Jobs(pending) : j.id # s
    BY <1>2 DEF InQueue
  <2>2. \A j \in Jobs(pending) : j \in Job
    BY DEF Jobs, IInv, TypeOK, WorkerTypeOK
  <2>3. \A j \in Jobs(pending) : j.id # NoSession
    BY <2>2, NoSessionAssumption DEF Job
  <2> QED
    BY <1>1, <1>5, <2>1, <2>3 DEF IInv, QueuedWaitForOthers
<1>11. ConnectionPerThread'
  BY <1>2, <1>3, <1>4, <1>5 DEF IInv, ConnectionPerThread, TypeOK, WorkerTypeOK, Statements
<1> QED
  BY <1>5, <1>7, <1>8, <1>9, <1>10, <1>11 DEF IInv

LEMMA PumpNextInv ==
    ASSUME IInv, PumpNext, UNCHANGED <<thread, peer>>
    PROVE  IInv'
<1> DEFINE job == Head(pending)
           s   == job.id
<1>1. /\ pumping /\ Dispatch(job)
      /\ pending' = Tail(pending)
      /\ UNCHANGED <<inbox, outside>>
      /\ pumping' = (holder' = NoSession /\ pending' # <<>>)
  BY DEF PumpNext, ThenPump
<1>2. /\ holder = NoSession
      /\ job \in Job /\ job.op \in Statements
      /\ thread[s] = job.op /\ reply[s] = "none"
      /\ s \in sessions
      /\ pending' \in Seq(Job) /\ Distinct(pending')
      /\ Jobs(pending) = Jobs(pending') \cup {job}
      /\ ~InQueue(pending', s) /\ ~InQueue(inbox, s)
  BY <1>1, PumpedJob
<1>3. s \in Session
  BY <1>2 DEF Job
<1>4. PICK code \in Replies \ {"none"} : reply' = [reply EXCEPT ![s] = code]
  BY <1>1, <1>2, DispatchEffect
<1>5. /\ sessions' = sessions
      /\ conn' \in [Session -> Conn] /\ db' \in Value
      /\ holder' \in {NoSession, s}
      /\ HolderTracksTransaction'
      /\ ClosedIsFresh'
  BY <1>1, <1>2, DispatchEffect
<1>6. Distinct(inbox')
  BY <1>1 DEF IInv, OneJobPerCall
<1>7. OneJobPerCall' /\ reply' \in [Session -> Replies]
  BY <1>1, <1>2, <1>4, <1>6, JobAnswered DEF Ops
<1>8. TypeOK'
  BY <1>1, <1>2, <1>3, <1>5, <1>7 DEF IInv, TypeOK, WorkerTypeOK, FileTypeOK
<1>9. QueueOnlyBehindHolder' /\ PumpOnlyWithWork'
  BY <1>1 DEF QueueOnlyBehindHolder, PumpOnlyWithWork
<1>10. QueuedWaitForOthers'
  <2>1. \A j \in Jobs(pending') : j.id # s
    BY <1>2 DEF InQueue
  <2>2. \A j \in Jobs(pending') : j \in Job
    BY <1>2 DEF Jobs
  <2>3. \A j \in Jobs(pending') : j.id # NoSession
    BY <2>2, NoSessionAssumption DEF Job
  <2> QED
    BY <1>2, <1>5, <2>1, <2>3 DEF IInv, QueuedWaitForOthers
<1>11. ConnectionPerThread'
  BY <1>2, <1>3, <1>4, <1>5 DEF IInv, ConnectionPerThread, TypeOK, WorkerTypeOK, Statements
<1> QED
  BY <1>5, <1>7, <1>8, <1>9, <1>10, <1>11 DEF IInv

-----------------------------------------------------------------------------
(* Every step of a client's thread preserves the inductive invariant.  Such a
   step sends a job or goes on, and leaves the worker's own state alone. *)

LEMMA RestOfInv ==
    ASSUME IInv, WorkerRest
    PROVE  /\ HolderTracksTransaction' /\ QueueOnlyBehindHolder'
           /\ PumpOnlyWithWork' /\ QueuedWaitForOthers' /\ ClosedIsFresh'
           /\ inbox' \in Seq(Job) /\ reply' \in [Session -> Replies] =>
                 WorkerTypeOK'
BY DEF IInv, WorkerRest, fileVars, HolderTracksTransaction, QueueOnlyBehindHolder,
       PumpOnlyWithWork, QueuedWaitForOthers, ClosedIsFresh, TypeOK, WorkerTypeOK,
       FileTypeOK

(* Sending a job: right when the connections agree with the new wait. *)
LEMMA SendInv ==
    ASSUME IInv, NEW s \in Session, NEW o \in Ops, Send(s, o),
           thread[s] \notin Ops \/ reply[s] # "none",
           reply' = [reply EXCEPT ![s] = "none"],
           o = "open" <=> s \notin sessions,
           peer' \in [Session -> Peers],
           WorkerRest
    PROVE  IInv'
<1>1. /\ thread \in [Session -> Threads] /\ reply \in [Session -> Replies]
      /\ thread' = [thread EXCEPT ![s] = o]
  BY DEF IInv, TypeOK, WorkerTypeOK, Send
<1>2. UNCHANGED pending /\ sessions' = sessions
  BY DEF WorkerRest
<1>3. OneJobPerCall' /\ inbox' \in Seq(Job) /\ thread' \in [Session -> Threads]
  BY <1>2, JobSent
<1>4. reply' \in [Session -> Replies]
  BY <1>1 DEF Replies
<1>5. /\ HolderTracksTransaction' /\ QueueOnlyBehindHolder'
      /\ PumpOnlyWithWork' /\ QueuedWaitForOthers' /\ ClosedIsFresh'
      /\ WorkerTypeOK'
  BY <1>3, <1>4, RestOfInv
<1>6. ConnectionPerThread'
  <2> SUFFICES ASSUME NEW t \in Session
               PROVE  t \in sessions <=>
                         \/ thread'[t] \in {"read"} \cup Statements
                         \/ thread'[t] = "open" /\ reply'[t] = "done"
                         \/ thread'[t] \in {"close", "drop"} /\ reply'[t] = "none"
    BY <1>2 DEF ConnectionPerThread
  <2>1. CASE t = s
    BY <1>1, <2>1 DEF Ops, Statements
  <2>2. CASE t # s
    <3>1. thread'[t] = thread[t] /\ reply'[t] = reply[t]
      BY <1>1, <2>2
    <3> QED
      BY <3>1 DEF IInv, ConnectionPerThread
  <2> QED
    BY <2>1, <2>2
<1> QED
  BY <1>3, <1>5, <1>6 DEF IInv, TypeOK

(* Taking an answer and going on to read or to the end of the thread. *)
LEMMA GoOnInv ==
    ASSUME IInv, NEW s \in Session, NEW t \in {"none", "read"}, GoOn(s, t),
           TakeReply(s),
           t = "read" <=> s \in sessions,
           peer' \in [Session -> Peers],
           WorkerRest
    PROVE  IInv'
<1>1. /\ thread \in [Session -> Threads] /\ reply \in [Session -> Replies]
      /\ thread' = [thread EXCEPT ![s] = t] /\ inbox' = inbox
      /\ reply[s] # "none" /\ reply' = [reply EXCEPT ![s] = "none"]
      /\ inbox \in Seq(Job)
  BY DEF IInv, TypeOK, WorkerTypeOK, GoOn, TakeReply
<1>2. UNCHANGED pending /\ sessions' = sessions
  BY DEF WorkerRest
<1>3. OneJobPerCall' /\ thread' \in [Session -> Threads]
  BY <1>1, <1>2, ReplyTaken
<1>4. reply' \in [Session -> Replies]
  BY <1>1 DEF Replies
<1>5. /\ HolderTracksTransaction' /\ QueueOnlyBehindHolder'
      /\ PumpOnlyWithWork' /\ QueuedWaitForOthers' /\ ClosedIsFresh'
      /\ WorkerTypeOK'
  BY <1>1, <1>4, RestOfInv
<1>6. ConnectionPerThread'
  <2> SUFFICES ASSUME NEW u \in Session
               PROVE  u \in sessions <=>
                         \/ thread'[u] \in {"read"} \cup Statements
                         \/ thread'[u] = "open" /\ reply'[u] = "done"
                         \/ thread'[u] \in {"close", "drop"} /\ reply'[u] = "none"
    BY <1>2 DEF ConnectionPerThread
  <2>1. CASE u = s
    BY <1>1, <2>1 DEF Statements
  <2>2. CASE u # s
    <3>1. thread'[u] = thread[u] /\ reply'[u] = reply[u]
      BY <1>1, <2>2
    <3> QED
      BY <3>1 DEF IInv, ConnectionPerThread
  <2> QED
    BY <2>1, <2>2
<1> QED
  BY <1>3, <1>5, <1>6 DEF IInv, TypeOK

LEMMA ThreadStepInv ==
    ASSUME IInv, NEW s \in Session, ThreadStep(s)
    PROVE  IInv'
<1>1. /\ thread \in [Session -> Threads] /\ reply \in [Session -> Replies]
      /\ peer \in [Session -> Peers]
      /\ s \in sessions <=>
            \/ thread[s] \in {"read"} \cup Statements
            \/ thread[s] = "open" /\ reply[s] = "done"
            \/ thread[s] \in {"close", "drop"} /\ reply[s] = "none"
      /\ reply[s] # "none" => thread[s] \in Ops
  BY DEF IInv, TypeOK, WorkerTypeOK, ConnectionPerThread, OneJobPerCall
<1>2. \A p \in Peers : Become(s, p) => peer' \in [Session -> Peers]
  BY <1>1 DEF Become
<1>3. peer' = peer => peer' \in [Session -> Peers]
  BY <1>1
<1>4. thread[s] \notin Ops => reply[s] = "none"
  BY <1>1
<1>5. reply' = reply /\ reply[s] = "none" => reply' = [reply EXCEPT ![s] = "none"]
  BY <1>1
<1>6. CASE Accept(s)
  <2>1. /\ thread[s] = "none" /\ Send(s, "open") /\ WorkerRest
        /\ reply' = reply /\ peer' = peer
    BY <1>6 DEF Accept
  <2>2. thread[s] \notin Ops /\ s \notin sessions /\ "open" \in Ops
    BY <1>1, <2>1 DEF Ops, Statements
  <2> QED
    BY <1>3, <1>4, <1>5, <2>1, <2>2, SendInv
<1>7. CASE OpenFailed(s)
  <2>1. s \notin sessions /\ "off" \in Peers
    BY <1>1, <1>7 DEF OpenFailed, Statements, Peers
  <2> QED
    BY <1>2, <1>7, <2>1, GoOnInv DEF OpenFailed
<1>8. CASE OpenSucceeded(s)
  <2>1. /\ s \in sessions /\ TakeReply(s) /\ WorkerRest
        /\ reply[s] # "none" /\ reply' = [reply EXCEPT ![s] = "none"]
    BY <1>1, <1>8 DEF OpenSucceeded, TakeReply
  <2>2. CASE /\ GoOn(s, "read")
             /\ Become(s, IF peer[s] = "connecting" THEN "idle" ELSE peer[s])
    <3>1. (IF peer[s] = "connecting" THEN "idle" ELSE peer[s]) \in Peers
      BY <1>1 DEF Peers
    <3> QED
      BY <1>2, <2>1, <2>2, <3>1, GoOnInv
  <2>3. CASE Send(s, "drop") /\ UNCHANGED peer
    <3>1. "drop" \in Ops
      BY DEF Ops
    <3> QED
      BY <1>3, <2>1, <2>3, <3>1, SendInv
  <2> QED
    BY <1>8, <2>2, <2>3 DEF OpenSucceeded
<1>9. CASE ReadRequest(s)
  <2>1. /\ thread[s] = "read" /\ peer[s] \in Messages \ {"bad"}
        /\ Send(s, peer[s]) /\ Become(s, "calling") /\ WorkerRest
        /\ reply' = reply
    BY <1>9 DEF ReadRequest
  <2>2. /\ peer[s] \in Ops /\ peer[s] # "open" /\ "calling" \in Peers
        /\ thread[s] \notin Ops /\ s \in sessions
    BY <1>1, <2>1 DEF Messages, Ops, Statements, Peers
  <2> QED
    BY <1>2, <1>4, <1>5, <2>1, <2>2, SendInv
<1>10. CASE ReadFailed(s)
  <2>1. /\ thread[s] = "read" /\ Send(s, "drop") /\ WorkerRest
        /\ reply' = reply /\ peer' = peer
    BY <1>10 DEF ReadFailed
  <2>2. thread[s] \notin Ops /\ s \in sessions /\ "drop" \in Ops
    BY <1>1, <2>1 DEF Ops, Statements
  <2> QED
    BY <1>3, <1>4, <1>5, <2>1, <2>2, SendInv
<1>11. CASE WriteReply(s)
  <2>1. /\ s \in sessions /\ TakeReply(s) /\ WorkerRest
        /\ reply[s] # "none" /\ reply' = [reply EXCEPT ![s] = "none"]
    BY <1>1, <1>11 DEF WriteReply, TakeReply
  <2>2. CASE /\ GoOn(s, "read")
             /\ Become(s, IF peer[s] = "calling" THEN "idle" ELSE peer[s])
    <3>1. (IF peer[s] = "calling" THEN "idle" ELSE peer[s]) \in Peers
      BY <1>1 DEF Peers
    <3> QED
      BY <1>2, <2>1, <2>2, <3>1, GoOnInv
  <2>3. CASE Send(s, "drop") /\ UNCHANGED peer
    <3>1. "drop" \in Ops
      BY DEF Ops
    <3> QED
      BY <1>3, <2>1, <2>3, <3>1, SendInv
  <2> QED
    BY <1>11, <2>2, <2>3 DEF WriteReply
<1>12. CASE ThreadEnds(s)
  <2>1. s \notin sessions /\ "off" \in Peers
    BY <1>1, <1>12 DEF ThreadEnds, TakeReply, Statements, Peers
  <2> QED
    BY <1>2, <1>12, <2>1, GoOnInv DEF ThreadEnds
<1> QED
  BY <1>6, <1>7, <1>8, <1>9, <1>10, <1>11, <1>12 DEF ThreadStep

-----------------------------------------------------------------------------
(* The clients, the outside program, and the end of the process. *)

LEMMA ClientStepInv ==
    ASSUME IInv, NEW s \in Session, ClientStep(s)
    PROVE  IInv'
<1>1. UNCHANGED <<conn, db, outside, inbox, sessions, holder, pending, pumping,
                  reply, thread>>
  BY DEF ClientStep, Connect, Call, Die, ClientRest, workerVars, fileVars
<1>2. \E p \in Peers : Become(s, p)
  BY RequestsAssumption DEF ClientStep, Connect, Call, Die, Peers, Messages
<1>3. peer' \in [Session -> Peers]
  BY <1>2 DEF Become, IInv, TypeOK
<1> QED
  BY <1>1, <1>3 DEF IInv, TypeOK, WorkerTypeOK, FileTypeOK, HolderTracksTransaction,
       QueueOnlyBehindHolder, PumpOnlyWithWork, QueuedWaitForOthers, OneJobPerCall,
       ConnectionPerThread, ClosedIsFresh

LEMMA OutsideReadInv ==
    ASSUME IInv, OutsideRead
    PROVE  IInv'
<1>1. /\ UNCHANGED <<conn, db, inbox, sessions, holder, pending, pumping,
                     reply, thread, peer>>
      /\ outside' \in BOOLEAN
  BY DEF OutsideRead, workerVars, IInv, TypeOK, WorkerTypeOK, FileTypeOK
<1> QED
  BY <1>1 DEF IInv, TypeOK, WorkerTypeOK, FileTypeOK, HolderTracksTransaction,
       QueueOnlyBehindHolder, PumpOnlyWithWork, QueuedWaitForOthers, OneJobPerCall,
       ConnectionPerThread, ClosedIsFresh

(* A broker with nothing in memory is a correct one. *)
LEMMA EmptyInv ==
    ASSUME conn = [s \in Session |-> Fresh], db \in Value, outside \in BOOLEAN,
           inbox = <<>>, sessions = {}, holder = NoSession, pending = <<>>,
           pumping = FALSE, reply = [s \in Session |-> "none"],
           thread = [s \in Session |-> "none"], peer = [s \in Session |-> "off"]
    PROVE  IInv
<1>1. <<>> \in Seq(Job) /\ Jobs(<<>>) = {} /\ Distinct(<<>>)
  BY DEF Jobs, Distinct
<1>2. Fresh \in Conn /\ Fresh.txn = FALSE
  BY DEF Fresh, Conn, Lock
<1>3. TypeOK
  BY <1>1, <1>2 DEF TypeOK, WorkerTypeOK, FileTypeOK, Replies, Threads, Peers
<1>4. HolderTracksTransaction
  BY NoSessionAssumption DEF HolderTracksTransaction
<1>5. QueueOnlyBehindHolder /\ PumpOnlyWithWork /\ QueuedWaitForOthers /\ ClosedIsFresh
  BY <1>1 DEF QueueOnlyBehindHolder, PumpOnlyWithWork, QueuedWaitForOthers, ClosedIsFresh
<1>6. OneJobPerCall
  BY <1>1 DEF OneJobPerCall, InQueue, Ops, Statements
<1>7. ConnectionPerThread
  BY DEF ConnectionPerThread, Statements
<1> QED
  BY <1>3, <1>4, <1>5, <1>6, <1>7 DEF IInv

LEMMA ProcessEndsInv ==
    ASSUME IInv, ProcessEnds, db' \in Value
    PROVE  IInv'
<1>1. outside' \in BOOLEAN
  BY DEF ProcessEnds, IInv, TypeOK, WorkerTypeOK, FileTypeOK
<1>2. <<>> \in Seq(Job) /\ Jobs(<<>>) = {} /\ Distinct(<<>>)
  BY DEF Jobs, Distinct
<1>3. Fresh \in Conn /\ Fresh.txn = FALSE
  BY DEF Fresh, Conn, Lock
<1>4. TypeOK'
  BY <1>1, <1>2, <1>3 DEF ProcessEnds, TypeOK, WorkerTypeOK, FileTypeOK, Replies, Threads, Peers
<1>5. HolderTracksTransaction'
  BY NoSessionAssumption DEF ProcessEnds, HolderTracksTransaction
<1>6. QueueOnlyBehindHolder' /\ PumpOnlyWithWork' /\ QueuedWaitForOthers' /\ ClosedIsFresh'
  BY <1>2 DEF ProcessEnds, QueueOnlyBehindHolder, PumpOnlyWithWork, QueuedWaitForOthers,
       ClosedIsFresh
<1>7. OneJobPerCall'
  BY <1>2 DEF ProcessEnds, OneJobPerCall, InQueue, Ops, Statements
<1>8. ConnectionPerThread'
  BY DEF ProcessEnds, ConnectionPerThread, Statements
<1> QED
  BY <1>4, <1>5, <1>6, <1>7, <1>8 DEF IInv

LEMMA PanicInv ==
    ASSUME IInv, Panic
    PROVE  IInv'
<1>1. PICK s \in Session : \E r \in Outcomes(s, "exec") : db' = r.at.db
  BY DEF Panic
<1>2. WorkerTypeOK /\ "exec" \in Statements
  BY DEF IInv, TypeOK, Statements
<1>3. db' \in Value
  BY <1>1, <1>2, OutcomesType DEF Point
<1> QED
  BY <1>3, ProcessEndsInv DEF Panic

-----------------------------------------------------------------------------
LEMMA InitInv == Init => IInv
BY EmptyInv DEF Init, WorkerInit, FileInit

LEMMA NextInv == IInv /\ [Next]_vars => IInv'
<1> SUFFICES ASSUME IInv, [Next]_vars
             PROVE  IInv'
  OBVIOUS
<1>1. CASE Worker_
  BY <1>1, HandleOpenInv, HandleDropInv, HandleQueuedInv, HandleStatementInv, PumpNextInv
     DEF Worker_, WorkerStep
<1>2. CASE \E s \in Session : ThreadStep(s) \/ ClientStep(s)
  BY <1>2, ThreadStepInv, ClientStepInv
<1>3. CASE Restart
  <2>1. db' \in Value
    BY <1>3 DEF Restart, IInv, TypeOK, WorkerTypeOK, FileTypeOK
  <2> QED
    BY <1>3, <2>1, ProcessEndsInv DEF Restart
<1>4. CASE Panic
  BY <1>4, PanicInv
<1>5. CASE OutsideRead
  BY <1>5, OutsideReadInv
<1>6. CASE UNCHANGED vars
  BY <1>6 DEF vars, IInv, TypeOK, WorkerTypeOK, FileTypeOK, HolderTracksTransaction,
       QueueOnlyBehindHolder, PumpOnlyWithWork, QueuedWaitForOthers, OneJobPerCall,
       ConnectionPerThread, ClosedIsFresh
<1> QED
  BY <1>1, <1>2, <1>3, <1>4, <1>5, <1>6 DEF Next

(* The inductive invariant holds in every reachable state. *)
THEOREM Inductive == Spec => []IInv
BY InitInv, NextInv, PTL DEF Spec

(* Every variable of the broker stays within its type. *)
THEOREM TypeCorrect == Spec => []TypeOK
<1>1. IInv => TypeOK
  BY DEF IInv
<1> QED
  BY <1>1, Inductive, PTL

(* Broker and SQLite agree, at every moment and after every failure, on who
   is inside a transaction. *)
THEOREM HolderCorrect == Spec => []HolderTracksTransaction
<1>1. IInv => HolderTracksTransaction
  BY DEF IInv
<1> QED
  BY <1>1, Inductive, PTL

(* No request is left in the queue with nobody to wait for. *)
THEOREM NoLostWakeup == Spec => [](QueueOnlyBehindHolder /\ QueuedWaitForOthers)
<1>1. IInv => QueueOnlyBehindHolder /\ QueuedWaitForOthers
  BY DEF IInv
<1> QED
  BY <1>1, Inductive, PTL

(* A call is in flight exactly once, whatever is queued, dropped or lost. *)
THEOREM CallsAreNeitherLostNorDoubled == Spec => []OneJobPerCall
<1>1. IInv => OneJobPerCall
  BY DEF IInv
<1> QED
  BY <1>1, Inductive, PTL

(* An ended session leaves nothing behind, so its id could be used again. *)
THEOREM EndedSessionsLeaveNothing == Spec => []NoResidue
<1>1. IInv => NoResidue
  <2> SUFFICES ASSUME IInv, NEW s \in Session, thread[s] = "none"
               PROVE  /\ s \notin sessions /\ conn[s] = Fresh
                      /\ holder # s
                      /\ reply[s] = "none"
                      /\ ~InQueue(inbox, s) /\ ~InQueue(pending, s)
    BY DEF NoResidue
  <2>1. thread[s] \notin Ops
    BY DEF Ops, Statements
  <2>2. s \notin sessions
    BY DEF IInv, ConnectionPerThread, Statements
  <2>3. conn[s] = Fresh /\ holder # s
    BY <2>2 DEF IInv, ClosedIsFresh, HolderTracksTransaction
  <2> QED
    BY <2>1, <2>2, <2>3, NothingInFlight DEF IInv, OneJobPerCall
<1> QED
  BY <1>1, Inductive, PTL

-----------------------------------------------------------------------------
(* Where the jobs of two queues are once one lies behind the other. *)
LEMMA Concatenated ==
    ASSUME NEW p \in Seq(Job), NEW c \in Seq(Job)
    PROVE  LET q == p \o c IN
           /\ q \in Seq(Job) /\ Len(q) = Len(p) + Len(c) /\ DOMAIN q = 1..Len(q)
           /\ Len(p) \in Nat /\ Len(c) \in Nat
           /\ \A i \in 1..Len(p) : q[i] = p[i]
           /\ \A i \in 1..Len(c) : q[i + Len(p)] = c[i]
<1> DEFINE q == p \o c
<1>1. /\ q \in Seq(Job) /\ Len(q) = Len(p) + Len(c)
      /\ \A i \in 1..Len(p) + Len(c) :
            q[i] = IF i <= Len(p) THEN p[i] ELSE c[i - Len(p)]
  BY ConcatProperties
<1>2. Len(p) \in Nat /\ Len(c) \in Nat /\ DOMAIN q = 1..Len(q)
  BY <1>1, LenProperties
<1> HIDE DEF q
<1>3. \A i \in 1..Len(p) : q[i] = p[i]
  BY <1>1, <1>2
<1>4. ASSUME NEW i \in 1..Len(c)
      PROVE  q[i + Len(p)] = c[i]
  <2>1. /\ i + Len(p) \in 1..Len(p) + Len(c) /\ ~(i + Len(p) <= Len(p))
        /\ (i + Len(p)) - Len(p) = i
    BY <1>2
  <2> QED
    BY <1>1, <2>1
<1> QED
  BY <1>1, <1>2, <1>3, <1>4 DEF q

(* The channel and the queue, one behind the other, hold at most one job of a
   session. *)
LEMMA ArrivedOnce ==
    ASSUME IInv
    PROVE  /\ pending \in Seq(Job) /\ inbox \in Seq(Job) /\ Arrived \in Seq(Job)
           /\ Distinct(Arrived)
<1>1. /\ pending \in Seq(Job) /\ inbox \in Seq(Job)
      /\ Distinct(pending) /\ Distinct(inbox)
      /\ \A s \in Session : ~(InQueue(inbox, s) /\ InQueue(pending, s))
  BY DEF IInv, TypeOK, WorkerTypeOK, OneJobPerCall
<1>2. /\ Arrived \in Seq(Job) /\ Len(Arrived) = Len(pending) + Len(inbox)
      /\ \A i \in 1..Len(pending) + Len(inbox) :
            Arrived[i] = IF i <= Len(pending) THEN pending[i] ELSE inbox[i - Len(pending)]
  BY <1>1, ConcatProperties DEF Arrived
<1>3. /\ Len(pending) \in Nat /\ DOMAIN pending = 1..Len(pending)
      /\ Len(inbox) \in Nat /\ DOMAIN inbox = 1..Len(inbox)
      /\ DOMAIN Arrived = 1..Len(Arrived)
  BY <1>1, <1>2, LenProperties
<1>4. \A i \in DOMAIN Arrived :
         \/ i \in DOMAIN pending /\ Arrived[i] = pending[i]
         \/ /\ i - Len(pending) \in DOMAIN inbox /\ i \notin DOMAIN pending
            /\ Arrived[i] = inbox[i - Len(pending)]
  BY <1>2, <1>3
<1>5. \A i \in DOMAIN pending, j \in DOMAIN inbox : pending[i].id # inbox[j].id
  <2> SUFFICES ASSUME NEW i \in DOMAIN pending, NEW j \in DOMAIN inbox
               PROVE  pending[i].id # inbox[j].id
    OBVIOUS
  <2>1. pending[i] \in Job
    BY <1>1, <1>3, ElementOfSeq
  <2>2. pending[i].id \in Session
    BY <2>1 DEF Job
  <2> QED
    BY <1>1, <2>2 DEF InQueue, Jobs
<1>6. Distinct(Arrived)
  <2> SUFFICES ASSUME NEW i \in DOMAIN Arrived, NEW j \in DOMAIN Arrived,
                      Arrived[i].id = Arrived[j].id
               PROVE  i = j
    BY DEF Distinct
  <2>1. CASE i \in DOMAIN pending /\ j \in DOMAIN pending
    BY <1>1, <1>3, <1>4, <2>1 DEF Distinct
  <2>2. CASE i \notin DOMAIN pending /\ j \notin DOMAIN pending
    <3>1. i - Len(pending) = j - Len(pending)
      BY <1>1, <1>4, <2>2 DEF Distinct
    <3> QED
      BY <1>2, <1>3, <3>1
  <2> QED
    BY <1>4, <1>5, <2>1, <2>2
<1> QED
  BY <1>1, <1>2, <1>6

(* Taking a job out of a queue leaves the others in order; only one that is
   first may be a statement that somebody else's was ahead of. *)
LEMMA TakenOut ==
    ASSUME NEW q \in Seq(Job), NEW r \in Seq(Job), Distinct(q),
           NEW k \in 1..Len(q), Len(r) = Len(q) - 1,
           \A i \in 1..(k - 1) : r[i] = q[i],
           \A i \in k..Len(r) : r[i] = q[i + 1],
           NEW s, NEW t, Before(q, s, t), HasStatement(r, s),
           q[k].op \in Statements /\ q[k].id = t => k = 1
    PROVE  Before(r, s, t)
<1>1. /\ Len(q) \in Nat /\ DOMAIN q = 1..Len(q)
      /\ Len(r) \in Nat /\ DOMAIN r = 1..Len(r)
  BY LenProperties
<1>2. PICK i \in DOMAIN q, j \in DOMAIN q :
         /\ i < j
         /\ q[i].id = s /\ q[i].op \in Statements
         /\ q[j].id = t /\ q[j].op \in Statements
  BY DEF Before
<1>3. j # k
  BY <1>1, <1>2
<1>4. i # k
  <2>1. PICK m \in DOMAIN r : r[m].id = s
    BY DEF HasStatement, Jobs
  <2>2. \E n \in DOMAIN q : n # k /\ q[n].id = s
    <3>1. CASE m < k
      BY <1>1, <2>1, <3>1
    <3>2. CASE m >= k
      <4>1. m \in k..Len(r) /\ m + 1 \in DOMAIN q /\ m + 1 # k
        BY <1>1, <2>1, <3>2
      <4>2. q[m + 1].id = s
        BY <2>1, <4>1
      <4> QED
        BY <4>1, <4>2
    <3> QED
      BY <1>1, <3>1, <3>2
  <2> QED
    BY <1>2, <2>2 DEF Distinct
<1> DEFINE At1(n) == IF n < k THEN n ELSE n - 1
<1>5. \A n \in DOMAIN q : n # k => At1(n) \in DOMAIN r /\ r[At1(n)] = q[n]
  <2> SUFFICES ASSUME NEW n \in DOMAIN q, n # k
               PROVE  At1(n) \in DOMAIN r /\ r[At1(n)] = q[n]
    OBVIOUS
  <2>1. CASE n < k
    BY <1>1, <2>1
  <2>2. CASE n > k
    <3>1. n - 1 \in k..Len(r) /\ (n - 1) + 1 = n /\ At1(n) = n - 1
      BY <1>1, <2>2
    <3> QED
      BY <1>1, <3>1
  <2> QED
    BY <1>1, <2>1, <2>2
<1>6. At1(i) < At1(j)
  BY <1>1, <1>2, <1>3, <1>4
<1> HIDE DEF At1
<1> QED
  BY <1>2, <1>3, <1>4, <1>5, <1>6 DEF Before

(* The worker takes the first job out of its channel, which lies behind
   everything that is queued. *)
LEMMA ReceivedTakenOut ==
    ASSUME IInv, inbox # <<>>, inbox' = Tail(inbox), pending' = pending,
           NEW s, NEW t, Before(Arrived, s, t), HasStatement(Arrived', s),
           Head(inbox).op \in Statements /\ Head(inbox).id = t => pending = <<>>
    PROVE  Before(Arrived', s, t)
<1>1. /\ pending \in Seq(Job) /\ inbox \in Seq(Job) /\ Arrived \in Seq(Job)
      /\ Distinct(Arrived)
  BY ArrivedOnce
<1>2. /\ Tail(inbox) \in Seq(Job) /\ Len(Tail(inbox)) = Len(inbox) - 1
      /\ \A i \in 1..Len(Tail(inbox)) : Tail(inbox)[i] = inbox[i + 1]
      /\ Head(inbox) = inbox[1]
      /\ Len(inbox) \in Nat \ {0} /\ Len(pending) \in Nat
  BY <1>1, HeadTailProperties, LenProperties, EmptySeq
<1> DEFINE q == pending \o inbox
           r == pending \o Tail(inbox)
           k == Len(pending) + 1
<1>3. /\ q \in Seq(Job) /\ Len(q) = Len(pending) + Len(inbox)
      /\ \A i \in 1..Len(pending) : q[i] = pending[i]
      /\ \A i \in 1..Len(inbox) : q[i + Len(pending)] = inbox[i]
  BY <1>1, Concatenated
<1>4. /\ r \in Seq(Job) /\ Len(r) = Len(pending) + Len(Tail(inbox))
      /\ \A i \in 1..Len(pending) : r[i] = pending[i]
      /\ \A i \in 1..Len(Tail(inbox)) : r[i + Len(pending)] = Tail(inbox)[i]
  BY <1>1, <1>2, Concatenated
<1>5. Arrived = q /\ Arrived' = r
  BY DEF Arrived
<1> HIDE DEF q, r
<1>6. k \in 1..Len(q) /\ Len(r) = Len(q) - 1 /\ q[k] = Head(inbox)
  <2>1. 1 \in 1..Len(inbox) /\ 1 + Len(pending) = k
    BY <1>2
  <2> QED
    BY <1>2, <1>3, <1>4, <2>1
<1>7. \A i \in 1..(k - 1) : r[i] = q[i]
  <2>1. k - 1 = Len(pending)
    BY <1>2
  <2> QED
    BY <1>3, <1>4, <2>1
<1>8. ASSUME NEW i \in k..Len(r)
      PROVE  r[i] = q[i + 1]
  <2> DEFINE n == i - Len(pending)
  <2>1. /\ n \in 1..Len(Tail(inbox)) /\ n + 1 \in 1..Len(inbox)
        /\ n + Len(pending) = i /\ (n + 1) + Len(pending) = i + 1
    BY <1>2, <1>4
  <2>2. r[i] = Tail(inbox)[n]
    BY <1>4, <2>1
  <2>3. q[i + 1] = inbox[n + 1]
    BY <1>3, <2>1
  <2> QED
    BY <1>2, <2>1, <2>2, <2>3
<1>9. q[k].op \in Statements /\ q[k].id = t => k = 1
  <2>1. pending = <<>> => Len(pending) = 0
    BY <1>1, EmptySeq
  <2> QED
    BY <1>6, <2>1
<1>10. Distinct(q) /\ Before(q, s, t) /\ HasStatement(r, s)
  BY <1>1, <1>5
<1>11. Before(r, s, t)
  BY <1>3, <1>4, <1>6, <1>7, <1>8, <1>9, <1>10, TakenOut
<1> QED
  BY <1>5, <1>11

(* pump() takes the job that arrived first of all. *)
LEMMA PumpedTakenOut ==
    ASSUME IInv, pending # <<>>, pending' = Tail(pending), inbox' = inbox,
           NEW s, NEW t, Before(Arrived, s, t), HasStatement(Arrived', s)
    PROVE  Before(Arrived', s, t)
<1>1. /\ pending \in Seq(Job) /\ inbox \in Seq(Job) /\ Arrived \in Seq(Job)
      /\ Distinct(Arrived)
  BY ArrivedOnce
<1>2. /\ Tail(pending) \in Seq(Job) /\ Len(Tail(pending)) = Len(pending) - 1
      /\ \A i \in 1..Len(Tail(pending)) : Tail(pending)[i] = pending[i + 1]
      /\ Len(pending) \in Nat \ {0} /\ Len(inbox) \in Nat
  BY <1>1, HeadTailProperties, LenProperties, EmptySeq
<1> DEFINE q == pending \o inbox
           r == Tail(pending) \o inbox
<1>3. /\ q \in Seq(Job) /\ Len(q) = Len(pending) + Len(inbox)
      /\ \A i \in 1..Len(pending) : q[i] = pending[i]
      /\ \A i \in 1..Len(inbox) : q[i + Len(pending)] = inbox[i]
  BY <1>1, Concatenated
<1>4. /\ r \in Seq(Job) /\ Len(r) = Len(Tail(pending)) + Len(inbox)
      /\ \A i \in 1..Len(Tail(pending)) : r[i] = Tail(pending)[i]
      /\ \A i \in 1..Len(inbox) : r[i + Len(Tail(pending))] = inbox[i]
  BY <1>1, <1>2, Concatenated
<1>5. Arrived = q /\ Arrived' = r
  BY DEF Arrived
<1> HIDE DEF q, r
<1>6. 1 \in 1..Len(q) /\ Len(r) = Len(q) - 1
  BY <1>2, <1>3, <1>4
<1>7. ASSUME NEW i \in 1..Len(r)
      PROVE  r[i] = q[i + 1]
  <2>1. CASE i <= Len(Tail(pending))
    <3>1. i \in 1..Len(Tail(pending)) /\ i + 1 \in 1..Len(pending)
      BY <1>2, <2>1
    <3> QED
      BY <1>2, <1>3, <1>4, <3>1
  <2>2. CASE i > Len(Tail(pending))
    <3> DEFINE n == i - Len(Tail(pending))
    <3>1. /\ n \in 1..Len(inbox) /\ n + Len(Tail(pending)) = i
          /\ n + Len(pending) = i + 1
      BY <1>2, <1>4, <2>2
    <3>2. r[i] = inbox[n] /\ q[i + 1] = inbox[n]
      BY <1>3, <1>4, <3>1
    <3> QED
      BY <3>2
  <2> QED
    BY <1>2, <1>4, <2>1, <2>2
<1>8. Distinct(q) /\ Before(q, s, t) /\ HasStatement(r, s)
  BY <1>1, <1>5
<1>9. Before(r, s, t)
  <2>1. \A i \in 1..(1 - 1) : r[i] = q[i]
    OBVIOUS
  <2> QED
    BY <1>3, <1>4, <1>6, <1>7, <1>8, <2>1, TakenOut
<1> QED
  BY <1>5, <1>9

(* A job that is sent arrives behind the others. *)
LEMMA SentBehind ==
    ASSUME IInv, NEW u \in Session, NEW o \in Ops, Send(u, o), pending' = pending,
           NEW s, NEW t, Before(Arrived, s, t)
    PROVE  Before(Arrived', s, t)
<1>1. pending \in Seq(Job) /\ inbox \in Seq(Job) /\ Arrived \in Seq(Job)
  BY ArrivedOnce
<1> DEFINE job == [id |-> u, op |-> o]
<1>2. job \in Job /\ inbox' = Append(inbox, job)
  BY DEF Job, Send
<1>3. /\ inbox' \in Seq(Job) /\ Len(inbox') = Len(inbox) + 1
      /\ \A i \in 1..Len(inbox) : inbox'[i] = inbox[i]
  BY <1>1, <1>2, AppendProperties
<1> DEFINE q == pending \o inbox
           r == pending \o inbox'
<1>4. /\ Len(q) = Len(pending) + Len(inbox) /\ DOMAIN q = 1..Len(q)
      /\ Len(pending) \in Nat /\ Len(inbox) \in Nat
      /\ \A i \in 1..Len(pending) : q[i] = pending[i]
      /\ \A i \in 1..Len(inbox) : q[i + Len(pending)] = inbox[i]
  BY <1>1, Concatenated
<1>5. /\ Len(r) = Len(pending) + Len(inbox') /\ DOMAIN r = 1..Len(r)
      /\ \A i \in 1..Len(pending) : r[i] = pending[i]
      /\ \A i \in 1..Len(inbox') : r[i + Len(pending)] = inbox'[i]
  BY <1>1, <1>3, Concatenated
<1>6. Arrived = q /\ Arrived' = r
  BY DEF Arrived
<1> HIDE DEF q, r, job
<1>7. ASSUME NEW i \in DOMAIN q
      PROVE  i \in DOMAIN r /\ r[i] = q[i]
  <2>1. CASE i <= Len(pending)
    <3>1. i \in 1..Len(pending) /\ i \in DOMAIN r
      BY <1>3, <1>4, <1>5, <2>1
    <3> QED
      BY <1>4, <1>5, <3>1
  <2>2. CASE i > Len(pending)
    <3> DEFINE n == i - Len(pending)
    <3>1. /\ n \in 1..Len(inbox) /\ n \in 1..Len(inbox') /\ n + Len(pending) = i
          /\ i \in DOMAIN r
      BY <1>3, <1>4, <1>5, <2>2
    <3>2. r[i] = inbox'[n] /\ q[i] = inbox[n]
      BY <1>4, <1>5, <3>1
    <3> QED
      BY <1>3, <3>1, <3>2
  <2> QED
    BY <1>4, <2>1, <2>2
<1> QED
  BY <1>6, <1>7 DEF Before

(* What goes to the back of the queue was at the front of the channel. *)
LEMMA QueuedInPlace ==
    ASSUME IInv, HandleQueued
    PROVE  Arrived' = Arrived
<1>1. pending \in Seq(Job) /\ inbox \in Seq(Job)
  BY ArrivedOnce
<1>2. inbox # <<>> /\ inbox' = Tail(inbox) /\ pending' = Append(pending, Head(inbox))
  BY DEF HandleQueued, Received
<1>3. Head(inbox) \in Job /\ Tail(inbox) \in Seq(Job)
  BY <1>1, <1>2, HeadTailProperties
<1>4. Append(pending, Head(inbox)) = pending \o <<Head(inbox)>>
  BY <1>1, <1>3, AppendIsConcat
<1>5. inbox = <<Head(inbox)>> \o Tail(inbox)
  <2> DEFINE h == <<Head(inbox)>>
             q == h \o Tail(inbox)
  <2>1. h \in Seq(Job) /\ Len(h) = 1 /\ h[1] = Head(inbox)
    BY <1>3
  <2>2. /\ q \in Seq(Job) /\ Len(q) = 1 + Len(Tail(inbox))
        /\ \A i \in 1..1 : q[i] = h[i]
        /\ \A i \in 1..Len(Tail(inbox)) : q[i + 1] = Tail(inbox)[i]
    BY <1>3, <2>1, Concatenated
  <2>3. /\ Len(Tail(inbox)) = Len(inbox) - 1 /\ Len(inbox) \in Nat \ {0}
        /\ \A i \in 1..Len(Tail(inbox)) : Tail(inbox)[i] = inbox[i + 1]
        /\ Head(inbox) = inbox[1]
    BY <1>1, <1>2, HeadTailProperties, LenProperties, EmptySeq
  <2> HIDE DEF h, q
  <2>4. ASSUME NEW i \in 1..Len(inbox)
        PROVE  inbox[i] = q[i]
    <3>1. CASE i = 1
      BY <2>1, <2>2, <2>3, <3>1
    <3>2. CASE i # 1
      <4>1. i - 1 \in 1..Len(Tail(inbox)) /\ (i - 1) + 1 = i
        BY <2>3, <3>2
      <4>2. \A j \in 1..Len(Tail(inbox)) : q[j + 1] = inbox[j + 1]
        BY <2>2, <2>3
      <4>3. q[(i - 1) + 1] = inbox[(i - 1) + 1]
        BY <4>1, <4>2
      <4> QED
        BY <4>1, <4>3
    <3> QED
      BY <3>1, <3>2
  <2>5. Len(q) = Len(inbox)
    BY <2>2, <2>3
  <2>6. inbox = q
    BY <1>1, <2>2, <2>4, <2>5, SeqEqual
  <2> QED
    BY <2>6 DEF h, q
<1>6. <<Head(inbox)>> \in Seq(Job)
  BY <1>3
<1> QED
  BY <1>1, <1>2, <1>3, <1>4, <1>5, <1>6, ConcatAssociative DEF Arrived

(* A step of any part of the process leaves the statements in order. *)
LEMMA OrderKept ==
    ASSUME IInv, Next, NEW s \in Session, NEW t \in Session,
           Before(Arrived, s, t), holder # t, HasStatement(Arrived', s)
    PROVE  Before(Arrived', s, t)
<1>1. CASE UNCHANGED <<inbox, pending>>
  BY <1>1 DEF Arrived
<1>2. CASE HandleOpen
  <2>1. /\ inbox # <<>> /\ inbox' = Tail(inbox) /\ pending' = pending
        /\ Head(inbox).op \notin Statements
    BY <1>2 DEF HandleOpen, Received, Statements
  <2> QED
    BY <2>1, ReceivedTakenOut
<1>3. CASE HandleDrop
  <2>1. /\ inbox # <<>> /\ inbox' = Tail(inbox)
        /\ Head(inbox).op \notin Statements
        /\ pending' = Without(pending, Head(inbox).id)
        /\ Received({"drop", "close"})
    BY <1>3 DEF HandleDrop, DropSession, Received, Statements
  <2>2. pending' = pending
    BY <2>1, ReceivedJob, WithoutNone
  <2> QED
    BY <2>1, <2>2, ReceivedTakenOut
<1>4. CASE HandleQueued
  BY <1>4, QueuedInPlace
<1>5. CASE HandleStatement
  <2>1. /\ inbox # <<>> /\ inbox' = Tail(inbox) /\ pending' = pending
        /\ ~pumping /\ holder \in {NoSession, Head(inbox).id}
    BY <1>5 DEF HandleStatement, Received, MustWait
  <2>2. Head(inbox).id = t => pending = <<>>
    BY <2>1 DEF IInv, QueueOnlyBehindHolder
  <2> QED
    BY <2>1, <2>2, ReceivedTakenOut
<1>6. CASE PumpNext
  <2>1. pending # <<>> /\ pending' = Tail(pending) /\ inbox' = inbox
    BY <1>6 DEF PumpNext, IInv, PumpOnlyWithWork
  <2> QED
    BY <2>1, PumpedTakenOut
<1>7. ASSUME NEW u \in Session, ThreadStep(u)
      PROVE  Before(Arrived', s, t)
  <2>1. pending' = pending
    BY <1>7 DEF ThreadStep, Accept, OpenFailed, OpenSucceeded, ReadRequest, ReadFailed,
         WriteReply, ThreadEnds, WorkerRest
  <2>2. inbox' = inbox \/ \E o \in Ops : Send(u, o)
    <3>1. \A m \in Messages \ {"bad"} : m \in Ops
      BY DEF Messages, Ops, Statements
    <3>2. "open" \in Ops /\ "drop" \in Ops
      BY DEF Ops
    <3> QED
      BY <1>7, <3>1, <3>2 DEF ThreadStep, Accept, OpenFailed, OpenSucceeded, ReadRequest,
         ReadFailed, WriteReply, ThreadEnds, GoOn
  <2> QED
    BY <1>1, <2>1, <2>2, SentBehind
<1>8. ASSUME NEW u \in Session, ClientStep(u)
      PROVE  UNCHANGED <<inbox, pending>>
  BY <1>8 DEF ClientStep, Connect, Call, Die, ClientRest, workerVars
<1>9. ~ProcessEnds
  <2> SUFFICES ASSUME ProcessEnds
               PROVE  FALSE
    OBVIOUS
  <2>1. Arrived' = <<>> \o <<>>
    BY DEF ProcessEnds, Arrived
  <2>2. Arrived' = <<>>
    BY <2>1
  <2> QED
    BY <2>2 DEF HasStatement, Jobs
<1>10. OutsideRead => UNCHANGED <<inbox, pending>>
  BY DEF OutsideRead, workerVars
<1> QED
  BY <1>1, <1>2, <1>3, <1>4, <1>5, <1>6, <1>7, <1>8, <1>9, <1>10
     DEF Next, Worker_, WorkerStep, Restart, Panic

(* Statements run in the order they reached the worker, except that the
   session in a transaction overtakes those that wait for it. *)
THEOREM ArrivalOrderKept == Spec => ArrivalOrder
<1>1. IInv /\ [Next]_vars =>
         [\A s, t \in Session :
             Before(Arrived, s, t) /\ holder # t /\ HasStatement(Arrived', s) =>
                 Before(Arrived', s, t)]_vars
  BY OrderKept
<1> QED
  BY <1>1, Inductive, PTL DEF Spec, ArrivalOrder

-----------------------------------------------------------------------------
(* SQLITE_BUSY.  What a statement leaves of the locks, at a point whose
   connection is not in exclusive mode. *)
Unlocked(c) == ~c.sticky /\ (~c.txn => c.lock = "none")

LEMMA StatementLocks ==
    ASSUME "exclusive_mode" \notin Faults,
           NEW p \in Point, NEW held, NEW q \in Statement(p, held),
           Unlocked(p.conn)
    PROVE  Unlocked(q.conn)
<1> DEFINE c == p.conn
<1>0. c \in Conn /\ \A d, e : At(d, e).conn = d
  BY DEF Point, At
<1>1. \A d \in Conn : ~d.sticky => Unlocked(Settle(d))
  BY DEF Unlocked, Settle, Conn
<1>2. \A l \in Lock : /\ Raise(c, l) \in Conn
                      /\ Raise(c, l).txn = c.txn
                      /\ Raise(c, l).sticky = c.sticky
  BY <1>0, RaiseType DEF Raise, Conn
<1>3. {"none", "shared", "reserved", "exclusive"} = Lock
  BY DEF Lock
<1>4. ~c.sticky
  BY DEF Unlocked
<1>5. \A l \in Lock : Unlocked(Settle(Raise(c, l)))
  BY <1>1, <1>2, <1>4
<1>6. CASE q = p
  BY <1>6
<1>7. CASE q \in Read(p, held)
  <2>1. c.txn => Unlocked(Raise(c, "shared"))
    BY <1>2, <1>3, <1>4 DEF Unlocked
  <2> QED
    BY <1>0, <1>3, <1>5, <1>7, <2>1 DEF Read
<1>8. CASE q \in WriteInTransaction(p, held)
  <2>1. PICK v \in Value :
            q = At([Raise(c, "reserved") EXCEPT !.dirty = v], p.db)
    BY <1>8 DEF WriteInTransaction
  <2>2. c.txn
    BY <1>8 DEF WriteInTransaction
  <2>3. /\ Raise(c, "reserved") \in Conn
        /\ Raise(c, "reserved").txn = c.txn
        /\ Raise(c, "reserved").sticky = c.sticky
    BY <1>2, <1>3
  <2>4. Unlocked([Raise(c, "reserved") EXCEPT !.dirty = v])
    BY <1>4, <2>2, <2>3 DEF Unlocked, Conn
  <2> QED
    BY <1>0, <2>1, <2>4
<1>9. CASE q \in WriteInAutocommit(p, held)
  BY <1>0, <1>3, <1>5, <1>9 DEF WriteInAutocommit
<1>10. CASE q \in Begin(p, held)
  <2>1. PICK l \in Lock : q = At([Raise(c, l) EXCEPT !.txn = TRUE], p.db)
    BY <1>3, <1>10 DEF Begin
  <2>2. Raise(c, l) \in Conn /\ ~Raise(c, l).sticky
    BY <1>2, <1>4
  <2>3. Unlocked([Raise(c, l) EXCEPT !.txn = TRUE])
    BY <2>2 DEF Unlocked, Conn
  <2> QED
    BY <1>0, <2>1, <2>3
<1>11. CASE q \in Commit(p, held)
  BY <1>0, <1>1, <1>3, <1>4, <1>5, <1>11 DEF Commit
<1>12. CASE q \in Rollback(p)
  BY <1>0, <1>1, <1>4, <1>12 DEF Rollback
<1>13. CASE q \in SetLockingMode(p)
  BY <1>13 DEF SetLockingMode
<1> QED
  BY <1>6, <1>7, <1>8, <1>9, <1>10, <1>11, <1>12, <1>13 DEF Statement

(* A statement that runs while the others hold no lock is not told BUSY. *)
LEMMA OutcomesNotBusy ==
    ASSUME "exclusive_mode" \notin Faults, IInv, LocksOnlyInTransaction,
           NEW s \in Session, holder = NoSession \/ holder = s,
           NEW op \in Statements, NEW r \in Outcomes(s, op)
    PROVE  r.code # "busy" /\ Unlocked(r.at.conn)
<1>1. \A t \in Session \ {s} : ~conn[t].txn
  <2> SUFFICES ASSUME NEW t \in Session \ {s}
               PROVE  ~conn[t].txn
    OBVIOUS
  <2>1. holder # t
    BY NoSessionAssumption
  <2>2. CASE t \in sessions
    BY <2>1, <2>2 DEF IInv, HolderTracksTransaction
  <2>3. CASE t \notin sessions
    BY <2>3 DEF IInv, ClosedIsFresh, Fresh
  <2> QED
    BY <2>2, <2>3
<1>2. HeldByOthers(s) \subseteq {"none"}
  BY <1>1 DEF HeldByOthers, LocksOnlyInTransaction
<1>3. MayOwn(HeldByOthers(s)) /\ MayReserve(HeldByOthers(s)) /\ MayRead(HeldByOthers(s))
  BY <1>2 DEF MayOwn, MayReserve, MayRead
<1>4. Unlocked(conn[s]) /\ Here(s) \in Point /\ Here(s).conn = conn[s]
  BY DEF LocksOnlyInTransaction, Unlocked, Here, At, Point, IInv, TypeOK, WorkerTypeOK,
         FileTypeOK
<1>5. CASE s \notin sessions
  BY <1>4, <1>5 DEF Outcomes
<1>6. CASE r \in PrepareOutcomes(s)
  BY <1>3, <1>4, <1>6 DEF PrepareOutcomes, Unlocked
<1>7. CASE r \in ExecOutcomes(s)
  <2>1. \A p \in Statement(Here(s), HeldByOthers(s)) : p \in Point /\ Unlocked(p.conn)
    BY <1>4, StatementType, StatementLocks
  <2>2. \A p \in Script(Here(s), HeldByOthers(s)) : Unlocked(p.conn)
    BY <2>1, StatementLocks DEF Script
  <2>3. \A p : ~Blocked(p, HeldByOthers(s))
    BY <1>3 DEF Blocked
  <2> QED
    BY <1>7, <2>2, <2>3 DEF ExecOutcomes
<1> QED
  BY <1>5, <1>6, <1>7 DEF Outcomes

(* So a dispatched statement keeps both halves. *)
LEMMA DispatchNotBusy ==
    ASSUME "exclusive_mode" \notin Faults, IInv, LocksOnlyInTransaction, NoBusy,
           NEW job \in Job, holder = NoSession \/ holder = job.id,
           Dispatch(job), UNCHANGED outside
    PROVE  LocksOnlyInTransaction' /\ NoBusy'
<1> DEFINE s == job.id
<1>1. s \in Session /\ {"exec", "prepare"} \subseteq Statements
  BY DEF Job, Statements
<1>2. PICK r \in Outcomes(s, "exec") \cup Outcomes(s, "prepare") :
          /\ conn' = [conn EXCEPT ![s] = r.at.conn]
          /\ reply' = [reply EXCEPT ![s] = r.code]
  BY DEF Dispatch, RunExec, RunPrepare, Answer
<1>3. r.code # "busy" /\ Unlocked(r.at.conn)
  BY <1>1, <1>2, OutcomesNotBusy
<1>4. conn \in [Session -> Conn] /\ reply \in [Session -> Replies]
  BY DEF IInv, TypeOK, WorkerTypeOK, FileTypeOK
<1>5. ASSUME NEW t \in Session
      PROVE  Unlocked(conn'[t]) /\ reply'[t] # "busy"
  <2>1. CASE t = s
    BY <1>2, <1>3, <1>4, <2>1
  <2>2. CASE t # s
    <3>1. conn'[t] = conn[t] /\ reply'[t] = reply[t]
      BY <1>2, <1>4, <2>2
    <3> QED
      BY <3>1 DEF LocksOnlyInTransaction, NoBusy, Unlocked
  <2> QED
    BY <2>1, <2>2
<1> QED
  BY <1>5 DEF LocksOnlyInTransaction, NoBusy, Unlocked

LEMMA NotBusyStep ==
    ASSUME "exclusive_mode" \notin Faults, "outside_reader" \notin Faults,
           IInv, LocksOnlyInTransaction, NoBusy, [Next]_vars
    PROVE  LocksOnlyInTransaction' /\ NoBusy'
<1>0. /\ conn \in [Session -> Conn] /\ reply \in [Session -> Replies]
      /\ \A t \in Session : Unlocked(conn[t]) /\ reply[t] # "busy"
  BY DEF IInv, TypeOK, WorkerTypeOK, FileTypeOK, LocksOnlyInTransaction, NoBusy, Unlocked
<1>1. CASE HandleOpen
  <2>1. PICK code \in {"done", "failed"} :
            reply' = [reply EXCEPT ![Head(inbox).id] = code]
    BY <1>1 DEF HandleOpen, Answer
  <2>2. UNCHANGED <<conn, outside>>
    BY <1>1 DEF HandleOpen
  <2> QED
    BY <1>0, <2>1, <2>2 DEF LocksOnlyInTransaction, NoBusy
<1>2. CASE HandleDrop
  <2>1. /\ conn' = [conn EXCEPT ![Head(inbox).id] = Fresh]
        /\ reply' = [reply EXCEPT ![Head(inbox).id] = "done"]
        /\ outside' = outside
    BY <1>2 DEF HandleDrop, DropSession, Answer
  <2>2. Unlocked(Fresh)
    BY DEF Unlocked, Fresh
  <2>3. \A t \in Session : Unlocked(conn'[t]) /\ reply'[t] # "busy"
    BY <1>0, <2>1, <2>2
  <2> QED
    BY <2>1, <2>3 DEF LocksOnlyInTransaction, NoBusy, Unlocked
<1>3. CASE HandleQueued
  BY <1>3 DEF HandleQueued, LocksOnlyInTransaction, NoBusy
<1>4. CASE HandleStatement
  <2>1. Received(Statements) /\ Dispatch(Head(inbox)) /\ UNCHANGED outside
    BY <1>4 DEF HandleStatement
  <2>2. Head(inbox) \in Job
    BY <2>1, ReceivedJob
  <2>3. holder = NoSession \/ holder = Head(inbox).id
    BY <1>4 DEF HandleStatement, MustWait
  <2> QED
    BY <2>1, <2>2, <2>3, DispatchNotBusy
<1>5. CASE PumpNext
  <2>1. pumping /\ Dispatch(Head(pending)) /\ UNCHANGED outside
    BY <1>5 DEF PumpNext
  <2>2. Head(pending) \in Job /\ holder = NoSession
    BY <2>1, PumpedJob
  <2> QED
    BY <2>1, <2>2, DispatchNotBusy
<1>6. ASSUME NEW s \in Session, ThreadStep(s)
      PROVE  LocksOnlyInTransaction' /\ NoBusy'
  <2>1. UNCHANGED <<conn, outside>>
    BY <1>6 DEF ThreadStep, Accept, OpenFailed, OpenSucceeded, ReadRequest, ReadFailed,
         WriteReply, ThreadEnds, WorkerRest, fileVars
  <2>2. reply' = reply \/ reply' = [reply EXCEPT ![s] = "none"]
    BY <1>6 DEF ThreadStep, Accept, OpenFailed, OpenSucceeded, ReadRequest, ReadFailed,
         WriteReply, ThreadEnds, TakeReply
  <2>3. \A t \in Session : reply'[t] # "busy"
    BY <1>0, <2>2
  <2> QED
    BY <2>1, <2>3 DEF LocksOnlyInTransaction, NoBusy
<1>7. ASSUME NEW s \in Session, ClientStep(s)
      PROVE  LocksOnlyInTransaction' /\ NoBusy'
  BY <1>7 DEF ClientStep, Connect, Call, Die, ClientRest, workerVars, fileVars,
       LocksOnlyInTransaction, NoBusy
<1>8. CASE ProcessEnds
  <2>1. Unlocked(Fresh)
    BY DEF Unlocked, Fresh
  <2>2. \A t \in Session : Unlocked(conn'[t]) /\ reply'[t] # "busy"
    BY <1>8, <2>1 DEF ProcessEnds
  <2>3. outside' = outside
    BY <1>8 DEF ProcessEnds
  <2> QED
    BY <2>2, <2>3 DEF LocksOnlyInTransaction, NoBusy, Unlocked
<1>9. CASE UNCHANGED vars
  BY <1>9 DEF vars, LocksOnlyInTransaction, NoBusy
<1>10. ~OutsideRead
  BY DEF OutsideRead
<1> QED
  BY <1>1, <1>2, <1>3, <1>4, <1>5, <1>6, <1>7, <1>8, <1>9, <1>10
     DEF Next, Worker_, WorkerStep, Restart, Panic

(* While only the broker opens the file, and no client asks SQLite to keep
   its locks, no caller is ever told SQLITE_BUSY. *)
THEOREM NobodyIsToldBusy ==
    ASSUME "exclusive_mode" \notin Faults, "outside_reader" \notin Faults
    PROVE  Spec => []NoBusy
<1>1. Init => LocksOnlyInTransaction /\ NoBusy
  BY DEF Init, WorkerInit, FileInit, LocksOnlyInTransaction, NoBusy, Fresh
<1>2. IInv /\ LocksOnlyInTransaction /\ NoBusy /\ [Next]_vars
          => LocksOnlyInTransaction' /\ NoBusy'
  BY NotBusyStep
<1> QED
  BY <1>1, <1>2, Inductive, PTL DEF Spec

=============================================================================
