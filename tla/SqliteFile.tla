------------------------------ MODULE SqliteFile ------------------------------
(***************************************************************************)
(* The SQLite library and the database file behind the broker, external to *)
(* the repository and modelled from how server/src/broker.rs uses it: one  *)
(* rusqlite::Connection per session, busy timeout 0, whole statements run  *)
(* to completion by one thread, rollback-journal locking.                  *)
(*                                                                         *)
(* The content of the database is one register, `db`, holding the last     *)
(* committed value; an open transaction keeps its own value in `dirty`.    *)
(***************************************************************************)
EXTENDS Naturals

CONSTANTS
    Session,    \* the sessions that may exist at one time
    Value,      \* the possible contents of the database
    Clean,      \* "this transaction has written nothing"
    Faults      \* what the surroundings of the broker may do wrong

ASSUME CleanAssumption == Clean \notin Value

(***************************************************************************)
(* The surroundings a configuration may switch on.                         *)
(*   client_dies    a client process ends or its socket closes             *)
(*   write_fails    a reply cannot be written (socket error, over 16 MiB)  *)
(*   open_fails     SQLite cannot open one more connection                 *)
(*   broker_stops   the broker process is stopped and started again        *)
(*   exclusive_mode a client runs PRAGMA locking_mode                      *)
(*   outside_reader another program reads the storage file directly        *)
(***************************************************************************)
ASSUME FaultsAssumption ==
    Faults \subseteq {"client_dies", "write_fails", "open_fails",
                      "broker_stops", "exclusive_mode", "outside_reader"}

VARIABLES
    conn,       \* conn[s]: the state of session s's SQLite connection
    db,         \* the committed contents of the file
    outside     \* an outside program holds a SHARED lock on the file

fileVars == <<conn, db, outside>>

-----------------------------------------------------------------------------
Lock == {"none", "shared", "reserved", "exclusive"}

LockRank == [none |-> 0, shared |-> 1, reserved |-> 2, exclusive |-> 3]

(* A connection: whether a transaction is open (not sqlite3_get_autocommit),
   the lock it holds on the file, what its transaction has written, and
   whether PRAGMA locking_mode=EXCLUSIVE makes it keep its locks. *)
Conn == [txn: BOOLEAN, lock: Lock, dirty: Value \cup {Clean}, sticky: BOOLEAN]

Fresh == [txn |-> FALSE, lock |-> "none", dirty |-> Clean, sticky |-> FALSE]

(* The locks everybody but s holds. *)
HeldByOthers(s) ==
    {conn[t].lock : t \in Session \ {s}}
        \cup (IF outside THEN {"shared"} ELSE {})

MayRead(held)    == "exclusive" \notin held
MayReserve(held) == held \cap {"reserved", "exclusive"} = {}
MayOwn(held)     == held \subseteq {"none"}

Raise(c, l) ==
    [c EXCEPT !.lock = IF LockRank[@] < LockRank[l] THEN l ELSE @]

(* Back to autocommit: an exclusive-mode connection keeps its lock. *)
Settle(c) ==
    [c EXCEPT !.txn = FALSE, !.dirty = Clean,
              !.lock = IF c.sticky THEN @ ELSE "none"]

-----------------------------------------------------------------------------
(***************************************************************************)
(* What one SQL statement may do at a point p, a connection and the file,  *)
(* while others hold the locks `held`.                                     *)
(***************************************************************************)
At(c, d) == [conn |-> c, db |-> d]

Read(p, held) ==
    IF ~MayRead(held) THEN {}
    ELSE IF p.conn.txn THEN {At(Raise(p.conn, "shared"), p.db)}
    ELSE {At(Settle(Raise(p.conn, "shared")), p.db)}

WriteInTransaction(p, held) ==
    IF ~p.conn.txn \/ ~MayReserve(held) THEN {}
    ELSE {At([Raise(p.conn, "reserved") EXCEPT !.dirty = v], p.db) :
             v \in Value}

WriteInAutocommit(p, held) ==
    IF p.conn.txn \/ ~MayOwn(held) THEN {}
    ELSE {At(Settle(Raise(p.conn, "exclusive")), v) : v \in Value}

Begin(p, held) ==
    IF p.conn.txn THEN {}
    ELSE {At([Raise(p.conn, l) EXCEPT !.txn = TRUE], p.db) :
             l \in {"none"}
                   \cup (IF MayReserve(held) THEN {"reserved"} ELSE {})
                   \cup (IF MayOwn(held) THEN {"exclusive"} ELSE {})}

Commit(p, held) ==
    IF ~p.conn.txn THEN {}
    ELSE IF p.conn.dirty = Clean THEN {At(Settle(p.conn), p.db)}
    ELSE IF ~MayOwn(held) THEN {}
    ELSE {At(Settle(Raise(p.conn, "exclusive")), p.conn.dirty)}

(* ROLLBACK, or an error that makes SQLite roll the transaction back. *)
Rollback(p) ==
    IF p.conn.txn THEN {At(Settle(p.conn), p.db)} ELSE {}

SetLockingMode(p) ==
    IF "exclusive_mode" \in Faults
    THEN {At([p.conn EXCEPT !.sticky = ~@], p.db)}
    ELSE {}

(* One statement; {p} stands for one that fails or touches nothing. *)
Statement(p, held) ==
    {p} \cup Read(p, held) \cup WriteInTransaction(p, held)
        \cup WriteInAutocommit(p, held) \cup Begin(p, held)
        \cup Commit(p, held) \cup Rollback(p) \cup SetLockingMode(p)

(* The text of one call is a script: it runs statement by statement and
   stops at the first that fails.  Two statements give every net effect the
   properties tell apart (BEGIN; write, write; COMMIT, COMMIT; BEGIN, ...). *)
Script(p, held) == UNION {Statement(q, held) : q \in Statement(p, held)}

(* The next statement of the script may find the file locked. *)
Blocked(p, held) ==
    IF p.conn.txn
    THEN ~MayReserve(held) \/ (p.conn.dirty # Clean /\ ~MayOwn(held))
    ELSE ~MayOwn(held)

-----------------------------------------------------------------------------
(***************************************************************************)
(* What a call may come back with.  "done" is any answer but SQLITE_BUSY,  *)
(* success or error: a script that fails half way leaves what came before. *)
(***************************************************************************)
Here(s) == At(conn[s], db)

ExecOutcomes(s) ==
    LET after == Script(Here(s), HeldByOthers(s)) IN
    {[at |-> p, code |-> "done"] : p \in after}
        \cup {[at |-> p, code |-> "busy"] :
                 p \in {q \in after : Blocked(q, HeldByOthers(s))}}

(* Compiling a statement may read the schema, under a SHARED lock that only
   an exclusive-mode connection keeps. *)
PrepareOutcomes(s) ==
    IF ~MayRead(HeldByOthers(s))
    THEN {[at |-> Here(s), code |-> c] : c \in {"done", "busy"}}
    ELSE {[at |-> Here(s), code |-> "done"]}
         \cup (IF conn[s].sticky
               THEN {[at |-> At(Raise(conn[s], "shared"), db), code |-> "done"]}
               ELSE {})

-----------------------------------------------------------------------------
FileTypeOK ==
    /\ conn \in [Session -> Conn]
    /\ db \in Value
    /\ outside \in BOOLEAN

FileInit ==
    /\ conn = [s \in Session |-> Fresh]
    /\ db \in Value
    /\ outside = FALSE

=============================================================================
