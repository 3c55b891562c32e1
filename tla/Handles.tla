-------------------------------- MODULE Handles --------------------------------
(***************************************************************************)
(* The pointers the shim hands out, and how it tells them from those of    *)
(* the real libsqlite3 (shim/src/lib.rs, shim/build.rs).  A handle, a      *)
(* statement or a text of the shim is known by its address alone: DBS,     *)
(* STMTS and ALLOCATED are the addresses of the live ones, and whatever is *)
(* not in them belongs to the real library.  All threads of the process    *)
(* share one allocator, which may hand an address out again as soon as it  *)
(* has been freed.  Each step below takes one lock, as the code does.      *)
(*                                                                         *)
(* The application passes only pointers it was given and has not given     *)
(* back, ends calls on a handle before it closes it, and makes one call at *)
(* a time that may destroy a closed handle.                                *)
(***************************************************************************)

CONSTANTS
    Thread,         \* threads of the application
    Addr,           \* addresses of the allocator
    NoAddr,
    Exported,       \* functions of libsqlite3 that take such a pointer
    Implemented     \* those that shim/src defines

ASSUME HandlesAssumptions ==
    /\ NoAddr \notin Addr
    /\ Implemented \subseteq Exported

VARIABLES
    mem,            \* mem[a]: what lies at address a
    DBS, STMTS, ALLOCATED,
    held,           \* the pointers the application may use
    call,           \* call[t]: where thread t is inside a call of the shim
    strays          \* history: pointers that reached the wrong library

registries == <<DBS, STMTS, ALLOCATED>>
vars == <<mem, registries, held, call, strays>>

-----------------------------------------------------------------------------
Object == [kind: {"free", "db", "stmt", "text", "real"},
           closed: BOOLEAN, stmts: SUBSET Addr, db: Addr \cup {NoAddr}]
Free       == [kind |-> "free", closed |-> FALSE, stmts |-> {}, db |-> NoAddr]
A(kind)    == [Free EXCEPT !.kind = kind]
StmtOf(d)  == [Free EXCEPT !.kind = "stmt", !.db = d]

IsProxy(a) == mem[a].kind \in {"db", "stmt"}
IsFree(a)  == mem[a].kind = "free"

Idle      == [at |-> "idle", ptr |-> NoAddr, db |-> NoAddr]
At(t, p)  == call[t].at = p
Ptr(t)    == call[t].ptr
GoTo(t, p, a, d) == call' = [call EXCEPT ![t] = [at |-> p, ptr |-> a, db |-> d]]
Continue(t, p)   == call' = [call EXCEPT ![t].at = p]
Return(t)        == call' = [call EXCEPT ![t] = Idle]

(* Threads inside a call on handle d or on a statement of it. *)
Inside(d) == {t \in Thread : call[t].db = d}

(* The application's rule: statements of an open handle are finalized by
   several threads at a time; those of a closed one, one after the other. *)
MayFinalize(d) == d \notin held => Inside(d) = {}

-----------------------------------------------------------------------------
(* Mutation of OpenRegister: the pointer is given out unregistered. *)
OpenUnregistered(t) ==
    /\ At(t, "opened")
    /\ held' = held \cup {Ptr(t)}
    /\ Return(t)
    /\ UNCHANGED <<mem, registries, strays>>

(* open_v2 on a stub: Box::into_raw, then DBS. *)
Open(t, a) ==
    /\ At(t, "idle") /\ IsFree(a)
    /\ mem' = [mem EXCEPT ![a] = A("db")]
    /\ GoTo(t, "opened", a, a)
    /\ UNCHANGED <<registries, held, strays>>

OpenRegister(t) ==
    /\ At(t, "opened")
    /\ DBS' = DBS \cup {Ptr(t)}
    /\ held' = held \cup {Ptr(t)}
    /\ Return(t)
    /\ UNCHANGED <<mem, STMTS, ALLOCATED, strays>>

(* The real library allocates, for any call that was forwarded to it. *)
RealAllocates(t, a) ==
    /\ At(t, "idle") /\ IsFree(a)
    /\ mem' = [mem EXCEPT ![a] = A("real")]
    /\ held' = held \cup {a}
    /\ UNCHANGED <<registries, call, strays>>

(* prepare_v2 with a statement to return: STMTS, then the handle's list. *)
Prepare(t, d, a) ==
    /\ At(t, "idle") /\ d \in held /\ d \in DBS /\ IsFree(a)
    /\ mem' = [mem EXCEPT ![a] = StmtOf(d)]
    /\ GoTo(t, "prepared", a, d)
    /\ UNCHANGED <<registries, held, strays>>

PrepareRegister(t) ==
    /\ At(t, "prepared")
    /\ STMTS' = STMTS \cup {Ptr(t)}
    /\ Continue(t, "link")
    /\ UNCHANGED <<mem, DBS, ALLOCATED, held, strays>>

LinkStmt(t) ==
    /\ At(t, "link")
    /\ mem' = [mem EXCEPT ![call[t].db].stmts = @ \cup {Ptr(t)}]
    /\ held' = held \cup {Ptr(t)}
    /\ Return(t)
    /\ UNCHANGED <<registries, strays>>

-----------------------------------------------------------------------------
(* What the shim's dispatch makes of a pointer, in a function whose
   arguments are looked up in the given registry: as_db, as_stmt, else sym.
   The forwarders of build.rs look nothing up: a function that takes a proxy
   and is not defined in the shim gives it to the real library. *)
ToReal(a) == strays' = IF IsProxy(a) THEN strays \cup {"proxy_in_real"} ELSE strays

Accessor(t, f, a) ==
    /\ At(t, "idle") /\ a \in held /\ mem[a].kind # "text"
    /\ IF f \notin Implemented
       THEN strays' = IF IsProxy(a) THEN strays \cup {"forwarded"} ELSE strays
       ELSE IF a \in DBS \cup STMTS
       THEN strays' = IF IsProxy(a) THEN strays ELSE strays \cup {"real_in_shim"}
       ELSE ToReal(a)
    /\ UNCHANGED <<mem, registries, held, call>>

(* The real library's close, finalize and free. *)
RealFrees(t, a) ==
    /\ At(t, "idle") /\ a \in held
    /\ a \notin DBS \cup STMTS \cup ALLOCATED
    /\ held' = held \ {a}
    /\ ToReal(a)
    /\ mem' = IF mem[a].kind = "real" THEN [mem EXCEPT ![a] = Free] ELSE mem
    /\ UNCHANGED <<registries, call>>

-----------------------------------------------------------------------------
(* close_db on a proxy: SQLITE_BUSY while close finds statements, else the
   closed flag, then a look at the statements. *)
Close(t, d, v2) ==
    /\ At(t, "idle") /\ d \in held /\ d \in DBS
    /\ Inside(d) = {}
    /\ v2 \/ mem[d].stmts = {}
    /\ held' = held \ {d}
    /\ GoTo(t, "close", d, d)
    /\ UNCHANGED <<mem, registries, strays>>

SetClosed(t) ==
    /\ At(t, "close")
    /\ mem' = [mem EXCEPT ![Ptr(t)].closed = TRUE]
    /\ Continue(t, "closing")
    /\ UNCHANGED <<registries, held, strays>>

(* Mutation of CloseLooks: close_v2 does not wait for the statements. *)
CloseDestroys(t) ==
    /\ At(t, "closing")
    /\ Continue(t, "destroy")
    /\ UNCHANGED <<mem, registries, held, strays>>

CloseLooks(t) ==
    /\ At(t, "closing")
    /\ IF mem[Ptr(t)].stmts = {} THEN Continue(t, "destroy") ELSE Return(t)
    /\ UNCHANGED <<mem, registries, held, strays>>

(* Mutation of Finalize: looked up in STMTS, and left there. *)
FinalizeUnremoved(t, q) ==
    /\ At(t, "idle") /\ q \in held /\ q \in STMTS
    /\ MayFinalize(mem[q].db)
    /\ held' = held \ {q}
    /\ GoTo(t, "unlink", q, mem[q].db)
    /\ UNCHANGED <<mem, registries, strays>>

(* finalize_stmt: out of STMTS, off the handle's list, freed, then a look at
   the handle. *)
Finalize(t, q) ==
    /\ At(t, "idle") /\ q \in held /\ q \in STMTS
    /\ MayFinalize(mem[q].db)
    /\ STMTS' = STMTS \ {q}
    /\ held' = held \ {q}
    /\ GoTo(t, "unlink", q, mem[q].db)
    /\ UNCHANGED <<mem, DBS, ALLOCATED, strays>>

UnlinkStmt(t) ==
    /\ At(t, "unlink")
    /\ mem' = [mem EXCEPT ![call[t].db].stmts = @ \ {Ptr(t)}]
    /\ Continue(t, "drop")
    /\ UNCHANGED <<registries, held, strays>>

DropStmt(t) ==
    /\ At(t, "drop")
    /\ mem' = [mem EXCEPT ![Ptr(t)] = Free]
    /\ GoTo(t, "look", call[t].db, call[t].db)
    /\ UNCHANGED <<registries, held, strays>>

(* Mutation of FinalizeLooks: the closed handle is left to close. *)
FinalizeLeaves(t) ==
    /\ At(t, "look")
    /\ Return(t)
    /\ UNCHANGED <<mem, registries, held, strays>>

FinalizeLooks(t) ==
    /\ At(t, "look")
    /\ IF mem[Ptr(t)].closed /\ mem[Ptr(t)].stmts = {}
       THEN Continue(t, "destroy") ELSE Return(t)
    /\ UNCHANGED <<mem, registries, held, strays>>

(* destroy_db: whoever takes the handle out of DBS sends Close and frees it. *)
Destroy(t) ==
    /\ At(t, "destroy")
    /\ DBS' = DBS \ {Ptr(t)}
    /\ IF Ptr(t) \in DBS THEN Continue(t, "shutdown") ELSE Return(t)
    /\ UNCHANGED <<mem, STMTS, ALLOCATED, held, strays>>

FreeDb(t) ==
    /\ At(t, "shutdown")
    /\ mem' = [mem EXCEPT ![Ptr(t)] = Free]
    /\ Return(t)
    /\ UNCHANGED <<registries, held, strays>>

-----------------------------------------------------------------------------
(* malloc_cstr: an error message, an expanded text. *)
Malloc(t, a) ==
    /\ At(t, "idle") /\ IsFree(a)
    /\ mem' = [mem EXCEPT ![a] = A("text")]
    /\ GoTo(t, "malloced", a, NoAddr)
    /\ UNCHANGED <<registries, held, strays>>

MallocRegister(t) ==
    /\ At(t, "malloced")
    /\ ALLOCATED' = ALLOCATED \cup {Ptr(t)}
    /\ held' = held \cup {Ptr(t)}
    /\ Return(t)
    /\ UNCHANGED <<mem, DBS, STMTS, strays>>

(* Mutation of FreeText: looked up in ALLOCATED, and left there. *)
FreeTextUnremoved(t, a) ==
    /\ At(t, "idle") /\ a \in held /\ a \in ALLOCATED
    /\ held' = held \ {a}
    /\ GoTo(t, "free", a, NoAddr)
    /\ strays' = IF mem[a].kind = "text" THEN strays ELSE strays \cup {"real_in_shim"}
    /\ UNCHANGED <<mem, registries>>

(* sqlite3_free of a text of the shim: out of ALLOCATED, then free. *)
FreeText(t, a) ==
    /\ At(t, "idle") /\ a \in held /\ a \in ALLOCATED
    /\ held' = held \ {a}
    /\ ALLOCATED' = ALLOCATED \ {a}
    /\ GoTo(t, "free", a, NoAddr)
    /\ strays' = IF mem[a].kind = "text" THEN strays ELSE strays \cup {"real_in_shim"}
    /\ UNCHANGED <<mem, DBS, STMTS>>

FreeMemory(t) ==
    /\ At(t, "free")
    /\ mem' = [mem EXCEPT ![Ptr(t)] = Free]
    /\ Return(t)
    /\ UNCHANGED <<registries, held, strays>>

-----------------------------------------------------------------------------
Init ==
    /\ mem = [a \in Addr |-> Free]
    /\ DBS = {} /\ STMTS = {} /\ ALLOCATED = {}
    /\ held = {}
    /\ call = [t \in Thread |-> Idle]
    /\ strays = {}

Start(t, a) ==
    \/ Open(t, a)
    \/ RealAllocates(t, a)
    \/ \E d \in Addr : Prepare(t, d, a)
    \/ \E f \in Exported : Accessor(t, f, a)
    \/ RealFrees(t, a)
    \/ \E v2 \in BOOLEAN : Close(t, a, v2)
    \/ Finalize(t, a)
    \/ Malloc(t, a)
    \/ FreeText(t, a)

Proceed(t) ==
    \/ OpenRegister(t)
    \/ PrepareRegister(t)
    \/ LinkStmt(t)
    \/ SetClosed(t)
    \/ CloseLooks(t)
    \/ UnlinkStmt(t)
    \/ DropStmt(t)
    \/ FinalizeLooks(t)
    \/ Destroy(t)
    \/ FreeDb(t)
    \/ MallocRegister(t)
    \/ FreeMemory(t)

Next == \E t \in Thread : Proceed(t) \/ \E a \in Addr : Start(t, a)

Spec == Init /\ [][Next]_vars

-----------------------------------------------------------------------------
Places == {"idle", "opened", "prepared", "link", "close", "closing", "unlink",
           "drop", "look", "destroy", "shutdown", "malloced", "free"}

Strays == {"forwarded", "proxy_in_real", "real_in_shim"}

(* Types; a thread inside a call has the object it works on. *)
HandlesTypeOK ==
    /\ mem \in [Addr -> Object]
    /\ DBS \subseteq Addr /\ STMTS \subseteq Addr /\ ALLOCATED \subseteq Addr
    /\ held \subseteq Addr
    /\ call \in [Thread -> [at: Places, ptr: Addr \cup {NoAddr},
                            db: Addr \cup {NoAddr}]]
    /\ \A t \in Thread :
          /\ ~At(t, "idle") => Ptr(t) \in Addr
          /\ call[t].at \notin {"idle", "malloced", "free"} => call[t].db \in Addr
    /\ strays \subseteq Strays

(* An address is in a registry only while the object it was entered for is
   alive, and every proxy the application may use is in its registry, although
   addresses are reused at once (DBS, STMTS, ALLOCATED are sets of usize). *)
RegistriesExact ==
    /\ \A a \in DBS : mem[a].kind = "db"
    /\ \A a \in STMTS : mem[a].kind = "stmt"
    /\ \A a \in ALLOCATED : mem[a].kind = "text"
    /\ \A a \in held :
          /\ mem[a].kind = "db" => a \in DBS
          /\ mem[a].kind = "stmt" => a \in STMTS
          /\ mem[a].kind = "text" => a \in ALLOCATED
          /\ ~IsFree(a)

(* A handle's memory outlives its statements and every call that still reads
   it: close_v2 before the last finalize, finalize before close, and
   statements finalized by several threads of an open handle. *)
HandlesOutliveTheirUsers ==
    /\ \A q \in Addr : mem[q].kind = "stmt" => mem[mem[q].db].kind = "db"
    /\ \A t \in Thread : call[t].db # NoAddr => mem[call[t].db].kind = "db"

(* When no call is under way nothing of the shim is left in memory that the
   application can no longer reach: a handle that stays would keep its broker
   session, and an open transaction with it. *)
NothingLeaks ==
    (\A t \in Thread : At(t, "idle")) =>
        \A a \in Addr : mem[a].kind \in {"db", "stmt", "text"} /\ a \notin held =>
            mem[a].closed /\ mem[a].stmts # {} /\ mem[a].stmts \subseteq held

(* In the functions that the shim defines, no proxy is passed on to the real
   library, which would read it as its own struct, and no pointer of the real
   library is read by the shim as a proxy (as_db, as_stmt, sym). *)
EveryPointerGoesHome == strays \subseteq {"forwarded"}

-----------------------------------------------------------------------------
(* The inductive invariant.  What a thread works on is there, is not the
   application's any more or not yet, and is in its registry from the step
   that enters it to the one that removes it. *)
OnStmt(t) == call[t].at \in {"prepared", "link", "unlink", "drop"}
OnText(t) == call[t].at \in {"malloced", "free"}
OnDb(t)   == call[t].at \in {"opened", "close", "closing", "look", "destroy", "shutdown"}

StmtInHand(t) ==
    /\ mem[Ptr(t)].kind = "stmt" /\ mem[Ptr(t)].db = call[t].db
    /\ Ptr(t) \notin held
    /\ Ptr(t) \in STMTS <=> At(t, "link")
    /\ At(t, "drop") => Ptr(t) \notin mem[call[t].db].stmts
    /\ call[t].at \in {"prepared", "link"} => call[t].db \in held

TextInHand(t) ==
    /\ mem[Ptr(t)].kind = "text" /\ call[t].db = NoAddr
    /\ Ptr(t) \notin held /\ Ptr(t) \notin ALLOCATED

DbInHand(t) ==
    /\ Ptr(t) = call[t].db
    /\ Ptr(t) \in held => At(t, "look")
    /\ Ptr(t) \notin DBS <=> call[t].at \in {"opened", "shutdown"}
    /\ At(t, "opened") => ~mem[Ptr(t)].closed
    /\ call[t].at \in {"closing", "destroy", "shutdown"} => mem[Ptr(t)].closed
    /\ call[t].at \in {"destroy", "shutdown"} => mem[Ptr(t)].stmts = {}

InHand(t) ==
    /\ At(t, "idle") => call[t] = Idle
    /\ OnStmt(t) => StmtInHand(t)
    /\ OnText(t) => TextInHand(t)
    /\ OnDb(t) => DbInHand(t)
    /\ call[t].db \in Addr => mem[call[t].db].kind = "db"

(* A thread is alone on a statement and a text it works on, and on a handle
   that the application has not got. *)
Alone(t, u) ==
    t # u =>
    /\ call[t].db \in Addr /\ call[t].db \notin held => call[u].db # call[t].db
    /\ OnStmt(t) \/ OnText(t) => Ptr(u) # Ptr(t)

(* Whatever the application has not got, a thread is working on, or a
   statement keeps; a statement is on the list of its handle, but while a
   thread is about to put it there or has taken it off. *)
StmtKept(q) ==
    mem[q].kind = "stmt" =>
    /\ mem[q].db \in Addr \cap DBS /\ mem[mem[q].db].kind = "db"
    /\ \/ q \in held /\ q \in mem[mem[q].db].stmts
       \/ \E t \in Thread : OnStmt(t) /\ Ptr(t) = q

TextKept(a) ==
    mem[a].kind = "text" => a \in held \/ \E t \in Thread : OnText(t) /\ Ptr(t) = a

DbKept(d) ==
    mem[d].kind = "db" =>
    /\ mem[d].closed => d \notin held
    /\ \/ d \in held
       \/ mem[d].closed /\ mem[d].stmts # {}
       \/ \E t \in Thread : /\ call[t].db = d
                            /\ mem[d].closed \/ call[t].at \in {"opened", "close"}
    /\ \A q \in mem[d].stmts : q \in Addr /\ mem[q].kind = "stmt" /\ mem[q].db = d

HandlesIInv ==
    /\ HandlesTypeOK
    /\ RegistriesExact
    /\ \A t \in Thread : InHand(t)
    /\ \A t, u \in Thread : Alone(t, u)
    /\ \A a \in Addr : StmtKept(a) /\ TextKept(a) /\ DbKept(a)

=============================================================================
