----------------------------- MODULE HandlesProofs -----------------------------
(***************************************************************************)
(* The shim's registries are exact and its handles outlive their users,    *)
(* for any number of threads and addresses.                                *)
(***************************************************************************)
EXTENDS Handles, TLAPS

LEMMA NewObjects ==
    /\ Free \in Object
    /\ \A k \in {"db", "stmt", "text", "real"} : A(k) \in Object
    /\ \A d \in Addr : StmtOf(d) \in Object
BY DEF Free, A, StmtOf, Object

LEMMA OpenKeeps ==
    ASSUME HandlesIInv, NEW t \in Thread, NEW a \in Addr, Open(t, a)
    PROVE  HandlesIInv'
<1>1. HandlesTypeOK'
    BY NewObjects, SMT DEF HandlesIInv, HandlesTypeOK, Open, registries, Object, IsFree, Idle, At, Ptr, GoTo, Continue, Return, Inside, MayFinalize, Places
<1>2. RegistriesExact'
    BY SMT DEF HandlesIInv, HandlesTypeOK, Open, registries, Object, Free, A, StmtOf, IsFree, RegistriesExact, InHand, OnStmt
<1>3. \A u \in Thread : InHand(u)'
    BY SMT DEF HandlesIInv, HandlesTypeOK, Open, registries, Object, Free, A, StmtOf, IsFree, Idle, At, Ptr, GoTo, Continue, Return, RegistriesExact, InHand, OnStmt, OnDb, OnText, StmtInHand, TextInHand, DbInHand, Alone
<1>4. \A u, w \in Thread : Alone(u, w)'
    BY SMT DEF HandlesIInv, HandlesTypeOK, Open, A, StmtOf, IsFree, Idle, At, Ptr, GoTo, Continue, Return, RegistriesExact, InHand, OnStmt, OnDb, OnText, StmtInHand, TextInHand, DbInHand, Alone
<1>5. \A q \in Addr : StmtKept(q)'
    BY SMT DEF HandlesIInv, HandlesTypeOK, Open, registries, Object, Free, A, StmtOf, IsFree, Idle, At, Ptr, GoTo, Continue, Return, RegistriesExact, InHand, OnStmt, StmtKept, DbKept
<1>6. \A q \in Addr : TextKept(q)'
    BY SMT DEF HandlesIInv, HandlesTypeOK, Open, A, StmtOf, IsFree, Idle, At, Ptr, GoTo, Continue, Return, OnDb, OnText, StmtInHand, TextKept
<1>7. \A q \in Addr : DbKept(q)'
    BY HandlesAssumptions, SMT DEF HandlesIInv, HandlesTypeOK, Open, registries, Object, Free, A, StmtOf, IsFree, Idle, At, Ptr, GoTo, Continue, Return, RegistriesExact, InHand, OnStmt, StmtKept, DbKept
<1> QED BY <1>1, <1>2, <1>3, <1>4, <1>5, <1>6, <1>7 DEF HandlesIInv

LEMMA OpenRegisterKeeps ==
    ASSUME HandlesIInv, NEW t \in Thread, OpenRegister(t)
    PROVE  HandlesIInv'
<1>1. HandlesTypeOK'
    BY SMT DEF HandlesIInv, HandlesTypeOK, OpenRegister, Idle, At, Ptr, GoTo, Continue, Return, Inside, MayFinalize, Places
<1>2. RegistriesExact'
    BY SMT DEF HandlesIInv, HandlesTypeOK, OpenRegister, A, StmtOf, IsFree, Idle, At, Ptr, RegistriesExact, InHand, OnStmt, OnDb, OnText, StmtInHand, TextInHand, DbInHand
<1>3. \A u \in Thread : InHand(u)'
    BY HandlesAssumptions, SMT DEF HandlesIInv, HandlesTypeOK, OpenRegister, Idle, At, Ptr, GoTo, Continue, Return, RegistriesExact, InHand, OnStmt, OnDb, OnText, StmtInHand, TextInHand, DbInHand, Alone
<1>4. \A u, w \in Thread : Alone(u, w)'
    BY HandlesAssumptions, SMT DEF HandlesIInv, HandlesTypeOK, OpenRegister, Idle, At, Ptr, GoTo, Continue, Return, RegistriesExact, InHand, OnStmt, OnDb, OnText, StmtInHand, TextInHand, DbInHand, Alone
<1>5. \A q \in Addr : StmtKept(q)'
    BY SMT DEF HandlesIInv, HandlesTypeOK, OpenRegister, Idle, At, Ptr, GoTo, Continue, Return, RegistriesExact, InHand, OnStmt, StmtKept, DbKept
<1>6. \A q \in Addr : TextKept(q)'
    BY SMT DEF HandlesIInv, HandlesTypeOK, OpenRegister, Idle, At, Ptr, GoTo, Continue, Return, OnDb, OnText, StmtInHand, TextKept
<1>7. \A q \in Addr : DbKept(q)'
    BY SMT DEF HandlesIInv, HandlesTypeOK, OpenRegister, Idle, At, Ptr, GoTo, Continue, Return, RegistriesExact, InHand, OnStmt, OnDb, OnText, StmtInHand, TextInHand, DbInHand, Alone, StmtKept, DbKept
<1> QED BY <1>1, <1>2, <1>3, <1>4, <1>5, <1>6, <1>7 DEF HandlesIInv

LEMMA RealAllocatesKeeps ==
    ASSUME HandlesIInv, NEW t \in Thread, NEW a \in Addr, RealAllocates(t, a)
    PROVE  HandlesIInv'
<1>1. HandlesTypeOK'
    BY NewObjects, SMT DEF HandlesIInv, HandlesTypeOK, RealAllocates, registries, Object, IsFree, Idle, At, Ptr
<1>2. RegistriesExact'
    BY SMT DEF HandlesIInv, HandlesTypeOK, RealAllocates, registries, Object, Free, A, StmtOf, IsFree, RegistriesExact, InHand, OnStmt
<1>3. \A u \in Thread : InHand(u)'
    BY SMT DEF HandlesIInv, HandlesTypeOK, RealAllocates, registries, Object, Free, A, StmtOf, IsFree, Idle, At, Ptr, RegistriesExact, InHand, OnStmt, OnDb, OnText, StmtInHand, TextInHand, DbInHand, Alone
<1>4. \A u, w \in Thread : Alone(u, w)'
    BY SMT DEF HandlesIInv, HandlesTypeOK, RealAllocates, Idle, At, Ptr, RegistriesExact, InHand, OnStmt, OnDb, OnText, StmtInHand, TextInHand, DbInHand, Alone
<1>5. \A q \in Addr : StmtKept(q)'
    BY SMT DEF HandlesIInv, HandlesTypeOK, RealAllocates, registries, Object, Free, A, StmtOf, IsFree, Idle, At, Ptr, RegistriesExact, InHand, OnStmt, StmtKept, DbKept
<1>6. \A q \in Addr : TextKept(q)'
    BY SMT DEF HandlesIInv, HandlesTypeOK, RealAllocates, Idle, At, Ptr, OnDb, OnText, StmtInHand, TextKept
<1>7. \A q \in Addr : DbKept(q)'
    BY SMT DEF HandlesIInv, HandlesTypeOK, RealAllocates, A, StmtOf, IsFree, StmtKept, DbKept
<1> QED BY <1>1, <1>2, <1>3, <1>4, <1>5, <1>6, <1>7 DEF HandlesIInv

LEMMA PrepareKeeps ==
    ASSUME HandlesIInv, NEW t \in Thread, NEW d \in Addr, NEW a \in Addr, Prepare(t, d, a)
    PROVE  HandlesIInv'
<1>1. HandlesTypeOK'
    BY NewObjects, SMT DEF HandlesIInv, HandlesTypeOK, Prepare, registries, Object, IsFree, Idle, At, Ptr, GoTo, Continue, Return, Inside, MayFinalize, Places
<1>2. RegistriesExact'
    BY SMT DEF HandlesIInv, HandlesTypeOK, Prepare, registries, Object, Free, A, StmtOf, IsFree, RegistriesExact, InHand, OnStmt
<1>3. \A u \in Thread : InHand(u)'
    BY SMT DEF HandlesIInv, HandlesTypeOK, Prepare, registries, Object, Free, A, StmtOf, IsFree, Idle, At, Ptr, GoTo, Continue, Return, RegistriesExact, InHand, OnStmt, OnDb, OnText, StmtInHand, TextInHand, DbInHand, Alone
<1>4. \A u, w \in Thread : Alone(u, w)'
    BY SMT DEF HandlesIInv, HandlesTypeOK, Prepare, A, StmtOf, IsFree, Idle, At, Ptr, GoTo, Continue, Return, Inside, MayFinalize, Places, RegistriesExact, InHand, OnStmt, OnDb, OnText, StmtInHand, TextInHand, DbInHand, Alone
<1>5. \A q \in Addr : StmtKept(q)'
    BY HandlesAssumptions, SMT DEF HandlesIInv, HandlesTypeOK, Prepare, registries, Object, Free, A, StmtOf, IsFree, Idle, At, Ptr, GoTo, Continue, Return, RegistriesExact, InHand, OnStmt, StmtKept, DbKept
<1>6. \A q \in Addr : TextKept(q)'
    BY SMT DEF HandlesIInv, HandlesTypeOK, Prepare, A, StmtOf, IsFree, Idle, At, Ptr, GoTo, Continue, Return, OnDb, OnText, StmtInHand, TextKept
<1>7. \A q \in Addr : DbKept(q)'
    BY HandlesAssumptions, SMT DEF HandlesIInv, HandlesTypeOK, Prepare, Idle, At, Ptr, GoTo, Continue, Return, Object, Free, A, StmtOf, IsFree, InHand, OnDb, DbInHand, DbKept
<1> QED BY <1>1, <1>2, <1>3, <1>4, <1>5, <1>6, <1>7 DEF HandlesIInv

LEMMA PrepareRegisterKeeps ==
    ASSUME HandlesIInv, NEW t \in Thread, PrepareRegister(t)
    PROVE  HandlesIInv'
<1>1. HandlesTypeOK'
    BY SMT DEF HandlesIInv, HandlesTypeOK, PrepareRegister, Idle, At, Ptr, GoTo, Continue, Return, Inside, MayFinalize, Places
<1>2. RegistriesExact'
    BY SMT DEF HandlesIInv, HandlesTypeOK, PrepareRegister, A, StmtOf, IsFree, Idle, At, Ptr, RegistriesExact, InHand, OnStmt, OnDb, OnText, StmtInHand
<1>3. \A u \in Thread : InHand(u)'
    BY SMT DEF HandlesIInv, HandlesTypeOK, PrepareRegister, Idle, At, Ptr, GoTo, Continue, Return, RegistriesExact, InHand, OnStmt, OnDb, OnText, StmtInHand, TextInHand, DbInHand, Alone
<1>4. \A u, w \in Thread : Alone(u, w)'
    BY SMT DEF HandlesIInv, HandlesTypeOK, PrepareRegister, Idle, At, Ptr, GoTo, Continue, Return, RegistriesExact, InHand, OnStmt, OnDb, OnText, StmtInHand, TextInHand, DbInHand, Alone
<1>5. \A q \in Addr : StmtKept(q)'
    BY SMT DEF HandlesIInv, HandlesTypeOK, PrepareRegister, Idle, At, Ptr, GoTo, Continue, Return, RegistriesExact, InHand, OnStmt, StmtKept, DbKept
<1>6. \A q \in Addr : TextKept(q)'
    BY SMT DEF HandlesIInv, HandlesTypeOK, PrepareRegister, Idle, At, Ptr, GoTo, Continue, Return, OnDb, OnText, StmtInHand, TextKept
<1>7. \A q \in Addr : DbKept(q)'
    BY SMT DEF HandlesIInv, HandlesTypeOK, PrepareRegister, Idle, At, Ptr, GoTo, Continue, Return, StmtKept, DbKept
<1> QED BY <1>1, <1>2, <1>3, <1>4, <1>5, <1>6, <1>7 DEF HandlesIInv

LEMMA LinkStmtKeeps ==
    ASSUME HandlesIInv, NEW t \in Thread, LinkStmt(t)
    PROVE  HandlesIInv'
<1>1. HandlesTypeOK'
    BY SMT DEF HandlesIInv, HandlesTypeOK, LinkStmt, registries, Object, Free, Idle, At, Ptr, GoTo, Continue, Return, Inside, MayFinalize, Places
<1>2. RegistriesExact'
    BY SMT DEF HandlesIInv, HandlesTypeOK, LinkStmt, registries, Object, Free, A, StmtOf, IsFree, Idle, At, Ptr, RegistriesExact, InHand, OnStmt, OnDb, OnText, StmtInHand
<1>3. \A u \in Thread : InHand(u)'
    BY HandlesAssumptions, SMT DEF HandlesIInv, HandlesTypeOK, LinkStmt, registries, Object, Free, Idle, At, Ptr, GoTo, Continue, Return, RegistriesExact, InHand, OnStmt, OnDb, OnText, StmtInHand, TextInHand, DbInHand, Alone
<1>4. \A u, w \in Thread : Alone(u, w)'
    BY HandlesAssumptions, SMT DEF HandlesIInv, HandlesTypeOK, LinkStmt, Idle, At, Ptr, GoTo, Continue, Return, RegistriesExact, InHand, OnStmt, OnDb, OnText, StmtInHand, TextInHand, DbInHand, Alone
<1>5. \A q \in Addr : StmtKept(q)'
    BY SMT DEF HandlesIInv, HandlesTypeOK, LinkStmt, registries, Object, Free, Idle, At, Ptr, GoTo, Continue, Return, RegistriesExact, InHand, OnStmt, OnDb, OnText, StmtInHand, StmtKept, DbKept
<1>6. \A q \in Addr : TextKept(q)'
    BY SMT DEF HandlesIInv, HandlesTypeOK, LinkStmt, Idle, At, Ptr, GoTo, Continue, Return, OnDb, OnText, StmtInHand, TextKept
<1>7. \A q \in Addr : DbKept(q)'
    BY HandlesAssumptions, SMT DEF HandlesIInv, HandlesTypeOK, LinkStmt, Idle, At, Ptr, GoTo, Continue, Return, RegistriesExact, InHand, OnStmt, OnDb, OnText, StmtInHand, StmtKept, DbKept
<1> QED BY <1>1, <1>2, <1>3, <1>4, <1>5, <1>6, <1>7 DEF HandlesIInv

LEMMA AccessorKeeps ==
    ASSUME HandlesIInv, NEW t \in Thread, NEW f \in Exported, NEW a \in Addr, Accessor(t, f, a)
    PROVE  HandlesIInv'
<1>1. HandlesTypeOK'
  <2>1. strays' = strays \/ strays' = strays \cup {"proxy_in_real"}
           \/ strays' = strays \cup {"real_in_shim"} \/ strays' = strays \cup {"forwarded"}
    BY DEF Accessor, ToReal
  <2>2. UNCHANGED <<mem, registries, held, call>>
    BY DEF Accessor
  <2>3. strays' \subseteq Strays
    BY <2>1 DEF HandlesIInv, HandlesTypeOK, Strays
  <2> QED BY <2>2, <2>3 DEF HandlesIInv, HandlesTypeOK, registries, At, Ptr
<1>2. RegistriesExact'
    BY SMT DEF HandlesIInv, HandlesTypeOK, Accessor, registries, ToReal, IsProxy, StmtOf, IsFree, Idle, MayFinalize, Places, RegistriesExact
<1>3. \A u \in Thread : InHand(u)'
    BY SMT DEF HandlesIInv, HandlesTypeOK, Accessor, registries, ToReal, IsProxy, At, Ptr, GoTo, InHand, OnStmt, OnDb, OnText, StmtInHand, TextInHand, DbInHand, Alone, StmtKept
<1>4. \A u, w \in Thread : Alone(u, w)'
    BY SMT DEF HandlesIInv, HandlesTypeOK, Accessor, At, Ptr, GoTo, InHand, OnStmt, OnDb, OnText, StmtInHand, TextInHand, DbInHand, Alone
<1>5. \A q \in Addr : StmtKept(q)'
    BY SMT DEF HandlesIInv, HandlesTypeOK, Accessor, registries, ToReal, IsProxy, At, Ptr, GoTo, InHand, OnStmt, OnDb, DbInHand, Alone, StmtKept
<1>6. \A q \in Addr : TextKept(q)'
    BY SMT DEF HandlesIInv, HandlesTypeOK, Accessor, At, Ptr, GoTo, OnText, StmtInHand, TextInHand, DbInHand, Alone, TextKept
<1>7. \A q \in Addr : DbKept(q)'
    BY SMT DEF HandlesIInv, HandlesTypeOK, Accessor, DbKept
<1> QED BY <1>1, <1>2, <1>3, <1>4, <1>5, <1>6, <1>7 DEF HandlesIInv

LEMMA RealFreesKeeps ==
    ASSUME HandlesIInv, NEW t \in Thread, NEW a \in Addr, RealFrees(t, a)
    PROVE  HandlesIInv'
<1>1. HandlesTypeOK'
    BY NewObjects, SMT DEF HandlesIInv, HandlesTypeOK, Strays, RealFrees, registries, ToReal, Idle, At, Ptr
<1>2. RegistriesExact'
    BY SMT DEF HandlesIInv, HandlesTypeOK, RealFrees, registries, ToReal, IsProxy, StmtOf, IsFree, Idle, MayFinalize, Places, RegistriesExact
<1>3. \A u \in Thread : InHand(u)'
    BY SMT DEF HandlesIInv, HandlesTypeOK, RealFrees, registries, ToReal, IsProxy, At, Ptr, GoTo, InHand, OnStmt, OnDb, OnText, StmtInHand, TextInHand, DbInHand, Alone, StmtKept
<1>4. \A u, w \in Thread : Alone(u, w)'
    BY SMT DEF HandlesIInv, HandlesTypeOK, RealFrees, At, Ptr, GoTo, MayFinalize, Places, RegistriesExact, InHand, OnStmt, OnDb, OnText, StmtInHand, TextInHand, DbInHand, Alone
<1>5. \A q \in Addr : StmtKept(q)'
    BY SMT DEF HandlesIInv, HandlesTypeOK, RealFrees, registries, ToReal, IsProxy, Object, Free, A, At, Ptr, GoTo, MayFinalize, Places, RegistriesExact, InHand, OnStmt, OnDb, DbInHand, Alone, StmtKept
<1>6. \A q \in Addr : TextKept(q)'
    BY SMT DEF HandlesIInv, HandlesTypeOK, RealFrees, Object, Free, A, At, Ptr, GoTo, MayFinalize, Places, RegistriesExact, OnText, StmtInHand, TextInHand, DbInHand, Alone, TextKept
<1>7. \A q \in Addr : DbKept(q)'
    BY SMT DEF HandlesIInv, HandlesTypeOK, RealFrees, Object, Free, A, MayFinalize, Places, RegistriesExact, DbKept
<1> QED BY <1>1, <1>2, <1>3, <1>4, <1>5, <1>6, <1>7 DEF HandlesIInv

LEMMA CloseKeeps ==
    ASSUME HandlesIInv, NEW t \in Thread, NEW a \in Addr, NEW v2 \in BOOLEAN, Close(t, a, v2)
    PROVE  HandlesIInv'
<1>1. HandlesTypeOK'
    BY SMT DEF HandlesIInv, HandlesTypeOK, Close, registries, Object, Free, Idle, At, Ptr, GoTo, Continue, Return, Inside, MayFinalize, Places
<1>2. RegistriesExact'
    BY SMT DEF HandlesIInv, HandlesTypeOK, Close, registries, Object, Free, A, StmtOf, IsFree, RegistriesExact, InHand, OnStmt
<1>3. \A u \in Thread : InHand(u)'
    BY SMT DEF HandlesIInv, HandlesTypeOK, Close, registries, Object, Free, Idle, At, Ptr, GoTo, Continue, Return, Inside, MayFinalize, Places, RegistriesExact, InHand, OnStmt, OnDb, OnText, StmtInHand, TextInHand, DbInHand, Alone
<1>4. \A u, w \in Thread : Alone(u, w)'
    BY SMT DEF HandlesIInv, HandlesTypeOK, Close, Idle, At, Ptr, GoTo, Continue, Return, Inside, MayFinalize, Places, RegistriesExact, InHand, OnStmt, OnDb, OnText, StmtInHand, TextInHand, DbInHand, Alone
<1>5. \A q \in Addr : StmtKept(q)'
    BY SMT DEF HandlesIInv, HandlesTypeOK, Close, registries, Object, Free, Idle, At, Ptr, GoTo, Continue, Return, RegistriesExact, InHand, OnStmt, StmtKept, DbKept
<1>6. \A q \in Addr : TextKept(q)'
    BY SMT DEF HandlesIInv, HandlesTypeOK, Close, Idle, At, Ptr, GoTo, Continue, Return, RegistriesExact, InHand, OnStmt, OnDb, OnText, StmtInHand, TextKept
<1>7. \A q \in Addr : DbKept(q)'
    BY HandlesAssumptions, SMT DEF HandlesIInv, HandlesTypeOK, Close, Idle, At, Ptr, GoTo, Continue, Return, RegistriesExact, InHand, OnStmt, StmtKept, DbKept
<1> QED BY <1>1, <1>2, <1>3, <1>4, <1>5, <1>6, <1>7 DEF HandlesIInv

LEMMA SetClosedKeeps ==
    ASSUME HandlesIInv, NEW t \in Thread, SetClosed(t)
    PROVE  HandlesIInv'
<1>1. HandlesTypeOK'
  <2>1. Ptr(t) \in Addr /\ mem[Ptr(t)] \in Object
    BY DEF HandlesIInv, HandlesTypeOK, SetClosed, At, Ptr
  <2>2. [mem[Ptr(t)] EXCEPT !.closed = TRUE] \in Object
    BY <2>1 DEF Object
  <2>3. mem' \in [Addr -> Object]
    BY <2>1, <2>2 DEF HandlesIInv, HandlesTypeOK, SetClosed
  <2> QED BY <2>3, SMT DEF HandlesIInv, HandlesTypeOK, SetClosed, registries, At, Ptr,
                           Continue, Places
<1>2. RegistriesExact'
    BY SMT DEF HandlesIInv, HandlesTypeOK, SetClosed, registries, Object, Free, A, StmtOf, IsFree, RegistriesExact, InHand, OnStmt
<1>3. \A u \in Thread : InHand(u)'
    BY SMT DEF HandlesIInv, HandlesTypeOK, SetClosed, registries, Object, Free, Idle, At, Ptr, GoTo, Continue, Return, RegistriesExact, InHand, OnStmt, OnDb, OnText, StmtInHand, TextInHand, DbInHand, Alone
<1>4. \A u, w \in Thread : Alone(u, w)'
    BY SMT DEF HandlesIInv, HandlesTypeOK, SetClosed, Idle, At, Ptr, GoTo, Continue, Return, RegistriesExact, InHand, OnStmt, OnDb, OnText, StmtInHand, TextInHand, DbInHand, Alone
<1>5. \A q \in Addr : StmtKept(q)'
    BY SMT DEF HandlesIInv, HandlesTypeOK, SetClosed, registries, Object, Free, Idle, At, Ptr, GoTo, Continue, Return, RegistriesExact, InHand, OnStmt, StmtKept, DbKept
<1>6. \A q \in Addr : TextKept(q)'
    BY SMT DEF HandlesIInv, HandlesTypeOK, SetClosed, Idle, At, Ptr, GoTo, Continue, Return, OnDb, OnText, StmtInHand, TextKept
<1>7. \A q \in Addr : DbKept(q)'
    BY SMT DEF HandlesIInv, HandlesTypeOK, SetClosed, Idle, At, Ptr, GoTo, Continue, Return, Inside, MayFinalize, Places, RegistriesExact, InHand, OnStmt, OnDb, OnText, StmtInHand, TextInHand, DbInHand, Alone, StmtKept, DbKept
<1> QED BY <1>1, <1>2, <1>3, <1>4, <1>5, <1>6, <1>7 DEF HandlesIInv

LEMMA CloseLooksKeeps ==
    ASSUME HandlesIInv, NEW t \in Thread, CloseLooks(t)
    PROVE  HandlesIInv'
<1>1. HandlesTypeOK'
    BY SMT DEF HandlesIInv, HandlesTypeOK, CloseLooks, registries, Object, Free, Idle, At, Ptr, GoTo, Continue, Return, Inside, MayFinalize, Places
<1>2. RegistriesExact'
    BY SMT DEF HandlesIInv, HandlesTypeOK, CloseLooks, registries, Object, Free, A, StmtOf, IsFree, RegistriesExact, InHand, OnStmt
<1>3. \A u \in Thread : InHand(u)'
    BY HandlesAssumptions, SMT DEF HandlesIInv, HandlesTypeOK, CloseLooks, registries, Object, Free, Idle, At, Ptr, GoTo, Continue, Return, RegistriesExact, InHand, OnStmt, OnDb, OnText, StmtInHand, TextInHand, DbInHand, Alone
<1>4. \A u, w \in Thread : Alone(u, w)'
    BY HandlesAssumptions, SMT DEF HandlesIInv, HandlesTypeOK, CloseLooks, Idle, At, Ptr, GoTo, Continue, Return, RegistriesExact, InHand, OnStmt, OnDb, OnText, StmtInHand, TextInHand, DbInHand, Alone
<1>5. \A q \in Addr : StmtKept(q)'
    BY SMT DEF HandlesIInv, HandlesTypeOK, CloseLooks, registries, Object, Free, Idle, At, Ptr, GoTo, Continue, Return, RegistriesExact, InHand, OnStmt, OnDb, OnText, StmtInHand, StmtKept, DbKept
<1>6. \A q \in Addr : TextKept(q)'
    BY SMT DEF HandlesIInv, HandlesTypeOK, CloseLooks, Idle, At, Ptr, GoTo, Continue, Return, OnDb, OnText, StmtInHand, TextKept
<1>7. \A q \in Addr : DbKept(q)'
    BY SMT DEF HandlesIInv, HandlesTypeOK, CloseLooks, Idle, At, Ptr, GoTo, Continue, Return, RegistriesExact, InHand, OnStmt, OnDb, OnText, StmtInHand, TextInHand, DbInHand, Alone, StmtKept, DbKept
<1> QED BY <1>1, <1>2, <1>3, <1>4, <1>5, <1>6, <1>7 DEF HandlesIInv

LEMMA FinalizeKeeps ==
    ASSUME HandlesIInv, NEW t \in Thread, NEW a \in Addr, Finalize(t, a)
    PROVE  HandlesIInv'
<1>1. HandlesTypeOK'
    BY SMT DEF HandlesIInv, HandlesTypeOK, Finalize, Idle, At, Ptr, GoTo, Continue, Return, Inside, MayFinalize, Places, RegistriesExact, StmtKept
<1>2. RegistriesExact'
    BY SMT DEF HandlesIInv, HandlesTypeOK, Finalize, A, StmtOf, IsFree, RegistriesExact, InHand, OnStmt
<1>3. \A u \in Thread : InHand(u)'
    BY SMT DEF HandlesIInv, HandlesTypeOK, Finalize, Idle, At, Ptr, GoTo, Continue, Return, RegistriesExact, InHand, OnStmt, OnDb, OnText, StmtInHand, TextInHand, DbInHand, Alone, StmtKept, DbKept
<1>4. \A u, w \in Thread : Alone(u, w)'
    BY SMT DEF HandlesIInv, HandlesTypeOK, Finalize, Idle, At, Ptr, GoTo, Continue, Return, Inside, MayFinalize, Places, RegistriesExact, InHand, OnStmt, OnDb, OnText, StmtInHand, TextInHand, DbInHand, Alone
<1>5. \A q \in Addr : StmtKept(q)'
    BY SMT DEF HandlesIInv, HandlesTypeOK, Finalize, Idle, At, Ptr, GoTo, Continue, Return, RegistriesExact, InHand, OnStmt, StmtKept, DbKept
<1>6. \A q \in Addr : TextKept(q)'
    BY SMT DEF HandlesIInv, HandlesTypeOK, Finalize, Idle, At, Ptr, GoTo, Continue, Return, RegistriesExact, InHand, OnStmt, OnDb, OnText, StmtInHand, TextKept
<1>7. \A q \in Addr : DbKept(q)'
    BY HandlesAssumptions, SMT DEF HandlesIInv, HandlesTypeOK, Finalize, Idle, At, Ptr, GoTo, Continue, Return, RegistriesExact, InHand, OnStmt, StmtKept, DbKept
<1> QED BY <1>1, <1>2, <1>3, <1>4, <1>5, <1>6, <1>7 DEF HandlesIInv

LEMMA UnlinkStmtKeeps ==
    ASSUME HandlesIInv, NEW t \in Thread, UnlinkStmt(t)
    PROVE  HandlesIInv'
<1>1. HandlesTypeOK'
    BY SMT DEF HandlesIInv, HandlesTypeOK, UnlinkStmt, registries, Object, Free, Idle, At, Ptr, GoTo, Continue, Return, Inside, MayFinalize, Places
<1>2. RegistriesExact'
    BY SMT DEF HandlesIInv, HandlesTypeOK, UnlinkStmt, registries, Object, Free, A, StmtOf, IsFree, RegistriesExact, InHand, OnStmt
<1>3. \A u \in Thread : InHand(u)'
    BY SMT DEF HandlesIInv, HandlesTypeOK, UnlinkStmt, registries, Object, Free, Idle, At, Ptr, GoTo, Continue, Return, RegistriesExact, InHand, OnStmt, OnDb, OnText, StmtInHand, TextInHand, DbInHand, Alone
<1>4. \A u, w \in Thread : Alone(u, w)'
    BY SMT DEF HandlesIInv, HandlesTypeOK, UnlinkStmt, Idle, At, Ptr, GoTo, Continue, Return, RegistriesExact, InHand, OnStmt, OnDb, OnText, StmtInHand, TextInHand, DbInHand, Alone
<1>5. \A q \in Addr : StmtKept(q)'
    BY SMT DEF HandlesIInv, HandlesTypeOK, UnlinkStmt, registries, Object, Free, Idle, At, Ptr, GoTo, Continue, Return, RegistriesExact, InHand, OnStmt, StmtKept, DbKept
<1>6. \A q \in Addr : TextKept(q)'
    BY SMT DEF HandlesIInv, HandlesTypeOK, UnlinkStmt, Idle, At, Ptr, GoTo, Continue, Return, OnDb, OnText, StmtInHand, TextKept
<1>7. \A q \in Addr : DbKept(q)'
    BY HandlesAssumptions, SMT DEF HandlesIInv, HandlesTypeOK, UnlinkStmt, Idle, At, Ptr, GoTo, Continue, Return, Object, A, IsFree, StmtKept, DbKept
<1> QED BY <1>1, <1>2, <1>3, <1>4, <1>5, <1>6, <1>7 DEF HandlesIInv

LEMMA DropStmtKeeps ==
    ASSUME HandlesIInv, NEW t \in Thread, DropStmt(t)
    PROVE  HandlesIInv'
<1>1. HandlesTypeOK'
    BY NewObjects, SMT DEF HandlesIInv, HandlesTypeOK, DropStmt, registries, Object, IsFree, Idle, At, Ptr, GoTo, Continue, Return, Inside, MayFinalize, Places
<1>2. RegistriesExact'
    BY SMT DEF HandlesIInv, HandlesTypeOK, DropStmt, registries, Object, Free, A, StmtOf, IsFree, Idle, At, Ptr, RegistriesExact, InHand, OnStmt, OnDb, OnText, StmtInHand
<1>3. \A u \in Thread : InHand(u)'
    BY SMT DEF HandlesIInv, HandlesTypeOK, DropStmt, registries, Object, Free, Idle, At, Ptr, GoTo, Continue, Return, RegistriesExact, InHand, OnStmt, OnDb, OnText, StmtInHand, TextInHand, DbInHand, Alone, StmtKept, DbKept
<1>4. \A u, w \in Thread : Alone(u, w)'
    BY SMT DEF HandlesIInv, HandlesTypeOK, DropStmt, Idle, At, Ptr, GoTo, Continue, Return, RegistriesExact, InHand, OnStmt, OnDb, OnText, StmtInHand, TextInHand, DbInHand, Alone
<1>5. \A q \in Addr : StmtKept(q)'
    BY SMT DEF HandlesIInv, HandlesTypeOK, DropStmt, registries, Object, Free, Idle, At, Ptr, GoTo, Continue, Return, RegistriesExact, InHand, OnStmt, OnDb, OnText, StmtInHand, StmtKept, DbKept
<1>6. \A q \in Addr : TextKept(q)'
    BY SMT DEF HandlesIInv, HandlesTypeOK, DropStmt, registries, Object, Free, Idle, At, Ptr, GoTo, Continue, Return, OnDb, OnText, StmtInHand, TextKept
<1>7. \A q \in Addr : DbKept(q)'
    BY HandlesAssumptions, SMT DEF HandlesIInv, HandlesTypeOK, DropStmt, registries, Object, Free, Idle, At, Ptr, GoTo, Continue, Return, RegistriesExact, InHand, OnStmt, OnDb, OnText, StmtInHand, StmtKept, DbKept
<1> QED BY <1>1, <1>2, <1>3, <1>4, <1>5, <1>6, <1>7 DEF HandlesIInv

LEMMA FinalizeLooksKeeps ==
    ASSUME HandlesIInv, NEW t \in Thread, FinalizeLooks(t)
    PROVE  HandlesIInv'
<1>1. HandlesTypeOK'
    BY SMT DEF HandlesIInv, HandlesTypeOK, FinalizeLooks, registries, Object, Free, Idle, At, Ptr, GoTo, Continue, Return, Inside, MayFinalize, Places
<1>2. RegistriesExact'
    BY SMT DEF HandlesIInv, HandlesTypeOK, FinalizeLooks, registries, Object, Free, A, StmtOf, IsFree, RegistriesExact, InHand, OnStmt
<1>3. \A u \in Thread : InHand(u)'
    BY HandlesAssumptions, SMT DEF HandlesIInv, HandlesTypeOK, FinalizeLooks, registries, Object, Free, Idle, At, Ptr, GoTo, Continue, Return, RegistriesExact, InHand, OnStmt, OnDb, OnText, StmtInHand, TextInHand, DbInHand, Alone, StmtKept, DbKept
<1>4. \A u, w \in Thread : Alone(u, w)'
    BY HandlesAssumptions, SMT DEF HandlesIInv, HandlesTypeOK, FinalizeLooks, Idle, At, Ptr, GoTo, Continue, Return, RegistriesExact, InHand, OnStmt, OnDb, OnText, StmtInHand, TextInHand, DbInHand, Alone
<1>5. \A q \in Addr : StmtKept(q)'
  <2>1. ASSUME NEW u \in Thread, OnStmt(u)
        PROVE  OnStmt(u)' /\ Ptr(u)' = Ptr(u)
    <3>1. u # t
      BY <2>1 DEF FinalizeLooks, OnStmt, At
    <3>2. call'[u] = call[u]
      BY <3>1 DEF HandlesIInv, HandlesTypeOK, FinalizeLooks, Continue, Return, GoTo
    <3> QED BY <2>1, <3>2 DEF OnStmt, Ptr
  <2>2. UNCHANGED <<mem, registries, held>>
    BY DEF FinalizeLooks
  <2> QED BY <2>1, <2>2 DEF HandlesIInv, StmtKept, registries
<1>6. \A q \in Addr : TextKept(q)'
    BY HandlesAssumptions, SMT DEF HandlesIInv, HandlesTypeOK, FinalizeLooks, Idle, At, Ptr, GoTo, Continue, Return, OnDb, OnText, StmtInHand, TextKept
<1>7. \A q \in Addr : DbKept(q)'
    BY SMT DEF HandlesIInv, HandlesTypeOK, FinalizeLooks, Idle, At, Ptr, GoTo, Continue, Return, RegistriesExact, InHand, OnStmt, OnDb, OnText, StmtInHand, TextInHand, DbInHand, Alone, StmtKept, DbKept
<1> QED BY <1>1, <1>2, <1>3, <1>4, <1>5, <1>6, <1>7 DEF HandlesIInv

LEMMA DestroyKeeps ==
    ASSUME HandlesIInv, NEW t \in Thread, Destroy(t)
    PROVE  HandlesIInv'
<1>1. HandlesTypeOK'
    BY SMT DEF HandlesIInv, HandlesTypeOK, Destroy, Idle, At, Ptr, GoTo, Continue, Return, Inside, MayFinalize, Places
<1>2. RegistriesExact'
    BY SMT DEF HandlesIInv, HandlesTypeOK, Destroy, A, StmtOf, IsFree, Idle, At, Ptr, RegistriesExact, InHand, OnStmt, OnDb, OnText, StmtInHand, TextInHand, DbInHand
<1>3. \A u \in Thread : InHand(u)'
    BY SMT DEF HandlesIInv, HandlesTypeOK, Destroy, Idle, At, Ptr, GoTo, Continue, Return, RegistriesExact, InHand, OnStmt, OnDb, OnText, StmtInHand, TextInHand, DbInHand, Alone
<1>4. \A u, w \in Thread : Alone(u, w)'
    BY SMT DEF HandlesIInv, HandlesTypeOK, Destroy, Idle, At, Ptr, GoTo, Continue, Return, RegistriesExact, InHand, OnStmt, OnDb, OnText, StmtInHand, TextInHand, DbInHand, Alone
<1>5. \A q \in Addr : StmtKept(q)'
    BY SMT DEF HandlesIInv, HandlesTypeOK, Destroy, Idle, At, Ptr, GoTo, Continue, Return, RegistriesExact, InHand, OnStmt, OnDb, OnText, StmtInHand, TextInHand, DbInHand, Alone, StmtKept, DbKept
<1>6. \A q \in Addr : TextKept(q)'
    BY SMT DEF HandlesIInv, HandlesTypeOK, Destroy, Idle, At, Ptr, GoTo, Continue, Return, OnDb, OnText, StmtInHand, TextKept
<1>7. \A q \in Addr : DbKept(q)'
    BY SMT DEF HandlesIInv, HandlesTypeOK, Destroy, Idle, At, Ptr, GoTo, Continue, Return, RegistriesExact, InHand, OnStmt, OnDb, OnText, StmtInHand, TextInHand, DbInHand, Alone, StmtKept, DbKept
<1> QED BY <1>1, <1>2, <1>3, <1>4, <1>5, <1>6, <1>7 DEF HandlesIInv

LEMMA FreeDbKeeps ==
    ASSUME HandlesIInv, NEW t \in Thread, FreeDb(t)
    PROVE  HandlesIInv'
<1>1. HandlesTypeOK'
    BY NewObjects, SMT DEF HandlesIInv, HandlesTypeOK, FreeDb, registries, Object, IsFree, Idle, At, Ptr, GoTo, Continue, Return, Inside, MayFinalize, Places
<1>2. RegistriesExact'
    BY SMT DEF HandlesIInv, HandlesTypeOK, FreeDb, registries, Object, Free, A, StmtOf, IsFree, Idle, At, Ptr, RegistriesExact, InHand, OnStmt, OnDb, OnText, StmtInHand, TextInHand, DbInHand
<1>3. \A u \in Thread : InHand(u)'
    BY HandlesAssumptions, SMT DEF HandlesIInv, HandlesTypeOK, FreeDb, registries, Object, Free, Idle, At, Ptr, GoTo, Continue, Return, RegistriesExact, InHand, OnStmt, OnDb, OnText, StmtInHand, TextInHand, DbInHand, Alone
<1>4. \A u, w \in Thread : Alone(u, w)'
    BY HandlesAssumptions, SMT DEF HandlesIInv, HandlesTypeOK, FreeDb, Idle, At, Ptr, GoTo, Continue, Return, RegistriesExact, InHand, OnStmt, OnDb, OnText, StmtInHand, TextInHand, DbInHand, Alone
<1>5. \A q \in Addr : StmtKept(q)'
    BY SMT DEF HandlesIInv, HandlesTypeOK, FreeDb, registries, Object, Free, Idle, At, Ptr, GoTo, Continue, Return, RegistriesExact, InHand, OnStmt, OnDb, OnText, StmtInHand, TextInHand, DbInHand, Alone, StmtKept, DbKept
<1>6. \A q \in Addr : TextKept(q)'
    BY SMT DEF HandlesIInv, HandlesTypeOK, FreeDb, registries, Object, Free, Idle, At, Ptr, GoTo, Continue, Return, OnDb, OnText, StmtInHand, TextKept
<1>7. \A q \in Addr : DbKept(q)'
    BY SMT DEF HandlesIInv, HandlesTypeOK, FreeDb, Idle, At, Ptr, GoTo, Continue, Return, Object, Free, A, StmtOf, IsFree, InHand, OnDb, DbInHand, DbKept
<1> QED BY <1>1, <1>2, <1>3, <1>4, <1>5, <1>6, <1>7 DEF HandlesIInv

LEMMA MallocKeeps ==
    ASSUME HandlesIInv, NEW t \in Thread, NEW a \in Addr, Malloc(t, a)
    PROVE  HandlesIInv'
<1>1. HandlesTypeOK'
    BY NewObjects, SMT DEF HandlesIInv, HandlesTypeOK, Malloc, registries, Object, IsFree, Idle, At, Ptr, GoTo, Continue, Return, Inside, MayFinalize, Places
<1>2. RegistriesExact'
    BY SMT DEF HandlesIInv, HandlesTypeOK, Malloc, registries, Object, Free, A, StmtOf, IsFree, RegistriesExact, InHand, OnStmt
<1>3. \A u \in Thread : InHand(u)'
    BY SMT DEF HandlesIInv, HandlesTypeOK, Malloc, registries, Object, Free, A, StmtOf, IsFree, Idle, At, Ptr, GoTo, Continue, Return, RegistriesExact, InHand, OnStmt, OnDb, OnText, StmtInHand, TextInHand, DbInHand, Alone
<1>4. \A u, w \in Thread : Alone(u, w)'
    BY SMT DEF HandlesIInv, HandlesTypeOK, Malloc, A, StmtOf, IsFree, Idle, At, Ptr, GoTo, Continue, Return, Inside, MayFinalize, Places, RegistriesExact, InHand, OnStmt, OnDb, OnText, StmtInHand, TextInHand, DbInHand, Alone
<1>5. \A q \in Addr : StmtKept(q)'
    BY SMT DEF HandlesIInv, HandlesTypeOK, Malloc, registries, Object, Free, A, StmtOf, IsFree, Idle, At, Ptr, GoTo, Continue, Return, RegistriesExact, InHand, OnStmt, StmtKept, DbKept
<1>6. \A q \in Addr : TextKept(q)'
    BY SMT DEF HandlesIInv, HandlesTypeOK, Malloc, Idle, At, Ptr, GoTo, Continue, Return, OnDb, OnText, StmtInHand, TextKept
<1>7. \A q \in Addr : DbKept(q)'
    BY SMT DEF HandlesIInv, HandlesTypeOK, Malloc, Idle, At, Ptr, GoTo, Continue, Return, Object, Free, A, StmtOf, IsFree, InHand, OnStmt, StmtInHand, DbKept
<1> QED BY <1>1, <1>2, <1>3, <1>4, <1>5, <1>6, <1>7 DEF HandlesIInv

LEMMA MallocRegisterKeeps ==
    ASSUME HandlesIInv, NEW t \in Thread, MallocRegister(t)
    PROVE  HandlesIInv'
<1>1. HandlesTypeOK'
    BY SMT DEF HandlesIInv, HandlesTypeOK, MallocRegister, Idle, At, Ptr, GoTo, Continue, Return, Inside, MayFinalize, Places
<1>2. RegistriesExact'
    BY SMT DEF HandlesIInv, HandlesTypeOK, MallocRegister, A, StmtOf, IsFree, Idle, At, Ptr, RegistriesExact, InHand, OnStmt, OnDb, OnText, StmtInHand, TextInHand, DbInHand
<1>3. \A u \in Thread : InHand(u)'
    BY SMT DEF HandlesIInv, HandlesTypeOK, MallocRegister, Idle, At, Ptr, GoTo, Continue, Return, RegistriesExact, InHand, OnStmt, OnDb, OnText, StmtInHand, TextInHand, DbInHand, Alone
<1>4. \A u, w \in Thread : Alone(u, w)'
    BY SMT DEF HandlesIInv, HandlesTypeOK, MallocRegister, Idle, At, Ptr, GoTo, Continue, Return, RegistriesExact, InHand, OnStmt, OnDb, OnText, StmtInHand, TextInHand, DbInHand, Alone
<1>5. \A q \in Addr : StmtKept(q)'
    BY SMT DEF HandlesIInv, HandlesTypeOK, MallocRegister, Idle, At, Ptr, GoTo, Continue, Return, RegistriesExact, InHand, OnStmt, StmtKept, DbKept
<1>6. \A q \in Addr : TextKept(q)'
    BY SMT DEF HandlesIInv, HandlesTypeOK, MallocRegister, Idle, At, Ptr, GoTo, Continue, Return, OnDb, OnText, StmtInHand, TextKept
<1>7. \A q \in Addr : DbKept(q)'
    BY SMT DEF HandlesIInv, HandlesTypeOK, MallocRegister, Idle, At, Ptr, GoTo, Continue, Return, RegistriesExact, InHand, OnStmt, OnDb, OnText, StmtInHand, TextInHand, DbInHand, Alone, StmtKept, DbKept
<1> QED BY <1>1, <1>2, <1>3, <1>4, <1>5, <1>6, <1>7 DEF HandlesIInv

LEMMA FreeTextKeeps ==
    ASSUME HandlesIInv, NEW t \in Thread, NEW a \in Addr, FreeText(t, a)
    PROVE  HandlesIInv'
<1>1. HandlesTypeOK'
    BY SMT DEF HandlesIInv, HandlesTypeOK, Strays, FreeText, registries, Object, IsFree, Idle, At, Ptr, GoTo, Continue, Places
<1>2. RegistriesExact'
    BY SMT DEF HandlesIInv, HandlesTypeOK, FreeText, A, StmtOf, IsFree, RegistriesExact, InHand, OnStmt
<1>3. \A u \in Thread : InHand(u)'
    BY SMT DEF HandlesIInv, HandlesTypeOK, FreeText, Idle, At, Ptr, GoTo, Continue, Return, RegistriesExact, InHand, OnStmt, OnDb, OnText, StmtInHand, TextInHand, DbInHand, Alone
<1>4. \A u, w \in Thread : Alone(u, w)'
    BY SMT DEF HandlesIInv, HandlesTypeOK, FreeText, Idle, At, Ptr, GoTo, Continue, Return, Inside, MayFinalize, Places, RegistriesExact, InHand, OnStmt, OnDb, OnText, StmtInHand, TextInHand, DbInHand, Alone
<1>5. \A q \in Addr : StmtKept(q)'
    BY SMT DEF HandlesIInv, HandlesTypeOK, FreeText, Idle, At, Ptr, GoTo, Continue, Return, RegistriesExact, InHand, OnStmt, StmtKept, DbKept
<1>6. \A q \in Addr : TextKept(q)'
    BY SMT DEF HandlesIInv, HandlesTypeOK, FreeText, Idle, At, Ptr, GoTo, Continue, Return, OnDb, OnText, StmtInHand, TextKept
<1>7. \A q \in Addr : DbKept(q)'
    BY SMT DEF HandlesIInv, HandlesTypeOK, FreeText, Idle, At, Ptr, GoTo, Continue, Return, RegistriesExact, InHand, OnStmt, StmtKept, DbKept
<1> QED BY <1>1, <1>2, <1>3, <1>4, <1>5, <1>6, <1>7 DEF HandlesIInv

LEMMA FreeMemoryKeeps ==
    ASSUME HandlesIInv, NEW t \in Thread, FreeMemory(t)
    PROVE  HandlesIInv'
<1>1. HandlesTypeOK'
    BY NewObjects, SMT DEF HandlesIInv, HandlesTypeOK, FreeMemory, registries, Object, IsFree, Idle, At, Ptr, GoTo, Continue, Return, Inside, MayFinalize, Places
<1>2. RegistriesExact'
    BY SMT DEF HandlesIInv, HandlesTypeOK, FreeMemory, registries, Object, Free, A, StmtOf, IsFree, Idle, At, Ptr, RegistriesExact, InHand, OnStmt, OnDb, OnText, StmtInHand, TextInHand, DbInHand
<1>3. \A u \in Thread : InHand(u)'
    BY SMT DEF HandlesIInv, HandlesTypeOK, FreeMemory, registries, Object, Free, Idle, At, Ptr, GoTo, Continue, Return, RegistriesExact, InHand, OnStmt, OnDb, OnText, StmtInHand, TextInHand, DbInHand, Alone
<1>4. \A u, w \in Thread : Alone(u, w)'
    BY SMT DEF HandlesIInv, HandlesTypeOK, FreeMemory, Idle, At, Ptr, GoTo, Continue, Return, RegistriesExact, InHand, OnStmt, OnDb, OnText, StmtInHand, TextInHand, DbInHand, Alone
<1>5. \A q \in Addr : StmtKept(q)'
    BY SMT DEF HandlesIInv, HandlesTypeOK, FreeMemory, registries, Object, Free, Idle, At, Ptr, GoTo, Continue, Return, RegistriesExact, InHand, OnStmt, OnDb, OnText, StmtInHand, TextInHand, DbInHand, Alone, StmtKept, DbKept
<1>6. \A q \in Addr : TextKept(q)'
    BY SMT DEF HandlesIInv, HandlesTypeOK, FreeMemory, registries, Object, Free, Idle, At, Ptr, GoTo, Continue, Return, OnDb, OnText, StmtInHand, TextKept
<1>7. \A q \in Addr : DbKept(q)'
    BY SMT DEF HandlesIInv, HandlesTypeOK, FreeMemory, Idle, At, Ptr, GoTo, Continue, Return, Object, Free, A, StmtOf, IsFree, InHand, OnText, TextInHand, DbKept
<1> QED BY <1>1, <1>2, <1>3, <1>4, <1>5, <1>6, <1>7 DEF HandlesIInv

LEMMA StutterKeeps ==
    ASSUME HandlesIInv, UNCHANGED vars
    PROVE  HandlesIInv'
BY DEF vars, HandlesIInv, HandlesTypeOK, RegistriesExact, InHand, OnStmt, OnText, OnDb, Alone,
       StmtKept, TextKept, DbKept, At, Ptr, registries, IsFree, StmtInHand, TextInHand, DbInHand

LEMMA StepKeeps ==
    ASSUME HandlesIInv, Next
    PROVE  HandlesIInv'
<1>1. PICK t \in Thread : Proceed(t) \/ \E a \in Addr : Start(t, a)
  BY DEF Next
<1>2. CASE Proceed(t)
  BY <1>2, OpenRegisterKeeps, PrepareRegisterKeeps, LinkStmtKeeps, SetClosedKeeps,
     CloseLooksKeeps, UnlinkStmtKeeps, DropStmtKeeps, FinalizeLooksKeeps,
     DestroyKeeps, FreeDbKeeps, MallocRegisterKeeps, FreeMemoryKeeps, Zenon DEF Proceed
<1>3. ASSUME NEW a \in Addr, Start(t, a)
      PROVE  HandlesIInv'
  BY <1>3, OpenKeeps, RealAllocatesKeeps, PrepareKeeps, AccessorKeeps, RealFreesKeeps,
     CloseKeeps, FinalizeKeeps, MallocKeeps, FreeTextKeeps, Zenon DEF Start
<1> QED BY <1>1, <1>2, <1>3

LEMMA IdleFields == Idle.at = "idle" /\ Idle.ptr = NoAddr /\ Idle.db = NoAddr
BY DEF Idle

LEMMA InitKeeps ==
    ASSUME Init
    PROVE  HandlesIInv
<1>1. HandlesTypeOK
  BY NewObjects, HandlesAssumptions, SMT DEF Init, HandlesTypeOK, Idle, At, Ptr, Places
<1>2. RegistriesExact
  BY SMT DEF Init, RegistriesExact
<1>3. \A t \in Thread : call[t] = Idle
  BY DEF Init
<1>4. \A t \in Thread : InHand(t)
  <2> TAKE t \in Thread
  <2>1. call[t].at = "idle" /\ call[t].db \notin Addr
    BY <1>3, IdleFields, HandlesAssumptions
  <2> QED BY <1>3, <2>1 DEF InHand, OnStmt, OnText, OnDb
<1>5. \A t, u \in Thread : Alone(t, u)
  BY <1>3, HandlesAssumptions, SMT DEF Alone, Idle, OnStmt, OnText
<1>6. \A a \in Addr : StmtKept(a) /\ TextKept(a) /\ DbKept(a)
  BY SMT DEF Init, StmtKept, TextKept, DbKept, Free
<1> QED BY <1>1, <1>2, <1>4, <1>5, <1>6 DEF HandlesIInv

(* What a thread of the shim works on is in memory, in its registry and nobody
   else's, whatever the other threads do and however soon addresses are used
   again: the invariant behind the lock-by-lock order of open_v2, prepare_v2,
   finalize_stmt, close_db, destroy_db and sqlite3_free. *)
THEOREM HandlesInductive == Spec => []HandlesIInv
<1>1. Init => HandlesIInv
  BY InitKeeps
<1>2. HandlesIInv /\ [Next]_vars => HandlesIInv'
  BY StepKeeps, StutterKeeps
<1> QED BY <1>1, <1>2, PTL DEF Spec

(* DBS, STMTS and ALLOCATED hold the live proxies and texts of the shim and
   nothing else, although they know them by address alone. *)
THEOREM RegistriesAreExact == Spec => []RegistriesExact
<1>1. HandlesIInv => RegistriesExact
  BY DEF HandlesIInv
<1> QED BY <1>1, HandlesInductive, PTL

(* finalize, close and close_v2 never leave a statement or a thread with a
   handle that has been freed. *)
THEOREM HandlesOutlive == Spec => []HandlesOutliveTheirUsers
<1>1. HandlesIInv => HandlesOutliveTheirUsers
  <2> SUFFICES ASSUME HandlesIInv PROVE HandlesOutliveTheirUsers
    OBVIOUS
  <2>1. \A q \in Addr : mem[q].kind = "stmt" => mem[mem[q].db].kind = "db"
    BY DEF HandlesIInv, StmtKept
  <2>2. \A t \in Thread : call[t].db # NoAddr => mem[call[t].db].kind = "db"
    BY DEF HandlesIInv, HandlesTypeOK, InHand
  <2> QED BY <2>1, <2>2 DEF HandlesOutliveTheirUsers
<1> QED BY <1>1, HandlesInductive, PTL

(* When every call has returned, each handle, statement and text is the
   application's or is kept by a statement that is: destroy_db is reached
   whichever of close_v2 and finalize comes last. *)
THEOREM NothingIsLeaked == Spec => []NothingLeaks
<1>1. HandlesIInv => NothingLeaks
  <2> SUFFICES ASSUME HandlesIInv, \A t \in Thread : At(t, "idle"),
                      NEW a \in Addr, mem[a].kind \in {"db", "stmt", "text"}, a \notin held
               PROVE  mem[a].closed /\ mem[a].stmts # {} /\ mem[a].stmts \subseteq held
    BY DEF NothingLeaks
  <2>1. \A t \in Thread : call[t].db = NoAddr /\ ~OnStmt(t) /\ ~OnText(t)
    <3> TAKE t \in Thread
    <3>1. call[t] = Idle /\ call[t].at = "idle"
      BY DEF HandlesIInv, InHand, At
    <3> QED BY <3>1, IdleFields DEF OnStmt, OnText
  <2>2. mem[a].kind = "db"
    BY <2>1, SMT DEF HandlesIInv, StmtKept, TextKept
  <2>3. mem[a].closed /\ mem[a].stmts # {}
    BY <2>1, <2>2, HandlesAssumptions, SMT DEF HandlesIInv, DbKept
  <2>4. ASSUME NEW q \in mem[a].stmts PROVE q \in held
    <3>1. q \in Addr /\ mem[q].kind = "stmt"
      BY <2>2 DEF HandlesIInv, DbKept
    <3> QED BY <3>1, <2>1, SMT DEF HandlesIInv, StmtKept
  <2> QED BY <2>3, <2>4
<1> QED BY <1>1, HandlesInductive, PTL

(* Whoever calls what, and whatever address is reused, the functions that the
   shim defines send every pointer to the library it came from. *)
THEOREM PointersGoHome == Spec => []EveryPointerGoesHome
<1>1. Init => EveryPointerGoesHome
  BY DEF Init, EveryPointerGoesHome
<1>2. HandlesIInv /\ EveryPointerGoesHome /\ [Next]_vars => EveryPointerGoesHome'
  <2> SUFFICES ASSUME HandlesIInv, EveryPointerGoesHome, [Next]_vars
               PROVE  strays' \subseteq {"forwarded"}
    BY DEF EveryPointerGoesHome
  <2>1. RegistriesExact /\ \A a \in held : mem[a].kind # "free"
    BY DEF HandlesIInv, RegistriesExact, IsFree
  <2>2. ASSUME NEW t \in Thread, NEW a \in Addr, Start(t, a) PROVE strays' \subseteq {"forwarded"}
    <3>1. ASSUME NEW f \in Exported, Accessor(t, f, a) PROVE strays' \subseteq {"forwarded"}
      <4>1. strays' = strays \/ strays' = strays \cup {"forwarded"}
        BY <2>1, <2>2, <3>1, SMT DEF RegistriesExact, Accessor, IsProxy, ToReal, Start, IsFree
      <4> QED BY <4>1 DEF EveryPointerGoesHome
    <3>2. CASE RealFrees(t, a)
      BY <2>1, <3>2, SMT DEF EveryPointerGoesHome, RegistriesExact, RealFrees, IsProxy, ToReal
    <3>3. CASE FreeText(t, a)
      BY <2>1, <3>3, SMT DEF EveryPointerGoesHome, RegistriesExact, FreeText
    <3>4. CASE Open(t, a) \/ RealAllocates(t, a) \/ (\E d \in Addr : Prepare(t, d, a))
               \/ (\E v2 \in BOOLEAN : Close(t, a, v2)) \/ Finalize(t, a) \/ Malloc(t, a)
      BY <3>4 DEF EveryPointerGoesHome, Open, RealAllocates, Prepare, Close, Finalize, Malloc
    <3> QED BY <2>2, <3>1, <3>2, <3>3, <3>4, Zenon DEF Start
  <2>3. ASSUME NEW t \in Thread, Proceed(t) PROVE strays' \subseteq {"forwarded"}
    BY <2>3 DEF EveryPointerGoesHome, Proceed, OpenRegister, PrepareRegister, LinkStmt,
       SetClosed, CloseLooks, UnlinkStmt, DropStmt, FinalizeLooks, Destroy, FreeDb,
       MallocRegister, FreeMemory
  <2>4. CASE UNCHANGED vars
    BY <2>4 DEF EveryPointerGoesHome, vars
  <2> QED BY <2>2, <2>3, <2>4 DEF Next
<1> QED BY <1>1, <1>2, HandlesInductive, PTL DEF Spec

=============================================================================
