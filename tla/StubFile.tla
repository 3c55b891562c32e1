------------------------------- MODULE StubFile -------------------------------
(***************************************************************************)
(* How applications find the broker: serve and write_stub of               *)
(* server/src/broker.rs put the broker's address into the stub file, and   *)
(* open_v2 of shim/src/lib.rs reads it.  Brokers start, fail to start and  *)
(* end at any time; applications open the path whenever they like, also    *)
(* before there is a stub.                                                 *)
(*                                                                         *)
(* The file system is a directory from paths to inodes and the contents of *)
(* the inodes: a rename replaces what a path names, and whoever opened it  *)
(* before keeps the old inode.                                             *)
(***************************************************************************)
EXTENDS FiniteSets

CONSTANTS
    Broker,     \* broker processes the operator may have running
    App,        \* processes that load the shim
    Address,    \* where a broker may listen
    Inode,
    NoFile, NoAddress, NoBroker,
    StubOf,     \* StubOf[b]: --stub, a path [stem, ext]
    StorageOf,  \* StorageOf[b]: --storage
    Listen      \* Listen[b]: the addresses --listen may give b (port 0: several)

Stubs   == {StubOf[b] : b \in Broker}

ASSUME StubFileAssumptions ==
    /\ NoFile \notin Inode \cup Stubs /\ NoAddress \notin Address /\ NoBroker \notin Broker
    /\ "empty" \notin Address /\ "private" \notin Address
    /\ \A b \in Broker : Listen[b] \subseteq Address
    /\ StubOf \in [Broker -> [stem: STRING, ext: STRING]]
    /\ \A p \in Stubs : p.ext # "tmp"

VARIABLES
    dir,        \* dir[p]: the inode at path p
    data,       \* data[i]: the contents of inode i
    broker,     \* broker[b]: how far serve has come, its address, its new file
    app         \* app[x]: how far open_v2 has come

vars == <<dir, data, broker, app>>

-----------------------------------------------------------------------------
(* Mutation of TmpOf: written where the applications read. *)
TmpInPlace(p) == p

(* Mutation of TmpOf: one temporary file for all stubs. *)
TmpShared(p) == [stem |-> "stub", ext |-> "tmp"]

(* path.with_extension("tmp"). *)
TmpOf(p) == [p EXCEPT !.ext = "tmp"]

Paths == Stubs \cup {TmpOf(p) : p \in Stubs}

(* A stub is its address; "private" is a database of the application's own. *)
Contents == Address \cup {"empty", "private"}

Down == [at |-> "down", addr |-> NoAddress, file |-> NoFile]
Open(p, h) == [at |-> "opening", path |-> p, file |-> NoFile,
               addr |-> NoAddress, peer |-> NoBroker, steady |-> h]
Away == [at |-> "away", path |-> NoFile, file |-> NoFile,
         addr |-> NoAddress, peer |-> NoBroker, steady |-> FALSE]

(* TcpListener::bind has succeeded and the process runs.  A connection is
   taken from then on, and greeted when accept_loop starts. *)
HasSocket(b) == broker[b].at \in {"create", "write", "rename", "serving"}
Serving(b)   == broker[b].at = "serving"

Used(i) == \/ \E p \in Paths : dir[p] = i
           \/ \E b \in Broker : broker[b].file = i
           \/ \E x \in App : app[x].file = i
NewInode(i) == ~Used(i)

(* The next of the steps of serve. *)
Continue(b, p) == broker' = [broker EXCEPT ![b].at = p]

-----------------------------------------------------------------------------
(* serve: open_storage and back; then bind, which fails when the address is
   taken; then the stub. *)
OpenStorage(b) ==
    /\ broker[b].at = "down"
    /\ Continue(b, "bind")
    /\ UNCHANGED <<dir, data, app>>

(* Mutation of Bind: a failed bind is only logged. *)
BindAnyway(b) ==
    /\ broker[b].at = "bind"
    /\ \E a \in Listen[b] : broker' = [broker EXCEPT ![b].at = "create", ![b].addr = a]
    /\ UNCHANGED <<dir, data, app>>

(* Mutation of Bind: a failed start clears up the stub. *)
BindRemovesStub(b) ==
    /\ broker[b].at = "bind"
    /\ \E a \in Listen[b] :
          IF \E c \in Broker : HasSocket(c) /\ broker[c].addr = a
          THEN /\ broker' = [broker EXCEPT ![b] = Down]
               /\ dir' = [dir EXCEPT ![StubOf[b]] = NoFile]
          ELSE /\ broker' = [broker EXCEPT ![b].at = "create", ![b].addr = a]
               /\ UNCHANGED dir
    /\ UNCHANGED <<data, app>>

Bind(b) ==
    /\ broker[b].at = "bind"
    /\ \E a \in Listen[b] :
          IF \E c \in Broker : HasSocket(c) /\ broker[c].addr = a
          THEN broker' = [broker EXCEPT ![b] = Down]
          ELSE broker' = [broker EXCEPT ![b].at = "create", ![b].addr = a]
    /\ UNCHANGED <<dir, data, app>>

(* fs::write: open with O_CREAT and O_TRUNC, then the text. *)
CreateTmp(b) ==
    /\ broker[b].at = "create"
    /\ LET tmp == TmpOf(StubOf[b]) IN
       \E i \in Inode :
          /\ IF dir[tmp] # NoFile THEN i = dir[tmp] ELSE NewInode(i)
          /\ dir' = [dir EXCEPT ![tmp] = i]
          /\ data' = [data EXCEPT ![i] = "empty"]
          /\ broker' = [broker EXCEPT ![b].at = "write", ![b].file = i]
    /\ UNCHANGED app

WriteTmp(b) ==
    /\ broker[b].at = "write"
    /\ data' = [data EXCEPT ![broker[b].file] = broker[b].addr]
    /\ broker' = [broker EXCEPT ![b].at = "rename", ![b].file = NoFile]
    /\ UNCHANGED <<dir, app>>

(* Fails when another broker has renamed the file away. *)
RenameStub(b) ==
    LET tmp == TmpOf(StubOf[b]) IN
    /\ broker[b].at = "rename"
    /\ IF dir[tmp] = NoFile
       THEN broker' = [broker EXCEPT ![b] = Down] /\ UNCHANGED dir
       ELSE /\ dir' = [dir EXCEPT ![StubOf[b]] = dir[tmp], ![tmp] = NoFile]
            /\ Continue(b, "serving")
    /\ UNCHANGED <<data, app>>

(* Stopped or failed, at any point; its stub and a temporary file stay. *)
Ends(b) ==
    /\ broker[b].at # "down"
    /\ broker' = [broker EXCEPT ![b] = Down]
    /\ app' = [x \in App |->
                 IF app[x].peer = b THEN Away
                 ELSE IF app[x].path = StubOf[b] THEN [app[x] EXCEPT !.steady = FALSE]
                 ELSE app[x]]
    /\ UNCHANGED <<dir, data>>

-----------------------------------------------------------------------------
(* open_v2: stub_addr opens the path ... *)
OpenPath(x, p) ==
    /\ app[x].at = "away"
    /\ LET steady == \E b \in Broker : StubOf[b] = p /\ Serving(b) IN
       app' = [app EXCEPT ![x] =
                 IF dir[p] = NoFile THEN [Open(p, steady) EXCEPT !.at = "real"]
                 ELSE [Open(p, steady) EXCEPT !.file = dir[p]]]
    /\ UNCHANGED <<dir, data, broker>>

(* ... reads and parses it ... *)
ReadStub(x) ==
    /\ app[x].at = "opening"
    /\ LET found == data[app[x].file] IN
       app' = [app EXCEPT ![x] =
                 IF found \in Address
                 THEN [@ EXCEPT !.at = "connect", !.addr = found, !.file = NoFile]
                 ELSE [@ EXCEPT !.at = "real", !.file = NoFile]]
    /\ UNCHANGED <<dir, data, broker>>

(* ... and connects; nobody there is SQLITE_CANTOPEN. *)
Connect(x) ==
    /\ app[x].at = "connect"
    /\ \/ \E b \in Broker :
             /\ HasSocket(b) /\ broker[b].addr = app[x].addr
             /\ app' = [app EXCEPT ![x].at = "connected", ![x].peer = b]
       \/ /\ ~\E b \in Broker : HasSocket(b) /\ broker[b].addr = app[x].addr
          /\ app' = [app EXCEPT ![x].at = "refused"]
    /\ UNCHANGED <<dir, data, broker>>

(* Not a stub: the real sqlite3_open_v2, which creates the file if there is
   none and rejects a text as not a database. *)
RealOpen(x) ==
    /\ app[x].at = "real"
    /\ \E i \in Inode :
          IF dir[app[x].path] = NoFile
          THEN /\ NewInode(i)
               /\ dir' = [dir EXCEPT ![app[x].path] = i]
               /\ data' = [data EXCEPT ![i] = "empty"]
               /\ app' = [app EXCEPT ![x].at = "private", ![x].file = i]
          ELSE /\ i = dir[app[x].path]
               /\ app' = [app EXCEPT ![x].at = "private", ![x].file = i]
               /\ UNCHANGED <<dir, data>>
    /\ UNCHANGED broker

(* The first write makes a database of an empty file. *)
RealWrite(x) ==
    /\ app[x].at = "private"
    /\ IF data[app[x].file] \in Address
       THEN app' = [app EXCEPT ![x].at = "refused", ![x].file = NoFile] /\ UNCHANGED data
       ELSE data' = [data EXCEPT ![app[x].file] = "private"] /\ UNCHANGED app
    /\ UNCHANGED <<dir, broker>>

CloseApp(x) ==
    /\ app[x].at \in {"connected", "refused", "private"}
    /\ app' = [app EXCEPT ![x] = Away]
    /\ UNCHANGED <<dir, data, broker>>

-----------------------------------------------------------------------------
Init ==
    /\ dir = [p \in Paths |-> NoFile]
    /\ data = [i \in Inode |-> "empty"]
    /\ broker = [b \in Broker |-> Down]
    /\ app = [x \in App |-> Away]

Serve(b) ==
    \/ OpenStorage(b)
    \/ Bind(b)
    \/ CreateTmp(b)
    \/ WriteTmp(b)
    \/ RenameStub(b)
    \/ Ends(b)

Use(x) ==
    \/ \E p \in Stubs : OpenPath(x, p)
    \/ ReadStub(x)
    \/ Connect(x)
    \/ RealOpen(x)
    \/ RealWrite(x)
    \/ CloseApp(x)

Next == (\E b \in Broker : Serve(b)) \/ (\E x \in App : Use(x))

Spec == Init /\ [][Next]_vars

-----------------------------------------------------------------------------
BrokerState ==
    [at: {"down", "bind", "create", "write", "rename", "serving"},
     addr: Address \cup {NoAddress}, file: Inode \cup {NoFile}]

AppState ==
    [at: {"away", "opening", "connect", "connected", "refused", "real", "private"},
     path: Stubs \cup {NoFile}, file: Inode \cup {NoFile},
     addr: Address \cup {NoAddress}, peer: Broker \cup {NoBroker}, steady: BOOLEAN]

StubTypeOK ==
    /\ dir \in [Paths -> Inode \cup {NoFile}]
    /\ data \in [Inode -> Contents]
    /\ broker \in [Broker -> BrokerState]
    /\ app \in [App -> AppState]
    /\ \A b \in Broker :
          /\ HasSocket(b) => broker[b].addr \in Listen[b]
          /\ broker[b].file # NoFile <=> broker[b].at = "write"
    /\ \A x \in App :
          /\ app[x].file # NoFile <=> app[x].at \in {"opening", "private"}
          /\ app[x].peer # NoBroker <=> app[x].at = "connected"
          /\ app[x].path = NoFile <=> app[x].at = "away"

(* Whoever opens the path once a broker has been ready finds a whole stub,
   never none or part of one: brokers that start, fail to start or end half
   way replace it at once or not at all (write_stub). *)
Whole(p) == dir[p] # NoFile /\ data[dir[p]] \in Address

StubStaysWhole == [][\A p \in Stubs : Whole(p) => Whole(p)']_vars

(* While a broker that was ready when the open began stays up, the open
   reaches it: no SQLITE_CANTOPEN from an old address, no file of its own,
   whoever else starts or fails to start in the meantime. *)
ReadyBrokerIsReached ==
    \A x \in App : app[x].steady =>
        /\ app[x].at \notin {"refused", "real", "private"}
        /\ app[x].at = "connected" => StubOf[app[x].peer] = app[x].path

(* "sqlite3_open connects to the broker that owns the real file"
   (shim/src/lib.rs:2). *)
ReachTheOwner ==
    \A x \in App : app[x].at = "connected" =>
        \E b \in Broker : /\ StubOf[b] = app[x].path
                          /\ StorageOf[b] = StorageOf[app[x].peer]

(* "One broker owns the file" (README.md:3): two brokers that are ready never
   serve the same storage. *)
OneOwner ==
    \A b, c \in Broker :
        Serving(b) /\ Serving(c) /\ StorageOf[b] = StorageOf[c] => b = c

-----------------------------------------------------------------------------
(* The inductive invariant, for services that share a temporary file only if
   they are starts of one service on one fixed address. *)
SharersExclude ==
    \A b, c \in Broker :
        b # c /\ TmpOf(StubOf[b]) = TmpOf(StubOf[c]) =>
            \E a \in Address : Listen[b] = {a} /\ Listen[c] = {a}

PathsApart ==
    \A p, q \in Paths : p # q /\ dir[p] # NoFile => dir[p] # dir[q]

AddressesApart ==
    \A b, c \in Broker :
        HasSocket(b) /\ HasSocket(c) /\ b # c => broker[b].addr # broker[c].addr

(* What a broker has on disk at each point of write_stub. *)
Published(b) ==
    /\ broker[b].at = "write" => dir[TmpOf(StubOf[b])] = broker[b].file
    /\ broker[b].at = "rename" =>
          /\ dir[TmpOf(StubOf[b])] # NoFile
          /\ data[dir[TmpOf(StubOf[b])]] = broker[b].addr
    /\ Serving(b) => /\ dir[StubOf[b]] # NoFile
                     /\ data[dir[StubOf[b]]] = broker[b].addr

(* No application has a temporary file open. *)
Opened(x) ==
    \A p \in Stubs : app[x].file # NoFile => dir[TmpOf(p)] # app[x].file

(* How far an application is on its way to a broker that was ready. *)
OnItsWay(x, b) ==
    /\ Serving(b) /\ StubOf[b] = app[x].path
    /\ app[x].at = "opening" => app[x].file = dir[StubOf[b]]
    /\ app[x].at = "connect" => app[x].addr = broker[b].addr
    /\ app[x].at \in {"opening", "connect", "connected"}
    /\ app[x].at = "connected" => app[x].peer = b

StubIInv ==
    /\ StubTypeOK
    /\ PathsApart /\ AddressesApart
    /\ \A b \in Broker : Published(b)
    /\ \A x \in App : Opened(x)
    /\ \A x \in App : app[x].steady => \E b \in Broker : OnItsWay(x, b)

(* Services that may be found at one address are starts of one service. *)
OnePerAddress ==
    \A b, c \in Broker : Listen[b] \cap Listen[c] # {} => StorageOf[b] = StorageOf[c]

(* Where an address came from: what is read at a path was written there by a
   broker of that path, however long ago, and is carried to the connection. *)
WrittenFor(p, a) == \E b \in Broker : StubOf[b] = p /\ a \in Listen[b]

Traced ==
    /\ \A p \in Stubs : Whole(p) => WrittenFor(p, data[dir[p]])
    /\ \A x \in App :
          /\ app[x].at = "opening" /\ data[app[x].file] \in Address =>
                WrittenFor(app[x].path, data[app[x].file])
          /\ app[x].at \in {"connect", "connected"} =>
                WrittenFor(app[x].path, app[x].addr)
          /\ app[x].at = "connected" => app[x].addr \in Listen[app[x].peer]

=============================================================================
