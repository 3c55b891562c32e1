------------------------------- MODULE StubProofs -------------------------------
(***************************************************************************)
(* A stub stays whole and a broker that is ready is reached, for any       *)
(* number of brokers and applications.                                     *)
(***************************************************************************)
EXTENDS StubFile, TLAPS

LEMMA PathFacts ==
    /\ \A b \in Broker : StubOf[b] \in Stubs
    /\ \A p \in Stubs : p \in Paths /\ TmpOf(p) \in Paths /\ TmpOf(p) \notin Stubs
<1>1. \A b \in Broker : StubOf[b] \in Stubs
  BY DEF Stubs
<1>2. \A p \in Stubs : p \in [stem: STRING, ext: STRING] /\ p.ext # "tmp"
  BY StubFileAssumptions DEF Stubs
<1>3. \A p \in Stubs : TmpOf(p).ext = "tmp"
  BY <1>2 DEF TmpOf
<1> QED BY <1>1, <1>2, <1>3 DEF Paths

LEMMA ListenFacts == \A b \in Broker : Listen[b] \subseteq Address
BY StubFileAssumptions

LEMMA Nothing ==
    /\ NoFile \notin Inode /\ NoFile \notin Stubs
    /\ NoAddress \notin Address /\ NoBroker \notin Broker
BY StubFileAssumptions

LEMMA OtherContents == "empty" \notin Address /\ "private" \notin Address
BY StubFileAssumptions

LEMMA OpenStorageKeeps ==
    ASSUME StubIInv, SharersExclude, NEW b \in Broker, OpenStorage(b)
    PROVE  StubIInv'
<1>1. StubTypeOK'
  BY SMT DEF StubIInv, StubTypeOK, BrokerState, AppState, HasSocket, Serving, Continue, Down, Open, Away, Contents, OpenStorage
<1>2. PathsApart'
  BY SMT DEF StubIInv, StubTypeOK, BrokerState, Away, Contents, OpenStorage, PathsApart
<1>3. AddressesApart'
  BY SMT DEF StubIInv, StubTypeOK, BrokerState, AppState, HasSocket, Serving, Continue, Down, Open, Away, Contents, OpenStorage, AddressesApart
<1>4. \A c \in Broker : Published(c)'
  BY SMT DEF StubIInv, StubTypeOK, BrokerState, AppState, HasSocket, Serving, Continue, Down, Open, Away, Contents, OpenStorage, PathsApart, AddressesApart, Published
<1>5. \A y \in App : Opened(y)'
  BY SMT DEF StubIInv, StubTypeOK, BrokerState, Away, Contents, OpenStorage, PathsApart, Published, Opened
<1>6. \A y \in App : app'[y].steady => \E c \in Broker : OnItsWay(y, c)'
  BY SMT DEF StubIInv, StubTypeOK, BrokerState, AppState, HasSocket, Serving, Continue, Down, Open, Away, Contents, OpenStorage, PathsApart, AddressesApart, Published, SharersExclude, Opened, OnItsWay
<1> QED BY <1>1, <1>2, <1>3, <1>4, <1>5, <1>6 DEF StubIInv

LEMMA BindKeeps ==
    ASSUME StubIInv, SharersExclude, NEW b \in Broker, Bind(b)
    PROVE  StubIInv'
<1>1. StubTypeOK'
  <2>1. PICK a \in Listen[b] :
           \/ broker' = [broker EXCEPT ![b] = Down]
           \/ broker' = [broker EXCEPT ![b].at = "create", ![b].addr = a]
    BY DEF Bind
  <2>10. CASE broker' = [broker EXCEPT ![b] = Down]
    BY <2>10, SMT DEF Bind, StubIInv, StubTypeOK, BrokerState, AppState, HasSocket, Serving, Continue, Down
  <2>11. CASE broker' = [broker EXCEPT ![b].at = "create", ![b].addr = a]
    BY <2>11, SMT DEF Bind, StubIInv, StubTypeOK, BrokerState, AppState, HasSocket
  <2> QED BY <2>1, <2>10, <2>11
<1>2. PathsApart'
  BY SMT DEF StubIInv, StubTypeOK, BrokerState, Away, Contents, Bind, PathsApart
<1>3. AddressesApart'
  BY SMT DEF StubIInv, StubTypeOK, BrokerState, AppState, HasSocket, Serving, Continue, Down, Open, Away, Contents, Bind, AddressesApart
<1>4. \A c \in Broker : Published(c)'
  BY SMT DEF StubIInv, StubTypeOK, BrokerState, AppState, HasSocket, Serving, Continue, Down, Open, Away, Contents, Bind, PathsApart, AddressesApart, Published
<1>5. \A y \in App : Opened(y)'
  BY SMT DEF StubIInv, StubTypeOK, BrokerState, Away, Contents, Bind, PathsApart, Published, Opened
<1>6. \A y \in App : app'[y].steady => \E c \in Broker : OnItsWay(y, c)'
  <2>1. PICK a \in Listen[b] :
           \/ broker' = [broker EXCEPT ![b] = Down]
           \/ broker' = [broker EXCEPT ![b].at = "create", ![b].addr = a]
    BY DEF Bind
  <2>10. CASE broker' = [broker EXCEPT ![b] = Down]
    BY SMT DEF Bind, StubIInv, StubTypeOK, Serving, Continue, Down, PathsApart, AddressesApart,
         Published, SharersExclude, Opened, OnItsWay
  <2>11. CASE broker' = [broker EXCEPT ![b].at = "create", ![b].addr = a]
    BY <2>11, <2>1, PathFacts, ListenFacts, Nothing, SMT DEF Bind, StubIInv, StubTypeOK, BrokerState, AppState, HasSocket, Serving, Continue, Down, Open, Away, Contents, PathsApart, AddressesApart,
         Published, SharersExclude, Opened, OnItsWay
  <2> QED BY <2>1, <2>10, <2>11
<1> QED BY <1>1, <1>2, <1>3, <1>4, <1>5, <1>6 DEF StubIInv

LEMMA CreateTmpKeeps ==
    ASSUME StubIInv, SharersExclude, NEW b \in Broker, CreateTmp(b)
    PROVE  StubIInv'
<1>1. StubTypeOK'
  BY Nothing, SMT DEF StubIInv, StubTypeOK, BrokerState, Away, Contents, CreateTmp
<1>2. PathsApart'
  BY Nothing, SMT DEF StubIInv, StubTypeOK, BrokerState, Away, Contents, CreateTmp
<1>3. AddressesApart'
  BY Nothing, SMT DEF StubIInv, StubTypeOK, BrokerState, Away, Contents, CreateTmp
<1>4. \A c \in Broker : Published(c)'
  BY Nothing, SMT DEF StubIInv, StubTypeOK, BrokerState, Away, Contents, CreateTmp
<1>5. \A y \in App : Opened(y)'
  BY Nothing, SMT DEF StubIInv, StubTypeOK, BrokerState, Away, Contents, CreateTmp
<1>6. \A y \in App : app'[y].steady => \E c \in Broker : OnItsWay(y, c)'
  BY PathFacts, ListenFacts, Nothing, SMT DEF StubIInv, StubTypeOK, BrokerState, AppState, HasSocket, Serving, Continue, Down, Open, Away, Contents, CreateTmp, Used, NewInode, PathsApart, AddressesApart, Published, SharersExclude, Opened, OnItsWay
<1> QED BY <1>1, <1>2, <1>3, <1>4, <1>5, <1>6 DEF StubIInv

LEMMA WriteTmpKeeps ==
    ASSUME StubIInv, SharersExclude, NEW b \in Broker, WriteTmp(b)
    PROVE  StubIInv'
<1>1. StubTypeOK'
  BY SMT DEF StubIInv, StubTypeOK, BrokerState, Away, Contents, WriteTmp
<1>2. PathsApart'
  BY SMT DEF StubIInv, StubTypeOK, BrokerState, Away, Contents, WriteTmp
<1>3. AddressesApart'
  BY SMT DEF StubIInv, StubTypeOK, BrokerState, Away, Contents, WriteTmp
<1>4. \A c \in Broker : Published(c)'
  BY SMT DEF StubIInv, StubTypeOK, BrokerState, Away, Contents, WriteTmp
<1>5. \A y \in App : Opened(y)'
  BY SMT DEF StubIInv, StubTypeOK, BrokerState, Away, Contents, WriteTmp
<1>6. \A y \in App : app'[y].steady => \E c \in Broker : OnItsWay(y, c)'
  BY SMT DEF StubIInv, StubTypeOK, BrokerState, Away, Contents, WriteTmp
<1> QED BY <1>1, <1>2, <1>3, <1>4, <1>5, <1>6 DEF StubIInv

LEMMA RenameStubKeeps ==
    ASSUME StubIInv, SharersExclude, NEW b \in Broker, RenameStub(b)
    PROVE  StubIInv'
<1>1. StubTypeOK'
  <2>1. broker[b] \in BrokerState /\ b \in DOMAIN broker
    BY DEF StubIInv, StubTypeOK
  <2>2. broker' = [broker EXCEPT ![b] = broker'[b]]
    BY <2>1 DEF RenameStub, Continue, StubIInv, StubTypeOK
  <2>3. /\ broker'[b] \in BrokerState
        /\ broker'[b].at = "serving" => broker'[b].addr = broker[b].addr
        /\ broker'[b].at \in {"down", "serving"} /\ broker'[b].file = NoFile
    BY <2>1, SMT DEF RenameStub, Continue, BrokerState, Down, StubIInv, StubTypeOK
  <2>4. broker' \in [Broker -> BrokerState]
    BY <2>2, <2>3 DEF StubIInv, StubTypeOK
  <2>5. dir' \in [Paths -> Inode \cup {NoFile}]
    BY PathFacts, SMT DEF RenameStub, StubIInv, StubTypeOK
  <2> QED BY <2>2, <2>3, <2>4, <2>5, SMT DEF RenameStub, StubIInv, StubTypeOK, HasSocket
<1>2. PathsApart'
  BY PathFacts, SMT DEF StubIInv, StubTypeOK, BrokerState, AppState, HasSocket, Serving, Away, Contents, RenameStub, PathsApart
<1>3. AddressesApart'
  BY SMT DEF StubIInv, StubTypeOK, BrokerState, AppState, HasSocket, Serving, Continue, Down, Open, Away, Contents, RenameStub, AddressesApart
<1>4. \A c \in Broker : Published(c)'
  BY PathFacts, ListenFacts, Nothing, SMT DEF StubIInv, StubTypeOK, BrokerState, AppState, HasSocket, Serving, Continue, Down, Open, Away, Contents, RenameStub, PathsApart, AddressesApart, Published, SharersExclude, Opened
<1>5. \A y \in App : Opened(y)'
  BY PathFacts, SMT DEF StubIInv, StubTypeOK, BrokerState, Away, Contents, RenameStub, PathsApart, Published, Opened
<1>6. \A y \in App : app'[y].steady => \E c \in Broker : OnItsWay(y, c)'
  <2>1. dir[TmpOf(StubOf[b])] # NoFile
    BY DEF StubIInv, Published, RenameStub
  <2>2. /\ broker' = [broker EXCEPT ![b].at = "serving"]
        /\ dir' = [dir EXCEPT ![StubOf[b]] = dir[TmpOf(StubOf[b])],
                              ![TmpOf(StubOf[b])] = NoFile]
        /\ UNCHANGED app
    BY <2>1 DEF RenameStub, Continue
  <2>3. ASSUME NEW y \in App, NEW c \in Broker, OnItsWay(y, c) PROVE OnItsWay(y, c)'
    <3>1. c # b /\ Serving(c)
      BY <2>3 DEF OnItsWay, Serving, RenameStub
    <3>2. StubOf[c] # StubOf[b]
      BY <3>1, ListenFacts, SMT DEF SharersExclude, AddressesApart, HasSocket, Serving, RenameStub,
             StubIInv, StubTypeOK
    <3>3. broker'[c] = broker[c]
      BY <2>2, <3>1 DEF StubIInv, StubTypeOK
    <3>4. dir'[StubOf[c]] = dir[StubOf[c]]
      <4>1. StubOf[c] # TmpOf(StubOf[b])
        BY PathFacts
      <4> QED BY <2>2, <3>2, <4>1, PathFacts DEF StubIInv, StubTypeOK
    <3> QED BY <2>2, <2>3, <3>3, <3>4 DEF OnItsWay, Serving
  <2> QED BY <2>2, <2>3 DEF StubIInv
<1> QED BY <1>1, <1>2, <1>3, <1>4, <1>5, <1>6 DEF StubIInv

LEMMA EndsKeeps ==
    ASSUME StubIInv, SharersExclude, NEW b \in Broker, Ends(b)
    PROVE  StubIInv'
<1>1. StubTypeOK'
  <2>1. broker' = [broker EXCEPT ![b] = Down] /\ UNCHANGED <<dir, data>>
    BY DEF Ends
  <2>2. ASSUME NEW y \in App
        PROVE  /\ app'[y] \in AppState
               /\ app'[y].file # NoFile <=> app'[y].at \in {"opening", "private"}
               /\ app'[y].peer # NoBroker <=> app'[y].at = "connected"
               /\ app'[y].path = NoFile <=> app'[y].at = "away"
    <3>1. app[y] \in AppState
      BY DEF StubIInv, StubTypeOK
    <3>2. app'[y] = Away \/ app'[y] = [app[y] EXCEPT !.steady = FALSE] \/ app'[y] = app[y]
      BY DEF Ends
    <3>3. CASE app'[y] = Away
      BY <3>3, Nothing DEF AppState, Away
    <3>4. CASE app'[y] = [app[y] EXCEPT !.steady = FALSE]
      <4>1. app'[y] \in AppState
        BY <3>1, <3>4 DEF AppState
      <4>2. /\ app'[y].file = app[y].file /\ app'[y].at = app[y].at
            /\ app'[y].peer = app[y].peer /\ app'[y].path = app[y].path
        BY <3>1, <3>4 DEF AppState
      <4> QED BY <4>1, <4>2 DEF StubIInv, StubTypeOK
    <3>5. CASE app'[y] = app[y]
      BY <3>1, <3>5 DEF StubIInv, StubTypeOK
    <3> QED BY <3>2, <3>3, <3>4, <3>5
  <2>3. app' \in [App -> AppState]
    <3>1. app' = [y \in App |-> app'[y]]
      BY DEF Ends
    <3> QED BY <3>1, <2>2
  <2>4. Down \in BrokerState
    BY DEF Down, BrokerState
  <2>5. broker' \in [Broker -> BrokerState]
    BY <2>1, <2>4 DEF StubIInv, StubTypeOK
  <2> QED BY <2>1, <2>2, <2>3, <2>5, SMT DEF StubIInv, StubTypeOK, HasSocket, Down
<1>2. PathsApart'
  BY SMT DEF StubIInv, StubTypeOK, BrokerState, Away, Contents, Ends, PathsApart
<1>3. AddressesApart'
  BY SMT DEF StubIInv, StubTypeOK, BrokerState, AppState, HasSocket, Serving, Continue, Down, Open, Away, Contents, Ends, AddressesApart
<1>4. \A c \in Broker : Published(c)'
  BY SMT DEF StubIInv, StubTypeOK, BrokerState, AppState, HasSocket, Serving, Continue, Down, Open, Away, Contents, Ends, PathsApart, AddressesApart, Published
<1>5. \A y \in App : Opened(y)'
  BY SMT DEF StubIInv, StubTypeOK, BrokerState, Away, Contents, Ends, PathsApart, Published, Opened
<1>6. \A y \in App : app'[y].steady => \E c \in Broker : OnItsWay(y, c)'
  BY SMT DEF StubIInv, StubTypeOK, BrokerState, AppState, HasSocket, Serving, Away, Contents, Ends, SharersExclude, Opened, OnItsWay
<1> QED BY <1>1, <1>2, <1>3, <1>4, <1>5, <1>6 DEF StubIInv

LEMMA OpenPathKeeps ==
    ASSUME StubIInv, SharersExclude, NEW x \in App, NEW p \in Stubs, OpenPath(x, p)
    PROVE  StubIInv'
<1>1. StubTypeOK'
  <2>1. app[x] \in AppState /\ x \in DOMAIN app
    BY DEF StubIInv, StubTypeOK
  <2>2. app' = [app EXCEPT ![x] = app'[x]]
    BY <2>1 DEF OpenPath, StubIInv, StubTypeOK
  <2>3. /\ app'[x] \in AppState
        /\ app'[x].file # NoFile <=> app'[x].at \in {"opening", "private"}
        /\ app'[x].peer # NoBroker <=> app'[x].at = "connected"
        /\ app'[x].path = NoFile <=> app'[x].at = "away"
    <3> DEFINE steady == \E b \in Broker : StubOf[b] = p /\ Serving(b)
    <3>1. steady \in BOOLEAN
      OBVIOUS
    <3> HIDE DEF steady
    <3>2. CASE dir[p] = NoFile
      <4>1. app'[x] = [Open(p, steady) EXCEPT !.at = "real"]
        BY <2>1, <3>2 DEF OpenPath, StubIInv, StubTypeOK, steady
      <4> QED BY <4>1, <3>1, Nothing DEF Open, AppState
    <3>3. CASE dir[p] # NoFile
      <4>1. app'[x] = [Open(p, steady) EXCEPT !.file = dir[p]]
        BY <2>1, <3>3 DEF OpenPath, StubIInv, StubTypeOK, steady
      <4>2. dir[p] \in Inode
        BY <3>3, PathFacts DEF StubIInv, StubTypeOK
      <4> QED BY <4>1, <4>2, <3>1, Nothing DEF Open, AppState
    <3> QED BY <3>2, <3>3
  <2>4. app' \in [App -> AppState]
    BY <2>2, <2>3 DEF StubIInv, StubTypeOK
  <2> QED BY <2>2, <2>3, <2>4 DEF OpenPath, StubIInv, StubTypeOK, HasSocket
<1>2. PathsApart'
  BY SMT DEF StubIInv, StubTypeOK, BrokerState, Away, Contents, OpenPath, PathsApart
<1>3. AddressesApart'
  BY SMT DEF StubIInv, StubTypeOK, BrokerState, AppState, HasSocket, Serving, Away, Contents, OpenPath, AddressesApart
<1>4. \A c \in Broker : Published(c)'
  BY SMT DEF StubIInv, StubTypeOK, BrokerState, AppState, HasSocket, Serving, Away, Contents, OpenPath, PathsApart, AddressesApart, Published
<1>5. \A y \in App : Opened(y)'
  BY PathFacts, SMT DEF StubIInv, StubTypeOK, BrokerState, Continue, Down, Open, Away, Contents, OpenPath, PathsApart, Published, Opened
<1>6. \A y \in App : app'[y].steady => \E c \in Broker : OnItsWay(y, c)'
  BY SMT DEF StubIInv, StubTypeOK, BrokerState, AppState, HasSocket, Serving, Continue, Down, Open, Away, Contents, OpenPath, PathsApart, AddressesApart, Published, SharersExclude, Opened, OnItsWay
<1> QED BY <1>1, <1>2, <1>3, <1>4, <1>5, <1>6 DEF StubIInv

LEMMA ReadStubKeeps ==
    ASSUME StubIInv, SharersExclude, NEW x \in App, ReadStub(x)
    PROVE  StubIInv'
<1>1. StubTypeOK'
  <2>1. app[x] \in AppState /\ x \in DOMAIN app
    BY DEF StubIInv, StubTypeOK
  <2>2. app' = [app EXCEPT ![x] = app'[x]]
    BY <2>1 DEF ReadStub, StubIInv, StubTypeOK
  <2>3. /\ app'[x] \in AppState
        /\ app'[x].file # NoFile <=> app'[x].at \in {"opening", "private"}
        /\ app'[x].peer # NoBroker <=> app'[x].at = "connected"
        /\ app'[x].path = NoFile <=> app'[x].at = "away"
    <3>1. app[x].at = "opening" /\ app[x].peer = NoBroker /\ app[x].path # NoFile
      BY <2>1 DEF ReadStub, StubIInv, StubTypeOK
    <3>2. CASE data[app[x].file] \in Address
      <4>1. app'[x] = [app[x] EXCEPT !.at = "connect", !.addr = data[app[x].file],
                                     !.file = NoFile]
        BY <2>1, <3>2 DEF ReadStub, StubIInv, StubTypeOK
      <4> QED BY <2>1, <3>1, <3>2, <4>1 DEF AppState
    <3>3. CASE data[app[x].file] \notin Address
      <4>1. app'[x] = [app[x] EXCEPT !.at = "real", !.file = NoFile]
        BY <2>1, <3>3 DEF ReadStub, StubIInv, StubTypeOK
      <4> QED BY <2>1, <3>1, <4>1 DEF AppState
    <3> QED BY <3>2, <3>3
  <2>4. app' \in [App -> AppState]
    BY <2>2, <2>3 DEF StubIInv, StubTypeOK
  <2> QED BY <2>2, <2>3, <2>4 DEF ReadStub, StubIInv, StubTypeOK, HasSocket
<1>2. PathsApart'
  BY SMT DEF StubIInv, StubTypeOK, BrokerState, Away, Contents, ReadStub, PathsApart
<1>3. AddressesApart'
  BY SMT DEF StubIInv, StubTypeOK, BrokerState, AppState, HasSocket, Serving, Away, Contents, ReadStub, AddressesApart
<1>4. \A c \in Broker : Published(c)'
  BY SMT DEF StubIInv, StubTypeOK, BrokerState, AppState, HasSocket, Serving, Away, Contents, ReadStub, PathsApart, AddressesApart, Published
<1>5. \A y \in App : Opened(y)'
  BY SMT DEF StubIInv, StubTypeOK, BrokerState, Away, Contents, ReadStub, PathsApart, Published, Opened
<1>6. \A y \in App : app'[y].steady => \E c \in Broker : OnItsWay(y, c)'
  BY ListenFacts, SMT DEF StubIInv, StubTypeOK, BrokerState, AppState, HasSocket, Serving, Away, Contents, ReadStub, PathsApart, AddressesApart, Published, SharersExclude, Opened, OnItsWay
<1> QED BY <1>1, <1>2, <1>3, <1>4, <1>5, <1>6 DEF StubIInv

LEMMA ConnectKeeps ==
    ASSUME StubIInv, SharersExclude, NEW x \in App, Connect(x)
    PROVE  StubIInv'
<1>1. StubTypeOK'
  <2>1. app[x] \in AppState /\ x \in DOMAIN app
    BY DEF StubIInv, StubTypeOK
  <2>2. app' = [app EXCEPT ![x] = app'[x]]
    BY <2>1 DEF Connect, StubIInv, StubTypeOK
  <2>3. /\ app'[x] \in AppState
        /\ app'[x].file # NoFile <=> app'[x].at \in {"opening", "private"}
        /\ app'[x].peer # NoBroker <=> app'[x].at = "connected"
        /\ app'[x].path = NoFile <=> app'[x].at = "away"
    <3>1. /\ app[x].at = "connect" /\ app[x].peer = NoBroker
          /\ app[x].path # NoFile /\ app[x].file = NoFile
      BY <2>1, Nothing DEF Connect, StubIInv, StubTypeOK
    <3>2. ASSUME NEW c \in Broker, app' = [app EXCEPT ![x].at = "connected", ![x].peer = c]
          PROVE  <2>3!:
      <4>1. app'[x] = [app[x] EXCEPT !.at = "connected", !.peer = c]
        BY <2>1, <3>2 DEF StubIInv, StubTypeOK
      <4> QED BY <2>1, <3>1, <4>1, Nothing DEF AppState
    <3>3. ASSUME app' = [app EXCEPT ![x].at = "refused"]
          PROVE  <2>3!:
      <4>1. app'[x] = [app[x] EXCEPT !.at = "refused"]
        BY <2>1, <3>3 DEF StubIInv, StubTypeOK
      <4> QED BY <2>1, <3>1, <4>1 DEF AppState
    <3> QED BY <3>2, <3>3 DEF Connect
  <2>4. app' \in [App -> AppState]
    BY <2>2, <2>3 DEF StubIInv, StubTypeOK
  <2> QED BY <2>2, <2>3, <2>4 DEF Connect, StubIInv, StubTypeOK, HasSocket
<1>2. PathsApart'
  BY SMT DEF StubIInv, StubTypeOK, BrokerState, Away, Contents, Connect, PathsApart
<1>3. AddressesApart'
  BY SMT DEF StubIInv, StubTypeOK, BrokerState, AppState, HasSocket, Serving, Away, Contents, Connect, AddressesApart
<1>4. \A c \in Broker : Published(c)'
  BY SMT DEF StubIInv, StubTypeOK, BrokerState, AppState, HasSocket, Serving, Away, Contents, Connect, PathsApart, AddressesApart, Published
<1>5. \A y \in App : Opened(y)'
  <2>1. \A y \in App : app'[y].file = app[y].file
    BY DEF Connect, StubIInv, StubTypeOK, AppState
  <2> QED BY <2>1 DEF Connect, StubIInv, Opened
<1>6. \A y \in App : app'[y].steady => \E c \in Broker : OnItsWay(y, c)'
  BY Nothing, SMT DEF StubIInv, StubTypeOK, BrokerState, AppState, HasSocket, Serving, Away, Contents, Connect, SharersExclude, Opened, OnItsWay
<1> QED BY <1>1, <1>2, <1>3, <1>4, <1>5, <1>6 DEF StubIInv

LEMMA RealOpenKeeps ==
    ASSUME StubIInv, SharersExclude, NEW x \in App, RealOpen(x)
    PROVE  StubIInv'
<1>1. StubTypeOK'
  BY Nothing, SMT DEF StubIInv, StubTypeOK, BrokerState, AppState, HasSocket, Serving, Away, Contents, RealOpen
<1>2. PathsApart'
  BY SMT DEF StubIInv, StubTypeOK, BrokerState, Away, Contents, RealOpen, Used, NewInode, PathsApart
<1>3. AddressesApart'
  BY Nothing, SMT DEF StubIInv, StubTypeOK, BrokerState, AppState, HasSocket, Serving, Away, Contents, RealOpen
<1>4. \A c \in Broker : Published(c)'
  BY Nothing, SMT DEF StubIInv, StubTypeOK, BrokerState, AppState, HasSocket, Serving, Away, Contents, RealOpen
<1>5. \A y \in App : Opened(y)'
  BY Nothing, SMT DEF StubIInv, StubTypeOK, BrokerState, AppState, HasSocket, Serving, Away, Contents, RealOpen
<1>6. \A y \in App : app'[y].steady => \E c \in Broker : OnItsWay(y, c)'
  BY Nothing, SMT DEF StubIInv, StubTypeOK, BrokerState, AppState, HasSocket, Serving, Away, Contents, RealOpen
<1> QED BY <1>1, <1>2, <1>3, <1>4, <1>5, <1>6 DEF StubIInv

LEMMA RealWriteKeeps ==
    ASSUME StubIInv, SharersExclude, NEW x \in App, RealWrite(x)
    PROVE  StubIInv'
<1>1. StubTypeOK'
  BY SMT DEF StubIInv, StubTypeOK, BrokerState, AppState, HasSocket, Serving, Away, Contents, RealWrite
<1>2. PathsApart'
  BY SMT DEF StubIInv, StubTypeOK, BrokerState, Away, Contents, RealWrite, PathsApart
<1>3. AddressesApart'
  BY SMT DEF StubIInv, StubTypeOK, BrokerState, AppState, HasSocket, Serving, Away, Contents, RealWrite, AddressesApart
<1>4. \A c \in Broker : Published(c)'
  BY PathFacts, ListenFacts, SMT DEF StubIInv, StubTypeOK, BrokerState, AppState, HasSocket, Serving, Away, Contents, RealWrite, PathsApart, AddressesApart, Published, SharersExclude, Opened
<1>5. \A y \in App : Opened(y)'
  BY SMT DEF StubIInv, StubTypeOK, BrokerState, AppState, HasSocket, Serving, Away, Contents, RealWrite, PathsApart, Published, Opened
<1>6. \A y \in App : app'[y].steady => \E c \in Broker : OnItsWay(y, c)'
  BY SMT DEF StubIInv, StubTypeOK, BrokerState, AppState, HasSocket, Serving, Away, Contents, RealWrite, SharersExclude, Opened, OnItsWay
<1> QED BY <1>1, <1>2, <1>3, <1>4, <1>5, <1>6 DEF StubIInv

LEMMA CloseAppKeeps ==
    ASSUME StubIInv, SharersExclude, NEW x \in App, CloseApp(x)
    PROVE  StubIInv'
<1>1. StubTypeOK'
  BY SMT DEF StubIInv, StubTypeOK, BrokerState, AppState, HasSocket, Serving, Away, Contents, CloseApp
<1>2. PathsApart'
  BY SMT DEF StubIInv, StubTypeOK, BrokerState, Away, Contents, CloseApp, PathsApart
<1>3. AddressesApart'
  BY SMT DEF StubIInv, StubTypeOK, BrokerState, AppState, HasSocket, Serving, Away, Contents, CloseApp, AddressesApart
<1>4. \A c \in Broker : Published(c)'
  BY SMT DEF StubIInv, StubTypeOK, BrokerState, AppState, HasSocket, Serving, Away, Contents, CloseApp, PathsApart, AddressesApart, Published
<1>5. \A y \in App : Opened(y)'
  BY SMT DEF StubIInv, StubTypeOK, BrokerState, Away, Contents, CloseApp, PathsApart, Published, Opened
<1>6. \A y \in App : app'[y].steady => \E c \in Broker : OnItsWay(y, c)'
  BY SMT DEF StubIInv, StubTypeOK, BrokerState, AppState, HasSocket, Serving, Away, Contents, CloseApp, SharersExclude, Opened, OnItsWay
<1> QED BY <1>1, <1>2, <1>3, <1>4, <1>5, <1>6 DEF StubIInv

LEMMA StutterKeeps ==
    ASSUME StubIInv, UNCHANGED vars
    PROVE  StubIInv'
BY DEF vars, StubIInv, StubTypeOK, PathsApart, AddressesApart, Published, Opened, OnItsWay,
       HasSocket, Serving

LEMMA StepKeeps ==
    ASSUME StubIInv, SharersExclude, Next
    PROVE  StubIInv'
<1>1. ASSUME NEW b \in Broker, Serve(b) PROVE StubIInv'
  BY <1>1, OpenStorageKeeps, BindKeeps, CreateTmpKeeps, WriteTmpKeeps, RenameStubKeeps,
     EndsKeeps, Zenon DEF Serve
<1>2. ASSUME NEW x \in App, Use(x) PROVE StubIInv'
  BY <1>2, OpenPathKeeps, ReadStubKeeps, ConnectKeeps, RealOpenKeeps, RealWriteKeeps,
     CloseAppKeeps, Zenon DEF Use
<1> QED BY <1>1, <1>2 DEF Next

LEMMA InitKeeps ==
    ASSUME Init
    PROVE  StubIInv
<1>1. Down \in BrokerState /\ Down.at = "down" /\ Down.file = NoFile
  BY DEF Down, BrokerState
<1>2. /\ Away \in AppState /\ Away.at = "away" /\ Away.file = NoFile
      /\ Away.path = NoFile /\ Away.peer = NoBroker /\ ~Away.steady
  BY DEF Away, AppState
<1>3. /\ \A b \in Broker : broker[b] = Down
      /\ \A x \in App : app[x] = Away
  BY DEF Init
<1>4. StubTypeOK
  BY <1>1, <1>2, <1>3 DEF Init, StubTypeOK, Contents, HasSocket
<1>5. PathsApart /\ AddressesApart
  BY <1>1, <1>3 DEF Init, PathsApart, AddressesApart, HasSocket
<1>6. \A b \in Broker : Published(b)
  BY <1>1, <1>3 DEF Published, Serving
<1>7. \A x \in App : Opened(x) /\ ~app[x].steady
  BY <1>2, <1>3 DEF Opened
<1> QED BY <1>4, <1>5, <1>6, <1>7 DEF StubIInv

(* Services that share a temporary file only if they are starts of one service
   on one fixed address keep their stubs, their addresses and the
   applications on their way to them apart: the invariant of serve, write_stub
   and open_v2 together. *)
THEOREM StubInductive ==
    ASSUME SharersExclude
    PROVE  Spec => []StubIInv
<1>1. Init => StubIInv
  BY InitKeeps
<1>2. StubIInv /\ [Next]_vars => StubIInv'
  BY StepKeeps, StutterKeeps
<1> QED BY <1>1, <1>2, PTL DEF Spec

(* write_stub never takes away or truncates a stub that applications can read:
   it writes beside it and renames. *)
THEOREM StubsStayWhole ==
    ASSUME SharersExclude
    PROVE  Spec => StubStaysWhole
<1>1. StubIInv /\ [Next]_vars => [\A p \in Stubs : Whole(p) => Whole(p)']_vars
  <2> SUFFICES ASSUME StubIInv, Next, NEW p \in Stubs, Whole(p)
               PROVE  Whole(p)'
    OBVIOUS
  <2> USE PathFacts, Nothing DEF StubIInv, StubTypeOK, Whole
  <2>1. ASSUME NEW b \in Broker, OpenStorage(b) \/ Bind(b) \/ Ends(b) PROVE Whole(p)'
    BY <2>1 DEF OpenStorage, Bind, Ends
  <2>2. ASSUME NEW b \in Broker, CreateTmp(b) PROVE Whole(p)'
    <3>1. TmpOf(StubOf[b]) # p
      BY PathFacts
    <3>2. PICK i \in Inode :
             /\ IF dir[TmpOf(StubOf[b])] # NoFile THEN i = dir[TmpOf(StubOf[b])] ELSE NewInode(i)
             /\ dir' = [dir EXCEPT ![TmpOf(StubOf[b])] = i]
             /\ data' = [data EXCEPT ![i] = "empty"]
      BY <2>2 DEF CreateTmp
    <3>3. i # dir[p]
      BY <3>1, <3>2, <2>2 DEF PathsApart, Used, NewInode
    <3>4. dir'[p] = dir[p]
      BY <3>1, <3>2
    <3>5. data'[dir[p]] = data[dir[p]]
      BY <3>2, <3>3
    <3> QED BY <3>4, <3>5
  <2>3. ASSUME NEW b \in Broker, WriteTmp(b) PROVE Whole(p)'
    <3>1. broker[b].addr \in Address
      BY <2>3, ListenFacts DEF WriteTmp, HasSocket
    <3> QED BY <2>3, <3>1, SMT DEF WriteTmp
  <2>4. ASSUME NEW b \in Broker, RenameStub(b) PROVE Whole(p)'
    <3>1. broker[b].addr \in Address
      BY <2>4, ListenFacts DEF RenameStub, HasSocket
    <3>2. /\ dir[TmpOf(StubOf[b])] # NoFile
          /\ data[dir[TmpOf(StubOf[b])]] = broker[b].addr
      BY <2>4 DEF RenameStub, Published
    <3>3. /\ dir' = [dir EXCEPT ![StubOf[b]] = dir[TmpOf(StubOf[b])],
                                ![TmpOf(StubOf[b])] = NoFile]
          /\ UNCHANGED data
      BY <2>4, <3>2 DEF RenameStub
    <3>4. TmpOf(StubOf[b]) # p /\ TmpOf(StubOf[b]) # StubOf[b]
      BY PathFacts
    <3>5. dir'[p] = IF p = StubOf[b] THEN dir[TmpOf(StubOf[b])] ELSE dir[p]
      BY <3>3, <3>4
    <3>6. CASE p = StubOf[b]
      BY <3>1, <3>2, <3>3, <3>5, <3>6
    <3>7. CASE p # StubOf[b]
      BY <3>3, <3>5, <3>7
    <3> QED BY <3>6, <3>7
  <2>5. ASSUME NEW x \in App, \E q \in Stubs : OpenPath(x, q) PROVE Whole(p)'
    BY <2>5 DEF OpenPath
  <2>6. ASSUME NEW x \in App, ReadStub(x) \/ Connect(x) \/ CloseApp(x) PROVE Whole(p)'
    BY <2>6 DEF ReadStub, Connect, CloseApp
  <2>7. ASSUME NEW x \in App, RealOpen(x) PROVE Whole(p)'
    <3>1. CASE dir[app[x].path] = NoFile
      <4>1. PICK i \in Inode : /\ NewInode(i)
                               /\ dir' = [dir EXCEPT ![app[x].path] = i]
                               /\ data' = [data EXCEPT ![i] = "empty"]
        BY <2>7, <3>1 DEF RealOpen
      <4>2. app[x].path # p /\ i # dir[p]
        BY <3>1, <4>1 DEF Used, NewInode
      <4>3. dir'[p] = dir[p] /\ data'[dir[p]] = data[dir[p]]
        BY <4>1, <4>2
      <4> QED BY <4>3
    <3>2. CASE dir[app[x].path] # NoFile
      BY <2>7, <3>2 DEF RealOpen
    <3> QED BY <3>1, <3>2
  <2>8. ASSUME NEW x \in App, RealWrite(x) PROVE Whole(p)'
    <3>1. CASE data[app[x].file] \in Address
      BY <2>8, <3>1 DEF RealWrite
    <3>2. CASE data[app[x].file] \notin Address
      <4>1. app[x].file # dir[p] /\ UNCHANGED dir
        BY <2>8, <3>2 DEF RealWrite
      <4>2. data' = [data EXCEPT ![app[x].file] = "private"]
        BY <2>8, <3>2 DEF RealWrite
      <4> QED BY <4>1, <4>2
    <3> QED BY <3>1, <3>2
  <2> QED BY <2>1, <2>2, <2>3, <2>4, <2>5, <2>6, <2>7, <2>8 DEF Next, Serve, Use
<1> QED BY <1>1, StubInductive, PTL DEF Spec, StubStaysWhole

(* open_v2 reaches a broker that was ready when it began and stays up; no
   address of an earlier start and no private database comes in between. *)
THEOREM TheReadyAreReached ==
    ASSUME SharersExclude
    PROVE  Spec => []ReadyBrokerIsReached
<1>1. StubIInv => ReadyBrokerIsReached
  BY DEF StubIInv, ReadyBrokerIsReached, OnItsWay
<1> QED BY <1>1, StubInductive, PTL

(* What keeps one storage file to one broker is the address: two starts of a
   service on one fixed address are never both ready. *)
THEOREM AddressKeepsOneOwner ==
    ASSUME SharersExclude,
           \A b, c \in Broker : b # c /\ StorageOf[b] = StorageOf[c] =>
               \E a \in Address : Listen[b] = {a} /\ Listen[c] = {a}
    PROVE  Spec => []OneOwner
<1>1. StubIInv => OneOwner
  <2> SUFFICES ASSUME StubIInv, NEW b \in Broker, NEW c \in Broker, b # c,
                      Serving(b), Serving(c), StorageOf[b] = StorageOf[c]
               PROVE  FALSE
    BY DEF OneOwner
  <2>1. PICK a \in Address : Listen[b] = {a} /\ Listen[c] = {a}
    OBVIOUS
  <2>2. HasSocket(b) /\ HasSocket(c)
    BY DEF Serving, HasSocket
  <2> QED BY <2>1, <2>2 DEF StubIInv, StubTypeOK, AddressesApart
<1> QED BY <1>1, StubInductive, PTL

-----------------------------------------------------------------------------
(* Where the address an application follows came from.  Contents of a stub or
   of a file in somebody's hands are only ever replaced by other contents that
   a broker of the path wrote, or that are no address. *)
LEMMA WholeTraced ==
    ASSUME StubIInv, SharersExclude, Traced, Next, NEW p \in Stubs, Whole(p)'
    PROVE  WrittenFor(p, data'[dir'[p]])
<1> USE PathFacts, Nothing, OtherContents DEF StubIInv, StubTypeOK
<1>1. CASE dir' = dir /\ data' = data
  BY <1>1 DEF Whole, Traced
<1>2. ASSUME NEW b \in Broker, CreateTmp(b) PROVE WrittenFor(p, data'[dir'[p]])
  <2>1. PICK i \in Inode :
           /\ IF dir[TmpOf(StubOf[b])] # NoFile THEN i = dir[TmpOf(StubOf[b])] ELSE NewInode(i)
           /\ dir' = [dir EXCEPT ![TmpOf(StubOf[b])] = i]
           /\ data' = [data EXCEPT ![i] = "empty"]
    BY <1>2 DEF CreateTmp
  <2>2. TmpOf(StubOf[b]) # p
    BY PathFacts
  <2>3. dir'[p] = dir[p]
    BY <2>1, <2>2
  <2>4. dir[p] # NoFile
    BY <2>3 DEF Whole
  <2>5. i # dir[p]
    BY <2>1, <2>2, <2>4 DEF PathsApart, Used, NewInode
  <2>6. data'[dir[p]] = data[dir[p]]
    BY <2>1, <2>5
  <2> QED BY <2>3, <2>4, <2>6 DEF Whole, Traced
<1>3. ASSUME NEW b \in Broker, WriteTmp(b) PROVE WrittenFor(p, data'[dir'[p]])
  <2>1. /\ dir' = dir /\ data' = [data EXCEPT ![broker[b].file] = broker[b].addr]
        /\ dir[TmpOf(StubOf[b])] = broker[b].file /\ broker[b].file # NoFile
    BY <1>3 DEF WriteTmp, Published
  <2>2. broker[b].file # dir[p]
    BY <2>1, PathFacts DEF PathsApart
  <2>3. data'[dir'[p]] = data[dir[p]] /\ dir[p] # NoFile
    BY <2>1, <2>2 DEF Whole
  <2> QED BY <2>3 DEF Whole, Traced
<1>4. ASSUME NEW b \in Broker, RenameStub(b) PROVE WrittenFor(p, data'[dir'[p]])
  <2>1. /\ dir[TmpOf(StubOf[b])] # NoFile
        /\ data[dir[TmpOf(StubOf[b])]] = broker[b].addr
    BY <1>4 DEF RenameStub, Published
  <2>2. /\ dir' = [dir EXCEPT ![StubOf[b]] = dir[TmpOf(StubOf[b])],
                              ![TmpOf(StubOf[b])] = NoFile]
        /\ UNCHANGED data
    BY <1>4, <2>1 DEF RenameStub
  <2>3. TmpOf(StubOf[b]) # p /\ TmpOf(StubOf[b]) # StubOf[b]
    BY PathFacts
  <2>4. dir'[p] = IF p = StubOf[b] THEN dir[TmpOf(StubOf[b])] ELSE dir[p]
    BY <2>2, <2>3
  <2>5. broker[b].addr \in Listen[b]
    BY <1>4 DEF RenameStub, HasSocket
  <2>6. CASE p = StubOf[b]
    BY <2>1, <2>2, <2>4, <2>5, <2>6 DEF WrittenFor
  <2>7. CASE p # StubOf[b]
    BY <2>2, <2>4, <2>7 DEF Whole, Traced
  <2> QED BY <2>6, <2>7
<1>5. ASSUME NEW x \in App, RealOpen(x) PROVE WrittenFor(p, data'[dir'[p]])
  <2>1. CASE dir[app[x].path] = NoFile
    <3>1. PICK i \in Inode : /\ NewInode(i)
                             /\ dir' = [dir EXCEPT ![app[x].path] = i]
                             /\ data' = [data EXCEPT ![i] = "empty"]
      BY <1>5, <2>1 DEF RealOpen
    <3>3. CASE p = app[x].path
      BY <3>1, <3>3 DEF Whole, Traced
    <3>4. CASE p # app[x].path
      <4>1. dir'[p] = dir[p] /\ i # dir[p]
        BY <3>1, <3>4 DEF Used, NewInode
      <4> QED BY <3>1, <4>1 DEF Whole, Traced
    <3> QED BY <3>3, <3>4
  <2>2. CASE dir[app[x].path] # NoFile
    BY <1>1, <1>5, <2>2 DEF RealOpen
  <2> QED BY <2>1, <2>2
<1>6. ASSUME NEW x \in App, RealWrite(x) PROVE WrittenFor(p, data'[dir'[p]])
  <2>1. CASE data[app[x].file] \in Address
    BY <1>1, <1>6, <2>1 DEF RealWrite
  <2>2. CASE data[app[x].file] \notin Address
    <3>1. dir' = dir /\ data' = [data EXCEPT ![app[x].file] = "private"]
      BY <1>6, <2>2 DEF RealWrite
    <3>2. data'[dir[p]] = data[dir[p]]
      BY <3>1 DEF Whole
    <3> QED BY <3>1, <3>2 DEF Whole, Traced
  <2> QED BY <2>1, <2>2
<1>7. ASSUME NEW b \in Broker, OpenStorage(b) \/ Bind(b) \/ Ends(b)
      PROVE  WrittenFor(p, data'[dir'[p]])
  BY <1>1, <1>7 DEF OpenStorage, Bind, Ends
<1>8. ASSUME NEW x \in App,
             (\E q \in Stubs : OpenPath(x, q)) \/ ReadStub(x) \/ Connect(x) \/ CloseApp(x)
      PROVE  WrittenFor(p, data'[dir'[p]])
  BY <1>1, <1>8 DEF OpenPath, ReadStub, Connect, CloseApp
<1> QED
  BY <1>2, <1>3, <1>4, <1>5, <1>6, <1>7, <1>8 DEF Next, Serve, Use

(* What an application holds in its hands. *)
LEMMA HandsTraced ==
    ASSUME StubIInv, SharersExclude, Traced, Next, NEW y \in App
    PROVE  /\ app'[y].at = "opening" /\ data'[app'[y].file] \in Address =>
                WrittenFor(app'[y].path, data'[app'[y].file])
           /\ app'[y].at \in {"connect", "connected"} =>
                WrittenFor(app'[y].path, app'[y].addr)
           /\ app'[y].at = "connected" => app'[y].addr \in Listen[app'[y].peer]
<1> DEFINE Goal == /\ app'[y].at = "opening" /\ data'[app'[y].file] \in Address =>
                         WrittenFor(app'[y].path, data'[app'[y].file])
                   /\ app'[y].at \in {"connect", "connected"} =>
                         WrittenFor(app'[y].path, app'[y].addr)
                   /\ app'[y].at = "connected" =>
                         app'[y].addr \in Listen[app'[y].peer]
<1> USE PathFacts, Nothing, OtherContents DEF StubIInv, StubTypeOK
<1>1. CASE app'[y] = app[y] /\ data' = data
  BY <1>1 DEF Traced
<1>2. ASSUME NEW b \in Broker, CreateTmp(b) PROVE Goal
  <2>1. PICK i \in Inode :
           /\ IF dir[TmpOf(StubOf[b])] # NoFile THEN i = dir[TmpOf(StubOf[b])] ELSE NewInode(i)
           /\ data' = [data EXCEPT ![i] = "empty"]
    BY <1>2 DEF CreateTmp
  <2>2. app' = app
    BY <1>2 DEF CreateTmp
  <2>3. app[y].at = "opening" => i # app[y].file
    BY <2>1 DEF Opened, Used, NewInode
  <2>4. app[y].at = "opening" => data'[app[y].file] = data[app[y].file]
    BY <2>1, <2>3
  <2> QED BY <2>2, <2>4 DEF Traced
<1>3. ASSUME NEW b \in Broker, WriteTmp(b) PROVE Goal
  <2>1. /\ app' = app /\ data' = [data EXCEPT ![broker[b].file] = broker[b].addr]
        /\ dir[TmpOf(StubOf[b])] = broker[b].file /\ broker[b].file # NoFile
    BY <1>3 DEF WriteTmp, Published
  <2>2. broker[b].file # app[y].file
    BY <2>1 DEF Opened
  <2>3. data'[app[y].file] = data[app[y].file]
    BY <2>1, <2>2
  <2> QED BY <2>1, <2>3 DEF Traced
<1>4. ASSUME NEW b \in Broker, OpenStorage(b) \/ Bind(b) \/ RenameStub(b) PROVE Goal
  BY <1>1, <1>4 DEF OpenStorage, Bind, RenameStub
<1>5. ASSUME NEW b \in Broker, Ends(b) PROVE Goal
  <2>1. data' = data
    BY <1>5 DEF Ends
  <2>2. app'[y] \in {Away, [app[y] EXCEPT !.steady = FALSE], app[y]}
    BY <1>5 DEF Ends
  <2>3. CASE app'[y] = Away
    BY <2>3 DEF Away
  <2>4. CASE app'[y] = [app[y] EXCEPT !.steady = FALSE]
    <3>1. /\ app'[y].at = app[y].at /\ app'[y].path = app[y].path
          /\ app'[y].file = app[y].file /\ app'[y].addr = app[y].addr
          /\ app'[y].peer = app[y].peer
      BY <2>4 DEF AppState
    <3> QED BY <2>1, <3>1 DEF Traced
  <2> QED BY <1>1, <2>1, <2>2, <2>3, <2>4
<1>6. ASSUME NEW x \in App, NEW p \in Stubs, OpenPath(x, p) PROVE Goal
  <2>1. CASE x # y
    BY <1>1, <1>6, <2>1 DEF OpenPath
  <2>2. CASE x = y /\ dir[p] = NoFile
    BY <1>6, <2>2 DEF OpenPath, Open
  <2>3. CASE x = y /\ dir[p] # NoFile
    <3>1. app'[y].at = "opening" /\ app'[y].path = p /\ app'[y].file = dir[p]
      BY <1>6, <2>3 DEF OpenPath, Open
    <3> QED BY <1>6, <2>3, <3>1 DEF OpenPath, Whole, Traced
  <2> QED BY <2>1, <2>2, <2>3
<1>7. ASSUME NEW x \in App, ReadStub(x) PROVE Goal
  <2>1. CASE x # y
    BY <1>1, <1>7, <2>1 DEF ReadStub
  <2>2. CASE x = y
    <3>1. /\ data[app[y].file] \in Address =>
               app'[y] = [app[y] EXCEPT !.at = "connect", !.addr = data[app[y].file],
                                        !.file = NoFile]
          /\ data[app[y].file] \notin Address =>
               app'[y] = [app[y] EXCEPT !.at = "real", !.file = NoFile]
          /\ app[y].at = "opening" /\ data' = data /\ app[y] \in AppState
      BY <1>7, <2>2 DEF ReadStub
    <3>2. CASE data[app[y].file] \in Address
      BY <3>1, <3>2 DEF AppState, Traced
    <3>3. CASE data[app[y].file] \notin Address
      BY <3>1, <3>3 DEF AppState
    <3> QED BY <3>2, <3>3
  <2> QED BY <2>1, <2>2
<1>8. ASSUME NEW x \in App, Connect(x) PROVE Goal
  <2>1. CASE x # y
    BY <1>1, <1>8, <2>1 DEF Connect
  <2>2. CASE x = y
    <3>1. ASSUME NEW b \in Broker, HasSocket(b), broker[b].addr = app[y].addr,
                 app' = [app EXCEPT ![y].at = "connected", ![y].peer = b]
          PROVE  Goal
      <4>1. app'[y] = [app[y] EXCEPT !.at = "connected", !.peer = b] /\ app[y] \in AppState
        BY <3>1
      <4>2. /\ app'[y].at = "connected" /\ app'[y].peer = b
            /\ app'[y].path = app[y].path /\ app'[y].addr = app[y].addr
        BY <4>1 DEF AppState
      <4>3. app[y].at = "connect"
        BY <1>8, <2>2 DEF Connect
      <4>4. WrittenFor(app'[y].path, app'[y].addr)
        BY <4>2, <4>3 DEF Traced
      <4>5. app'[y].addr \in Listen[app'[y].peer]
        BY <3>1, <4>2
      <4> QED BY <4>2, <4>4, <4>5
    <3>2. CASE app' = [app EXCEPT ![x].at = "refused"]
      BY <2>2, <3>2 DEF AppState
    <3>3. \/ \E b \in Broker :
                /\ HasSocket(b) /\ broker[b].addr = app[y].addr
                /\ app' = [app EXCEPT ![y].at = "connected", ![y].peer = b]
          \/ app' = [app EXCEPT ![y].at = "refused"]
      BY <1>8, <2>2 DEF Connect
    <3> HIDE DEF Goal
    <3> QED BY <2>2, <3>1, <3>2, <3>3
  <2> QED BY <2>1, <2>2
<1>9. ASSUME NEW x \in App, RealOpen(x) PROVE Goal
  <2>1. CASE x = y
    <3>1. \E i \in Inode : app' = [app EXCEPT ![y].at = "private", ![y].file = i]
      BY <1>9, <2>1 DEF RealOpen
    <3> QED BY <3>1 DEF AppState
  <2>2. CASE x # y /\ dir[app[x].path] = NoFile
    <3>1. PICK i \in Inode : NewInode(i) /\ data' = [data EXCEPT ![i] = "empty"]
      BY <1>9, <2>2 DEF RealOpen
    <3>2. app'[y] = app[y] /\ i # app[y].file
      BY <1>9, <2>2, <3>1 DEF RealOpen, Used, NewInode
    <3>3. data'[app[y].file] = data[app[y].file]
      BY <3>1, <3>2
    <3> QED BY <3>2, <3>3 DEF Traced
  <2>3. CASE x # y /\ dir[app[x].path] # NoFile
    BY <1>1, <1>9, <2>3 DEF RealOpen
  <2> QED BY <2>1, <2>2, <2>3
<1>10. ASSUME NEW x \in App, RealWrite(x) PROVE Goal
  <2>1. CASE data[app[x].file] \in Address
    <3>1. app' = [app EXCEPT ![x].at = "refused", ![x].file = NoFile] /\ data' = data
      BY <1>10, <2>1 DEF RealWrite
    <3>2. CASE x = y
      BY <3>1, <3>2 DEF AppState
    <3> QED BY <1>1, <3>1, <3>2
  <2>2. CASE data[app[x].file] \notin Address
    <3>1. app' = app /\ data' = [data EXCEPT ![app[x].file] = "private"]
      BY <1>10, <2>2 DEF RealWrite
    <3>2. data'[app[y].file] \in Address => data'[app[y].file] = data[app[y].file]
      BY <3>1
    <3> QED BY <3>1, <3>2 DEF Traced
  <2> QED BY <2>1, <2>2
<1>11. ASSUME NEW x \in App, CloseApp(x) PROVE Goal
  <2>1. CASE x = y
    BY <1>11, <2>1 DEF CloseApp, Away
  <2>2. CASE x # y
    BY <1>1, <1>11, <2>2 DEF CloseApp
  <2> QED BY <2>1, <2>2
<1>12. Goal
  <2> HIDE DEF Goal
  <2> QED
    BY <1>2, <1>3, <1>4, <1>5, <1>6, <1>7, <1>8, <1>9, <1>10, <1>11
       DEF Next, Serve, Use
<1> QED
  BY <1>12

LEMMA TracedStep == SharersExclude /\ StubIInv /\ Traced /\ [Next]_vars => Traced'
<1> SUFFICES ASSUME SharersExclude, StubIInv, Traced, [Next]_vars
             PROVE  Traced'
  OBVIOUS
<1>1. CASE Next
  BY <1>1, WholeTraced, HandsTraced DEF Traced
<1>2. CASE UNCHANGED vars
  BY <1>2 DEF vars, Traced, Whole
<1> QED
  BY <1>1, <1>2

(* sqlite3_open on a stub never ends up at another service's broker, however
   old the address it read: every address in a stub was written there by a
   broker of that stub, and services do not share addresses (stub_addr,
   write_stub). *)
THEOREM OpensReachTheOwner ==
    ASSUME SharersExclude, OnePerAddress
    PROVE  Spec => []ReachTheOwner
<1>1. Init => Traced
  BY DEF Init, Traced, Whole, Away, Stubs, Paths
<1>2. StubIInv /\ Traced => ReachTheOwner
  <2> SUFFICES ASSUME StubIInv, Traced, NEW x \in App, app[x].at = "connected"
               PROVE  \E b \in Broker : /\ StubOf[b] = app[x].path
                                        /\ StorageOf[b] = StorageOf[app[x].peer]
    BY DEF ReachTheOwner
  <2>1. PICK b \in Broker : StubOf[b] = app[x].path /\ app[x].addr \in Listen[b]
    BY DEF Traced, WrittenFor
  <2>2. app[x].peer \in Broker /\ app[x].addr \in Listen[app[x].peer]
    BY Nothing DEF StubIInv, StubTypeOK, AppState, Traced
  <2> QED BY <2>1, <2>2 DEF OnePerAddress
<1> QED
  BY <1>1, <1>2, TracedStep, StubInductive, PTL DEF Spec

=============================================================================
