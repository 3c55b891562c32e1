\* Two starts of one service on its address and a neighbour with its own.
SPECIFICATION Spec
CONSTANTS
    b1 = b1
    b2 = b2
    b3 = b3
    a1 = a1
    a2 = a2
    Broker = {b1, b2, b3}
    App = {x1}
    Address = {a1, a2}
    Inode = {i1, i2, i3, i4, i5}
    NoFile = NoFile
    NoAddress = NoAddress
    NoBroker = NoBroker
    StubOf <- TwoStubs
    StorageOf <- TwoServices
    Listen <- OwnPorts
SYMMETRY Symmetry
INVARIANTS
    StubIInv
    ReadyBrokerIsReached
    ReachTheOwner
    OneOwner
PROPERTY StubStaysWhole
