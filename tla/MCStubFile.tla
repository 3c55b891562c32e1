------------------------------ MODULE MCStubFile ------------------------------
(* The instance of StubFile that TLC checks: a service that is started twice,
   on its fixed address, beside another service of the same host. *)
EXTENDS StubFile, TLC

CONSTANTS b1, b2, b3, a1, a2

Stub(stem) == [stem |-> stem, ext |-> "sqlite"]

TwoStubs    == b1 :> Stub("db") @@ b2 :> Stub("db") @@ b3 :> Stub("other")
TwoServices == b1 :> "app" @@ b2 :> "app" @@ b3 :> "other"
OwnPorts    == b1 :> {a1} @@ b2 :> {a1} @@ b3 :> {a2}

(* Inodes are interchangeable, and so are applications and the two starts of
   one service. *)
Symmetry == Permutations(Inode) \cup Permutations(App) \cup Permutations({b1, b2})

=============================================================================
