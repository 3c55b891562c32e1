-------------------------------- MODULE MCShim --------------------------------
(* The instances of Shim that TLC checks. *)
EXTENDS Shim, TLC

(* Threads and statements are interchangeable: no definition singles one
   out.  Used for invariants and action properties only. *)
Symmetry == Permutations(Thread) \cup Permutations(Stmt)

=============================================================================
