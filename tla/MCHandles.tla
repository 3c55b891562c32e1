------------------------------- MODULE MCHandles -------------------------------
(* The instances of Handles that TLC checks. *)
EXTENDS Handles, TLC

(* Neither threads nor addresses are singled out by any definition. *)
Symmetry == Permutations(Thread) \cup Permutations(Addr)

=============================================================================
