------------------------------- MODULE MCBroker -------------------------------
(* The instances of Broker that TLC checks. *)
EXTENDS Broker, TLC

(* Sessions are interchangeable: no definition singles one out.  Used for
   invariants and action properties, never for liveness. *)
Symmetry == Permutations(Session)

=============================================================================
