-------------------------------- MODULE MCStorm --------------------------------
(* Two workers, each a few operations, so that both migrate at once, write at
   once, and open their database anew on the way. *)
EXTENDS Storm

MCFaults == {"worker_dies", "broker_dies", "hung"}
=============================================================================
