-------------------------------- MODULE MCTrustRing --------------------------------
(***************************************************************************)
(* TrustRing on small instances.  Labels and fingerprints are alike to the *)
(* rest of the model: what a tunnel meets need not be drawn.               *)
(***************************************************************************)
EXTENDS TrustRing

CONSTANTS l1, f1

MCMeets == [t \in Tunnels |-> [label |-> l1, fp |-> f1]]
====================================================================================
