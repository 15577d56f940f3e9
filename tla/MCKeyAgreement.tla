------------------------------ MODULE MCKeyAgreement ------------------------------
(***************************************************************************)
(* KeyAgreement with two connections to one host, whose two ends share its *)
(* identity.  Ephemeral keys and identities alternate, so that every order *)
(* of the keys, and of the secrets made of them, comes up.                 *)
(***************************************************************************)
EXTENDS KeyAgreement, TLC

CONSTANTS a1, b1, a2, b2
MCPeerOf == a1 :> b1 @@ b1 :> a1 @@ a2 :> b2 @@ b2 :> a2
MCIdOf == a1 :> 2 @@ b1 :> 4 @@ a2 :> 6 @@ b2 :> 4
=================================================================================
