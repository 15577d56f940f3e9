------------------------------ MODULE MCEncryptedConn ------------------------------
(***************************************************************************)
(* EncryptedConn on small instances: writers of three bytes each, in frames*)
(* of two, so that every Write is a whole frame and a rest.                *)
(***************************************************************************)
EXTENDS EncryptedConn
====================================================================================
