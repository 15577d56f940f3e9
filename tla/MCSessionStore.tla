------------------------------ MODULE MCSessionStore ------------------------------
(***************************************************************************)
(* SessionStore on small instances.  Connections and tokens are            *)
(* interchangeable; hosts are too, since each names only itself.           *)
(***************************************************************************)
EXTENDS SessionStore, TLC

Symmetry == Permutations(Hosts) \cup Permutations(Conns) \cup Permutations(Tokens)
===================================================================================
