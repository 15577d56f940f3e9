------------------------------ MODULE MCWorkingTree ------------------------------
(***************************************************************************)
(* WorkingTree with a directory in a directory, both made, removed and made*)
(* again while events are queued, and a pusher with none to two files.     *)
(***************************************************************************)
EXTENDS WorkingTree, TLC

CONSTANTS d1, d2, root, f1, f2
MCParent == d1 :> root @@ d2 :> d1
=================================================================================
