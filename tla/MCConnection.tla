------------------------------- MODULE MCConnection -------------------------------
(***************************************************************************)
(* Connection on small instances: one tunnel in every combination of its   *)
(* inputs (a push, which says nothing of what it is given, with a password *)
(* only), beside others that join, that the host approves and that hold    *)
(* what opens the session.                                                 *)
(***************************************************************************)
EXTENDS Connection

CONSTANT Odd \* the tunnel that comes with any inputs

Known == [password |-> "right", token |-> "none"]
Openers == {Known} \cup {[password |-> "none", token |-> m] : m \in Tokens}

MCInit == /\ Init
          /\ command[Odd] = "push" => given[Odd] = Known
          /\ \A t \in Tunnels \ {Odd} :
               /\ command[t] = "join" /\ given[t] \in Openers
               /\ pinned[t] = "unknown" /\ approves[t]
MCSpec == MCInit /\ [][Next]_vars /\ Fairness
===================================================================================
