--------------------------------- MODULE MCCommand ---------------------------------
(***************************************************************************)
(* Command on small instances: hosts whose names begin like each other's,  *)
(* in both cases, one of them without addresses; the other commands are    *)
(* interchangeable.  And what goes on below any command's browser, which   *)
(* is Discovery: this host and another, as peers only meet in the channel, *)
(* which holds one of them as well as two of the same.  They have no state *)
(* in common, so either runs while the other has yet to begin.             *)
(***************************************************************************)
EXTENDS Command, Discovery, TLC

MCInit == CommandInit /\ DiscoveryInit
MCNext == \/ CommandNext /\ DiscoveryInit /\ UNCHANGED discoveryVars
          \/ DiscoveryNext /\ NothingDone /\ invite = "none" /\ UNCHANGED commandVars
MCSpec == MCInit /\ [][MCNext]_<<commandVars, discoveryVars>>

(* "a", "ab", "Ab", "b": every pair of a name and one that begins with it. *)
MCWords == {<<97>>, <<97, 98>>, <<65, 98>>, <<98>>}
Texts(w) == IF w[1] # 97 THEN {[presence |-> "away", repo |-> <<98>>, mod |-> 1]}
            ELSE {[lock |-> "1", presence |-> "idle", repo |-> <<98>>, branch |-> <<97, 98, 97>>, mod |-> 2],
                  [lock |-> "0", session |-> <<97>>, head |-> <<98, 97, 98>>]}
MCEntries == UNION {{[instance |-> w, host |-> IF w = <<98>> THEN "" ELSE "h", port |-> 9418 + Len(w), text |-> t,
                      v4 |-> IF Len(w) = 1 THEN <<>> ELSE <<<<"v4", w>>>>,
                      v6 |-> IF w = <<98>> THEN <<>> ELSE <<<<"v6", w>>>>] : t \in Texts(w)} :
                    w \in MCWords}

Symmetry == Permutations(Procs \ {Cmd})
===================================================================================
