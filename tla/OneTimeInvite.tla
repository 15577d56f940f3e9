------------------------------ MODULE OneTimeInvite ------------------------------
(***************************************************************************)
(* What `git lan session invite` promises: a minted token lets at most one *)
(* connection in, only at the session whose secret signed it.  Nothing is  *)
(* said of files, locks, saves or crashes; SessionStore implements this.   *)
(***************************************************************************)
CONSTANTS Hosts, Conns, Tokens, None

VARIABLES issuer,     \* issuer[t]: the session that minted t, or None
          admissions  \* the connections let in: records of token, conn and host

absVars == <<issuer, admissions>>

Init == /\ issuer = [t \in Tokens |-> None]
        /\ admissions = {}

Issue(t, h) == /\ issuer[t] = None
               /\ issuer' = [issuer EXCEPT ![t] = h]
               /\ UNCHANGED admissions

(* A connection is let in once, by a token that has let nobody in before.  *)
Admit(t, c, h) == /\ issuer[t] = h
                  /\ \A a \in admissions : a.token # t /\ a.conn # c
                  /\ admissions' = admissions \cup {[token |-> t, conn |-> c, host |-> h]}
                  /\ UNCHANGED issuer

Next == \E t \in Tokens, h \in Hosts :
          Issue(t, h) \/ \E c \in Conns : Admit(t, c, h)

Spec == Init /\ [][Next]_absVars
==================================================================================
