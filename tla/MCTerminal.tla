-------------------------------- MODULE MCTerminal --------------------------------
(***************************************************************************)
(* Terminal twice: a session create and a config --detect-fonts, on        *)
(* terminals of one profile or of two, which race on the cache while no    *)
(* peer comes in; and the session create alone, with an operator who types *)
(* when he likes and two peers that come in at the same time.  Nobody types*)
(* lines in the first.                                                     *)
(***************************************************************************)
EXTENDS Terminal

CONSTANTS h, c, k1

Alone == \A x \in Peers : stage[x] = "absent"

RaceInit == width[h] < 2 /\ width[c] = 2 /\ pc[c] = "start" /\ Alone
PromptInit == /\ width[h] = 1 /\ width[c] = 1 /\ ~answers[c]
              /\ profile[c] = k1 /\ pc[c] = "ready"
              /\ \A x \in Peers : stage[x] = "new"
MCInit == /\ TerminalInit
          /\ profile[h] = k1 /\ pc[h] = "start"
          /\ RaceInit \/ PromptInit

MCNext == /\ TerminalNext
          /\ Alone => ~HasLine'

MCSpec == MCInit /\ [][MCNext]_terminalVars /\ TerminalFairness
===================================================================================
