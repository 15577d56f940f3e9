------------------------------- MODULE ServerProofs -------------------------------
(***************************************************************************)
(* What Server keeps for any number of connections, however their          *)
(* handlers, their daemons and Shutdown interleave.  The invariant follows *)
(* Shutdown through its loop: what it has not killed it has yet to look    *)
(* at, or could not see.                                                   *)
(***************************************************************************)
EXTENDS Server, TLAPS

Tracking == {"starting", "serving", "killing"}

(* Until Shutdown clears it, subs is the handlers in serveGit.             *)
SubsInv == main \in Tracking => subs = {c \in Conns : pc[c] \in Serving}

(* A process that lives is one serveGit waits for, or is about to.         *)
DaemonInv == \A c \in Conns : daemon[c] = "alive" => pc[c] \in {"forked", "running"}

(* A process that lives on behind Shutdown's loop was published too late.  *)
KillInv == main \in {"killing", "stopped", "exited"} =>
  \A c \in Conns : daemon[c] = "alive" =>
    \/ pc[c] = "forked"
    \/ c \in late
    \/ main = "killing" /\ c \in todo

IInv == TypeOK /\ SubsInv /\ DaemonInv /\ KillInv

(* Nobody has connected and nothing runs.                                  *)
LEMMA InitIInv ==
  Init => IInv
<1> SUFFICES ASSUME Init PROVE IInv
  OBVIOUS
<1>1. TypeOK
  BY DEF Init, TypeOK, PcStates
<1>2. SubsInv /\ DaemonInv /\ KillInv
  BY DEF Init, SubsInv, DaemonInv, KillInv, Serving
<1> QED BY <1>1, <1>2 DEF IInv

(* A handler outside serveGit: no daemon, and subs is left alone.          *)
Outside == PcStates \ Serving
Elsewhere(c) == /\ pc[c] \in Outside
                /\ pc' \in [Conns -> PcStates]
                /\ pc'[c] \in Outside
                /\ \A d \in Conns \ {c} : pc'[d] = pc[d]
                /\ UNCHANGED <<main, subs, todo, daemon, late>>

(* The steps of a connection before serveGit, and those of the accept loop,*)
(* keep the invariant if they keep approveMu with who asks.                *)
LEMMA ElsewherePreserves ==
  ASSUME IInv, NEW c \in Conns, Elsewhere(c)
  PROVE  SubsInv' /\ DaemonInv' /\ KillInv'
BY DEF IInv, TypeOK, SubsInv, DaemonInv, KillInv, Elsewhere, Outside, Serving

(* Serve, and the goroutine that closes the listener.                      *)
LEMMA CloseListenerPreserves ==
  ASSUME IInv, CloseListener, UNCHANGED <<subs, daemon, late, asking>>
  PROVE  /\ pc' \in [Conns -> PcStates]
         /\ {c \in Conns : pc'[c] \in Serving} = {c \in Conns : pc[c] \in Serving}
         /\ DaemonInv'
         /\ \A c \in Conns : pc[c] \in {"asking", "forked"} => pc'[c] = pc[c]
BY DEF IInv, TypeOK, DaemonInv, CloseListener, Serving, PcStates

(* Serve touches no connection that is in serveGit.                        *)
LEMMA AcceptPreserves ==
  ASSUME IInv, AcceptStep
  PROVE  IInv'
<1> USE DEF hostVars, killVars, Move
<1>1. CASE AcceptFails \/ AcceptorStops
  BY <1>1 DEF AcceptFails, AcceptorStops, IInv, TypeOK, SubsInv, DaemonInv, KillInv
<1>2. CASE CloseOnCancel
  <2>1. CloseListener /\ UNCHANGED <<main, cancelled, acceptor, peerOpen, asking, subs, todo, late, daemon>>
    BY <1>2 DEF CloseOnCancel
  <2>2. TypeOK'
    BY <2>1, CloseListenerPreserves DEF IInv, TypeOK, CloseListener
  <2>3. SubsInv' /\ KillInv'
    BY <2>1, CloseListenerPreserves DEF IInv, SubsInv, KillInv
  <2> QED BY <2>1, <2>2, <2>3, CloseListenerPreserves DEF IInv
<1>3. ASSUME NEW c \in Conns, Accept(c) PROVE IInv'
  <2>1. Elsewhere(c) /\ TypeOK'
    BY <1>3 DEF Accept, Elsewhere, IInv, TypeOK, Outside, PcStates, Serving
  <2> QED BY <2>1, ElsewherePreserves DEF IInv
<1> QED BY <1>1, <1>2, <1>3 DEF AcceptStep

(* Peers, handshakes, approval and the gate.                               *)
LEMMA OutsidePreserves ==
  ASSUME IInv, NEW c \in Conns,
         \/ Connect(c) \/ Handshake(c) \/ Gate(c)
         \/ ReadRing(c) \/ VerifyUnattended(c) \/ Ask(c) \/ Answer(c)
  PROVE  IInv'
<1>1. Elsewhere(c)
  BY DEF Connect, Handshake, Gate, ReadRing, VerifyUnattended, Ask, Answer, Move, Elsewhere,
         IInv, TypeOK, Outside, PcStates, Serving, hostVars, killVars
<1>2. TypeOK'
  BY DEF Connect, Handshake, Gate, ReadRing, VerifyUnattended, Ask, Answer, Move, IInv, TypeOK,
         PcStates, hostVars, killVars
<1> QED BY <1>1, <1>2, ElsewherePreserves DEF IInv

(* serveGit: the states a daemon passes through.                           *)
LEMMA ServePreserves ==
  ASSUME IInv, NEW c \in Conns, ServeStep(c) \/ Waited(c) \/ DaemonExits(c) \/ HangUp(c)
  PROVE  IInv'
<1> USE DEF IInv, TypeOK, SubsInv, DaemonInv, KillInv, Move, Tracking, hostVars, killVars,
            Serving, PcStates
<1>1. CASE Track(c)
  BY <1>1 DEF Track, MuFree
<1>2. CASE Fork(c)
  BY <1>2 DEF Fork
<1>3. CASE StartFails(c)
  BY <1>3 DEF StartFails
<1>4. CASE Publish(c)
  BY <1>4 DEF Publish
<1>5. CASE Untrack(c)
  BY <1>5 DEF Untrack, MuFree
<1>6. CASE Waited(c)
  BY <1>6 DEF Waited
<1>7. CASE DaemonExits(c)
  BY <1>7 DEF DaemonExits
<1>8. CASE HangUp(c)
  BY <1>8 DEF HangUp
<1> QED BY <1>1, <1>2, <1>3, <1>4, <1>5, <1>6, <1>7, <1>8 DEF ServeStep

(* runSessionCreate: Shutdown's loop finds every published daemon in subs. *)
LEMMA MainPreserves ==
  ASSUME IInv, Started \/ Interrupt \/ MainStep
  PROVE  IInv'
<1>1. CASE Started \/ Interrupt \/ ShutdownEnds \/ Exit
  BY <1>1 DEF Started, Interrupt, ShutdownEnds, Exit, IInv, TypeOK, SubsInv, DaemonInv,
              KillInv, Tracking, killVars
<1>2. CASE ShutdownBegins
  <2>1. /\ CloseListener /\ todo' = subs /\ main' = "killing" /\ main \in {"starting", "serving"}
        /\ UNCHANGED <<cancelled, acceptor, peerOpen, asking, subs, late, daemon>>
    BY <1>2 DEF ShutdownBegins
  <2>2. TypeOK'
    BY <2>1, CloseListenerPreserves DEF IInv, TypeOK, CloseListener
  <2>3. SubsInv'
    BY <2>1, CloseListenerPreserves DEF IInv, SubsInv, Tracking
  <2>4. \A c \in Conns : daemon[c] = "alive" => c \in subs
    BY <2>1 DEF IInv, SubsInv, DaemonInv, Tracking, Serving
  <2>5. KillInv'
    BY <2>1, <2>4 DEF KillInv
  <2> QED BY <2>1, <2>2, <2>3, <2>5, CloseListenerPreserves DEF IInv
<1>3. ASSUME NEW c \in Conns, Kill(c) PROVE IInv'
  BY <1>3 DEF Kill, Published, IInv, TypeOK, SubsInv, DaemonInv, KillInv, Tracking, hostVars
<1> QED BY <1>1, <1>2, <1>3 DEF MainStep

(* The invariant, however the steps of the server interleave.              *)
LEMMA IInvHolds ==
  Spec => []IInv
<1>1. IInv /\ [Next]_vars => IInv'
  <2>1. ASSUME IInv, UNCHANGED vars PROVE IInv'
    BY <2>1 DEF vars, IInv, TypeOK, SubsInv, DaemonInv, KillInv
  <2> QED
    BY <2>1, AcceptPreserves, OutsidePreserves, ServePreserves, MainPreserves
    DEF Next, ReadStep, ApproveStep
<1> QED BY InitIInv, <1>1, PTL DEF Spec

----------------------------------------------------------------------------------
(* Until Shutdown clears it, subs holds every handler in serveGit and no   *)
(* other, whatever fails, for any number of connections (track, untrack).  *)
THEOREM SubsAreTheServing ==
  Spec => []SubsAreServing
<1>1. IInv => SubsAreServing
  BY DEF IInv, SubsInv, SubsAreServing, Tracking
<1> QED BY <1>1, IInvHolds, PTL

(* A git daemon outlives Shutdown only if its process was not published    *)
(* when Shutdown took s.mu: no established one is passed over.             *)
THEOREM EstablishedAreKilled ==
  Spec => []SurvivorsStartedLate
<1>1. IInv => SurvivorsStartedLate
  BY DEF IInv, KillInv, SurvivorsStartedLate
<1> QED BY <1>1, IInvHolds, PTL
==================================================================================
