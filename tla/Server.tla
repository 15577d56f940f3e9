--------------------------------- MODULE Server ---------------------------------
(***************************************************************************)
(* transport.Server under `session create`: the accept loop, one handler   *)
(* goroutine per connection, the git daemon each admitted handler runs,    *)
(* the operator's approval prompt, and the shutdown of it all.  What a     *)
(* handshake and a gate exchange is modelled elsewhere: here each ends     *)
(* well or badly, and blocks until its peer sends or hangs up.             *)
(***************************************************************************)
EXTENDS FiniteSets

CONSTANTS Conns,   \* connections peers open
          None,
          Faults   \* what may go wrong: "accept", an Accept error while the
                   \* listener is open (out of descriptors); "mdns", discovery
                   \* failing to start; "start", exec failing to start git

ASSUME NoneAssumption == None \notin Conns
ASSUME FaultsAssumption == Faults \subseteq {"accept", "mdns", "start"}

VARIABLES main,      \* where runSessionCreate stands
          cancelled, \* the signal context is done
          listener,  \* s.ln
          acceptor,  \* the Serve goroutine
          pc,        \* pc[c]: where connection c stands
          peerOpen,  \* peerOpen[c]: the peer has not hung up
          asking,    \* the connection whose prompt holds approveMu, or None
          subs,      \* s.subs: the daemons Shutdown would kill
          todo,      \* those its loop, holding s.mu, has yet to look at
          daemon,    \* daemon[c]: the git daemon process of c
          late       \* connections whose daemon was started, as far as
                     \* Shutdown can tell, after its loop began

hostVars == <<main, cancelled, listener>>
killVars == <<subs, todo, late>>
vars == <<main, cancelled, listener, acceptor, pc, peerOpen, asking, subs, todo, daemon, late>>

(* Connection states.  "queued" waits in the kernel's backlog; "tracked"   *)
(* is in subs; in "forked" the process runs but exec.Cmd has not set       *)
(* cmd.Process; "running" waits for it.                                    *)
Serving == {"tracked", "forked", "running", "untracking"}
PcStates == {"none", "queued", "handshake", "verify", "waiting", "asking", "gate",
             "admitted", "done"} \cup Serving

TypeOK == /\ main \in {"starting", "serving", "killing", "stopped", "exited"}
          /\ cancelled \in BOOLEAN
          /\ listener \in {"open", "closed"}
          /\ acceptor \in {"accepting", "failed", "stopped"}
          /\ pc \in [Conns -> PcStates]
          /\ peerOpen \in [Conns -> BOOLEAN]
          /\ asking \in {None} \cup {c \in Conns : pc[c] = "asking"}
          /\ subs \subseteq Conns
          /\ todo \subseteq Conns
          /\ daemon \in [Conns -> {"none", "alive", "dead"}]
          /\ late \subseteq Conns

Init == /\ main = "starting"
        /\ cancelled = FALSE
        /\ listener = "open"
        /\ acceptor = "accepting"
        /\ pc = [c \in Conns |-> "none"]
        /\ peerOpen = [c \in Conns |-> TRUE]
        /\ asking = None
        /\ subs = {}
        /\ todo = {}
        /\ daemon = [c \in Conns |-> "none"]
        /\ late = {}

Alive == main # "exited"
MuFree == main # "killing"    \* Shutdown holds s.mu through its whole loop
Move(c, from, to) == /\ Alive
                     /\ pc[c] = from
                     /\ pc' = [pc EXCEPT ![c] = to]

----------------------------------------------------------------------------------
(* Peers.  The kernel completes connections while the listener is open,    *)
(* accepted or not.                                                        *)
Connect(c) == /\ listener = "open"
              /\ Move(c, "none", "queued")
              /\ UNCHANGED <<hostVars, acceptor, peerOpen, asking, killVars, daemon>>

HangUp(c) == /\ pc[c] # "none"
             /\ peerOpen[c]
             /\ peerOpen' = [peerOpen EXCEPT ![c] = FALSE]
             /\ UNCHANGED <<hostVars, acceptor, pc, asking, killVars, daemon>>

----------------------------------------------------------------------------------
(* Faulty variants of operators below, which show that the properties can  *)
(* fail: connections handled one after the other; a prompt that does not   *)
(* release approveMu; a failed start that is not untracked; a subs cleared *)
(* before the loop over it; a Shutdown that waits for its handlers.        *)
AcceptInline(c) == /\ acceptor = "accepting"
                   /\ listener = "open"
                   /\ \A d \in Conns : pc[d] \in {"none", "queued", "done"}
                   /\ Move(c, "queued", "handshake")
                   /\ UNCHANGED <<hostVars, acceptor, peerOpen, asking, killVars, daemon>>

AnswerKeepsMu(c) == /\ \/ Move(c, "asking", "gate")
                       \/ Move(c, "asking", "done")
                    /\ UNCHANGED <<hostVars, acceptor, peerOpen, asking, killVars, daemon>>

StartFailsLeaks(c) == /\ "start" \in Faults
                      /\ Move(c, "tracked", "done")
                      /\ UNCHANGED <<hostVars, acceptor, peerOpen, asking, killVars, daemon>>

ShutdownForgets == /\ main = "serving" /\ cancelled
                   /\ main' = "killing"
                   /\ listener' = "closed"
                   /\ todo' = {}
                   /\ subs' = {}
                   /\ UNCHANGED <<cancelled, acceptor, pc, peerOpen, asking, late, daemon>>

ShutdownWaits == /\ main = "killing"
                 /\ todo = {}
                 /\ \A c \in Conns : pc[c] \in {"none", "queued", "done"}
                 /\ main' = "stopped"
                 /\ subs' = {}
                 /\ UNCHANGED <<cancelled, listener, acceptor, pc, peerOpen, asking, todo, late, daemon>>

----------------------------------------------------------------------------------
(* Serve.                                                                  *)
Accept(c) == /\ acceptor = "accepting"
             /\ listener = "open"
             /\ Move(c, "queued", "handshake")
             /\ UNCHANGED <<hostVars, acceptor, peerOpen, asking, killVars, daemon>>

(* Any error of Accept ends Serve; its caller drops what it returns.       *)
AcceptFails == /\ "accept" \in Faults
               /\ Alive
               /\ acceptor = "accepting"
               /\ listener = "open"
               /\ acceptor' = "failed"
               /\ UNCHANGED <<hostVars, pc, peerOpen, asking, killVars, daemon>>

AcceptorStops == /\ Alive
                 /\ acceptor = "accepting"
                 /\ listener = "closed"
                 /\ acceptor' = "stopped"
                 /\ UNCHANGED <<hostVars, pc, peerOpen, asking, killVars, daemon>>

(* Closing the listener resets what it had queued.                         *)
CloseListener == /\ listener' = "closed"
                 /\ pc' = [c \in Conns |-> IF pc[c] = "queued" THEN "done" ELSE pc[c]]

(* The goroutine of Serve that waits for the context.                      *)
CloseOnCancel == /\ Alive
                 /\ cancelled
                 /\ listener = "open"
                 /\ CloseListener
                 /\ UNCHANGED <<main, cancelled, acceptor, peerOpen, asking, killVars, daemon>>

----------------------------------------------------------------------------------
(* handle.  ServerAuth and ServerGate wait for the peer's bytes.           *)
Handshake(c) == /\ \/ Move(c, "handshake", "verify")
                   \/ Move(c, "handshake", "done")
                /\ UNCHANGED <<hostVars, acceptor, peerOpen, asking, killVars, daemon>>

(* approvePeer: a peer in the trust ring passes; the others wait for       *)
(* approveMu and are turned away without a terminal, or asked about, one   *)
(* prompt at a time, until the operator answers.                           *)
ReadRing(c) == /\ \/ Move(c, "verify", "gate")
                  \/ Move(c, "verify", "waiting")
               /\ UNCHANGED <<hostVars, acceptor, peerOpen, asking, killVars, daemon>>

VerifyUnattended(c) == /\ asking = None
                       /\ Move(c, "waiting", "done")
                       /\ UNCHANGED <<hostVars, acceptor, peerOpen, asking, killVars, daemon>>

Ask(c) == /\ asking = None
          /\ asking' = c
          /\ Move(c, "waiting", "asking")
          /\ UNCHANGED <<hostVars, acceptor, peerOpen, killVars, daemon>>

Answer(c) == /\ \/ Move(c, "asking", "gate")
                \/ Move(c, "asking", "done")
             /\ asking' = None
             /\ UNCHANGED <<hostVars, acceptor, peerOpen, killVars, daemon>>

Gate(c) == /\ \/ Move(c, "gate", "admitted")
              \/ Move(c, "gate", "done")
           /\ UNCHANGED <<hostVars, acceptor, peerOpen, asking, killVars, daemon>>

(* serveGit: track, then exec.Cmd.Run: fork, publish cmd.Process, wait for *)
(* the process and for the goroutine copying the connection to its stdin,  *)
(* which ends when the peer hangs up or sends to the dead process.         *)
Track(c) == /\ MuFree
            /\ Move(c, "admitted", "tracked")
            /\ subs' = subs \cup {c}
            /\ UNCHANGED <<hostVars, acceptor, peerOpen, asking, todo, late, daemon>>

Fork(c) == /\ Move(c, "tracked", "forked")
           /\ daemon' = [daemon EXCEPT ![c] = "alive"]
           /\ UNCHANGED <<hostVars, acceptor, peerOpen, asking, killVars>>

StartFails(c) == /\ "start" \in Faults
                 /\ Move(c, "tracked", "untracking")
                 /\ UNCHANGED <<hostVars, acceptor, peerOpen, asking, killVars, daemon>>

Publish(c) == /\ Move(c, "forked", "running")
              /\ late' = IF main \in {"starting", "serving"} THEN late ELSE late \cup {c}
              /\ UNCHANGED <<hostVars, acceptor, peerOpen, asking, subs, todo, daemon>>

DaemonExits(c) == /\ daemon[c] = "alive"
                  /\ daemon' = [daemon EXCEPT ![c] = "dead"]
                  /\ UNCHANGED <<hostVars, acceptor, pc, peerOpen, asking, killVars>>

Waited(c) == /\ daemon[c] = "dead"
             /\ Move(c, "running", "untracking")
             /\ UNCHANGED <<hostVars, acceptor, peerOpen, asking, killVars, daemon>>

Untrack(c) == /\ MuFree
              /\ Move(c, "untracking", "done")
              /\ subs' = subs \ {c}
              /\ UNCHANGED <<hostVars, acceptor, peerOpen, asking, todo, late, daemon>>

----------------------------------------------------------------------------------
(* runSessionCreate from Listen on, and Shutdown.                          *)
Started == /\ main = "starting"
           /\ main' = "serving"
           /\ UNCHANGED <<cancelled, listener, acceptor, pc, peerOpen, asking, killVars, daemon>>

Interrupt == /\ Alive
             /\ ~cancelled
             /\ cancelled' = TRUE
             /\ UNCHANGED <<main, listener, acceptor, pc, peerOpen, asking, killVars, daemon>>

(* The deferred Shutdown runs when the heartbeat sees the context done, or *)
(* when discovery could not start.  It closes the listener, takes s.mu and *)
(* looks at each daemon once; one whose cmd.Process is nil it passes over. *)
ShutdownBegins == /\ \/ main = "serving" /\ cancelled
                     \/ main = "starting" /\ "mdns" \in Faults
                  /\ main' = "killing"
                  /\ CloseListener
                  /\ todo' = subs
                  /\ UNCHANGED <<cancelled, acceptor, peerOpen, asking, subs, late, daemon>>

Published(c) == pc[c] \in {"running", "untracking"}

Kill(c) == /\ main = "killing"
           /\ c \in todo
           /\ todo' = todo \ {c}
           /\ daemon' = IF Published(c) /\ daemon[c] = "alive"
                        THEN [daemon EXCEPT ![c] = "dead"] ELSE daemon
           /\ UNCHANGED <<hostVars, acceptor, pc, peerOpen, asking, subs, late>>

ShutdownEnds == /\ main = "killing"
                /\ todo = {}
                /\ main' = "stopped"
                /\ subs' = {}
                /\ UNCHANGED <<cancelled, listener, acceptor, pc, peerOpen, asking, todo, late, daemon>>

(* The remaining deferred calls, and the end of the process with every     *)
(* goroutine in it.                                                        *)
Exit == /\ main = "stopped"
        /\ main' = "exited"
        /\ UNCHANGED <<cancelled, listener, acceptor, pc, peerOpen, asking, killVars, daemon>>

----------------------------------------------------------------------------------
AcceptStep == AcceptFails \/ AcceptorStops \/ CloseOnCancel \/ \E c \in Conns : Accept(c)
ReadStep(c) == Handshake(c) \/ Gate(c) \/ Waited(c)
ApproveStep(c) == ReadRing(c) \/ VerifyUnattended(c) \/ Ask(c)
ServeStep(c) == Track(c) \/ Fork(c) \/ StartFails(c) \/ Publish(c) \/ Untrack(c)
MainStep == ShutdownBegins \/ (\E c \in Conns : Kill(c)) \/ ShutdownEnds \/ Exit

Next == \/ \E c \in Conns : \/ Connect(c) \/ HangUp(c) \/ DaemonExits(c)
                            \/ ReadStep(c) \/ ApproveStep(c) \/ Answer(c) \/ ServeStep(c)
        \/ AcceptStep \/ Started \/ Interrupt \/ MainStep

Spec == Init /\ [][Next]_vars

(* Goroutines run when they can.  A read ends once its peer has hung up,   *)
(* and then so does the daemon, whose stdin is closed; while the peer      *)
(* stays, nothing bounds either.  The operator answers a prompt.           *)
Fairness == /\ WF_vars(Started \/ MainStep)
            /\ WF_vars(AcceptorStops \/ CloseOnCancel)
            /\ \A c \in Conns : /\ WF_vars(Accept(c))
                                /\ WF_vars(~peerOpen[c] /\ ReadStep(c))
                                /\ WF_vars(~peerOpen[c] /\ DaemonExits(c))
                                /\ WF_vars(ApproveStep(c))
                                /\ WF_vars(Answer(c))
                                /\ WF_vars(ServeStep(c))
FairSpec == Spec /\ Fairness

----------------------------------------------------------------------------------
(* The state is well typed, approveMu held by who asks; and until Shutdown *)
(* looks, subs is exactly the handlers in serveGit, so that every daemon it*)
(* could kill is there and none is leaked by an error path (approvePeer,   *)
(* track, untrack, serveGit).                                              *)
SubsAreServing == /\ TypeOK
                  /\ main \in {"starting", "serving", "killing"} =>
                       subs = {c \in Conns : pc[c] \in Serving}

(* A daemon that outlives Shutdown is one whose process exec.Cmd had not   *)
(* published when Shutdown took the lock: an established one is always     *)
(* killed (Shutdown).                                                      *)
SurvivorsStartedLate == main \in {"stopped", "exited"} =>
  \A c \in Conns : daemon[c] = "alive" => pc[c] \in {"forked"} \/ c \in late

(* A connection whose peer hangs up is over eventually, wherever it stood: *)
(* the handler neither leaks nor leaves its daemon (handle).               *)
HandlerFinishes == \A c \in Conns :
  pc[c] = "handshake" /\ ~peerOpen[c] ~> (pc[c] = "done" /\ daemon[c] # "alive") \/ ~Alive

(* After an interrupt the process ends, whatever its handlers wait for     *)
(* (Shutdown and the deferred calls of runSessionCreate).                  *)
InterruptEnds == cancelled ~> main = "exited"

(* A peer that connected is taken up or reset, whatever the handlers before*)
(* it wait for, as long as no Accept error has ended the loop (Serve).     *)
QueuedIsAccepted == \A c \in Conns :
  pc[c] = "queued" ~> pc[c] # "queued" \/ acceptor = "failed"
==================================================================================
