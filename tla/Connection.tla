-------------------------------- MODULE Connection --------------------------------
(***************************************************************************)
(* One git operation over the bridge, end to end: the client's tunnel and  *)
(* the server's handler exchange hellos, each judges the other's identity, *)
(* the gate asks for a credential, and git's request reaches the daemon.   *)
(* Several tunnels run at once and share the session's one-time invites.   *)
(* Each direction is the ordered byte stream EncryptedConn implements.     *)
(***************************************************************************)
EXTENDS SequencesExt

CONSTANTS Tunnels, \* connections git makes to bridges
          Tokens,  \* invites of the session, minted and unexpired
          Stale,   \* tokens that open nothing: expired, malformed, another session's
          Passwords, \* what users may hold besides: nothing, the session's
                   \* password or another one
          Commands, \* what users run: "join", or "push" for the commands that
                   \* carry no credential (clone, pull, push)
          Faults   \* "refused": dialing fails; "reset": the network cuts a connection;
                   \* "save": the validator cannot save that an invite is spent

ASSUME PasswordsAssumption == Passwords \subseteq {"none", "right", "wrong"}
(* An invite is 40 bytes in base58, longer than anything else that is said.*)
ASSUME TokensAssumption ==
  /\ Tokens \cap Stale = {}
  /\ (Tokens \cup Stale) \cap {"none", "hello", "open", "challenge", "right", "wrong", "fetch", "push",
                           "pack", "error"} = {}
ASSUME CommandsAssumption == Commands \subseteq {"join", "push"}
ASSUME FaultsAssumption == Faults \subseteq {"refused", "reset", "save"}

VARIABLES locked,    \* the session has a password
          allowPush, \* it was created with --allow-push
          command,   \* command[t]: the command behind the tunnel
          given,     \* given[t]: password and token on its command line
          pinned,    \* pinned[t]: what the client's trust ring says of the server
          approves,  \* approves[t]: what ring or operator of the host say of the client
          client,    \* client[t]: where the tunnel stands
          server,    \* server[t]: where the handler stands
          up, down,  \* messages on their way to the server, to the client
          burned,    \* invites spent
          unsaved,   \* history: tunnels whose invite was spent but not saved as such
          result     \* result[t]: how git ended

inputs == <<locked, allowPush, command, given, pinned, approves>>
wires == <<up, down>>
vars == <<inputs, client, server, wires, burned, unsaved, result>>

Given == [password : Passwords, token : Tokens \cup Stale \cup {"none"}]
Secrets == (Passwords \cup Tokens \cup Stale) \ {"none"}
Messages == {"hello", "open", "challenge", "right", "wrong", "fetch", "push", "pack", "error"}
              \cup Tokens \cup Stale

TypeOK == /\ locked \in BOOLEAN /\ allowPush \in BOOLEAN
          /\ command \in [Tunnels -> Commands]
          /\ given \in [Tunnels -> Given]
          /\ pinned \in [Tunnels -> {"unknown", "mismatch"}]
          /\ approves \in [Tunnels -> BOOLEAN]
          /\ client \in [Tunnels -> {"idle", "hello", "verify", "gate", "git", "closed"}]
          /\ server \in [Tunnels -> {"none", "hello", "verify", "gate", "cred", "serve",
                                     "served", "closed"}]
          /\ \A t \in Tunnels : up[t] \in Seq(Messages) /\ down[t] \in Seq(Messages)
          /\ burned \subseteq Tokens /\ unsaved \subseteq Tunnels
          /\ result \in [Tunnels -> {"none", "ok", "failed", "cut"}]
          /\ \A t \in Tunnels : client[t] = "closed" <=> result[t] # "none"

Init == /\ locked \in BOOLEAN /\ allowPush \in BOOLEAN
        /\ command \in [Tunnels -> Commands]
        /\ given \in [Tunnels -> Given]
        /\ pinned \in [Tunnels -> {"unknown", "mismatch"}]
        /\ approves \in [Tunnels -> BOOLEAN]
        /\ client = [t \in Tunnels |-> "idle"]
        /\ server = [t \in Tunnels |-> "none"]
        /\ up = [t \in Tunnels |-> <<>>]
        /\ down = [t \in Tunnels |-> <<>>]
        /\ burned = {} /\ unsaved = {}
        /\ result = [t \in Tunnels |-> "none"]

----------------------------------------------------------------------------------
ToServer(t, m) == up' = [up EXCEPT ![t] = Append(@, m)]
ToClient(t, m) == down' = [down EXCEPT ![t] = Append(@, m)]
ClientMoves(t, from, to) == client[t] = from /\ client' = [client EXCEPT ![t] = to]
ServerMoves(t, from, to) == server[t] = from /\ server' = [server EXCEPT ![t] = to]

(* A read takes the next message; with none left, it fails once the other  *)
(* end has closed.                                                         *)
ClientReads(t, m) == /\ down[t] # <<>> /\ m = Head(down[t])
                     /\ down' = [down EXCEPT ![t] = Tail(@)]
ServerReads(t, m) == /\ up[t] # <<>> /\ m = Head(up[t])
                     /\ up' = [up EXCEPT ![t] = Tail(@)]
ClientEof(t) == down[t] = <<>> /\ server[t] = "closed"
ServerEof(t) == up[t] = <<>> /\ client[t] = "closed"

(* Closing a tunnel closes git's socket too, and git reports a failure.    *)
CloseClient(t, outcome) == /\ client' = [client EXCEPT ![t] = "closed"]
                           /\ result' = [result EXCEPT ![t] = outcome]

(* Faulty variants of operators below, which show that the properties can  *)
(* fail: the identity judged too late; any password taken; an invite not   *)
(* spent; fetches made to depend on receive-pack; a gate deaf to a hang-up.*)
ClientVerifyLate(t) == /\ ClientMoves(t, "verify", "gate")
                       /\ UNCHANGED <<inputs, server, wires, burned, unsaved, result>>
PasswordAny(m) == m \in {"right", "wrong"}
InviteUnspent(m) == m \in Tokens
PermitsPushers(m) == allowPush
ServerDeafInGate(t) == /\ server[t] \in {"hello", "serve", "served"}
                       /\ ServerEof(t)
                       /\ server' = [server EXCEPT ![t] = "closed"]
                       /\ UNCHANGED <<inputs, client, wires, burned, unsaved, result>>

(* What a command says for itself: only `session join` puts its token and  *)
(* its password in the Client, and of both ClientGate sends the token.     *)
Credential(t) == IF command[t] # "join" THEN "none"
                 ELSE IF given[t].token # "none" THEN given[t].token ELSE given[t].password

----------------------------------------------------------------------------------
(* tunnel: dial, then ClientAuth sends this side's keys and waits.         *)
Dial(t) == /\ ClientMoves(t, "idle", "hello")
           /\ ToServer(t, "hello")
           /\ server' = [server EXCEPT ![t] = "hello"]
           /\ ToClient(t, "hello")
           /\ UNCHANGED <<inputs, burned, unsaved, result>>

DialFails(t) == /\ "refused" \in Faults
                /\ client[t] = "idle"
                /\ CloseClient(t, "failed")
                /\ server' = [server EXCEPT ![t] = "closed"]
                /\ UNCHANGED <<inputs, wires, burned, unsaved>>

ClientHello(t) == /\ ClientReads(t, "hello")
                  /\ ClientMoves(t, "hello", "verify")
                  /\ UNCHANGED <<inputs, server, up, burned, unsaved, result>>

(* verifyPinnedPeer: a mismatch closes before anything more is said.       *)
ClientVerify(t) == /\ client[t] = "verify"
                   /\ IF pinned[t] = "mismatch"
                      THEN CloseClient(t, "failed")
                      ELSE ClientMoves(t, "verify", "gate") /\ UNCHANGED result
                   /\ UNCHANGED <<inputs, server, wires, burned, unsaved>>

(* ClientGate.  After it git's own request goes out, at once.              *)
Request(t) == IF command[t] = "push" THEN "push" ELSE "fetch"

ClientGateOpen(t) == /\ ClientReads(t, "open")
                     /\ ClientMoves(t, "gate", "git")
                     /\ ToServer(t, Request(t))
                     /\ UNCHANGED <<inputs, server, burned, unsaved, result>>

ClientGateProves(t) == /\ ClientReads(t, "challenge")
                       /\ Credential(t) # "none"
                       /\ ClientMoves(t, "gate", "git")
                       /\ up' = [up EXCEPT ![t] = @ \o <<Credential(t), Request(t)>>]
                       /\ UNCHANGED <<inputs, server, burned, unsaved, result>>

ClientGateGivesUp(t) == /\ client[t] = "gate"
                        /\ ClientReads(t, "challenge")
                        /\ Credential(t) = "none"
                        /\ CloseClient(t, "failed")
                        /\ UNCHANGED <<inputs, server, up, burned, unsaved>>

(* duplex: the daemon's answer reaches git, which closes when it has it.   *)
GitEnds(t) == /\ client[t] = "git"
              /\ \E m \in {"pack", "error"} :
                   /\ ClientReads(t, m)
                   /\ CloseClient(t, IF m = "pack" THEN "ok" ELSE "failed")
              /\ UNCHANGED <<inputs, server, up, burned, unsaved>>

ClientSeesEof(t) == /\ client[t] \in {"hello", "gate", "git"}
                    /\ ClientEof(t)
                    /\ CloseClient(t, "failed")
                    /\ UNCHANGED <<inputs, server, wires, burned, unsaved>>

----------------------------------------------------------------------------------
(* handle: ServerAuth, then Verify, then ServerGate, then serveGit; any    *)
(* error closes the connection.                                            *)
ServerHello(t) == /\ ServerReads(t, "hello")
                  /\ ServerMoves(t, "hello", "verify")
                  /\ UNCHANGED <<inputs, client, down, burned, unsaved, result>>

ServerVerify(t) == /\ ServerMoves(t, "verify", IF approves[t] THEN "gate" ELSE "closed")
                   /\ UNCHANGED <<inputs, client, wires, burned, unsaved, result>>

ServerGateOpens(t) == /\ ~locked
                      /\ ServerMoves(t, "gate", "serve")
                      /\ ToClient(t, "open")
                      /\ UNCHANGED <<inputs, client, up, burned, unsaved, result>>

ServerGateAsks(t) == /\ locked
                     /\ ServerMoves(t, "gate", "cred")
                     /\ ToClient(t, "challenge")
                     /\ UNCHANGED <<inputs, client, up, burned, unsaved, result>>

PasswordGood(m) == m = "right"
InviteGood(m) == m \in Tokens \ burned

(* The password's answer is bound to this connection's challenge; an       *)
(* invite is spent by its first use (SessionStore has the validator), which*)
(* brings nobody in when it cannot be saved.                               *)
ServerGateChecks(t) == \E m \in Secrets, saved \in BOOLEAN :
  /\ ServerReads(t, m)
  /\ ~saved => "save" \in Faults /\ InviteGood(m)
  /\ ServerMoves(t, "cred",
                 IF PasswordGood(m) \/ (InviteGood(m) /\ saved) THEN "serve" ELSE "closed")
  /\ burned' = burned \cup ({m} \cap Tokens)
  /\ unsaved' = IF saved THEN unsaved ELSE unsaved \cup {t}
  /\ UNCHANGED <<inputs, client, down, result>>

(* serveGit: the daemon answers the one request; receive-pack is enabled   *)
(* by --allow-push.  Its handler then waits for the peer to hang up.       *)
Permits(m) == m = "fetch" \/ allowPush

Serve(t) == /\ \E m \in {"fetch", "push"} :
                 /\ ServerReads(t, m)
                 /\ ToClient(t, IF Permits(m) THEN "pack" ELSE "error")
            /\ ServerMoves(t, "serve", "served")
            /\ UNCHANGED <<inputs, client, burned, unsaved, result>>

ServerSeesEof(t) == /\ server[t] \in {"hello", "cred", "serve", "served"}
                    /\ ServerEof(t)
                    /\ server' = [server EXCEPT ![t] = "closed"]
                    /\ UNCHANGED <<inputs, client, wires, burned, unsaved, result>>

(* The network cuts the connection, with what was on it; git reports it.   *)
Reset(t) == /\ "reset" \in Faults
            /\ client[t] \notin {"idle", "closed"}
            /\ CloseClient(t, "cut")
            /\ up' = [up EXCEPT ![t] = <<>>]
            /\ UNCHANGED <<inputs, server, down, burned, unsaved>>

----------------------------------------------------------------------------------
ClientStep(t) == \/ ClientHello(t) \/ ClientVerify(t)
                 \/ ClientGateOpen(t) \/ ClientGateProves(t) \/ ClientGateGivesUp(t)
                 \/ GitEnds(t) \/ ClientSeesEof(t)
ServerStep(t) == \/ ServerHello(t) \/ ServerVerify(t)
                 \/ ServerGateOpens(t) \/ ServerGateAsks(t) \/ ServerGateChecks(t)
                 \/ Serve(t) \/ ServerSeesEof(t)
Next == \E t \in Tunnels : \/ Dial(t) \/ DialFails(t) \/ Reset(t)
                           \/ ClientStep(t) \/ ServerStep(t)

Spec == Init /\ [][Next]_vars

(* Tunnels and handlers run, git and the daemon come to an end, and the    *)
(* operator answers; nobody has to dial.                                   *)
Fairness == \A t \in Tunnels : WF_vars(ClientStep(t)) /\ WF_vars(ServerStep(t))
FairSpec == Spec /\ Fairness

----------------------------------------------------------------------------------
(* The daemon serves only who the host approves and, in a locked session,  *)
(* who proved the password or spent an invite on it (handle, ServerGate).  *)
ServedOnlyIfVetted ==
  \A t \in Tunnels : server[t] \in {"serve", "served"} =>
    /\ approves[t]
    /\ locked => Credential(t) \in {"right"} \cup burned

(* However their exchanges interleave, an invite brings one tunnel in.     *)
Admitted(t) == server[t] \in {"serve", "served"} \/ result[t] = "ok"
InviteBringsOneIn ==
  \A t, u \in Tunnels :
    locked /\ Admitted(t) /\ Admitted(u) /\ Credential(t) = Credential(u)
      /\ Credential(t) \in Tokens => t = u

(* A peer whose identity does not match its pin learns nothing but the     *)
(* hello: no credential, no git byte ("before any application data flows", *)
(* handshake_auth.go).                                                     *)
NothingToMismatchedPeer ==
  \A t \in Tunnels : pinned[t] = "mismatch" =>
    ToSet(up[t]) \subseteq {"hello"} /\ client[t] # "git"

(* git succeeds only where every one of the checks on either side agrees   *)
(* (tunnel, handle, serveGit).                                             *)
MayEnter(t) == pinned[t] # "mismatch" /\ approves[t] /\ (command[t] = "push" => allowPush)
OkOnlyIfEntitled ==
  \A t \in Tunnels : result[t] = "ok" =>
    MayEnter(t) /\ (locked => Credential(t) \in {"right"} \cup Tokens)

(* Both together, in a well-typed state: whatever else goes on, no end of a*)
(* tunnel gets past a check that any part of it owes (tunnel, handle).     *)
OnlyTheEntitled == TypeOK /\ ServedOnlyIfVetted /\ OkOnlyIfEntitled

(* Whoever passes every check gets there unless the network cuts it off or *)
(* the host cannot save its invite as spent: no exchange of hellos and     *)
(* credentials leaves both ends waiting, and no tunnel that holds another  *)
(* credential is in the way (ServerGate, inviteValidator).                 *)
HoldsAlone(t) == /\ Credential(t) \in Tokens
                 /\ \A u \in Tunnels \ {t} : Credential(u) # Credential(t)
EntitledSucceeds ==
  \A t \in Tunnels :
    client[t] = "hello" /\ MayEnter(t)
      /\ (locked => Credential(t) = "right" \/ HoldsAlone(t))
    ~> result[t] \in {"ok", "cut"} \/ t \in unsaved

(* Every tunnel comes to its end on both sides, refused, cut off or served *)
(* (tunnel, handle).                                                       *)
TunnelEnds == \A t \in Tunnels :
                client[t] = "hello" ~> client[t] = "closed" /\ server[t] = "closed"

(* "Share with a password and allow pushes back" (README.md): who knows    *)
(* the password of a session made with --allow-push can push to it.        *)
PushesBack == \A t \in Tunnels :
  client[t] = "hello" /\ MayEnter(t) /\ command[t] = "push" /\ given[t].password = "right"
    ~> result[t] = "ok"
===================================================================================
