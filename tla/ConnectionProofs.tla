----------------------------- MODULE ConnectionProofs -----------------------------
(***************************************************************************)
(* What Connection keeps for any number of tunnels and of invites: what is *)
(* said on a tunnel, and how far each of its ends has come, follows from   *)
(* what its user holds and from what the two ends think of each other.     *)
(*                                                                         *)
(* In the last section what Terminal keeps, for any number of commands and *)
(* of peers: where the approvals that Connection takes as given come from. *)
(***************************************************************************)
EXTENDS Connection, Terminal, SequenceTheorems, TLAPS

TypeInv == /\ locked \in BOOLEAN /\ allowPush \in BOOLEAN
           /\ command \in [Tunnels -> Commands]
           /\ given \in [Tunnels -> Given]
           /\ pinned \in [Tunnels -> {"unknown", "mismatch"}]
           /\ approves \in [Tunnels -> BOOLEAN]
           /\ client \in [Tunnels -> {"idle", "hello", "verify", "gate", "git", "closed"}]
           /\ server \in [Tunnels -> {"none", "hello", "verify", "gate", "cred", "serve",
                                      "served", "closed"}]
           /\ up \in [Tunnels -> Seq(Messages)]
           /\ down \in [Tunnels -> Seq(Messages)]
           /\ burned \subseteq Tokens /\ unsaved \subseteq Tunnels
           /\ result \in [Tunnels -> {"none", "ok", "failed", "cut"}]

(* All that a client may say; what opens the gate for it.                  *)
Says(t) == {"hello", Credential(t), Request(t)} \ {"none"}
Opened(t) == locked => Credential(t) \in {"right"} \cup burned

TunnelInv(t) ==
  /\ client[t] = "closed" <=> result[t] # "none"
  /\ client[t] = "idle" => server[t] = "none" /\ up[t] = <<>> /\ down[t] = <<>>
  /\ client[t] \in {"gate", "git"} => pinned[t] # "mismatch"
  /\ ToSet(up[t]) \subseteq Says(t)
  /\ pinned[t] = "mismatch" => ToSet(up[t]) \subseteq {"hello"}
  /\ server[t] \in {"gate", "cred", "serve", "served"} => approves[t]
  /\ server[t] \in {"serve", "served"} => Opened(t)
  /\ "pack" \in ToSet(down[t]) =>
       Permits(Request(t)) /\ (server[t] = "served" \/ client[t] = "closed")
  /\ result[t] = "ok" =>
       pinned[t] # "mismatch" /\ approves[t] /\ Permits(Request(t)) /\ Opened(t)

IInv == TypeInv /\ (\A t \in Tunnels : TunnelInv(t)) /\ InviteBringsOneIn

(* A step of tunnel t leaves the others alone, and no invite comes back.   *)
StepOf(t) ==
  /\ UNCHANGED inputs /\ burned \subseteq burned'
  /\ \A u \in Tunnels \ {t} : /\ client'[u] = client[u] /\ server'[u] = server[u]
                              /\ up'[u] = up[u] /\ down'[u] = down[u] /\ result'[u] = result[u]

----------------------------------------------------------------------------------
(* What is on a wire after a message was put there.                        *)
LEMMA AppendedSet ==
  ASSUME NEW S, NEW s \in Seq(S), NEW e \in S
  PROVE  Append(s, e) \in Seq(S) /\ ToSet(Append(s, e)) = ToSet(s) \cup {e}
<1>1. /\ Append(s, e) \in Seq(S) /\ Len(Append(s, e)) = Len(s) + 1
      /\ \A i \in 1..Len(s) : Append(s, e)[i] = s[i]
      /\ Append(s, e)[Len(s) + 1] = e
      /\ DOMAIN s = 1..Len(s) /\ Len(s) \in Nat
  BY AppendProperties, LenProperties
<1>2. DOMAIN Append(s, e) = 1..(Len(s) + 1)
  BY <1>1, LenProperties
<1> QED BY <1>1, <1>2 DEF ToSet

(* The same after two were.                                                *)
LEMMA AppendedTwo ==
  ASSUME NEW S, NEW s \in Seq(S), NEW d \in S, NEW e \in S
  PROVE  s \o <<d, e>> \in Seq(S) /\ ToSet(s \o <<d, e>>) = ToSet(s) \cup {d, e}
<1>1. Append(s, d) \in Seq(S)
  BY AppendedSet
<1>2. s \o <<d, e>> = Append(Append(s, d), e)
  <2> DEFINE t == <<d, e>>
             a == Append(s, d)
             b == Append(a, e)
  <2>1. /\ t \in Seq(S) /\ Len(t) = 2 /\ t[1] = d /\ t[2] = e
    OBVIOUS
  <2> HIDE DEF t
  <2>2. /\ s \o t \in Seq(S) /\ Len(s \o t) = Len(s) + 2 /\ Len(s) \in Nat
        /\ \A i \in 1..Len(s) + 2 : (s \o t)[i] = IF i <= Len(s) THEN s[i] ELSE t[i - Len(s)]
    <3>1. /\ s \o t \in Seq(S) /\ Len(s \o t) = Len(s) + Len(t)
          /\ \A i \in 1..Len(s) + Len(t) :
               (s \o t)[i] = IF i <= Len(s) THEN s[i] ELSE t[i - Len(s)]
      BY <2>1, ConcatProperties
    <3>2. Len(s) \in Nat
      BY LenProperties
    <3> QED BY <2>1, <3>1, <3>2
  <2>3. /\ a \in Seq(S) /\ Len(a) = Len(s) + 1
        /\ \A i \in 1..Len(s) : a[i] = s[i]
        /\ a[Len(s) + 1] = d
    BY AppendProperties
  <2> HIDE DEF a
  <2>4. /\ b \in Seq(S) /\ Len(b) = Len(a) + 1
        /\ \A i \in 1..Len(a) : b[i] = a[i]
        /\ b[Len(a) + 1] = e
    BY <2>3, AppendProperties
  <2> HIDE DEF b
  <2>5. ASSUME NEW i \in 1..Len(s) + 2 PROVE (s \o t)[i] = b[i]
    <3>1. CASE i <= Len(s)
      <4>1. i \in 1..Len(s) /\ i \in 1..Len(a)
        BY <2>2, <2>3, <3>1
      <4> QED BY <2>2, <2>3, <2>4, <3>1, <4>1
    <3>2. CASE i = Len(s) + 1
      BY <2>1, <2>2, <2>3, <2>4, <3>2
    <3>3. CASE i = Len(s) + 2
      BY <2>1, <2>2, <2>3, <2>4, <3>3
    <3> QED BY <2>2, <3>1, <3>2, <3>3
  <2>6. Len(s \o t) = Len(b) /\ \A i \in 1..Len(s \o t) : (s \o t)[i] = b[i]
    BY <2>2, <2>3, <2>4, <2>5
  <2>7. s \o t = b
    BY <2>2, <2>4, <2>6, SeqEqual
  <2> QED BY <2>7 DEF t, a, b
<1>3. ASSUME NEW r \in Seq(S), r = Append(s, d)
      PROVE  Append(r, e) \in Seq(S) /\ ToSet(Append(r, e)) = ToSet(s) \cup {d, e}
  <2>1. ToSet(r) = ToSet(s) \cup {d}
    BY <1>3, AppendedSet
  <2>2. Append(r, e) \in Seq(S) /\ ToSet(Append(r, e)) = ToSet(r) \cup {e}
    BY AppendedSet
  <2> QED BY <2>1, <2>2
<1> QED BY <1>1, <1>2, <1>3

(* What was taken had been there, as what is left.                         *)
LEMMA TakenSet ==
  ASSUME NEW S, NEW s \in Seq(S), s # <<>>
  PROVE  /\ Tail(s) \in Seq(S) /\ ToSet(Tail(s)) \subseteq ToSet(s)
         /\ Head(s) \in S /\ Head(s) \in ToSet(s)
<1>1. /\ Head(s) \in S /\ Tail(s) \in Seq(S) /\ Len(Tail(s)) = Len(s) - 1
      /\ \A i \in 1..Len(Tail(s)) : Tail(s)[i] = s[i + 1]
      /\ DOMAIN s = 1..Len(s) /\ Len(s) \in Nat /\ Len(s) # 0 /\ Head(s) = s[1]
  BY HeadTailProperties, LenProperties, EmptySeq
<1>2. DOMAIN Tail(s) = 1..(Len(s) - 1)
  BY <1>1, LenProperties
<1>3. \A i \in 1..(Len(s) - 1) : i + 1 \in 1..Len(s) /\ Tail(s)[i] = s[i + 1]
  BY <1>1
<1>4. 1 \in 1..Len(s)
  BY <1>1
<1> QED BY <1>1, <1>2, <1>3, <1>4 DEF ToSet

(* What a client says, it may say on the wire; a credential is no request, *)
(* and neither is a hello.                                                 *)
LEMMA SayProperties ==
  ASSUME TypeInv, NEW t \in Tunnels
  PROVE  /\ Credential(t) \in Secrets \cup {"none"} /\ Request(t) \in {"fetch", "push"}
         /\ Says(t) \subseteq Messages
         /\ \A m \in Says(t) : m \in Secrets => m = Credential(t)
         /\ \A m \in Says(t) : m \in {"fetch", "push"} => m = Request(t)
         /\ "right" \notin Tokens
<1>1. given[t] \in Given /\ Request(t) \in {"fetch", "push"}
  BY DEF TypeInv, Request
<1>2. \A m \in Secrets : m \in {"right", "wrong"} \cup Tokens \cup Stale
  BY PasswordsAssumption DEF Secrets
<1>3. Credential(t) \in Secrets \cup {"none"}
  BY <1>1 DEF Credential, Given, Secrets
<1>4. \A m \in Tokens \cup Stale : m \notin {"none", "hello", "right", "fetch", "push"}
  BY TokensAssumption
<1>5. \A m \in Says(t) : m \in {"hello", "right", "wrong", "fetch", "push"} \cup Tokens \cup Stale
  BY <1>1, <1>2, <1>3 DEF Says
<1>6. \A m \in Says(t) : m \in Secrets => m = Credential(t)
  <2> SUFFICES ASSUME NEW m \in Secrets, m \in Says(t), m # Credential(t) PROVE FALSE
    OBVIOUS
  <2>1. m \in {"hello", "fetch", "push"}
    BY <1>1 DEF Says
  <2> QED BY <1>2, <1>4, <2>1
<1>7. \A m \in Says(t) : m \in {"fetch", "push"} => m = Request(t)
  <2> SUFFICES ASSUME NEW m \in {"fetch", "push"}, m \in Says(t), m # Request(t) PROVE FALSE
    OBVIOUS
  <2>1. m = Credential(t) /\ m # "none"
    BY DEF Says
  <2> QED BY <1>2, <1>3, <1>4, <2>1
<1> QED BY <1>1, <1>3, <1>4, <1>5, <1>6, <1>7 DEF Messages

----------------------------------------------------------------------------------
(* No tunnel has begun.                                                    *)
LEMMA InitIInv ==
  Init => IInv
<1> SUFFICES ASSUME Init PROVE IInv
  OBVIOUS
<1>1. TypeInv
  BY EmptySeq DEF Init, TypeInv
<1>2. ASSUME NEW t \in Tunnels PROVE TunnelInv(t)
  <2>1. /\ client[t] = "idle" /\ server[t] = "none" /\ result[t] = "none"
        /\ up[t] = <<>> /\ down[t] = <<>>
    BY DEF Init
  <2>2. ToSet(<<>>) = {}
    BY DEF ToSet
  <2> QED BY <2>1, <2>2 DEF TunnelInv
<1>3. InviteBringsOneIn
  BY DEF Init, InviteBringsOneIn, Admitted
<1> QED BY <1>1, <1>2, <1>3 DEF IInv

(* The tunnels a step leaves alone are as they were.                       *)
LEMMA OthersKept ==
  ASSUME IInv, NEW t \in Tunnels, StepOf(t), NEW u \in Tunnels \ {t}
  PROVE  TunnelInv(u)' /\ (Admitted(u)' => Admitted(u)) /\ Credential(u)' = Credential(u)
<1>1. /\ client'[u] = client[u] /\ server'[u] = server[u]
      /\ up'[u] = up[u] /\ down'[u] = down[u] /\ result'[u] = result[u]
      /\ UNCHANGED <<locked, allowPush, command, given, pinned, approves>> /\ burned \subseteq burned'
  BY DEF StepOf, inputs
<1>2. /\ Credential(u)' = Credential(u) /\ Request(u)' = Request(u) /\ Says(u)' = Says(u)
      /\ (Opened(u) => Opened(u)') /\ (Permits(Request(u)) => Permits(Request(u))')
  BY <1>1 DEF Credential, Request, Says, Opened, Permits
<1>3. TunnelInv(u)
  BY DEF IInv
<1> QED BY <1>1, <1>2, <1>3 DEF TunnelInv, Admitted

(* A step that keeps what is said of its tunnel, and brings nobody in with *)
(* an invite already spent, keeps the invariant.                           *)
LEMMA StepKeeps ==
  ASSUME IInv, TypeInv', NEW t \in Tunnels, StepOf(t), TunnelInv(t)',
         Admitted(t)' => Admitted(t) \/ ~locked \/ Credential(t) \notin burned
  PROVE  IInv'
<1>1. \A u \in Tunnels : TunnelInv(u)'
  BY OthersKept
<1>2. \A u \in Tunnels : Admitted(u) /\ locked => Credential(u) \in {"right"} \cup burned
  BY DEF IInv, TunnelInv, Admitted, Opened
<1>3. InviteBringsOneIn'
  <2> SUFFICES ASSUME NEW u \in Tunnels, NEW v \in Tunnels, locked, u # v,
                      Admitted(u)', Admitted(v)', Credential(u)' = Credential(v)',
                      Credential(u)' \in Tokens
               PROVE  FALSE
    BY DEF InviteBringsOneIn, StepOf, inputs
  <2>1. \A w \in Tunnels : Credential(w)' = Credential(w)
    BY DEF StepOf, inputs, Credential
  <2>2. "right" \notin Tokens
    BY SayProperties DEF IInv
  <2>3. \A w \in Tunnels \ {t} : Admitted(w)' => Admitted(w)
    BY OthersKept
  <2>4. ~(Admitted(u) /\ Admitted(v))
    BY <2>1 DEF IInv, InviteBringsOneIn
  <2>5. CASE u = t
    BY <1>2, <2>1, <2>2, <2>3, <2>4, <2>5
  <2>6. CASE v = t
    BY <1>2, <2>1, <2>2, <2>3, <2>4, <2>6
  <2> QED BY <2>3, <2>4, <2>5, <2>6
<1> QED BY <1>1, <1>3 DEF IInv

(* What ToServer, ToClient and a read do to the wires.                     *)
LEMMA WireSteps ==
  ASSUME TypeInv, NEW t \in Tunnels
  PROVE  /\ \A m \in Messages : ToServer(t, m) =>
              /\ up' \in [Tunnels -> Seq(Messages)] /\ ToSet(up'[t]) = ToSet(up[t]) \cup {m}
              /\ \A u \in Tunnels \ {t} : up'[u] = up[u]
         /\ \A m \in Messages : ToClient(t, m) =>
              /\ down' \in [Tunnels -> Seq(Messages)] /\ ToSet(down'[t]) = ToSet(down[t]) \cup {m}
              /\ \A u \in Tunnels \ {t} : down'[u] = down[u]
         /\ \A m : ServerReads(t, m) =>
              /\ up' \in [Tunnels -> Seq(Messages)] /\ ToSet(up'[t]) \subseteq ToSet(up[t])
              /\ m \in ToSet(up[t]) /\ \A u \in Tunnels \ {t} : up'[u] = up[u]
         /\ \A m : ClientReads(t, m) =>
              /\ down' \in [Tunnels -> Seq(Messages)] /\ ToSet(down'[t]) \subseteq ToSet(down[t])
              /\ m \in ToSet(down[t]) /\ \A u \in Tunnels \ {t} : down'[u] = down[u]
<1>1. /\ up[t] \in Seq(Messages) /\ down[t] \in Seq(Messages)
      /\ up \in [Tunnels -> Seq(Messages)] /\ down \in [Tunnels -> Seq(Messages)]
  BY DEF TypeInv
<1>2. ASSUME NEW m \in Messages, ToServer(t, m)
      PROVE  /\ up' \in [Tunnels -> Seq(Messages)] /\ ToSet(up'[t]) = ToSet(up[t]) \cup {m}
             /\ \A u \in Tunnels \ {t} : up'[u] = up[u]
  <2>1. /\ Append(up[t], m) \in Seq(Messages)
        /\ ToSet(Append(up[t], m)) = ToSet(up[t]) \cup {m}
    BY <1>1, AppendedSet
  <2>2. up'[t] = Append(up[t], m)
    BY <1>1, <1>2 DEF ToServer
  <2> QED BY <1>1, <1>2, <2>1, <2>2 DEF ToServer
<1>3. ASSUME NEW m \in Messages, ToClient(t, m)
      PROVE  /\ down' \in [Tunnels -> Seq(Messages)] /\ ToSet(down'[t]) = ToSet(down[t]) \cup {m}
             /\ \A u \in Tunnels \ {t} : down'[u] = down[u]
  <2>1. /\ Append(down[t], m) \in Seq(Messages)
        /\ ToSet(Append(down[t], m)) = ToSet(down[t]) \cup {m}
    BY <1>1, AppendedSet
  <2>2. down'[t] = Append(down[t], m)
    BY <1>1, <1>3 DEF ToClient
  <2> QED BY <1>1, <1>3, <2>1, <2>2 DEF ToClient
<1>4. ASSUME NEW m, ServerReads(t, m)
      PROVE  /\ up' \in [Tunnels -> Seq(Messages)] /\ ToSet(up'[t]) \subseteq ToSet(up[t])
             /\ m \in ToSet(up[t]) /\ \A u \in Tunnels \ {t} : up'[u] = up[u]
  <2>1. /\ Tail(up[t]) \in Seq(Messages) /\ ToSet(Tail(up[t])) \subseteq ToSet(up[t])
        /\ m \in ToSet(up[t])
    BY <1>1, <1>4, TakenSet DEF ServerReads
  <2>2. up'[t] = Tail(up[t])
    BY <1>1, <1>4 DEF ServerReads
  <2> QED BY <1>1, <1>4, <2>1, <2>2 DEF ServerReads
<1>5. ASSUME NEW m, ClientReads(t, m)
      PROVE  /\ down' \in [Tunnels -> Seq(Messages)] /\ ToSet(down'[t]) \subseteq ToSet(down[t])
             /\ m \in ToSet(down[t]) /\ \A u \in Tunnels \ {t} : down'[u] = down[u]
  <2>1. /\ Tail(down[t]) \in Seq(Messages) /\ ToSet(Tail(down[t])) \subseteq ToSet(down[t])
        /\ m \in ToSet(down[t])
    BY <1>1, <1>5, TakenSet DEF ClientReads
  <2>2. down'[t] = Tail(down[t])
    BY <1>1, <1>5 DEF ClientReads
  <2> QED BY <1>1, <1>5, <2>1, <2>2 DEF ClientReads
<1> QED BY <1>2, <1>3, <1>4, <1>5

(* The inputs are what they were, and so is all that follows from them.    *)
LEMMA InputsKept ==
  ASSUME UNCHANGED inputs, burned \subseteq burned', NEW t
  PROVE  /\ pinned' = pinned /\ approves' = approves /\ locked' = locked
         /\ Credential(t)' = Credential(t) /\ Request(t)' = Request(t) /\ Says(t)' = Says(t)
         /\ Opened(t) => Opened(t)'
         /\ Permits(Request(t))' = Permits(Request(t))
BY DEF inputs, Credential, Request, Says, Opened, Permits

(* Dialing.                                                                *)
LEMMA DialKeeps ==
  ASSUME IInv, NEW t \in Tunnels, Dial(t) \/ DialFails(t)
  PROVE  IInv'
<1> USE DEF IInv
<1>1. CASE Dial(t)
  <2>1. /\ client[t] = "idle" /\ client' = [client EXCEPT ![t] = "hello"]
        /\ server' = [server EXCEPT ![t] = "hello"] /\ UNCHANGED <<inputs, burned, unsaved, result>>
        /\ ToServer(t, "hello") /\ ToClient(t, "hello")
    BY <1>1 DEF Dial, ClientMoves
  <2>2. /\ up' \in [Tunnels -> Seq(Messages)] /\ down' \in [Tunnels -> Seq(Messages)]
        /\ ToSet(up'[t]) = ToSet(up[t]) \cup {"hello"} /\ ToSet(down'[t]) = ToSet(down[t]) \cup {"hello"}
        /\ \A u \in Tunnels \ {t} : up'[u] = up[u] /\ down'[u] = down[u]
    <3>1. "hello" \in Messages
      BY DEF Messages
    <3> QED BY <2>1, <3>1, WireSteps
  <2>3. TypeInv' /\ StepOf(t)
    BY <2>1, <2>2 DEF TypeInv, StepOf, inputs
  <2>4. ToSet(up[t]) = {} /\ ToSet(down[t]) = {} /\ result[t] = "none"
    BY <2>1 DEF TunnelInv, ToSet, TypeInv
  <2>5. client'[t] = "hello" /\ server'[t] = "hello" /\ result'[t] = "none"
    BY <2>1, <2>4 DEF TypeInv
  <2>6. TunnelInv(t)'
    BY <2>2, <2>4, <2>5 DEF TunnelInv, Says
  <2> QED BY <2>3, <2>5, <2>6, StepKeeps DEF Admitted
<1>2. CASE DialFails(t)
  <2>1. /\ client[t] = "idle" /\ client' = [client EXCEPT ![t] = "closed"]
        /\ result' = [result EXCEPT ![t] = "failed"]
        /\ server' = [server EXCEPT ![t] = "closed"] /\ UNCHANGED <<inputs, wires, burned, unsaved>>
    BY <1>2 DEF DialFails, CloseClient
  <2>2. TypeInv' /\ StepOf(t)
    BY <2>1 DEF TypeInv, StepOf, inputs, wires
  <2>3. /\ client'[t] = "closed" /\ server'[t] = "closed" /\ result'[t] = "failed"
        /\ up'[t] = <<>> /\ down'[t] = <<>>
    BY <2>1 DEF TypeInv, TunnelInv, wires
  <2>4. TunnelInv(t)'
    BY <2>3 DEF TunnelInv, ToSet
  <2> QED BY <2>2, <2>3, <2>4, StepKeeps DEF Admitted
<1> QED BY <1>1, <1>2

(* git reports a failure, whatever of it.                                  *)
LEMMA ClientFailsKeeps ==
  ASSUME IInv, NEW t \in Tunnels,
         client[t] \notin {"idle", "closed"},
         CloseClient(t, "failed") \/ CloseClient(t, "cut"),
         UNCHANGED <<inputs, server, burned, unsaved>>,
         up' \in [Tunnels -> Seq(Messages)], down' \in [Tunnels -> Seq(Messages)],
         \A u \in Tunnels \ {t} : up'[u] = up[u] /\ down'[u] = down[u],
         ToSet(up'[t]) \subseteq ToSet(up[t]), ToSet(down'[t]) \subseteq ToSet(down[t])
  PROVE  IInv'
<1> USE DEF IInv
<1>1. PICK r \in {"failed", "cut"} :
        client' = [client EXCEPT ![t] = "closed"] /\ result' = [result EXCEPT ![t] = r]
  BY DEF CloseClient
<1>2. TypeInv' /\ StepOf(t)
  BY <1>1 DEF TypeInv, StepOf, inputs
<1>3. client'[t] = "closed" /\ result'[t] \in {"failed", "cut"} /\ server'[t] = server[t]
  BY <1>1 DEF TypeInv
<1>4. TunnelInv(t)
  OBVIOUS
<1>5. TunnelInv(t)'
  BY <1>3, <1>4, InputsKept DEF TunnelInv
<1> QED BY <1>2, <1>3, <1>5, StepKeeps DEF Admitted

(* The client goes on, past the pin before it comes to the gate.           *)
LEMMA ClientKeeps ==
  ASSUME IInv, NEW t \in Tunnels, ClientStep(t) \/ Reset(t)
  PROVE  IInv'
<1> USE DEF IInv
<1>1. CASE Reset(t)
  <2>1. /\ client[t] \notin {"idle", "closed"} /\ CloseClient(t, "cut")
        /\ up' = [up EXCEPT ![t] = <<>>] /\ UNCHANGED <<inputs, server, down, burned, unsaved>>
    BY <1>1 DEF Reset
  <2>2. up' \in [Tunnels -> Seq(Messages)] /\ up'[t] = <<>> /\ \A u \in Tunnels \ {t} : up'[u] = up[u]
    BY <2>1, EmptySeq DEF TypeInv
  <2>3. ToSet(up'[t]) = {}
    BY <2>2 DEF ToSet
  <2>4. down' \in [Tunnels -> Seq(Messages)]
    BY <2>1 DEF TypeInv
  <2> QED BY <2>1, <2>2, <2>3, <2>4, ClientFailsKeeps
<1>2. CASE ClientHello(t)
  <2>1. /\ client[t] = "hello" /\ client' = [client EXCEPT ![t] = "verify"]
        /\ ClientReads(t, "hello") /\ UNCHANGED <<inputs, server, up, burned, unsaved, result>>
    BY <1>2 DEF ClientHello, ClientMoves
  <2>2. /\ down' \in [Tunnels -> Seq(Messages)] /\ ToSet(down'[t]) \subseteq ToSet(down[t])
        /\ \A u \in Tunnels \ {t} : down'[u] = down[u]
    BY <2>1, WireSteps
  <2>3. TypeInv' /\ StepOf(t)
    BY <2>1, <2>2 DEF TypeInv, StepOf, inputs
  <2>4. client'[t] = "verify"
    BY <2>1 DEF TypeInv
  <2>5. TunnelInv(t)
    OBVIOUS
  <2>6. TunnelInv(t)'
    BY <2>1, <2>2, <2>4, <2>5, InputsKept DEF TunnelInv
  <2> QED BY <2>1, <2>3, <2>6, StepKeeps DEF Admitted
<1>3. CASE ClientVerify(t)
  <2>1. CASE pinned[t] = "mismatch"
    <3>1. /\ client[t] = "verify" /\ CloseClient(t, "failed") /\ UNCHANGED <<inputs, server, wires, burned, unsaved>>
      BY <1>3, <2>1 DEF ClientVerify
    <3> QED BY <3>1, ClientFailsKeeps DEF wires, TypeInv
  <2>2. CASE pinned[t] # "mismatch"
    <3>1. /\ client[t] = "verify" /\ client' = [client EXCEPT ![t] = "gate"]
          /\ UNCHANGED <<inputs, server, up, down, burned, unsaved, result>>
      BY <1>3, <2>2 DEF ClientVerify, ClientMoves, wires
    <3>2. TypeInv' /\ StepOf(t)
      BY <3>1 DEF TypeInv, StepOf, inputs
    <3>3. client'[t] = "gate"
      BY <3>1 DEF TypeInv
    <3>4. TunnelInv(t)
      OBVIOUS
    <3>5. TunnelInv(t)'
      BY <2>2, <3>1, <3>3, <3>4, InputsKept DEF TunnelInv
    <3> QED BY <3>1, <3>2, <3>5, StepKeeps DEF Admitted
  <2> QED BY <2>1, <2>2
<1>4. CASE ClientGateOpen(t) \/ ClientGateProves(t)
  <2>1. /\ client[t] = "gate" /\ client' = [client EXCEPT ![t] = "git"]
        /\ \E m : ClientReads(t, m) /\ UNCHANGED <<inputs, server, burned, unsaved, result>>
    BY <1>4 DEF ClientGateOpen, ClientGateProves, ClientMoves
  <2>2. /\ down' \in [Tunnels -> Seq(Messages)] /\ ToSet(down'[t]) \subseteq ToSet(down[t])
        /\ \A u \in Tunnels \ {t} : down'[u] = down[u]
    BY <2>1, WireSteps
  <2>3. /\ up' \in [Tunnels -> Seq(Messages)] /\ ToSet(up'[t]) \subseteq ToSet(up[t]) \cup Says(t)
        /\ \A u \in Tunnels \ {t} : up'[u] = up[u]
    <3>1. Request(t) \in Says(t) /\ Says(t) \subseteq Messages
      BY SayProperties DEF Says
    <3>2. CASE ClientGateOpen(t)
      <4>1. ToServer(t, Request(t))
        BY <3>2 DEF ClientGateOpen
      <4> QED BY <3>1, <4>1, WireSteps
    <3>3. CASE ClientGateProves(t)
      <4>1. /\ up' = [up EXCEPT ![t] = up[t] \o <<Credential(t), Request(t)>>]
            /\ Credential(t) \in Says(t)
        BY <3>3 DEF ClientGateProves, Says
      <4> DEFINE s == up[t] \o <<Credential(t), Request(t)>>
      <4>2. /\ s \in Seq(Messages) /\ ToSet(s) = ToSet(up[t]) \cup {Credential(t), Request(t)}
        BY <3>1, <4>1, AppendedTwo DEF TypeInv
      <4> HIDE DEF s
      <4>3. up' = [up EXCEPT ![t] = s]
        BY <4>1 DEF s
      <4>4. /\ up' \in [Tunnels -> Seq(Messages)] /\ up'[t] = s
            /\ \A u \in Tunnels \ {t} : up'[u] = up[u]
        BY <4>2, <4>3 DEF TypeInv
      <4>5. ToSet(up'[t]) = ToSet(up[t]) \cup {Credential(t), Request(t)}
        BY <4>2, <4>4
      <4> QED BY <3>1, <4>1, <4>4, <4>5
    <3> QED BY <1>4, <3>2, <3>3
  <2>4. TypeInv' /\ StepOf(t)
    BY <2>1, <2>2, <2>3 DEF TypeInv, StepOf, inputs
  <2>5. client'[t] = "git" /\ result'[t] = result[t] /\ server'[t] = server[t]
    BY <2>1 DEF TypeInv
  <2>6. TunnelInv(t) /\ pinned[t] # "mismatch"
    BY <2>1 DEF TunnelInv
  <2>7. TunnelInv(t)'
    BY <2>1, <2>2, <2>3, <2>5, <2>6, InputsKept DEF TunnelInv
  <2> QED BY <2>4, <2>5, <2>7, StepKeeps DEF Admitted
<1>5. CASE ClientGateGivesUp(t)
  <2>1. /\ client[t] = "gate" /\ CloseClient(t, "failed") /\ ClientReads(t, "challenge")
        /\ UNCHANGED <<inputs, server, up, burned, unsaved>>
    BY <1>5 DEF ClientGateGivesUp
  <2> QED BY <2>1, WireSteps, ClientFailsKeeps DEF TypeInv
<1>6. CASE ClientSeesEof(t)
  <2>1. /\ client[t] \in {"hello", "gate", "git"} /\ CloseClient(t, "failed")
        /\ UNCHANGED <<inputs, server, wires, burned, unsaved>>
    BY <1>6 DEF ClientSeesEof
  <2> QED BY <2>1, ClientFailsKeeps DEF wires, TypeInv
<1>7. CASE GitEnds(t)
  <2>1. PICK m \in {"pack", "error"} :
          ClientReads(t, m) /\ CloseClient(t, IF m = "pack" THEN "ok" ELSE "failed")
    BY <1>7 DEF GitEnds
  <2>2. client[t] = "git" /\ UNCHANGED <<inputs, server, up, burned, unsaved>>
    BY <1>7 DEF GitEnds
  <2>3. /\ down' \in [Tunnels -> Seq(Messages)] /\ ToSet(down'[t]) \subseteq ToSet(down[t])
        /\ m \in ToSet(down[t]) /\ \A u \in Tunnels \ {t} : down'[u] = down[u]
    BY <2>1, WireSteps
  <2>4. CASE m # "pack"
    BY <2>1, <2>2, <2>3, <2>4, ClientFailsKeeps DEF TypeInv
  <2>5. CASE m = "pack"
    <3>1. client' = [client EXCEPT ![t] = "closed"] /\ result' = [result EXCEPT ![t] = "ok"]
      BY <2>1, <2>5 DEF CloseClient
    <3>2. TypeInv' /\ StepOf(t)
      BY <2>2, <2>3, <3>1 DEF TypeInv, StepOf, inputs
    <3>3. client'[t] = "closed" /\ result'[t] = "ok" /\ server'[t] = server[t] /\ up'[t] = up[t]
      BY <2>2, <3>1 DEF TypeInv
    <3>4. /\ TunnelInv(t) /\ server[t] = "served" /\ pinned[t] # "mismatch" /\ approves[t]
          /\ Opened(t) /\ Permits(Request(t))
      BY <2>2, <2>3, <2>5 DEF TunnelInv
    <3>5. TunnelInv(t)'
      BY <2>2, <2>3, <3>3, <3>4, InputsKept DEF TunnelInv
    <3> QED BY <3>2, <3>4, <3>5, StepKeeps DEF Admitted
  <2> QED BY <2>4, <2>5
<1> QED BY <1>1, <1>2, <1>3, <1>4, <1>5, <1>6, <1>7 DEF ClientStep

(* The server goes on: past the operator to the gate, past the gate with   *)
(* what opens it, and to the daemon with the request there is.             *)
LEMMA ServerKeeps ==
  ASSUME IInv, NEW t \in Tunnels, ServerStep(t)
  PROVE  IInv'
<1> USE DEF IInv
<1>1. TunnelInv(t)
  OBVIOUS
<1>2. CASE ServerHello(t)
  <2>1. /\ server[t] = "hello" /\ server' = [server EXCEPT ![t] = "verify"]
        /\ ServerReads(t, "hello") /\ UNCHANGED <<inputs, client, down, burned, unsaved, result>>
    BY <1>2 DEF ServerHello, ServerMoves
  <2>2. /\ up' \in [Tunnels -> Seq(Messages)] /\ ToSet(up'[t]) \subseteq ToSet(up[t])
        /\ \A u \in Tunnels \ {t} : up'[u] = up[u]
    BY <2>1, WireSteps
  <2>3. TypeInv' /\ StepOf(t) /\ server'[t] = "verify"
    BY <2>1, <2>2 DEF TypeInv, StepOf, inputs
  <2>4. TunnelInv(t)'
    BY <1>1, <2>1, <2>2, <2>3, InputsKept DEF TunnelInv
  <2> QED BY <2>1, <2>3, <2>4, StepKeeps DEF Admitted
<1>3. CASE ServerVerify(t)
  <2>1. /\ server[t] = "verify" /\ UNCHANGED <<inputs, client, up, down, burned, unsaved, result>>
        /\ server' = [server EXCEPT ![t] = IF approves[t] THEN "gate" ELSE "closed"]
    BY <1>3 DEF ServerVerify, ServerMoves, wires
  <2>2. /\ TypeInv' /\ StepOf(t) /\ server'[t] \in {"gate", "closed"}
        /\ server'[t] = "gate" => approves[t]
    BY <2>1 DEF TypeInv, StepOf, inputs
  <2>3. TunnelInv(t)'
    BY <1>1, <2>1, <2>2, InputsKept DEF TunnelInv
  <2> QED BY <2>1, <2>2, <2>3, StepKeeps DEF Admitted
<1>4. CASE ServerGateOpens(t)
  <2>1. /\ ~locked /\ server[t] = "gate" /\ server' = [server EXCEPT ![t] = "serve"]
        /\ ToClient(t, "open") /\ UNCHANGED <<inputs, client, up, burned, unsaved, result>>
    BY <1>4 DEF ServerGateOpens, ServerMoves
  <2>2. /\ down' \in [Tunnels -> Seq(Messages)] /\ ToSet(down'[t]) = ToSet(down[t]) \cup {"open"}
        /\ \A u \in Tunnels \ {t} : down'[u] = down[u]
    <3>1. "open" \in Messages
      BY DEF Messages
    <3> QED BY <2>1, <3>1, WireSteps
  <2>3. TypeInv' /\ StepOf(t) /\ server'[t] = "serve"
    BY <2>1, <2>2 DEF TypeInv, StepOf, inputs
  <2>4. Opened(t)
    BY <2>1 DEF Opened
  <2>5. TunnelInv(t)'
    BY <1>1, <2>1, <2>2, <2>3, <2>4, InputsKept DEF TunnelInv
  <2> QED BY <2>1, <2>3, <2>5, StepKeeps DEF Admitted
<1>5. CASE ServerGateAsks(t)
  <2>1. /\ server[t] = "gate" /\ server' = [server EXCEPT ![t] = "cred"]
        /\ ToClient(t, "challenge") /\ UNCHANGED <<inputs, client, up, burned, unsaved, result>>
    BY <1>5 DEF ServerGateAsks, ServerMoves
  <2>2. /\ down' \in [Tunnels -> Seq(Messages)] /\ ToSet(down'[t]) = ToSet(down[t]) \cup {"challenge"}
        /\ \A u \in Tunnels \ {t} : down'[u] = down[u]
    <3>1. "challenge" \in Messages
      BY DEF Messages
    <3> QED BY <2>1, <3>1, WireSteps
  <2>3. TypeInv' /\ StepOf(t) /\ server'[t] = "cred"
    BY <2>1, <2>2 DEF TypeInv, StepOf, inputs
  <2>4. TunnelInv(t)'
    BY <1>1, <2>1, <2>2, <2>3, InputsKept DEF TunnelInv
  <2> QED BY <2>1, <2>3, <2>4, StepKeeps DEF Admitted
<1>6. CASE ServerGateChecks(t)
  <2>1. PICK m \in Secrets, saved \in BOOLEAN :
          /\ ServerReads(t, m)
          /\ ServerMoves(t, "cred",
                         IF PasswordGood(m) \/ (InviteGood(m) /\ saved) THEN "serve" ELSE "closed")
          /\ burned' = burned \cup ({m} \cap Tokens)
          /\ unsaved' = IF saved THEN unsaved ELSE unsaved \cup {t}
    BY <1>6 DEF ServerGateChecks
  <2>2. UNCHANGED <<inputs, client, down, result>>
    BY <1>6 DEF ServerGateChecks
  <2>3. /\ up' \in [Tunnels -> Seq(Messages)] /\ ToSet(up'[t]) \subseteq ToSet(up[t])
        /\ m \in ToSet(up[t]) /\ \A u \in Tunnels \ {t} : up'[u] = up[u]
    BY <2>1, WireSteps
  <2>4. m = Credential(t)
    BY <1>1, <2>3, SayProperties DEF TunnelInv
  <2>5. /\ server[t] = "cred" /\ TypeInv' /\ StepOf(t) /\ server'[t] \in {"serve", "closed"}
        /\ server'[t] = "serve" => PasswordGood(m) \/ InviteGood(m)
    BY <2>1, <2>2, <2>3 DEF TypeInv, StepOf, inputs, ServerMoves
  <2>6. server'[t] = "serve" => Opened(t)'
    BY <2>1, <2>2, <2>4, <2>5, InputsKept DEF Opened, PasswordGood, InviteGood
  <2>7. TunnelInv(t)'
    BY <1>1, <2>1, <2>2, <2>3, <2>5, <2>6, InputsKept DEF TunnelInv
  <2>8. Admitted(t)' => Admitted(t) \/ Credential(t) \notin burned
    <3>1. "right" \notin burned
      BY SayProperties DEF TypeInv
    <3> QED BY <2>2, <2>4, <2>5, <3>1 DEF Admitted, PasswordGood, InviteGood
  <2> QED BY <2>5, <2>7, <2>8, StepKeeps
<1>7. CASE Serve(t)
  <2>1. PICK m \in {"fetch", "push"} :
          ServerReads(t, m) /\ ToClient(t, IF Permits(m) THEN "pack" ELSE "error")
    BY <1>7 DEF Serve
  <2>2. /\ server[t] = "serve" /\ server' = [server EXCEPT ![t] = "served"]
        /\ UNCHANGED <<inputs, client, burned, unsaved, result>>
    BY <1>7 DEF Serve, ServerMoves
  <2>3. /\ up' \in [Tunnels -> Seq(Messages)] /\ ToSet(up'[t]) \subseteq ToSet(up[t])
        /\ m \in ToSet(up[t]) /\ \A u \in Tunnels \ {t} : up'[u] = up[u]
    BY <2>1, WireSteps
  <2>4. m = Request(t)
    BY <1>1, <2>3, SayProperties DEF TunnelInv
  <2>5. /\ down' \in [Tunnels -> Seq(Messages)]
        /\ "pack" \in ToSet(down'[t]) => "pack" \in ToSet(down[t]) \/ Permits(m)
        /\ \A u \in Tunnels \ {t} : down'[u] = down[u]
    <3>1. "pack" \in Messages /\ "error" \in Messages
      BY DEF Messages
    <3>2. CASE Permits(m)
      BY <2>1, <3>1, <3>2, WireSteps
    <3>3. CASE ~Permits(m)
      <4>1. ToSet(down'[t]) = ToSet(down[t]) \cup {"error"} /\ down' \in [Tunnels -> Seq(Messages)]
            /\ \A u \in Tunnels \ {t} : down'[u] = down[u]
        BY <2>1, <3>1, <3>3, WireSteps
      <4> QED BY <4>1
    <3> QED BY <3>2, <3>3
  <2>6. TypeInv' /\ StepOf(t) /\ server'[t] = "served"
    BY <2>2, <2>3, <2>5 DEF TypeInv, StepOf, inputs
  <2>7. TunnelInv(t)'
    BY <1>1, <2>2, <2>3, <2>4, <2>5, <2>6, InputsKept DEF TunnelInv
  <2> QED BY <2>2, <2>6, <2>7, StepKeeps DEF Admitted
<1>8. CASE ServerSeesEof(t)
  <2>1. /\ server[t] \in {"hello", "cred", "serve", "served"} /\ client[t] = "closed"
        /\ server' = [server EXCEPT ![t] = "closed"]
        /\ UNCHANGED <<inputs, client, up, down, burned, unsaved, result>>
    BY <1>8 DEF ServerSeesEof, ServerEof, wires
  <2>2. TypeInv' /\ StepOf(t) /\ server'[t] = "closed"
    BY <2>1 DEF TypeInv, StepOf, inputs
  <2>3. TunnelInv(t)'
    BY <1>1, <2>1, <2>2, InputsKept DEF TunnelInv
  <2> QED BY <2>1, <2>2, <2>3, StepKeeps DEF Admitted
<1> QED BY <1>2, <1>3, <1>4, <1>5, <1>6, <1>7, <1>8 DEF ServerStep

(* The invariant holds, however tunnels interleave.                        *)
LEMMA IInvHolds == Spec => []IInv
<1>1. IInv /\ [Next]_vars => IInv'
  <2> SUFFICES ASSUME IInv, [Next]_vars PROVE IInv'
    OBVIOUS
  <2>1. CASE UNCHANGED vars
    BY <2>1 DEF IInv, TypeInv, TunnelInv, Says, Opened, Credential, Request, Permits,
                InviteBringsOneIn, Admitted, vars, inputs, wires
  <2> QED BY <2>1, DialKeeps, ClientKeeps, ServerKeeps DEF Next
<1> QED BY <1>1, InitIInv, PTL DEF Spec

----------------------------------------------------------------------------------
(* No end of a tunnel gets past a check that any part of it owes: neither  *)
(* the host's daemon, past the operator and the gate, nor git, past all of *)
(* them and the pin (tunnel, handle).                                      *)
THEOREM OnlyEntitledPass == Spec => []OnlyTheEntitled
<1>1. IInv => OnlyTheEntitled
  <2> SUFFICES ASSUME IInv PROVE OnlyTheEntitled
    OBVIOUS
  <2>1. TypeOK
    BY DEF IInv, TypeInv, TunnelInv, TypeOK
  <2>2. ServedOnlyIfVetted
    BY DEF IInv, TunnelInv, Opened, ServedOnlyIfVetted
  <2>3. OkOnlyIfEntitled
    BY DEF IInv, TypeInv, TunnelInv, Opened, OkOnlyIfEntitled, MayEnter, Permits, Request
  <2> QED BY <2>1, <2>2, <2>3 DEF OnlyTheEntitled
<1> QED BY <1>1, IInvHolds, PTL

(* An invite brings one tunnel in, of any number that hold it.             *)
THEOREM InviteIsForOne == Spec => []InviteBringsOneIn
<1>1. IInv => InviteBringsOneIn
  BY DEF IInv
<1> QED BY <1>1, IInvHolds, PTL

(* A peer that does not match its pin is told nothing but the hello.       *)
THEOREM MismatchedPeerGetsNothing == Spec => []NothingToMismatchedPeer
<1>1. IInv => NothingToMismatchedPeer
  BY DEF IInv, TunnelInv, NothingToMismatchedPeer
<1> QED BY <1>1, IInvHolds, PTL

----------------------------------------------------------------------------------
(* Terminal.                                                               *)

(* Of a terminal: the columns it may report, none if it does not answer,   *)
(* and the input that may come from it, lines only where an operator sits. *)
Cols(p) == IF answers[p] THEN {1, 1 + width[p]} ELSE {}
Texts(p) == IF p = Host THEN Typed ELSE {}
Inputs(cols, texts) == {Report(col) : col \in cols} \cup {Key} \cup {Line(text) : text \in texts}

(* Owed columns o and unread input q are of these.                         *)
Fits(cols, texts, o, q) == o \in Seq(cols) /\ q \in Seq(Inputs(cols, texts))

(* Whether p probes for the second time; probes of p that may have timed   *)
(* out.                                                                    *)
Second(p) == p \in Redetect \ again
Probed(p) == (IF Second(p) THEN 1 ELSE 0)
             + (IF pc[p] \in {"start", "before", "after"} THEN 0 ELSE 1)

PlacesInv == /\ profile \in [Procs -> Profiles] /\ width \in [Procs -> {0, 1, 2}]
             /\ answers \in [Procs -> BOOLEAN]
ProbeInv == /\ pc \in [Procs -> {"start", "before", "after", "measured", "truncated",
                                 "again", "ready"}]
            /\ again \subseteq Redetect
            /\ leftover \in [Procs -> Nat] /\ turn \in {"leftover", "prompt"}
            /\ before \in [Procs -> 0..3]
            /\ \A p \in Procs : /\ pc[p] = "again" => p \in again
                                /\ leftover[p] <= Probed(p)
                                /\ pc[p] = "after" => before[p] \in Cols(p)
TtyInv == /\ DOMAIN owed = Procs /\ DOMAIN tty = Procs
          /\ \A p \in Procs : Fits(Cols(p), Texts(p), owed[p], tty[p])

(* Whoever says yes, in the file or in a command's memory, has measured.   *)
IsCapable(k) == \E p \in Procs : profile[p] = k /\ width[p] = 1 /\ answers[p]
CacheInv ==
  /\ cache \in [Profiles -> {"none", "yes", "no"}]
  /\ loaded \in [Procs -> [Profiles -> {"none", "yes", "no"}]]
  /\ \A k \in Profiles : cache[k] = "yes" => IsCapable(k)
  /\ \A p \in Procs : \A k \in Profiles : loaded[p][k] = "yes" => IsCapable(k)
  /\ written \subseteq Entries
  /\ \A k \in Profiles : <<k, "yes">> \in written => IsCapable(k)

(* Who is let in was said yes to, and so would be whoever is asked about   *)
(* now by any line that is queued.                                         *)
AskInv ==
  /\ approveMu \in Peers \cup {None} /\ shown \in Peers \cup {None}
  /\ stage \in [Peers -> {"absent", "new", "asked", "label", "admitted", "rejected"}]
  /\ said \subseteq Peers /\ ahead \subseteq Peers
  /\ \A x \in Peers : approveMu = x <=> stage[x] \in {"asked", "label"}
  /\ \A x \in Peers : stage[x] \in {"label", "admitted"} => x \in said \cup ahead
  /\ approveMu # None => shown = approveMu
LineInv ==
  approveMu # None /\ stage[approveMu] = "asked" /\ SaysYes => approveMu \in said \cup ahead
TerminalInv == PlacesInv /\ ProbeInv /\ TtyInv /\ CacheInv /\ AskInv /\ LineInv

(* What is known of an input, by its kind.                                 *)
LEMMA InputFacts ==
  ASSUME NEW cols, NEW texts, NEW i \in Inputs(cols, texts)
  PROVE  /\ i.kind \in {"report", "key", "line"}
         /\ i.kind = "report" => i.col \in cols
         /\ i.kind = "key" <=> i = Key
         /\ IsLine(i) <=> i.kind = "line"
         /\ i.kind = "line" => i.text \in texts /\ i = Line(i.text)
<1>1. CASE \E col \in cols : i = Report(col)
  BY <1>1 DEF Report, Key, Line, IsLine
<1>2. CASE i = Key
  BY <1>2 DEF Report, Key, Line, IsLine
<1>3. CASE \E text \in texts : i = Line(text)
  BY <1>3 DEF Report, Key, Line, IsLine
<1> QED BY <1>1, <1>2, <1>3 DEF Inputs

(* What is left of a sequence whose first d elements are dropped.          *)
LEMMA DropIndices ==
  ASSUME NEW S, NEW q \in Seq(S), NEW d \in 1..Len(q),
         NEW t, t = SubSeq(q, d + 1, Len(q))
  PROVE  /\ t \in Seq(S) /\ Len(t) = Len(q) - d /\ DOMAIN t = 1..(Len(q) - d)
         /\ \A i \in DOMAIN t : d + i \in DOMAIN q /\ d + i > d /\ t[i] = q[d + i]
<1>1. /\ Len(q) \in Nat /\ DOMAIN q = 1..Len(q)
      /\ \A i \in 1..Len(q) : q[i] \in S
  BY LenProperties, ElementOfSeq
<1>2. \A i \in (d + 1)..Len(q) : q[i] \in S
  BY <1>1
<1>3. d + 1 \in Int /\ Len(q) \in Int /\ Len(q) - (d + 1) + 1 = Len(q) - d
  BY <1>1
<1>4. /\ t \in Seq(S)
      /\ Len(t) = IF d + 1 <= Len(q) THEN Len(q) - (d + 1) + 1 ELSE 0
      /\ \A i \in 1..(Len(q) - (d + 1) + 1) : t[i] = q[d + 1 + i - 1]
  BY <1>2, <1>3, SubSeqProperties
<1>5. Len(t) = Len(q) - d
  <2>1. CASE d + 1 <= Len(q)
    BY <1>3, <1>4, <2>1
  <2>2. CASE d = Len(q)
    BY <1>1, <1>4, <2>2
  <2>3. d + 1 <= Len(q) \/ d = Len(q)
    <3>1. Len(q) \in Nat
      BY <1>1
    <3> QED BY <3>1
  <2> QED BY <2>1, <2>2, <2>3
<1>6. DOMAIN t = 1..(Len(q) - d)
  BY <1>4, <1>5, LenProperties
<1>7. ASSUME NEW i \in 1..(Len(q) - d)
      PROVE  d + i \in DOMAIN q /\ d + i > d /\ t[i] = q[d + i]
  <2>1. d + i \in 1..Len(q) /\ d + i > d /\ d + 1 + i - 1 = d + i
    BY <1>1
  <2>2. t[i] = q[d + 1 + i - 1]
    BY <1>3, <1>4
  <2> QED BY <1>1, <2>1, <2>2
<1> QED BY <1>4, <1>5, <1>6, <1>7

(* Input may be dropped from the front.                                    *)
LEMMA FitsDrop ==
  ASSUME NEW cols, NEW texts, NEW o, NEW q,
         Fits(cols, texts, o, q), NEW d \in 1..Len(q)
  PROVE  Fits(cols, texts, o, SubSeq(q, d + 1, Len(q)))
<1>1. PICK t : t = SubSeq(q, d + 1, Len(q))
  OBVIOUS
<1>2. o \in Seq(cols) /\ q \in Seq(Inputs(cols, texts))
  BY DEF Fits
<1>3. t \in Seq(Inputs(cols, texts))
  BY <1>1, <1>2, DropIndices
<1> QED BY <1>1, <1>2, <1>3 DEF Fits

(* The three arrivals are of such input.                                   *)
LEMMA FitsArrival ==
  ASSUME NEW cols, NEW texts, NEW o, NEW q, Fits(cols, texts, o, q)
  PROVE  /\ \A col \in cols : Fits(cols, texts, Append(o, col), q)
         /\ o # <<>> => Fits(cols, texts, Tail(o), Append(q, Report(Head(o))))
         /\ Fits(cols, texts, o, Append(q, Key))
         /\ \A text \in texts : Fits(cols, texts, o, Append(q, Line(text)))
<1>1. o \in Seq(cols) /\ q \in Seq(Inputs(cols, texts))
  BY DEF Fits
<1>2. \A i \in Inputs(cols, texts) : Append(q, i) \in Seq(Inputs(cols, texts))
  BY <1>1, AppendProperties
<1>3. ASSUME o # <<>> PROVE Fits(cols, texts, Tail(o), Append(q, Report(Head(o))))
  <2>1. Head(o) \in cols /\ Tail(o) \in Seq(cols)
    BY <1>1, <1>3, HeadTailProperties
  <2>2. Report(Head(o)) \in Inputs(cols, texts)
    BY <2>1 DEF Inputs
  <2> QED BY <1>2, <2>1, <2>2 DEF Fits
<1>4. Key \in Inputs(cols, texts) /\ \A text \in texts : Line(text) \in Inputs(cols, texts)
  BY DEF Inputs
<1>5. \A col \in cols : Append(o, col) \in Seq(cols)
  BY <1>1, AppendProperties
<1> QED BY <1>1, <1>2, <1>3, <1>4, <1>5 DEF Fits

(* A column that is read is dropped as the shortest front of the input.    *)
LEMMA FitsTail ==
  ASSUME NEW cols, NEW texts, NEW o, NEW q,
         Fits(cols, texts, o, q), q # <<>>
  PROVE  /\ Fits(cols, texts, o, Tail(q))
         /\ Head(q) \in Inputs(cols, texts)
<1>1. o \in Seq(cols) /\ q \in Seq(Inputs(cols, texts))
  BY DEF Fits
<1>2. Head(q) \in Inputs(cols, texts) /\ Tail(q) \in Seq(Inputs(cols, texts))
  BY <1>1, HeadTailProperties
<1> QED BY <1>1, <1>2 DEF Fits

(* What a terminal shows never changes, and so neither what may come of it.*)
LEMMA PlacesStay ==
  ASSUME PlacesInv, [TerminalNext]_terminalVars
  PROVE  /\ profile' = profile /\ width' = width /\ answers' = answers
         /\ PlacesInv' /\ \A p \in Procs : Cols(p)' = Cols(p)
<1>1. profile' = profile /\ width' = width /\ answers' = answers
  BY DEF TerminalNext, ProbeStep, PromptStep, Detect, Redetection, ColumnRead, Timeout,
     SaveTruncate, SaveWrite, LeftoverReadsRaw, Reports, TypesKey, TypesLine,
     LeftoverReadsLine, Ask, PromptReads, terminalVars, cacheVars
<1> QED BY <1>1 DEF PlacesInv, Cols

(* Where a probe may be after a step of it.                                *)
LEMMA PcSteps ==
  ASSUME ProbeInv, NEW p \in Procs, ProbeStep(p)
  PROVE  /\ \A q \in Procs \ {p} : pc'[q] = pc[q]
         /\ pc' \in [Procs -> {"start", "before", "after", "measured", "truncated",
                               "again", "ready"}]
         /\ pc'[p] = "again" => p \in again
         /\ pc[p] = "again" => p \in again
<1>1. CASE Detect(p)
  BY <1>1 DEF ProbeInv, Detect, Probe, Finish
<1>2. CASE Redetection(p)
  BY <1>2 DEF ProbeInv, Redetection, Probe
<1>3. CASE ColumnRead(p)
  BY <1>3 DEF ProbeInv, ColumnRead, Measured
<1>4. CASE Timeout(p)
  BY <1>4 DEF ProbeInv, Timeout, Measured
<1>5. CASE SaveTruncate(p)
  BY <1>5 DEF ProbeInv, SaveTruncate, Finish
<1>6. CASE SaveWrite(p)
  BY <1>6 DEF ProbeInv, SaveWrite, Finish
<1>7. CASE LeftoverReadsRaw(p)
  BY <1>7 DEF ProbeInv, LeftoverReadsRaw, probeVars
<1> QED BY <1>1, <1>2, <1>3, <1>4, <1>5, <1>6, <1>7 DEF ProbeStep

(* The line a cooked read ends with is one of the input.                   *)
LEMMA LinesAreInput ==
  ASSUME TtyInv, NEW e \in Lines
  PROVE  e \in 1..Len(tty[Host]) /\ IsLine(tty[Host][e])
<1>1. tty[Host] \in Seq(Inputs(Cols(Host), Texts(Host)))
  BY ProcAssumption DEF TtyInv, Fits
<1> QED BY <1>1, LenProperties DEF Lines

(* What a process's step does to what its terminal owes and holds.         *)
LEMMA OwedSteps ==
  ASSUME TtyInv, NEW r \in Procs, ProbeStep(r), NEW p \in Procs
  PROVE  /\ DOMAIN owed' = Procs
         /\ \/ owed'[p] = owed[p]
            \/ r = p /\ \E col \in Cols(p) : owed'[p] = Append(owed[p], col)
<1>1. ASSUME NEW col, Query(r, col), answers[r] => col \in Cols(r)
      PROVE  /\ DOMAIN owed' = Procs
             /\ \/ owed'[p] = owed[p]
                \/ r = p /\ \E c1 \in Cols(p) : owed'[p] = Append(owed[p], c1)
  BY <1>1 DEF TtyInv, Query
<1>2. answers[r] => 1 \in Cols(r) /\ 1 + width[r] \in Cols(r)
  BY DEF Cols
<1>3. owed' = owed \/ \E col \in {1, 1 + width[r]} : Query(r, col)
  BY DEF ProbeStep, Detect, Redetection, Probe, ColumnRead, Timeout, SaveTruncate, SaveWrite,
     LeftoverReadsRaw, ttyVars
<1> QED BY <1>1, <1>2, <1>3 DEF TtyInv

(* A step of a probe takes some of the oldest of an input, or nothing.     *)
LEMMA TtySteps ==
  ASSUME TtyInv, NEW r \in Procs, ProbeStep(r), NEW p \in Procs
  PROVE  /\ DOMAIN tty' = Procs
         /\ \/ tty'[p] = tty[p]
            \/ tty[p] # <<>> /\ tty'[p] = Tail(tty[p])
            \/ \E d \in 1..Len(tty[p]) : tty'[p] = SubSeq(tty[p], d + 1, Len(tty[p]))
<1>1. \/ tty' = tty
      \/ tty[r] # <<>> /\ tty' = [tty EXCEPT ![r] = Tail(@)]
      \/ \E d \in 1..Len(tty[r]) : tty' = [tty EXCEPT ![r] = SubSeq(@, d + 1, Len(@))]
  BY DEF ProbeStep, Detect, Redetection, ColumnRead, Timeout, SaveTruncate, SaveWrite,
     LeftoverReadsRaw, ttyVars
<1>2. CASE tty' = tty
  BY <1>2 DEF TtyInv
<1>3. CASE tty[r] # <<>> /\ tty' = [tty EXCEPT ![r] = Tail(@)]
  BY <1>3 DEF TtyInv
<1>4. ASSUME NEW d \in 1..Len(tty[r]), tty' = [tty EXCEPT ![r] = SubSeq(@, d + 1, Len(@))]
      PROVE  /\ DOMAIN tty' = Procs
             /\ tty'[p] = tty[p] \/ (r = p /\ tty'[p] = SubSeq(tty[p], d + 1, Len(tty[p])))
  BY <1>4 DEF TtyInv
<1> QED BY <1>1, <1>2, <1>3, <1>4

(* Input and what is owed stay of the terminal and its operator.           *)
LEMMA TtyInvPreserved ==
  ASSUME TerminalInv, [TerminalNext]_terminalVars
  PROVE  TtyInv'
<1> USE DEF TerminalInv
<1>1. \A p \in Procs : Cols(p)' = Cols(p) /\ Texts(p)' = Texts(p)
  BY PlacesStay DEF Texts
<1>2. /\ \A p \in Procs : Fits(Cols(p), Texts(p), owed[p], tty[p])
      /\ DOMAIN owed = Procs /\ DOMAIN tty = Procs
  BY DEF TtyInv
<1>3. ASSUME NEW r \in Procs, ProbeStep(r), NEW p \in Procs
      PROVE  /\ DOMAIN owed' = Procs /\ DOMAIN tty' = Procs
             /\ Fits(Cols(p), Texts(p), owed'[p], tty'[p])
  <2>1. DOMAIN owed' = Procs /\ DOMAIN tty' = Procs
    BY <1>3, OwedSteps, TtySteps
  <2>2. Fits(Cols(p), Texts(p), owed'[p], tty[p])
    <3>1. owed'[p] = owed[p] \/ \E col \in Cols(p) : owed'[p] = Append(owed[p], col)
      BY <1>3, OwedSteps
    <3> QED BY <1>2, <3>1, FitsArrival
  <2>3. Fits(Cols(p), Texts(p), owed'[p], tty'[p])
    <3>1. CASE tty'[p] = tty[p]
      BY <2>2, <3>1
    <3>2. CASE tty[p] # <<>> /\ tty'[p] = Tail(tty[p])
      BY <2>2, <3>2, FitsTail
    <3>3. CASE \E d \in 1..Len(tty[p]) : tty'[p] = SubSeq(tty[p], d + 1, Len(tty[p]))
      BY <2>2, <3>3, FitsDrop
    <3> QED BY <1>3, <3>1, <3>2, <3>3, TtySteps
  <2> QED BY <2>1, <2>3
<1>4. ASSUME NEW r \in Procs, Reports(r) PROVE TtyInv'
  <2>1. /\ owed[r] # <<>> /\ owed' = [owed EXCEPT ![r] = Tail(@)]
        /\ tty' = [tty EXCEPT ![r] = Append(@, Report(Head(owed[r])))]
    BY <1>4 DEF Reports, Arrives
  <2>2. Fits(Cols(r), Texts(r), Tail(owed[r]), Append(tty[r], Report(Head(owed[r]))))
    BY <1>2, <2>1, FitsArrival
  <2>3. ASSUME NEW p \in Procs PROVE Fits(Cols(p), Texts(p), owed'[p], tty'[p])
    BY <1>2, <2>1, <2>2
  <2>4. DOMAIN owed' = Procs /\ DOMAIN tty' = Procs
    BY <1>2, <2>1
  <2> QED BY <1>1, <2>3, <2>4 DEF TtyInv
<1>5. ASSUME NEW r \in Procs, TypesKey(r) PROVE TtyInv'
  <2>1. owed' = owed /\ tty' = [tty EXCEPT ![r] = Append(@, Key)]
    BY <1>5 DEF TypesKey, Arrives
  <2>2. Fits(Cols(r), Texts(r), owed[r], Append(tty[r], Key))
    BY <1>2, FitsArrival
  <2>3. ASSUME NEW p \in Procs PROVE Fits(Cols(p), Texts(p), owed'[p], tty'[p])
    BY <1>2, <2>1, <2>2
  <2>4. DOMAIN owed' = Procs /\ DOMAIN tty' = Procs
    BY <1>2, <2>1
  <2> QED BY <1>1, <2>3, <2>4 DEF TtyInv
<1>6. CASE TypesLine
  <2>1. PICK line \in Typed : owed' = owed /\ tty' = [tty EXCEPT ![Host] = Append(@, Line(line))]
    BY <1>6 DEF TypesLine, Arrives
  <2>2. Fits(Cols(Host), Texts(Host), owed[Host], Append(tty[Host], Line(line)))
    BY <1>2, ProcAssumption, FitsArrival DEF Texts
  <2> QED BY <1>1, <1>2, <2>1, <2>2, ProcAssumption DEF TtyInv
<1>7. ASSUME NEW e \in Lines, LineTaken(e), owed' = owed PROVE TtyInv'
  <2>1. e \in 1..Len(tty[Host])
    BY <1>7, LinesAreInput
  <2>2. Fits(Cols(Host), Texts(Host), owed[Host], SubSeq(tty[Host], e + 1, Len(tty[Host])))
    BY <1>2, <2>1, ProcAssumption, FitsDrop
  <2> QED BY <1>1, <1>2, <1>7, <2>2, ProcAssumption DEF TtyInv, LineTaken
<1>8. CASE LeftoverReadsLine \/ \E x \in Peers : PromptReads(x)
  BY <1>7, <1>8 DEF LeftoverReadsLine, PromptReads
<1>9. CASE UNCHANGED ttyVars
  BY <1>1, <1>2, <1>9 DEF TtyInv, ttyVars
<1>10. ASSUME NEW x \in Peers, Ask(x) PROVE UNCHANGED ttyVars
  BY <1>10 DEF Ask
<1>11. Procs # {}
  BY ProcAssumption
<1>12. (\E r \in Procs : ProbeStep(r)) => TtyInv'
  BY <1>1, <1>3, <1>11 DEF TtyInv
<1> QED BY <1>4, <1>5, <1>6, <1>8, <1>9, <1>10, <1>12
    DEF TerminalNext, PromptStep, terminalVars

(* No probe is forgotten, and one that times out is counted.               *)
LEMMA ProbedGrow ==
  ASSUME ProbeInv, NEW r \in Procs, ProbeStep(r), NEW p \in Procs
  PROVE  /\ Probed(p) \in Nat /\ Probed(p)' \in Nat /\ Probed(p)' >= Probed(p)
         /\ r = p /\ Timeout(r) => Probed(p)' >= Probed(p) + 1
<1>1. CASE Detect(r)
  BY <1>1 DEF ProbeInv, Detect, Probe, Finish, Probed, Second, Timeout, Raw
<1>2. CASE Redetection(r)
  BY <1>2 DEF ProbeInv, Redetection, Probe, Probed, Second, Timeout, Raw
<1>3. CASE ColumnRead(r)
  BY <1>3 DEF ProbeInv, ColumnRead, Measured, Raw, Probed, Second, Timeout
<1>4. CASE Timeout(r)
  BY <1>4 DEF ProbeInv, Timeout, Measured, Raw, Probed, Second
<1>5. CASE SaveTruncate(r)
  BY <1>5 DEF ProbeInv, SaveTruncate, Finish, Probed, Second, Timeout, Raw
<1>6. CASE SaveWrite(r)
  BY <1>6 DEF ProbeInv, SaveWrite, Finish, Probed, Second, Timeout, Raw
<1>7. CASE LeftoverReadsRaw(r)
  BY <1>7 DEF ProbeInv, LeftoverReadsRaw, Probed, Second, probeVars, Timeout, Raw, Measured
<1> QED BY <1>1, <1>2, <1>3, <1>4, <1>5, <1>6, <1>7 DEF ProbeStep

(* At most one goroutine is left of each probe, which reads a column in    *)
(* its terminal only.                                                      *)
LEMMA ProbeInvPreserved ==
  ASSUME TerminalInv, [TerminalNext]_terminalVars
  PROVE  ProbeInv'
<1> USE DEF TerminalInv
<1>1. /\ \A p \in Procs : Cols(p)' = Cols(p) /\ Cols(p) \subseteq 0..3
      /\ ProbeInv
  BY PlacesStay DEF Cols, PlacesInv
<1>2. ASSUME NEW r \in Procs, ProbeStep(r) PROVE ProbeInv'
  <2>1. /\ pc' \in [Procs -> {"start", "before", "after", "measured", "truncated",
                              "again", "ready"}]
        /\ \A p \in Procs \ {r} : pc'[p] = pc[p]
        /\ pc'[r] = "again" => r \in again
    BY <1>1, <1>2, PcSteps
  <2>2. /\ again' = again \/ (again' = again \ {r} /\ pc'[r] # "again")
        /\ turn' \in {"leftover", "prompt"}
    BY <1>1, <1>2 DEF ProbeInv, ProbeStep, Detect, Redetection, Probe, ColumnRead, Timeout,
       SaveTruncate, SaveWrite, LeftoverReadsRaw, ttyVars, probeVars
  <2>3. \A p \in Procs : pc'[p] = "again" => p \in again'
    BY <1>1, <2>1, <2>2 DEF ProbeInv
  <2>4. /\ leftover' \in [Procs -> Nat]
        /\ \A p \in Procs : leftover'[p] <= Probed(p)'
    <3>1. CASE Timeout(r)
      <4>1. leftover' = [leftover EXCEPT ![r] = @ + 1]
        BY <3>1 DEF Timeout
      <4>2. leftover' \in [Procs -> Nat]
        BY <1>1, <4>1 DEF ProbeInv
      <4>3. ASSUME NEW p \in Procs PROVE leftover'[p] <= Probed(p)'
        <5>1. /\ leftover[p] \in Nat /\ leftover[p] <= Probed(p)
              /\ leftover'[p] = leftover[p] + IF p = r THEN 1 ELSE 0
          BY <1>1, <4>1 DEF ProbeInv
        <5>2. /\ Probed(p) \in Nat /\ Probed(p)' \in Nat /\ Probed(p)' >= Probed(p)
              /\ r = p => Probed(p)' >= Probed(p) + 1
          BY <1>1, <1>2, <3>1, ProbedGrow
        <5> QED BY <5>1, <5>2
      <4> QED BY <4>2, <4>3
    <3>2. CASE ~Timeout(r)
      <4>1. \/ leftover' = leftover
            \/ leftover[r] > 0 /\ leftover' = [leftover EXCEPT ![r] = @ - 1]
        BY <1>2, <3>2 DEF ProbeStep, Detect, Redetection, ColumnRead,
           SaveTruncate, SaveWrite, LeftoverReadsRaw, ttyVars
      <4>2. leftover' \in [Procs -> Nat] /\ \A p \in Procs : leftover'[p] <= leftover[p]
        BY <1>1, <4>1 DEF ProbeInv
      <4>3. \A p \in Procs : Probed(p) \in Nat /\ Probed(p)' \in Nat /\ Probed(p)' >= Probed(p)
        BY <1>1, <1>2, ProbedGrow
      <4>4. ASSUME NEW p \in Procs PROVE leftover'[p] <= Probed(p)'
        <5>1. leftover[p] \in Nat /\ leftover'[p] \in Nat /\ leftover[p] <= Probed(p)
          BY <1>1, <4>2 DEF ProbeInv
        <5> QED BY <4>2, <4>3, <5>1
      <4> QED BY <4>2, <4>4
    <3> QED BY <3>1, <3>2
  <2>5. /\ before' \in [Procs -> 0..3]
        /\ \A p \in Procs : pc'[p] = "after" => before'[p] \in Cols(p)
    <3>1. CASE ColumnRead(r)
      <4>1. CASE pc[r] = "before" /\ pc'[r] = "after"
        <5>1. Fits(Cols(r), Texts(r), owed[r], tty[r])
          BY DEF TtyInv
        <5>2. /\ tty[r] # <<>>
              /\ Head(tty[r]).kind = "report"
              /\ before' = [before EXCEPT ![r] = Head(tty[r]).col]
          BY <1>1, <3>1, <4>1 DEF ColumnRead, Measured, ProbeInv
        <5>3. Head(tty[r]).col \in Cols(r)
          <6>1. PICK i \in Inputs(Cols(r), Texts(r)) : i = Head(tty[r])
            BY <5>1, <5>2, FitsTail
          <6> QED BY <5>2, <6>1, InputFacts
        <5> QED BY <1>1, <2>1, <5>2, <5>3 DEF ProbeInv
      <4>2. CASE ~(pc[r] = "before" /\ pc'[r] = "after")
        <5>1. pc'[r] # "after" /\ before' = before
          BY <1>1, <3>1, <4>2 DEF ColumnRead, Measured, ProbeInv
        <5> QED BY <1>1, <2>1, <5>1 DEF ProbeInv
      <4> QED BY <4>1, <4>2
    <3>2. CASE ~ColumnRead(r)
      <4>1. before' = before /\ (pc'[r] = "after" => pc[r] = "after")
        BY <1>1, <1>2, <3>2 DEF ProbeInv, ProbeStep, Detect, Redetection, Probe, Finish, Timeout,
           Measured, SaveTruncate, SaveWrite, LeftoverReadsRaw, probeVars
      <4> QED BY <1>1, <2>1, <4>1 DEF ProbeInv
    <3> QED BY <3>1, <3>2
  <2>6. again' \subseteq Redetect
    BY <1>1, <2>2 DEF ProbeInv
  <2> QED BY <1>1, <2>1, <2>2, <2>3, <2>4, <2>5, <2>6 DEF ProbeInv
<1>3. ASSUME UNCHANGED probeVars, turn' \in {"leftover", "prompt"},
             leftover' \in [Procs -> Nat], \A p \in Procs : leftover'[p] <= leftover[p]
      PROVE  ProbeInv'
  <2>1. pc' = pc /\ again' = again /\ before' = before
    BY <1>3 DEF probeVars
  <2>2. \A p \in Procs : Probed(p)' = Probed(p) /\ Probed(p) \in Nat
    BY <2>1 DEF Probed, Second
  <2>3. ASSUME NEW p \in Procs PROVE leftover'[p] <= Probed(p)'
    <3>1. leftover[p] \in Nat /\ leftover'[p] \in Nat /\ leftover[p] <= Probed(p)
      BY <1>1, <1>3 DEF ProbeInv
    <3> QED BY <1>3, <2>2, <3>1
  <2> QED BY <1>1, <1>3, <2>1, <2>3 DEF ProbeInv
<1>4. leftover \in [Procs -> Nat] /\ turn \in {"leftover", "prompt"} /\ Host \in Procs
  BY ProcAssumption DEF ProbeInv
<1>5. CASE LeftoverReadsLine
  <2>1. \/ leftover' = leftover
        \/ leftover[Host] > 0 /\ leftover' = [leftover EXCEPT ![Host] = @ - 1]
    BY <1>5 DEF LeftoverReadsLine
  <2>2. leftover' \in [Procs -> Nat] /\ \A p \in Procs : leftover'[p] <= leftover[p]
    BY <1>4, <2>1
  <2> QED BY <1>3, <1>5, <2>2 DEF LeftoverReadsLine
<1>6. ASSUME NEW x \in Peers, PromptStep(x) PROVE ProbeInv'
  BY <1>3, <1>4, <1>6 DEF PromptStep, Ask, PromptReads, ttyVars
<1>7. CASE TypesLine \/ \E p \in Procs : Reports(p) \/ TypesKey(p)
  BY <1>3, <1>4, <1>7 DEF TypesLine, Reports, TypesKey
<1>8. CASE UNCHANGED terminalVars
  BY <1>3, <1>4, <1>8 DEF terminalVars, ttyVars
<1> QED BY <1>2, <1>5, <1>6, <1>7, <1>8 DEF TerminalNext

(* A glyph is measured as one cell in a terminal only where it takes one:  *)
(* both columns are of it, whichever queries they answer.                  *)
LEMMA OneCellMeansNarrow ==
  ASSUME TerminalInv, NEW p \in Procs, pc[p] = "after", tty[p] # <<>>,
         OneCell(p, Head(tty[p]))
  PROVE  IsCapable(profile[p])
<1> USE DEF TerminalInv
<1>1. Fits(Cols(p), Texts(p), owed[p], tty[p])
  BY DEF TtyInv
<1>2. PICK i \in Inputs(Cols(p), Texts(p)) : i = Head(tty[p])
  BY <1>1, FitsTail
<1>3. i.col \in Cols(p) /\ before[p] \in Cols(p) /\ i.col - before[p] = 1
  BY <1>2, InputFacts DEF OneCell, ProbeInv
<1>4. width[p] = 1 /\ answers[p]
  BY <1>3 DEF Cols, PlacesInv
<1> QED BY <1>4 DEF IsCapable

(* A process's memory is what it read of the file and what it has measured.*)
LEMMA LoadedSteps ==
  ASSUME TerminalInv, NEW r \in Procs, ProbeStep(r)
  PROVE  /\ loaded' \in [Procs -> [Profiles -> {"none", "yes", "no"}]]
         /\ \A p \in Procs : \A k \in Profiles :
              loaded'[p][k] = "yes" => loaded[p][k] = "yes" \/ cache[k] = "yes" \/ IsCapable(k)
<1> USE DEF TerminalInv
<1> DEFINE Verdicts == {"none", "yes", "no"}
<1>1. /\ loaded \in [Procs -> [Profiles -> Verdicts]] /\ cache \in [Profiles -> Verdicts]
      /\ profile[r] \in Profiles
  BY DEF CacheInv, PlacesInv
<1>2. ASSUME NEW v \in Verdicts, loaded' = [loaded EXCEPT ![r][profile[r]] = v],
             v = "yes" => IsCapable(profile[r])
      PROVE  /\ loaded' \in [Procs -> [Profiles -> Verdicts]]
             /\ \A p \in Procs : \A k \in Profiles :
                  loaded'[p][k] = "yes" => loaded[p][k] = "yes" \/ IsCapable(k)
  BY <1>1, <1>2
<1>3. ASSUME NEW f \in [Profiles -> Verdicts], loaded' = [loaded EXCEPT ![r] = f],
             \A k \in Profiles : f[k] = "yes" => cache[k] = "yes"
      PROVE  /\ loaded' \in [Procs -> [Profiles -> Verdicts]]
             /\ \A p \in Procs : \A k \in Profiles :
                  loaded'[p][k] = "yes" => loaded[p][k] = "yes" \/ cache[k] = "yes"
  BY <1>1, <1>3
<1>4. ASSUME NEW f \in [Profiles -> Verdicts], Probe(r, f),
             \A k \in Profiles : f[k] = "yes" => cache[k] = "yes"
      PROVE  /\ loaded' \in [Procs -> [Profiles -> Verdicts]]
             /\ \A p \in Procs : \A k \in Profiles :
                  loaded'[p][k] = "yes" => loaded[p][k] = "yes" \/ cache[k] = "yes"
  <2>1. PICK g \in [Profiles -> Verdicts] :
          /\ loaded' = [loaded EXCEPT ![r] = g]
          /\ \A k \in Profiles : g[k] = "yes" => cache[k] = "yes"
    BY <1>1, <1>4 DEF Probe
  <2> QED BY <1>3, <2>1
<1>5. CASE Detect(r)
  <2>1. Probe(r, cache) \/ loaded' = loaded
    BY <1>5 DEF Detect
  <2> QED BY <1>1, <1>4, <2>1
<1>6. CASE Redetection(r)
  <2>1. PICK f \in [Profiles -> Verdicts] : f = [cache EXCEPT ![profile[r]] = "none"]
    BY <1>1
  <2>2. Probe(r, f) \/ loaded' = loaded
    BY <1>6, <2>1 DEF Redetection
  <2>3. \A k \in Profiles : f[k] = "yes" => cache[k] = "yes"
    BY <1>1, <2>1
  <2> QED BY <1>1, <1>4, <2>2, <2>3
<1>7. CASE ColumnRead(r)
  <2>1. CASE loaded' = loaded
    BY <1>1, <2>1
  <2>2. CASE loaded' # loaded
    <3>1. /\ tty[r] # <<>> /\ (pc[r] = "after" \/ Head(tty[r]).kind = "key")
          /\ Measured(r, OneCell(r, Head(tty[r])))
      BY <1>7, <2>2 DEF ColumnRead
    <3>2. PICK v \in Verdicts : v = IF OneCell(r, Head(tty[r])) THEN "yes" ELSE "no"
      OBVIOUS
    <3>3. loaded' = [loaded EXCEPT ![r][profile[r]] = v]
      BY <3>1, <3>2 DEF Measured
    <3>4. OneCell(r, Head(tty[r])) => pc[r] = "after"
      BY <3>1 DEF OneCell
    <3>5. v = "yes" => IsCapable(profile[r])
      BY <3>1, <3>2, <3>4, OneCellMeansNarrow
    <3> QED BY <1>2, <3>3, <3>5
  <2> QED BY <2>1, <2>2
<1>8. CASE Timeout(r)
  <2>1. loaded' = [loaded EXCEPT ![r][profile[r]] = "no"]
    BY <1>8 DEF Timeout, Measured
  <2> QED BY <1>2, <2>1
<1>9. CASE SaveTruncate(r) \/ SaveWrite(r) \/ LeftoverReadsRaw(r)
  BY <1>1, <1>9 DEF SaveTruncate, SaveWrite, LeftoverReadsRaw, cacheVars
<1> QED BY <1>5, <1>6, <1>7, <1>8, <1>9 DEF ProbeStep

(* What a save leaves in the file, and in its bytes, is of the saver or was*)
(* there, whatever text it was written over.                               *)
LEMMA SaveSteps ==
  ASSUME CacheInv, NEW r \in Procs, ProbeStep(r)
  PROVE  /\ cache' \in [Profiles -> {"none", "yes", "no"}] /\ written' \subseteq Entries
         /\ \A k \in Profiles : cache'[k] = "yes" \/ <<k, "yes">> \in written' => IsCapable(k)
<1> USE DEF CacheInv
<1>1. CASE UNCHANGED <<cache, written>>
  BY <1>1
<1>2. CASE SaveTruncate(r)
  BY <1>2 DEF SaveTruncate, NoProfiles
<1>3. CASE SaveWrite(r)
  <2>1. Own(r) \subseteq Entries /\ \A k \in Profiles : <<k, "yes">> \in Own(r) => IsCapable(k)
    BY DEF Own
  <2>2. \A f \in Mixed(r) : /\ f \in [Profiles -> {"none", "yes", "no"}]
                            /\ \A k \in Profiles : f[k] = "yes" => IsCapable(k)
    BY DEF Mixed
  <2>3. written' \in {Own(r), written \cup Own(r), written}
    BY <1>3 DEF SaveWrite
  <2>4. cache' \in {loaded[r], NoProfiles, cache} \cup Mixed(r)
    BY <1>3 DEF SaveWrite
  <2>5. written' \subseteq Entries /\ \A k \in Profiles : <<k, "yes">> \in written' => IsCapable(k)
    BY <2>1, <2>3
  <2>6. /\ cache' \in [Profiles -> {"none", "yes", "no"}]
        /\ \A k \in Profiles : cache'[k] = "yes" => IsCapable(k)
    <3>1. CASE cache' \in Mixed(r)
      BY <2>2, <3>1
    <3>2. CASE cache' \in {loaded[r], NoProfiles, cache}
      BY <3>2 DEF NoProfiles
    <3> QED BY <2>4, <3>1, <3>2
  <2> QED BY <2>5, <2>6
<1>4. CASE ~SaveTruncate(r) /\ ~SaveWrite(r)
  BY <1>1, <1>4 DEF ProbeStep, Detect, Redetection, ColumnRead, Timeout, LeftoverReadsRaw, cacheVars
<1> QED BY <1>2, <1>3, <1>4

(* A yes is only ever saved of a measurement or of what was loaded.        *)
LEMMA CacheInvPreserved ==
  ASSUME TerminalInv, [TerminalNext]_terminalVars
  PROVE  CacheInv'
<1> USE DEF TerminalInv
<1>1. \A k \in Profiles : IsCapable(k)' <=> IsCapable(k)
  BY PlacesStay DEF IsCapable
<1>2. CacheInv
  OBVIOUS
<1>3. ASSUME NEW r \in Procs, ProbeStep(r) PROVE CacheInv'
  <2>1. /\ cache' \in [Profiles -> {"none", "yes", "no"}] /\ written' \subseteq Entries
        /\ \A k \in Profiles : cache'[k] = "yes" \/ <<k, "yes">> \in written' => IsCapable(k)
    BY <1>2, <1>3, SaveSteps
  <2>2. /\ loaded' \in [Procs -> [Profiles -> {"none", "yes", "no"}]]
        /\ \A p \in Procs : \A k \in Profiles : loaded'[p][k] = "yes" => IsCapable(k)
    BY <1>2, <1>3, LoadedSteps DEF CacheInv
  <2> QED BY <1>1, <2>1, <2>2 DEF CacheInv, Entries
<1>4. CASE UNCHANGED cacheVars
  BY <1>1, <1>2, <1>4 DEF CacheInv, cacheVars, Entries
<1>5. ASSUME ~\E r \in Procs : ProbeStep(r) PROVE UNCHANGED cacheVars
  BY <1>5 DEF TerminalNext, Reports, TypesKey, TypesLine, LeftoverReadsLine, PromptStep, Ask,
     PromptReads, terminalVars
<1> QED BY <1>3, <1>4, <1>5

(* At the start nothing is asked for, owed or typed.                       *)
LEMMA TerminalInitInv ==
  TerminalInit => TerminalInv
<1> SUFFICES ASSUME TerminalInit PROVE TerminalInv
  OBVIOUS
<1>1. PlacesInv /\ ProbeInv
  BY ProcAssumption DEF TerminalInit, PlacesInv, ProbeInv, Probed, Second
<1>2. TtyInv
  <2>1. \A p \in Procs : owed[p] = <<>> /\ tty[p] = <<>>
    BY DEF TerminalInit
  <2>2. \A cols, texts : Fits(cols, texts, <<>>, <<>>)
    BY EmptySeq DEF Fits
  <2> QED BY <2>1, <2>2 DEF TerminalInit, TtyInv
<1>3. CacheInv
  BY DEF TerminalInit, CacheInv, NoProfiles
<1>4. AskInv
  BY ProcAssumption DEF TerminalInit, AskInv
<1>5. LineInv
  BY DEF TerminalInit, LineInv
<1> QED BY <1>1, <1>2, <1>3, <1>4, <1>5 DEF TerminalInv

(* Only a line that says yes gets the peer asked about any further.        *)
LEMMA AskInvPreserved ==
  ASSUME TerminalInv, [TerminalNext]_terminalVars
  PROVE  AskInv'
<1> USE DEF TerminalInv
<1>1. AskInv /\ LineInv /\ TtyInv
  OBVIOUS
<1>2. ASSUME NEW x \in Peers, Ask(x) PROVE AskInv'
  <2>1. ahead \subseteq ahead' /\ ahead' \subseteq Peers
    BY <1>1, <1>2 DEF Ask, AskInv
  <2> QED BY <1>1, <1>2, <2>1, ProcAssumption DEF AskInv, Ask, MuFree
<1>3. ASSUME NEW x \in Peers, PromptReads(x) PROVE AskInv'
  <2>1. approveMu = x /\ x # None
    BY <1>1, <1>3, ProcAssumption DEF AskInv, PromptReads
  <2>2. shown' = shown /\ said' = said /\ ahead' = ahead
    BY <1>3 DEF PromptReads
  <2>3. \/ Decide(x, "rejected")
        \/ /\ Decide(x, "admitted") \/ (stage' = [stage EXCEPT ![x] = "label"] /\ approveMu' = approveMu)
           /\ stage[x] = "asked" => SaysYes
           /\ stage[x] \in {"asked", "label"}
    BY <1>3 DEF PromptReads, SaysYes, Yes
  <2>4. \/ Decide(x, "rejected")
        \/ /\ Decide(x, "admitted") \/ (stage' = [stage EXCEPT ![x] = "label"] /\ approveMu' = approveMu)
           /\ x \in said \cup ahead
    BY <1>1, <2>1, <2>3 DEF AskInv, LineInv
  <2> QED BY <1>1, <2>1, <2>2, <2>4, ProcAssumption DEF AskInv, Decide
<1>4. CASE TypesLine
  <2>1. /\ approveMu' = approveMu /\ stage' = stage /\ shown' = shown /\ ahead' = ahead
        /\ said' = said \/ (shown # None /\ said' = said \cup {shown})
    BY <1>4 DEF TypesLine
  <2>2. said' \subseteq Peers /\ said \subseteq said'
    BY <1>1, <2>1 DEF AskInv
  <2> QED BY <1>1, <2>1, <2>2 DEF AskInv
<1>5. CASE UNCHANGED askVars
  BY <1>1, <1>5 DEF AskInv, askVars
<1>6. ASSUME NEW r \in Procs, ProbeStep(r) \/ Reports(r) \/ TypesKey(r)
      PROVE  UNCHANGED askVars
  BY <1>6 DEF ProbeStep, Detect, Redetection, ColumnRead, Timeout, SaveTruncate, SaveWrite,
     LeftoverReadsRaw, Reports, TypesKey
<1> QED BY <1>2, <1>3, <1>4, <1>5, <1>6
    DEF TerminalNext, PromptStep, LeftoverReadsLine, terminalVars

(* Reading takes lines away and no other input adds any.                   *)
LEMMA YesSteps ==
  ASSUME TtyInv, tty[Host] \in Seq(Inputs(Cols(Host), Texts(Host)))
  PROVE  /\ \A d \in 1..Len(tty[Host]) :
              tty'[Host] = SubSeq(tty[Host], d + 1, Len(tty[Host])) => (SaysYes' => SaysYes)
         /\ \A e \in Inputs(Cols(Host), Texts(Host)) :
              tty'[Host] = Append(tty[Host], e)
              => (SaysYes' => SaysYes \/ (IsLine(e) /\ e.text \in Yes))
<1> DEFINE q == tty[Host] S == Inputs(Cols(Host), Texts(Host))
<1>1. Len(q) \in Nat /\ DOMAIN q = 1..Len(q)
  BY LenProperties
<1>2. SaysYes <=> \E i \in DOMAIN q : IsLine(q[i]) /\ q[i].text \in Yes
  BY DEF SaysYes, Lines
<1>3. PICK r : r = tty'[Host]
  OBVIOUS
<1>4. SaysYes' <=> \E i \in DOMAIN r : IsLine(r[i]) /\ r[i].text \in Yes
  BY <1>3 DEF SaysYes, Lines, IsLine, Yes
<1>5. ASSUME NEW d \in 1..Len(q), r = SubSeq(q, d + 1, Len(q)) PROVE SaysYes' => SaysYes
  <2>1. \A i \in DOMAIN r : d + i \in DOMAIN q /\ r[i] = q[d + i]
    BY <1>5, DropIndices
  <2> QED BY <1>2, <1>4, <2>1
<1>6. ASSUME NEW e \in S, r = Append(q, e)
      PROVE  SaysYes' => SaysYes \/ (IsLine(e) /\ e.text \in Yes)
  <2>1. /\ r \in Seq(S) /\ Len(r) = Len(q) + 1 /\ r[Len(q) + 1] = e
        /\ \A i \in 1..Len(q) : r[i] = q[i]
    BY <1>6, AppendProperties
  <2>2. DOMAIN r = 1..(Len(q) + 1)
    BY <2>1, LenProperties
  <2>3. \A i \in DOMAIN r : r[i] = e \/ (i \in DOMAIN q /\ r[i] = q[i])
    BY <1>1, <2>1, <2>2
  <2> QED BY <1>2, <1>4, <2>3
<1> QED BY <1>3, <1>5, <1>6

(* A yes that is queued was there when the peer asked about was shown, or  *)
(* was typed since.                                                        *)
LEMMA LineInvPreserved ==
  ASSUME TerminalInv, [TerminalNext]_terminalVars
  PROVE  LineInv'
<1> USE DEF TerminalInv
<1>1. AskInv /\ LineInv /\ TtyInv /\ Host \in Procs
  BY ProcAssumption
<1> DEFINE q == tty[Host] S == Inputs(Cols(Host), Texts(Host))
<1>2. q \in Seq(S) /\ Len(q) \in Nat
  BY <1>1, LenProperties DEF TtyInv, Fits
<1>3. ASSUME UNCHANGED <<approveMu, stage, said, ahead>>, SaysYes' => SaysYes
      PROVE  LineInv'
  BY <1>1, <1>3 DEF LineInv
<1>4. ASSUME tty'[Host] = q PROVE SaysYes' => SaysYes
  BY <1>4 DEF SaysYes, Lines, IsLine, Yes
<1>5. ASSUME NEW r \in Procs, ProbeStep(r) PROVE LineInv'
  <2>1. UNCHANGED <<approveMu, stage, said, ahead>>
    BY <1>5 DEF ProbeStep, Detect, Redetection, ColumnRead, Timeout, SaveTruncate, SaveWrite,
       LeftoverReadsRaw, askVars
  <2>2. \/ tty'[Host] = q
        \/ \E d \in 1..Len(q) : tty'[Host] = SubSeq(q, d + 1, Len(q))
    <3>1. q # <<>> => 1 \in 1..Len(q) /\ Tail(q) = SubSeq(q, 1 + 1, Len(q))
      BY <1>2, EmptySeq, TailIsSubSeq
    <3> QED BY <1>1, <1>5, <3>1, TtySteps
  <2> QED BY <1>1, <1>2, <1>3, <1>4, <2>1, <2>2, YesSteps
<1>6. ASSUME NEW r \in Procs, Reports(r) \/ TypesKey(r) PROVE LineInv'
  <2>1. UNCHANGED <<approveMu, stage, said, ahead>>
    BY <1>6 DEF Reports, TypesKey, askVars
  <2>2. \E e \in S : ~IsLine(e) /\ (tty'[Host] = q \/ tty'[Host] = Append(q, e))
    <3>1. Key \in S /\ ~IsLine(Key)
      BY DEF Inputs, Key, IsLine
    <3>2. CASE TypesKey(r)
      BY <1>1, <3>1, <3>2 DEF TypesKey, Arrives, TtyInv
    <3>3. CASE Reports(r) /\ r # Host
      BY <1>1, <3>1, <3>3 DEF Reports, Arrives, TtyInv
    <3>4. CASE Reports(r) /\ r = Host
      <4>1. owed[Host] \in Seq(Cols(Host)) /\ owed[Host] # <<>>
        BY <1>1, <3>4 DEF TtyInv, Fits, Reports
      <4>2. Head(owed[Host]) \in Cols(Host)
        BY <4>1, HeadTailProperties
      <4>3. Report(Head(owed[Host])) \in S /\ ~IsLine(Report(Head(owed[Host])))
        BY <4>2 DEF Inputs, Report, IsLine
      <4>4. tty'[Host] = Append(q, Report(Head(owed[Host])))
        BY <1>1, <3>4 DEF Reports, Arrives, TtyInv
      <4> QED BY <4>3, <4>4
    <3> QED BY <1>6, <3>2, <3>3, <3>4
  <2> QED BY <1>1, <1>2, <1>3, <1>4, <2>1, <2>2, YesSteps
<1>7. CASE TypesLine
  <2>1. PICK line \in Typed :
          /\ tty' = [tty EXCEPT ![Host] = Append(@, Line(line))]
          /\ said' = IF shown # None /\ stage[shown] = "asked" /\ line \in Yes
                     THEN said \cup {shown} ELSE said
    BY <1>7 DEF TypesLine, Arrives
  <2>2. UNCHANGED <<approveMu, stage, ahead>>
    BY <1>7 DEF TypesLine
  <2>3. Line(line) \in S /\ Line(line).text = line
    BY DEF Inputs, Texts, Line
  <2>4. SaysYes' => SaysYes \/ line \in Yes
    BY <1>1, <1>2, <2>1, <2>3, YesSteps DEF TtyInv
  <2>5. ASSUME approveMu # None, stage[approveMu] = "asked", SaysYes'
        PROVE  approveMu \in said' \cup ahead
    BY <1>1, <2>1, <2>4, <2>5 DEF AskInv, LineInv
  <2> QED BY <2>2, <2>5 DEF LineInv
<1>8. ASSUME NEW e \in Lines, LineTaken(e) PROVE SaysYes' => SaysYes
  <2>1. e \in 1..Len(q) /\ tty'[Host] = SubSeq(q, e + 1, Len(q))
    BY <1>1, <1>8, LinesAreInput DEF TtyInv, LineTaken
  <2> QED BY <1>1, <1>2, <2>1, YesSteps
<1>9. CASE LeftoverReadsLine
  BY <1>3, <1>8, <1>9 DEF LeftoverReadsLine, askVars
<1>10. ASSUME NEW x \in Peers, PromptReads(x) PROVE LineInv'
  <2>1. approveMu = x
    BY <1>1, <1>10, ProcAssumption DEF AskInv, PromptReads
  <2>2. approveMu' = None \/ (approveMu' = x /\ stage'[x] = "label")
    BY <1>1, <1>10, <2>1 DEF AskInv, PromptReads, Decide
  <2> QED BY <2>2 DEF LineInv
<1>11. ASSUME NEW x \in Peers, Ask(x) PROVE LineInv'
  <2>1. tty' = tty /\ approveMu' = x /\ (SaysYes => x \in ahead')
    BY <1>11 DEF Ask, ttyVars
  <2>2. SaysYes' => SaysYes
    BY <1>4, <2>1
  <2> QED BY <2>1, <2>2 DEF LineInv
<1>12. CASE UNCHANGED terminalVars
  BY <1>3, <1>4, <1>12 DEF terminalVars, ttyVars, askVars
<1> QED BY <1>5, <1>6, <1>7, <1>9, <1>10, <1>11, <1>12 DEF TerminalNext, PromptStep

(* What TerminalOK bounds: two leftovers, of a command that probes twice.  *)
LEMMA TerminalInvTypeOK ==
  TerminalInv => TerminalOK
<1> SUFFICES ASSUME TerminalInv PROVE TerminalOK
  OBVIOUS
<1> USE DEF TerminalInv
<1>1. \A p \in Procs : Probed(p) \in 0..2
  BY DEF Probed
<1>2. leftover \in [Procs -> 0..2]
  <2>1. \A p \in Procs : leftover[p] \in 0..2
    BY <1>1 DEF ProbeInv
  <2> QED BY <2>1 DEF ProbeInv
<1>3. ASSUME NEW p \in Procs
      PROVE  \A i \in DOMAIN tty[p] : tty[p][i].kind \in {"report", "key", "line"}
  <2>1. tty[p] \in Seq(Inputs(Cols(p), Texts(p)))
    BY DEF TtyInv, Fits
  <2>2. \A i \in DOMAIN tty[p] : tty[p][i] \in Inputs(Cols(p), Texts(p))
    BY <2>1, LenProperties, ElementOfSeq
  <2> QED BY <2>2, InputFacts
<1> QED BY <1>2, <1>3 DEF TerminalOK, ProbeInv, CacheInv, AskInv

(* The invariant holds all the time a terminal is used.                    *)
LEMMA TerminalInvariance ==
  TerminalSpec => []TerminalInv
<1>1. TerminalInv /\ [TerminalNext]_terminalVars => TerminalInv'
  BY PlacesStay, ProbeInvPreserved, TtyInvPreserved, CacheInvPreserved, AskInvPreserved,
     LineInvPreserved DEF TerminalInv
<1> QED BY <1>1, TerminalInitInv, PTL DEF TerminalSpec

(* Whoever is cached as capable has measured one cell.                     *)
THEOREM CapableWasMeasured ==
  TerminalSpec => []GlyphWasMeasured
<1>1. TerminalInv => GlyphWasMeasured
  BY DEF TerminalInv, CacheInv, IsCapable, GlyphWasMeasured
<1> QED BY <1>1, TerminalInvariance, PTL

(* No peer is let in but by a yes that was typed while it was shown or that*)
(* was queued then: not by a column, nor by a line another prompt took.    *)
THEOREM AdmittedOnAnAnswer ==
  TerminalSpec => []AdmittedAsAnswered
<1>1. TerminalInv => AdmittedAsAnswered
  BY TerminalInvTypeOK DEF TerminalInv, AskInv, AdmittedAsAnswered
<1> QED BY <1>1, TerminalInvariance, PTL
===================================================================================
