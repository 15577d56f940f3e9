------------------------------- MODULE KeyAgreement -------------------------------
(***************************************************************************)
(* The handshakes of package e2e: both ends of a connection send a hello,  *)
(* an ephemeral public key and, in handshakeAuth, an identity public key,  *)
(* and each derives its two directional keys from what it heard.           *)
(*                                                                         *)
(* Arithmetic is symbolic: a private key and its public key are one        *)
(* number, a Diffie-Hellman result is the sorted pair of its two keys, and *)
(* a derived key is the triple of the secret, the salt and the label it    *)
(* came from.  Numbers stand for byte strings, so they have an order.      *)
(***************************************************************************)
EXTENDS Integers, FiniteSets, Functions

CONSTANTS Ends,       \* ends of connections, two to a connection
          PeerOf,     \* PeerOf[e]: the other end of e's connection
          Initiators, \* the ends that dialed
          IdOf,       \* IdOf[e]: the identity key of the process e runs in
          EphKeys,    \* keys that GenerateKey may return
          Junk,       \* keys nobody holds, 0 among them
          None,
          MaxFaults   \* bound: hellos changed on the way and connections cut

Keys == EphKeys \cup Range(IdOf) \cup Junk

ASSUME PeerAssumption == /\ PeerOf \in [Ends -> Ends]
                         /\ Initiators \subseteq Ends
                         /\ \A e \in Ends : /\ PeerOf[PeerOf[e]] = e
                                            /\ (e \in Initiators) # (PeerOf[e] \in Initiators)
ASSUME KeyAssumption == /\ IdOf \in [Ends -> Nat \ {0}]
                        /\ EphKeys \subseteq Nat \ {0} /\ Junk \subseteq Nat
                        /\ EphKeys \cap Range(IdOf) = {}
                        /\ Junk \cap (EphKeys \cup Range(IdOf)) = {}
ASSUME FaultAssumption == MaxFaults \in Nat

VARIABLES authenticated, \* handshakeAuth, or the plain handshake
          eph,           \* eph[e]: the ephemeral key e generates
          stage,         \* stage[e]: where the handshake of e stands
          heard,         \* heard[e]: the hello e read, None before
          keys,          \* keys[e]: the sessionKeys e returned, None before
          cut,           \* ends whose connection is cut
          nFaults        \* hellos changed and connections cut so far

vars == <<authenticated, eph, stage, heard, keys, cut, nFaults>>

Hellos == [eph : Keys, id : Keys \cup {None}]
Secrets == Keys \X Keys
DerivedKeys == [master : [ee : Secrets, lo : Secrets \cup {None}, hi : Secrets \cup {None}],
                salt : Secrets, info : {"atob", "btoa"}]

TypeOK == /\ authenticated \in BOOLEAN
          /\ eph \in [Ends -> EphKeys]
          /\ stage \in [Ends -> {"new", "sent", "done", "failed"}]
          /\ heard \in [Ends -> Hellos \cup {None}]
          /\ \A e \in Ends : IF stage[e] = "done"
                             THEN keys[e].send \in DerivedKeys /\ keys[e].recv \in DerivedKeys
                             ELSE keys[e] = None
          /\ cut \subseteq Ends
          /\ nFaults \in 0..MaxFaults

Init == /\ authenticated \in BOOLEAN
        /\ eph \in Injection(Ends, EphKeys)
        /\ stage = [e \in Ends |-> "new"]
        /\ heard = [e \in Ends |-> None]
        /\ keys = [e \in Ends |-> None]
        /\ cut = {}
        /\ nFaults = 0

----------------------------------------------------------------------------------
Sorted(a, b) == IF a <= b THEN <<a, b>> ELSE <<b, a>>
DH(a, b) == Sorted(a, b)
Before(s, t) == s[1] < t[1] \/ (s[1] = t[1] /\ s[2] <= t[2])

(* Faulty variants of operators below: cross terms left as each side       *)
(* computes them; both left out; a label that is not bound into the key.   *)
MasterUnsorted(e, h) == [ee |-> DH(eph[e], h.eph),
                         lo |-> IF authenticated THEN DH(eph[e], h.id) ELSE None,
                         hi |-> IF authenticated THEN DH(IdOf[e], h.eph) ELSE None]
MasterWithoutIds(e, h) == [ee |-> DH(eph[e], h.eph), lo |-> None, hi |-> None]
DeriveUnlabelled(master, salt, info) == [master |-> master, salt |-> salt, info |-> "atob"]

(* The master secret: ephemeral-ephemeral, then the two cross terms in     *)
(* sorted order, which the two ends compute the other way round.           *)
Master(e, h) ==
  LET es == DH(eph[e], h.id)
      se == DH(IdOf[e], h.eph)
  IN  [ee |-> DH(eph[e], h.eph),
       lo |-> IF ~authenticated THEN None ELSE IF Before(es, se) THEN es ELSE se,
       hi |-> IF ~authenticated THEN None ELSE IF Before(es, se) THEN se ELSE es]

TranscriptSalt(mine, peers) == Sorted(mine, peers)
DeriveKey(master, salt, info) == [master |-> master, salt |-> salt, info |-> info]

SessionKeys(e, h) ==
  LET derived(info) == DeriveKey(Master(e, h), TranscriptSalt(eph[e], h.eph), info)
  IN  IF e \in Initiators THEN [send |-> derived("atob"), recv |-> derived("btoa")]
                          ELSE [send |-> derived("btoa"), recv |-> derived("atob")]

(* ECDH refuses a key whose result is all zero.                            *)
Usable(h) == h.eph # 0 /\ (authenticated => h.id # 0)

----------------------------------------------------------------------------------
Hello(e) == [eph |-> eph[e], id |-> IF authenticated THEN IdOf[e] ELSE None]

(* Both ends write first; 64 bytes fit the socket's buffer.                *)
Send(e) == /\ stage[e] = "new"
           /\ e \notin cut
           /\ stage' = [stage EXCEPT ![e] = "sent"]
           /\ UNCHANGED <<authenticated, eph, heard, keys, cut, nFaults>>

Hear(e, h) == /\ stage[e] = "sent"
              /\ heard' = [heard EXCEPT ![e] = h]
              /\ IF Usable(h)
                 THEN /\ stage' = [stage EXCEPT ![e] = "done"]
                      /\ keys' = [keys EXCEPT ![e] = SessionKeys(e, h)]
                 ELSE /\ stage' = [stage EXCEPT ![e] = "failed"]
                      /\ UNCHANGED keys
              /\ UNCHANGED <<authenticated, eph, cut>>

HasSent(e) == stage[e] \in {"sent", "done"} \/ heard[e] # None
Receive(e) == /\ e \notin cut
              /\ HasSent(PeerOf[e])
              /\ Hear(e, Hello(PeerOf[e]))
              /\ UNCHANGED nFaults

(* A hello changed on the way: keys of other hellos, halves of two, the    *)
(* reader's own sent back, or keys nobody holds.                           *)
Altered == [eph : Range(eph) \cup Junk,
            id : IF authenticated THEN Range(IdOf) \cup Junk ELSE {None}]
Substitute(e) == /\ nFaults < MaxFaults
                 /\ \E h \in Altered \ {Hello(PeerOf[e])} : Hear(e, h)
                 /\ nFaults' = nFaults + 1

(* The connection is cut, or closed by the end that failed.  An error of   *)
(* an end's own, before it sends, is to its peer one more cut.             *)
MayFail(e) == e \in cut \/ stage[PeerOf[e]] = "failed"
GiveUp(e) == /\ stage[e] \in {"new", "sent"}
             /\ MayFail(e)
             /\ stage' = [stage EXCEPT ![e] = "failed"]
             /\ UNCHANGED <<authenticated, eph, heard, keys, cut, nFaults>>

Cut(e) == /\ nFaults < MaxFaults
          /\ e \notin cut
          /\ cut' = cut \cup {e, PeerOf[e]}
          /\ nFaults' = nFaults + 1
          /\ UNCHANGED <<authenticated, eph, stage, heard, keys>>

EndStep(e) == Send(e) \/ Receive(e) \/ GiveUp(e)
Next == \E e \in Ends : EndStep(e) \/ Substitute(e) \/ Cut(e)

Spec == Init /\ [][Next]_vars

----------------------------------------------------------------------------------
Done == {e \in Ends : stage[e] = "done"}

(* What one end reads with, another end writes with, only if each heard    *)
(* the other, whatever was changed on the way and however many connections *)
(* a process has; authenticated, each also returned the other's identity to*)
(* be judged; and no keys come with an error (handshakeAuth, handshake).   *)
PairedIsMutual ==
  TypeOK /\ \A a, b \in Done :
    keys[a].recv = keys[b].send =>
      /\ keys[a].send = keys[b].recv
      /\ heard[a].eph = eph[b] /\ heard[b].eph = eph[a]
      /\ authenticated => heard[a].id = IdOf[b] /\ heard[b].id = IdOf[a]

(* Ends that heard each other agree, whoever sorts first (transcriptSalt,  *)
(* the cross terms of handshakeAuth).                                      *)
UndisturbedAgree ==
  \A e \in Done : LET p == PeerOf[e] IN
    (p \in Done /\ heard[e] = Hello(p) /\ heard[p] = Hello(e))
      => keys[e].send = keys[p].recv /\ keys[e].recv = keys[p].send

(* An end that heard its own peer writes under a key nobody else writes    *)
(* under, not even that peer: their frame counters start at the same       *)
(* number (deriveKey, transcriptSalt).                                     *)
SendKeysUnique ==
  \A a, b \in Done :
    a # b /\ heard[a] = Hello(PeerOf[a]) => keys[a].send # keys[b].send
=================================================================================
