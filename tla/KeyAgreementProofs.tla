---------------------------- MODULE KeyAgreementProofs ----------------------------
(***************************************************************************)
(* What KeyAgreement keeps for any number of connections and of faults:    *)
(* the keys of an end are those its hello and the one it heard derive, so  *)
(* that equal keys say who heard whom.                                     *)
(***************************************************************************)
EXTENDS KeyAgreement, TLAPS

(* A hello with an identity key wherever one is asked for.                 *)
WellFormed(h) == h \in Hellos /\ (authenticated => h.id \in Keys)

IInv == /\ authenticated \in BOOLEAN
        /\ eph \in [Ends -> EphKeys]
        /\ \A a, b \in Ends : eph[a] = eph[b] => a = b
        /\ stage \in [Ends -> {"new", "sent", "done", "failed"}]
        /\ heard \in [Ends -> Hellos \cup {None}]
        /\ \A e \in Ends : stage[e] = "done" => WellFormed(heard[e])
        /\ keys = [e \in Ends |-> IF stage[e] = "done" THEN SessionKeys(e, heard[e]) ELSE None]
        /\ cut \subseteq Ends
        /\ nFaults \in 0..MaxFaults

Derived(e, info) == DeriveKey(Master(e, heard[e]), TranscriptSalt(eph[e], heard[e].eph), info)
SendLabel(e) == IF e \in Initiators THEN "atob" ELSE "btoa"
RecvLabel(e) == IF e \in Initiators THEN "btoa" ELSE "atob"

----------------------------------------------------------------------------------
(* Keys are numbers, and an ephemeral key is nobody's identity.            *)
LEMMA KeyProperties ==
  /\ EphKeys \subseteq Keys /\ Junk \subseteq Keys /\ Keys \subseteq Nat
  /\ \A e \in Ends : IdOf[e] \in Keys /\ IdOf[e] \notin EphKeys
  /\ Range(IdOf) \subseteq Keys
<1>1. /\ \A e \in Ends : IdOf[e] \in Range(IdOf) /\ IdOf[e] \in Nat
      /\ \A i \in Range(IdOf) : i \in Nat
  BY KeyAssumption DEF Range
<1>2. /\ EphKeys \subseteq Nat /\ Junk \subseteq Nat
      /\ \A k \in EphKeys : k \notin Range(IdOf)
  BY KeyAssumption
<1> QED BY <1>1, <1>2 DEF Keys

(* A sorted pair says which two keys it is of, and not which came first.   *)
LEMMA SortedProperties ==
  ASSUME NEW a \in Keys, NEW b \in Keys
  PROVE  /\ Sorted(a, b) \in Secrets
         /\ Sorted(a, b) = Sorted(b, a)
         /\ \A c, d \in Keys : Sorted(a, b) = Sorted(c, d) => (a = c /\ b = d) \/ (a = d /\ b = c)
<1>1. a \in Nat /\ b \in Nat
  BY KeyProperties
<1>2. ASSUME NEW c \in Keys, NEW d \in Keys, Sorted(a, b) = Sorted(c, d)
      PROVE  (a = c /\ b = d) \/ (a = d /\ b = c)
  BY <1>2 DEF Sorted
<1> QED BY <1>1, <1>2 DEF Sorted, Secrets

(* Before orders secrets: two of them in either order sort alike.          *)
LEMMA BeforeOrders ==
  ASSUME NEW s \in Secrets, NEW t \in Secrets
  PROVE  /\ Before(s, t) \/ Before(t, s)
         /\ Before(s, t) /\ Before(t, s) => s = t
<1>1. /\ s[1] \in Nat /\ s[2] \in Nat /\ t[1] \in Nat /\ t[2] \in Nat
      /\ s = <<s[1], s[2]>> /\ t = <<t[1], t[2]>>
  <2>1. \A u \in Secrets : u[1] \in Keys /\ u[2] \in Keys /\ u = <<u[1], u[2]>>
    BY DEF Secrets
  <2>2. \A k \in Keys : k \in Nat
    BY KeyProperties
  <2> QED BY <2>1, <2>2
<1> QED BY <1>1 DEF Before

(* The master secret is made of the ephemeral secret and of the two cross  *)
(* secrets, sorted (handshakeAuth).                                        *)
LEMMA MasterProperties ==
  ASSUME IInv, NEW e \in Ends, NEW h, WellFormed(h)
  PROVE  LET m == Master(e, h)
             es == Sorted(eph[e], h.id)
             se == Sorted(IdOf[e], h.eph)
         IN  /\ m \in [ee : Secrets, lo : Secrets \cup {None}, hi : Secrets \cup {None}]
             /\ m.ee = Sorted(eph[e], h.eph)
             /\ ~authenticated => m.lo = None /\ m.hi = None
             /\ authenticated => /\ es \in Secrets /\ se \in Secrets
                                 /\ Before(es, se) => m.lo = es /\ m.hi = se
                                 /\ ~Before(es, se) => m.lo = se /\ m.hi = es
<1> DEFINE es == Sorted(eph[e], h.id)
           se == Sorted(IdOf[e], h.eph)
           ee == Sorted(eph[e], h.eph)
<1>1. /\ eph[e] \in Keys /\ h.eph \in Keys /\ IdOf[e] \in Keys
      /\ authenticated => h.id \in Keys
  BY KeyProperties DEF IInv, WellFormed, Hellos
<1>2. ee \in Secrets /\ se \in Secrets /\ (authenticated => es \in Secrets)
  BY <1>1, SortedProperties
<1>3. Master(e, h) = [ee |-> ee,
                      lo |-> IF ~authenticated THEN None ELSE IF Before(es, se) THEN es ELSE se,
                      hi |-> IF ~authenticated THEN None ELSE IF Before(es, se) THEN se ELSE es]
  BY DEF Master, DH
<1> HIDE DEF es, se, ee
<1> QED BY <1>2, <1>3 DEF es, se, ee

(* The keys of an end that is done.                                        *)
LEMMA KeysOfDone ==
  ASSUME IInv, NEW e \in Done
  PROVE  /\ e \in Ends /\ WellFormed(heard[e])
         /\ keys[e].send = Derived(e, SendLabel(e))
         /\ keys[e].recv = Derived(e, RecvLabel(e))
<1>1. e \in Ends /\ stage[e] = "done" /\ WellFormed(heard[e])
  BY DEF Done, IInv
<1>2. keys[e] = SessionKeys(e, heard[e])
  BY <1>1 DEF IInv
<1>3. SessionKeys(e, heard[e]) = [send |-> Derived(e, SendLabel(e)), recv |-> Derived(e, RecvLabel(e))]
  BY DEF SessionKeys, Derived, SendLabel, RecvLabel
<1> QED BY <1>1, <1>2, <1>3

(* Equal keys have equal parts (deriveKey).                                *)
LEMMA DerivedEqual ==
  ASSUME NEW a, NEW b, NEW i, NEW j, Derived(a, i) = Derived(b, j)
  PROVE  /\ Master(a, heard[a]) = Master(b, heard[b])
         /\ TranscriptSalt(eph[a], heard[a].eph) = TranscriptSalt(eph[b], heard[b].eph)
         /\ i = j
BY DEF Derived, DeriveKey

----------------------------------------------------------------------------------
(* Every end has an ephemeral key of its own, and nothing else yet.        *)
LEMMA InitIInv ==
  Init => IInv
<1> SUFFICES ASSUME Init PROVE IInv
  OBVIOUS
<1>1. eph \in [Ends -> EphKeys] /\ \A a, b \in Ends : eph[a] = eph[b] => a = b
  BY DEF Init, Injection, IsInjective
<1>2. keys = [e \in Ends |-> IF stage[e] = "done" THEN SessionKeys(e, heard[e]) ELSE None]
  BY DEF Init
<1> QED BY <1>1, <1>2, FaultAssumption DEF Init, IInv

(* Hellos, as sent and as changed on the way, are well formed.             *)
LEMMA HelloWellFormed ==
  ASSUME IInv
  PROVE  /\ \A e \in Ends : WellFormed(Hello(e))
         /\ \A h \in Altered : WellFormed(h)
<1>1. ASSUME NEW e \in Ends PROVE WellFormed(Hello(e))
  <2>1. eph[e] \in Keys /\ IdOf[e] \in Keys
    BY KeyProperties DEF IInv
  <2> QED BY <2>1 DEF Hello, WellFormed, Hellos
<1>2. ASSUME NEW h \in Altered PROVE WellFormed(h)
  <2>1. Range(eph) \subseteq Keys
    BY KeyProperties DEF IInv, Range
  <2> QED BY <2>1, KeyProperties DEF Altered, WellFormed, Hellos
<1> QED BY <1>1, <1>2

(* An end that hears a hello has its keys or fails.                        *)
LEMMA HearPreserves ==
  ASSUME IInv, NEW e \in Ends, NEW h, WellFormed(h), Hear(e, h), nFaults' \in 0..MaxFaults
  PROVE  IInv'
<1>1. /\ heard' = [heard EXCEPT ![e] = h] /\ stage[e] = "sent"
      /\ UNCHANGED <<authenticated, eph, cut>>
  BY DEF Hear
<1>2. /\ \A d \in Ends : SessionKeys(d, heard[d])' = SessionKeys(d, heard'[d])
      /\ \A g : WellFormed(g)' = WellFormed(g)
  BY <1>1 DEF SessionKeys, Master, WellFormed
<1>3. /\ heard' \in [Ends -> Hellos \cup {None}] /\ heard'[e] = h
      /\ \A d \in Ends \ {e} : heard'[d] = heard[d]
  BY <1>1 DEF IInv, WellFormed
<1>4. CASE stage' = [stage EXCEPT ![e] = "done"] /\ keys' = [keys EXCEPT ![e] = SessionKeys(e, h)]
  <2>1. keys' = [d \in Ends |-> IF stage'[d] = "done" THEN SessionKeys(d, heard'[d]) ELSE None]
    BY <1>3, <1>4 DEF IInv
  <2> QED BY <1>1, <1>2, <1>3, <1>4, <2>1 DEF IInv
<1>5. CASE stage' = [stage EXCEPT ![e] = "failed"] /\ UNCHANGED keys
  <2>1. keys' = [d \in Ends |-> IF stage'[d] = "done" THEN SessionKeys(d, heard'[d]) ELSE None]
    BY <1>1, <1>3, <1>5 DEF IInv
  <2> QED BY <1>1, <1>2, <1>3, <1>5, <2>1 DEF IInv
<1> QED BY <1>4, <1>5 DEF Hear

(* Every step keeps the invariant.                                         *)
LEMMA IInvPreserved ==
  ASSUME IInv, [Next]_vars
  PROVE  IInv'
<1>1. ASSUME UNCHANGED <<authenticated, eph, heard, keys>>,
             stage' \in [Ends -> {"new", "sent", "done", "failed"}],
             \A e \in Ends : stage'[e] = "done" <=> stage[e] = "done",
             cut' \subseteq Ends, nFaults' \in 0..MaxFaults
      PROVE  IInv'
  <2>1. /\ \A d \in Ends : SessionKeys(d, heard[d])' = SessionKeys(d, heard[d])
        /\ \A g : WellFormed(g)' = WellFormed(g)
    BY <1>1 DEF SessionKeys, Master, WellFormed
  <2>2. keys = [d \in Ends |-> IF stage'[d] = "done" THEN SessionKeys(d, heard[d]) ELSE None]
    BY <1>1 DEF IInv
  <2> QED BY <1>1, <2>1, <2>2 DEF IInv
<1>2. ASSUME NEW e \in Ends, Send(e) \/ GiveUp(e) PROVE IInv'
  BY <1>1, <1>2 DEF Send, GiveUp, IInv
<1>3. ASSUME NEW e \in Ends, Receive(e) PROVE IInv'
  <2>1. PeerOf[e] \in Ends
    BY PeerAssumption
  <2> QED BY <1>3, <2>1, HelloWellFormed, HearPreserves DEF Receive, IInv
<1>4. ASSUME NEW e \in Ends, Substitute(e) PROVE IInv'
  <2>1. nFaults' \in 0..MaxFaults
    BY <1>4, FaultAssumption DEF Substitute, IInv
  <2> QED BY <1>4, <2>1, HelloWellFormed, HearPreserves DEF Substitute
<1>5. ASSUME NEW e \in Ends, Cut(e) PROVE IInv'
  <2>1. nFaults' \in 0..MaxFaults /\ cut' \subseteq Ends
    BY <1>5, FaultAssumption, PeerAssumption DEF Cut, IInv
  <2> QED BY <1>1, <1>5, <2>1 DEF Cut, IInv
<1>6. CASE UNCHANGED vars
  BY <1>1, <1>6 DEF vars, IInv
<1> QED BY <1>2, <1>3, <1>4, <1>5, <1>6 DEF Next, EndStep

(* The invariant holds, whatever is changed on the way.                    *)
LEMMA IInvHolds == Spec => []IInv
<1>1. IInv /\ [Next]_vars => IInv'
  BY IInvPreserved
<1> QED BY <1>1, InitIInv, PTL DEF Spec

----------------------------------------------------------------------------------
(* An end returns keys, of the right make, if and only if it is done.      *)
LEMMA KeysAreTyped ==
  ASSUME IInv
  PROVE  TypeOK
<1>1. ASSUME NEW e \in Ends, stage[e] = "done"
      PROVE  keys[e].send \in DerivedKeys /\ keys[e].recv \in DerivedKeys
  <2>1. /\ WellFormed(heard[e]) /\ keys[e].send = Derived(e, SendLabel(e))
        /\ keys[e].recv = Derived(e, RecvLabel(e))
    BY <1>1, KeysOfDone DEF Done
  <2> DEFINE m == Master(e, heard[e])
             s == TranscriptSalt(eph[e], heard[e].eph)
  <2>2. m \in [ee : Secrets, lo : Secrets \cup {None}, hi : Secrets \cup {None}]
    BY <2>1, MasterProperties
  <2>3. s \in Secrets
    BY <2>1, KeyProperties, SortedProperties DEF TranscriptSalt, IInv, WellFormed, Hellos
  <2> HIDE DEF m, s
  <2>4. \A i \in {"atob", "btoa"} : [master |-> m, salt |-> s, info |-> i] \in DerivedKeys
    BY <2>2, <2>3 DEF DerivedKeys
  <2>5. \A i \in {"atob", "btoa"} : Derived(e, i) \in DerivedKeys
    BY <2>4 DEF Derived, DeriveKey, m, s
  <2> QED BY <2>1, <2>5 DEF SendLabel, RecvLabel
<1>2. \A e \in Ends : stage[e] # "done" => keys[e] = None
  BY DEF IInv
<1> QED BY <1>1, <1>2 DEF IInv, TypeOK

(* Two ends whose keys come from one salt heard each other.                *)
LEMMA SaltTells ==
  ASSUME IInv, NEW a \in Done, NEW b \in Done, a # b,
         TranscriptSalt(eph[a], heard[a].eph) = TranscriptSalt(eph[b], heard[b].eph)
  PROVE  heard[a].eph = eph[b] /\ heard[b].eph = eph[a]
<1>1. /\ a \in Ends /\ b \in Ends /\ eph[a] # eph[b]
      /\ eph[a] \in Keys /\ eph[b] \in Keys /\ heard[a].eph \in Keys /\ heard[b].eph \in Keys
  BY KeysOfDone, KeyProperties DEF IInv, WellFormed, Hellos
<1> QED BY <1>1, SortedProperties DEF TranscriptSalt

(* If what they agree on is authenticated, each has the other's identity:  *)
(* the cross secrets of one end are those of the other, and an identity is *)
(* no ephemeral key.                                                       *)
LEMMA MasterTells ==
  ASSUME IInv, authenticated, NEW a \in Done, NEW b \in Done, a # b,
         heard[a].eph = eph[b], heard[b].eph = eph[a],
         Master(a, heard[a]) = Master(b, heard[b])
  PROVE  heard[a].id = IdOf[b] /\ heard[b].id = IdOf[a]
<1> DEFINE es(e) == Sorted(eph[e], heard[e].id)
           se(e) == Sorted(IdOf[e], heard[e].eph)
<1>1. /\ a \in Ends /\ b \in Ends /\ WellFormed(heard[a]) /\ WellFormed(heard[b])
      /\ eph[a] # eph[b] /\ eph[a] # IdOf[a] /\ eph[b] # IdOf[b] /\ eph[a] # IdOf[b] /\ eph[b] # IdOf[a]
      /\ eph[a] \in Keys /\ eph[b] \in Keys /\ IdOf[a] \in Keys /\ IdOf[b] \in Keys
      /\ heard[a].id \in Keys /\ heard[b].id \in Keys
  <2>1. a \in Ends /\ b \in Ends /\ WellFormed(heard[a]) /\ WellFormed(heard[b])
    BY KeysOfDone
  <2> QED BY <2>1, KeyProperties DEF IInv, WellFormed
<1>2. (es(a) = es(b) /\ se(a) = se(b)) \/ (es(a) = se(b) /\ se(a) = es(b))
  <2>1. ASSUME NEW e \in {a, b}
        PROVE  \/ Master(e, heard[e]).lo = es(e) /\ Master(e, heard[e]).hi = se(e)
               \/ Master(e, heard[e]).lo = se(e) /\ Master(e, heard[e]).hi = es(e)
    BY <1>1, MasterProperties
  <2> QED BY <2>1
<1>3. se(a) # se(b)
  BY <1>1, SortedProperties
<1>4. es(a) = se(b) /\ se(a) = es(b)
  BY <1>2, <1>3
<1>5. Sorted(eph[a], heard[a].id) = Sorted(IdOf[b], eph[a])
  BY <1>4
<1>6. Sorted(IdOf[a], eph[b]) = Sorted(eph[b], heard[b].id)
  BY <1>4
<1> QED BY <1>1, <1>5, <1>6, SortedProperties

(* Whatever is changed on the way: ends that share a key heard each other, *)
(* share both keys, and have each other's identity to judge (handshake,    *)
(* handshakeAuth).                                                         *)
THEOREM SharingIsMutual == Spec => []PairedIsMutual
<1>1. IInv => PairedIsMutual
  <2> SUFFICES ASSUME IInv, NEW a \in Done, NEW b \in Done, keys[a].recv = keys[b].send
               PROVE  /\ keys[a].send = keys[b].recv
                      /\ heard[a].eph = eph[b] /\ heard[b].eph = eph[a]
                      /\ authenticated => heard[a].id = IdOf[b] /\ heard[b].id = IdOf[a]
    BY KeysAreTyped DEF PairedIsMutual
  <2>1. Derived(a, RecvLabel(a)) = Derived(b, SendLabel(b))
    BY KeysOfDone
  <2>2. /\ Master(a, heard[a]) = Master(b, heard[b])
        /\ TranscriptSalt(eph[a], heard[a].eph) = TranscriptSalt(eph[b], heard[b].eph)
        /\ RecvLabel(a) = SendLabel(b)
    BY <2>1, DerivedEqual
  <2>3. a # b /\ SendLabel(a) = RecvLabel(b)
    BY <2>2 DEF RecvLabel, SendLabel
  <2>4. heard[a].eph = eph[b] /\ heard[b].eph = eph[a]
    BY <2>2, <2>3, SaltTells
  <2>5. keys[a].send = keys[b].recv
    BY <2>2, <2>3, KeysOfDone DEF Derived
  <2> QED BY <2>2, <2>3, <2>4, <2>5, MasterTells
<1> QED BY <1>1, IInvHolds, PTL

(* Undisturbed, both ends derive the same keys: the salt and the cross     *)
(* secrets are sorted, and the other way round they are the other's        *)
(* (transcriptSalt, handshakeAuth).                                        *)
THEOREM PeersAgree == Spec => []UndisturbedAgree
<1>1. IInv => UndisturbedAgree
  <2> SUFFICES ASSUME IInv, NEW e \in Done, NEW p \in Done, p = PeerOf[e],
                      heard[e] = Hello(p), heard[p] = Hello(e)
               PROVE  keys[e].send = keys[p].recv /\ keys[e].recv = keys[p].send
    BY DEF UndisturbedAgree
  <2>1. /\ e \in Ends /\ p \in Ends /\ WellFormed(heard[e]) /\ WellFormed(heard[p])
        /\ eph[e] \in Keys /\ eph[p] \in Keys /\ IdOf[e] \in Keys /\ IdOf[p] \in Keys
        /\ heard[e].eph = eph[p] /\ heard[p].eph = eph[e]
        /\ authenticated => heard[e].id = IdOf[p] /\ heard[p].id = IdOf[e]
    <3>1. e \in Ends /\ p \in Ends /\ WellFormed(heard[e]) /\ WellFormed(heard[p])
      BY KeysOfDone
    <3>2. eph[e] \in Keys /\ eph[p] \in Keys /\ IdOf[e] \in Keys /\ IdOf[p] \in Keys
      BY <3>1, KeyProperties DEF IInv
    <3>3. /\ heard[e].eph = eph[p] /\ heard[p].eph = eph[e]
          /\ authenticated => heard[e].id = IdOf[p] /\ heard[p].id = IdOf[e]
      BY DEF Hello
    <3> QED BY <3>1, <3>2, <3>3
  <2>2. TranscriptSalt(eph[e], heard[e].eph) = TranscriptSalt(eph[p], heard[p].eph)
    BY <2>1, SortedProperties DEF TranscriptSalt
  <2>3. Master(e, heard[e]) = Master(p, heard[p])
    <3> DEFINE m == Master(e, heard[e])
               n == Master(p, heard[p])
               R == [ee : Secrets, lo : Secrets \cup {None}, hi : Secrets \cup {None}]
    <3>1. m \in R /\ n \in R
      BY <2>1, MasterProperties
    <3>2. m.ee = n.ee
      BY <2>1, MasterProperties, SortedProperties
    <3>3. m.lo = n.lo /\ m.hi = n.hi
      <4>1. CASE ~authenticated
        BY <2>1, <4>1, MasterProperties
      <4>2. CASE authenticated
        <5> DEFINE s == Sorted(eph[e], IdOf[p])
                   t == Sorted(IdOf[e], eph[p])
        <5>1. /\ s \in Secrets /\ t \in Secrets
              /\ s = Sorted(IdOf[p], eph[e]) /\ t = Sorted(eph[p], IdOf[e])
          BY <2>1, SortedProperties
        <5>2. /\ Before(s, t) => m.lo = s /\ m.hi = t
              /\ ~Before(s, t) => m.lo = t /\ m.hi = s
              /\ Before(t, s) => n.lo = t /\ n.hi = s
              /\ ~Before(t, s) => n.lo = s /\ n.hi = t
          BY <2>1, <4>2, <5>1, MasterProperties
        <5> HIDE DEF s, t, m, n
        <5> QED BY <5>1, <5>2, BeforeOrders
      <4> QED BY <4>1, <4>2
    <3> HIDE DEF m, n
    <3>4. m = n
      BY <3>1, <3>2, <3>3
    <3> QED BY <3>4 DEF m, n
  <2>4. SendLabel(e) = RecvLabel(p) /\ RecvLabel(e) = SendLabel(p)
    BY <2>1, PeerAssumption DEF SendLabel, RecvLabel
  <2> QED BY <2>2, <2>3, <2>4, KeysOfDone DEF Derived
<1> QED BY <1>1, IInvHolds, PTL

(* An end that heard its peer shares the key it writes under with no other *)
(* end: who has the same salt is that peer, which has the other label      *)
(* (deriveKey, transcriptSalt).                                            *)
THEOREM SendKeysAreUnique == Spec => []SendKeysUnique
<1>1. IInv => SendKeysUnique
  <2> SUFFICES ASSUME IInv, NEW a \in Done, NEW b \in Done, a # b,
                      heard[a] = Hello(PeerOf[a]), keys[a].send = keys[b].send
               PROVE  FALSE
    BY DEF SendKeysUnique
  <2>1. /\ TranscriptSalt(eph[a], heard[a].eph) = TranscriptSalt(eph[b], heard[b].eph)
        /\ SendLabel(a) = SendLabel(b)
    BY KeysOfDone, DerivedEqual
  <2>2. a \in Ends /\ b \in Ends /\ PeerOf[a] \in Ends
    BY KeysOfDone, PeerAssumption
  <2>3. eph[b] = eph[PeerOf[a]]
    BY <2>1, SaltTells DEF Hello
  <2>4. b = PeerOf[a]
    BY <2>2, <2>3 DEF IInv
  <2> QED BY <2>1, <2>2, <2>4, PeerAssumption DEF SendLabel
<1> QED BY <1>1, IInvHolds, PTL
=================================================================================
