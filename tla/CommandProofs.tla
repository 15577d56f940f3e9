------------------------------- MODULE CommandProofs -------------------------------
(***************************************************************************)
(* What IdentityStore keeps for any number of commands that make the key   *)
(* at once, fail or are killed, alone and under a command that looks its   *)
(* peer up first: every step on the key needs to know who has left what in *)
(* a temporary file, by how far its command has come.  Then what a listing *)
(* shows (Discovery), what Lookup keeps of an announcement and which host  *)
(* it takes a name for, and that an invite reads back as it was printed    *)
(* (Tokens).  Sections on the last two begin with inductions on Nat and on *)
(* sequences, stated of sets, as recursive functions have to be followed.  *)
(***************************************************************************)
EXTENDS Command, Discovery, FiniteSetTheorems, SequenceTheorems, TLAPS

(* A command has no temporary file before os.CreateTemp and after the      *)
(* rename or an os.Remove that did not fail, and a key it renames is its   *)
(* own, whole; so identity.key is never cut short.                         *)
TmpInv == \A p \in Procs :
  /\ pc[p] \in {"idle", "generated", "renamed", "running"} => tmp[p] = None
  /\ pc[p] = "failed" => p \in stuck \/ tmp[p] = None
  /\ pc[p] = "written" => tmp[p] = p
IInv == TypeOK /\ TmpInv /\ file # "part"

(* An absent key and no temporary files.                                   *)
LEMMA InitIInv ==
  Init => IInv
BY NoneAssumption, PartAssumption DEF Init, IInv, TypeOK, TmpInv, FileContents, Making

(* One case per operation of writeSecretFile, and the end of a command.    *)
LEMMA IInvPreserved ==
  ASSUME IInv, [Next]_vars
  PROVE  IInv'
<1> USE NoneAssumption, PartAssumption
    DEF IInv, TypeOK, TmpInv, FileContents, Making, Moves
<1>1. ASSUME NEW p \in Procs, Step(p) PROVE IInv'
  <2>1. CASE Load(p)
    <3>1. file = None \/ (file # None /\ file \in Procs)
          \/ (file # None /\ file \notin Procs)
      OBVIOUS
    <3> QED BY <2>1, <3>1 DEF Load
  <2>2. CASE LoadFails(p)
    BY <2>2 DEF LoadFails
  <2>3. CASE Create(p)
    BY <2>3 DEF Create
  <2>4. CASE Write(p)
    BY <2>4 DEF Write
  <2>5. CASE Rename(p)
    BY <2>5 DEF Rename
  <2>6. CASE Secure(p)
    BY <2>6 DEF Secure
  <2>7. CASE WriteFails(p)
    BY <2>7 DEF WriteFails
  <2>8. CASE RemoveTmp(p)
    BY <2>8 DEF RemoveTmp
  <2>9. CASE Crash(p)
    BY <2>9 DEF Crash
  <2> QED
    BY <1>1, <2>1, <2>2, <2>3, <2>4, <2>5, <2>6, <2>7, <2>8, <2>9 DEF Step
<1>2. CASE UNCHANGED vars
  BY <1>2 DEF vars
<1> QED BY <1>1, <1>2 DEF Next

(* The invariant, of the commands that load or make the identity.          *)
LEMMA IInvHolds ==
  Spec => []IInv
BY InitIInv, IInvPreserved, PTL DEF Spec

(* No command that ended in an error leaves a private key in a temporary   *)
(* file that could be removed, and none runs without an identity, whatever *)
(* commands overlap (writeSecretFile's deferred os.Remove,                 *)
(* LoadOrCreateIdentity).                                                  *)
THEOREM NoTmpIsLeft ==
  Spec => []NoTmpLeft
<1>1. IInv => NoTmpLeft
  BY DEF IInv, TmpInv, NoTmpLeft
<1> QED BY <1>1, IInvHolds, PTL

(* Only a rename changes identity.key, and what it puts there is a whole   *)
(* key: no reader ever finds a part of one, or none where there was one.   *)
LEMMA StepKeepsKeyWhole ==
  ASSUME IInv, [Next]_vars
  PROVE  file' # "part" /\ (file # None => file' # None)
<1>1. file' = file \/ \E p \in Procs : Rename(p)
  BY DEF Next, Step, Load, LoadFails, Create, Write, Secure, WriteFails, RemoveTmp,
         Crash, vars
<1>2. ASSUME NEW p \in Procs, Rename(p) PROVE file' = p
  BY <1>2 DEF IInv, TmpInv, Rename, Moves
<1> QED BY <1>1, <1>2, NoneAssumption, PartAssumption DEF IInv

(* Whoever makes the key, fails or is killed, no step leaves part of one   *)
(* in identity.key or takes a key away (writeSecretFile's rename).         *)
THEOREM KeyIsKeptWhole ==
  Spec => KeyStaysWhole
<1>1. IInv /\ [Next]_vars => [file' # "part" /\ (file # None => file' # None)]_vars
  BY StepKeepsKeyWhole
<1> QED BY <1>1, IInvHolds, PTL DEF Spec, KeyStaysWhole

----------------------------------------------------------------------------------
(* A step of the command on an invite, on the registry or on the address   *)
(* leaves the key alone; any other is a step of IdentityStore.             *)
LEMMA CommandStepsOnKey ==
  ASSUME [CommandNext]_commandVars
  PROVE  [Next]_vars
BY DEF CommandNext, HandOver, LookUp, DestExists, UseIdentity, Address, Next, commandVars

(* What a command does to identity.key and its temporary files, with the   *)
(* look-up of the peer before it and of the address after it, is what      *)
(* LoadOrCreateIdentity alone may do (clientForPeer).                      *)
THEOREM CommandImplementsIdentityStore ==
  CommandSpec => Spec
<1>1. CommandInit => Init
  BY DEF CommandInit
<1>2. [CommandNext]_commandVars => [Next]_vars
  BY CommandStepsOnKey
<1> QED BY <1>1, <1>2, PTL DEF CommandSpec, Spec

(* So clone, pull, push and session join leave no private key behind and   *)
(* no part of one in identity.key.                                         *)
COROLLARY CommandKeepsKey ==
  CommandSpec => []NoTmpLeft /\ KeyStaysWhole
BY CommandImplementsIdentityStore, NoTmpIsLeft, KeyIsKeptWhole

----------------------------------------------------------------------------------
(* Cutting a name short twice is cutting it once, to the shorter length.   *)
LEMMA ShortProperties ==
  ASSUME NEW s \in Seq(Nat), NEW m \in Nat, NEW n \in Nat
  PROVE  /\ Short(s, n) \in Seq(Nat)
         /\ IsPrefix(Short(s, n), s)
         /\ m <= n => Short(Short(s, n), m) = Short(s, m)
<1> DEFINE least(k) == IF Len(s) > k THEN k ELSE Len(s)
<1>1. \A k \in Nat : /\ least(k) \in 0..Len(s) /\ Short(s, k) = SubSeq(s, 1, least(k))
                     /\ Short(s, k) \in Seq(Nat) /\ Len(Short(s, k)) = least(k)
                     /\ \A i \in 1..least(k) : Short(s, k)[i] = s[i]
  BY SubSeqProperties DEF Short
<1>2. Len(s) \in Nat
  BY LenProperties
<1>3. IsPrefix(Short(s, n), s)
  <2>1. SubSeq(Short(s, n), 1, Len(Short(s, n))) = Short(s, n)
    BY <1>1, SubSeqFull
  <2>2. Len(Short(s, n)) = least(n) /\ Short(s, n) = SubSeq(s, 1, least(n))
    BY <1>1
  <2>3. least(n) <= Len(s)
    BY <1>2
  <2> QED BY <2>1, <2>2, <2>3 DEF IsPrefix
<1>4. ASSUME m <= n PROVE Short(Short(s, n), m) = Short(s, m)
  <2> DEFINE t == Short(s, n)
  <2>1. t \in Seq(Nat) /\ Len(t) = least(n) /\ \A i \in 1..least(n) : t[i] = s[i]
    BY <1>1
  <2> HIDE DEF t
  <2>2. (IF Len(t) > m THEN m ELSE Len(t)) = least(m)
    BY <1>2, <1>4, <2>1
  <2>3. Short(t, m) = SubSeq(t, 1, least(m)) /\ Short(s, m) = SubSeq(s, 1, least(m))
    BY <2>2 DEF Short
  <2>4. \A i \in 1..least(m) : t[i] = s[i] /\ t[i] \in Nat
    <3>1. least(m) <= Len(t) /\ least(m) \in Nat
      BY <1>2, <2>2, <2>1
    <3> QED BY <1>2, <2>1, <3>1, ElementOfSeq
  <2>5. /\ SubSeq(t, 1, least(m)) \in Seq(Nat)
        /\ SubSeq(s, 1, least(m)) \in Seq(Nat)
        /\ Len(SubSeq(t, 1, least(m))) = Len(SubSeq(s, 1, least(m)))
        /\ \A i \in 1..Len(SubSeq(t, 1, least(m))) :
             SubSeq(t, 1, least(m))[i] = SubSeq(s, 1, least(m))[i]
    BY <1>2, <2>4, SubSeqProperties
  <2>6. SubSeq(t, 1, least(m)) = SubSeq(s, 1, least(m))
    BY <2>5, SeqEqual
  <2> QED BY <2>3, <2>6 DEF t
<1> QED BY <1>1, <1>3, <1>4

(* What TXT writes, ParseTXT reads, but for the ends of long names.        *)
LEMMA ReadBack ==
  ASSUME NEW ad \in Announcements, ad.presence # ""
  PROVE  /\ ParseTXT(TXT(ad)) =
              [repo |-> ad.repo, branch |-> Short(ad.branch, MaxBranchLen),
               head |-> Short(ad.head, MaxHeadLen), modified |-> ad.modified,
               session |-> ad.session, locked |-> ad.locked, presence |-> ad.presence]
         /\ ParseTXT(TXT(ad)) \in Announcements
<1> DEFINE b1 == Short(ad.branch, MaxBranchLen)
           h1 == Short(ad.head, MaxHeadLen)
<1>1. b1 \in Seq(Nat) /\ h1 \in Seq(Nat)
  BY ShortProperties, LengthAssumption DEF Announcements
<1>2. ParseTXT(TXT(ad)) =
        [repo |-> ad.repo, branch |-> b1, head |-> h1, modified |-> ad.modified,
         session |-> ad.session, locked |-> ad.locked, presence |-> ad.presence]
  BY DEF ParseTXT, TXT, Value, Announcements
<1> HIDE DEF b1, h1
<1>3. ParseTXT(TXT(ad)) \in Announcements
  <2>1. /\ ad.repo \in Seq(Nat) /\ ad.modified \in Int /\ ad.session \in Seq(Nat)
        /\ ad.locked \in BOOLEAN /\ ad.presence \in STRING
    BY DEF Announcements
  <2> DEFINE r == ad.repo m == ad.modified s == ad.session l == ad.locked o == ad.presence
  <2> HIDE DEF r, m, s, l, o
  <2>2. [repo |-> r, branch |-> b1, head |-> h1, modified |-> m, session |-> s,
         locked |-> l, presence |-> o] \in Announcements
    BY <1>1, <2>1 DEF Announcements, r, m, s, l, o
  <2> QED BY <1>2, <2>2 DEF r, m, s, l, o
<1> QED BY <1>2, <1>3 DEF b1, h1

(* Two rows made of one peer and two announcements that differ only where  *)
(* formatPeerRow cuts them off are the same.                               *)
LEMMA RowOfShort ==
  ASSUME NEW p, NEW q, p.instance = q.instance,
         NEW a \in Announcements, NEW b \in Announcements, p.ad = a, q.ad = b,
         Short(a.branch, MaxRowLen) = Short(b.branch, MaxRowLen), a.head = b.head,
         a.modified = b.modified, a.session = b.session, a.locked = b.locked,
         a.presence = b.presence, NEW expired \in BOOLEAN
  PROVE  Row(p, expired) = Row(q, expired)
<1>1. PresenceAt(p, expired) = PresenceAt(q, expired)
  BY DEF PresenceAt
<1> QED BY <1>1 DEF Row

(* An empty presence is read as online.                                    *)
LEMMA PresenceIsRead ==
  ASSUME NEW kv
  PROVE  ParseTXT(kv).presence # ""
<1> DEFINE said == Value(kv, "presence", "")
           presented == IF said = "" THEN "online" ELSE said
<1>1. ParseTXT(kv).presence = presented
  BY DEF ParseTXT
<1>2. presented # ""
  OBVIOUS
<1> QED BY <1>1, <1>2

(* A peer made of any announcement reads as said, and its row is that of   *)
(* the whole branch, which a row cuts off more than TXT does.              *)
LEMMA EntryReadsAsSaid ==
  ASSUME NEW e \in Entries
  PROVE  ReadAsSaid(PeerFromEntry(e))
<1> DEFINE p == PeerFromEntry(e)
           ad == p.ad
           read == ParseTXT(TXT(ad))
           asRead == [p EXCEPT !.ad = read]
           whole == [p EXCEPT !.ad.head = read.head]
           wholeAd == [ad EXCEPT !.head = read.head]
<1>1. /\ p = [instance |-> e.instance, host |-> e.host, port |-> e.port,
            addrs |-> e.v4 \o e.v6, ad |-> ad]
      /\ ad = ParseTXT(e.text)
  BY DEF PeerFromEntry
<1>2. ad \in Announcements
  BY <1>1, EntryAssumption
<1>3. ad.presence # ""
  BY <1>1, PresenceIsRead
<1> HIDE DEF p
<1>4. /\ read = [repo |-> ad.repo, branch |-> Short(ad.branch, MaxBranchLen),
                 head |-> Short(ad.head, MaxHeadLen), modified |-> ad.modified,
                 session |-> ad.session, locked |-> ad.locked, presence |-> ad.presence]
      /\ read \in Announcements
  BY <1>2, <1>3, ReadBack
<1>5. /\ ad.branch \in Seq(Nat) /\ ad.head \in Seq(Nat)
      /\ DOMAIN ad = {"repo", "branch", "head", "modified", "session", "locked", "presence"}
  BY <1>2 DEF Announcements
<1> HIDE DEF read
<1>6. /\ read.branch = Short(ad.branch, MaxBranchLen) /\ read.head = Short(ad.head, MaxHeadLen)
      /\ read.repo = ad.repo /\ read.modified = ad.modified /\ read.session = ad.session
      /\ read.locked = ad.locked /\ read.presence = ad.presence
  BY <1>4
<1>7. \A field \in DOMAIN ad \ {"branch", "head"} : read[field] = ad[field]
  BY <1>5, <1>6
<1>8. /\ Short(read.branch, MaxBranchLen) = read.branch
      /\ Short(read.head, MaxHeadLen) = read.head
      /\ Short(read.branch, MaxRowLen) = Short(ad.branch, MaxRowLen)
      /\ IsPrefix(read.head, ad.head)
  <2>1. /\ MaxBranchLen \in Nat /\ MaxHeadLen \in Nat /\ MaxRowLen \in Nat
        /\ MaxRowLen <= MaxBranchLen /\ MaxBranchLen <= MaxBranchLen /\ MaxHeadLen <= MaxHeadLen
    BY LengthAssumption
  <2>2. /\ Short(Short(ad.branch, MaxBranchLen), MaxBranchLen) = Short(ad.branch, MaxBranchLen)
        /\ Short(Short(ad.branch, MaxBranchLen), MaxRowLen) = Short(ad.branch, MaxRowLen)
        /\ Short(Short(ad.head, MaxHeadLen), MaxHeadLen) = Short(ad.head, MaxHeadLen)
        /\ IsPrefix(Short(ad.head, MaxHeadLen), ad.head)
    BY <1>5, <2>1, ShortProperties, Zenon
  <2> QED BY <1>6, <2>2
<1>9. ParseTXT(TXT(read)) = read
  <2>1. read.presence # ""
    BY <1>3, <1>6
  <2>2. ParseTXT(TXT(read)) =
          [repo |-> read.repo, branch |-> read.branch, head |-> read.head,
           modified |-> read.modified, session |-> read.session, locked |-> read.locked,
           presence |-> read.presence]
    BY <1>4, <1>8, <2>1, ReadBack
  <2>3. ParseTXT(TXT(read)) \in Announcements
    BY <1>4, <2>1, ReadBack
  <2> QED BY <1>4, <2>2, <2>3 DEF Announcements
<1>10. ASSUME NEW expired \in BOOLEAN PROVE Row(asRead, expired) = Row(whole, expired)
  <2>1. /\ asRead.ad = read /\ asRead.instance = p.instance
        /\ whole.ad = wholeAd /\ whole.instance = p.instance
    BY <1>1
  <2>2. wholeAd \in Announcements
    BY <1>2, <1>4 DEF Announcements
  <2>3. /\ wholeAd.branch = ad.branch /\ wholeAd.head = read.head
        /\ wholeAd.modified = ad.modified /\ wholeAd.session = ad.session
        /\ wholeAd.locked = ad.locked /\ wholeAd.presence = ad.presence
    BY <1>2 DEF Announcements
  <2> HIDE DEF asRead, whole, wholeAd
  <2> QED BY <1>4, <1>6, <1>8, <2>1, <2>2, <2>3, RowOfShort
<1> QED BY <1>7, <1>8, <1>9, <1>10, Zenon DEF ReadAsSaid, read, p

(* Whatever the browser hears, what it keeps reads as its sender meant it, *)
(* all through the command (Browse, ParseTXT, formatPeerRow).              *)
THEOREM MetadataIsKept ==
  CommandSpec => []MetadataSurvives
<1> DEFINE HeardInv == \A p \in heard : \E e \in Entries : p = PeerFromEntry(e)
<1>1. CommandInit => HeardInv
  BY DEF CommandInit, Browsing
<1>2. HeardInv /\ [CommandNext]_commandVars => HeardInv'
  BY DEF CommandNext, HandOver, LookUp, DestExists, UseIdentity, Address, Hear, Resolve, TakeAim,
         lookupVars, commandVars
<1>3. HeardInv => MetadataSurvives
  BY EntryReadsAsSaid DEF MetadataSurvives
<1> QED BY <1>1, <1>2, <1>3, PTL DEF CommandSpec

----------------------------------------------------------------------------------
(* What is on its way of a host is no younger than its leaving, and what   *)
(* the registry holds is younger than that by MaxDelay at most; of this    *)
(* host it holds nothing.                                                  *)
AgeInv ==
  /\ \A a \in air : downFor[a.instance] <= a.age
  /\ \A k \in DOMAIN entries : downFor[entries[k].instance] <= entries[k].age
  /\ \A i \in Instances : age[i] <= PeerTTL => downFor[i] <= age[i] + MaxDelay
  /\ age[Self] = Absent
DiscoveryInv == DiscoveryOK /\ AgeInv

(* Nobody has been heard of, and nobody is registered.                     *)
LEMMA DiscoveryInitInv ==
  DiscoveryInit => DiscoveryInv
<1> SUFFICES ASSUME DiscoveryInit PROVE DiscoveryInv
  OBVIOUS
<1> USE SelfAssumption, TimesAssumption, CapAssumption DEF DiscoveryInit
<1>1. LongAgo \in Nat /\ LongAgo \in 0..LongAgo /\ Absent \in 0..Absent /\ ~(Absent <= PeerTTL)
  BY DEF LongAgo, Absent
<1>2. DiscoveryOK
  <2>1. entries \in Seq(Packets) /\ Len(entries) <= ChanCap /\ DOMAIN entries = {}
    OBVIOUS
  <2> QED BY <1>1, <2>1 DEF DiscoveryOK
<1>3. AgeInv
  BY <1>1 DEF AgeInv
<1> QED BY <1>2, <1>3 DEF DiscoveryInv

(* A tick ages all there is by as much, and a host that is not registered. *)
LEMMA TickKeepsInv ==
  ASSUME DiscoveryInv, Tick
  PROVE  DiscoveryInv'
<1> USE SelfAssumption, TimesAssumption, CapAssumption DEF DiscoveryInv
<1>1. /\ downFor' \in [Instances -> 0..LongAgo]
      /\ \A i \in Instances : downFor'[i] <= downFor[i] + 1
  <2>1. LongAgo \in Nat /\ \A i \in Instances : downFor[i] \in 0..LongAgo
    BY DEF LongAgo, DiscoveryOK
  <2> QED BY <2>1 DEF Tick
<1>2. /\ \A a \in Packets : a.instance \in Instances /\ a.age \in 0..MaxDelay
      /\ \A a \in Packets : /\ Older(a).instance = a.instance
                            /\ Older(a).age = a.age + 1
                            /\ a.age < MaxDelay => Older(a) \in Packets
  BY DEF Packets, Older
<1>3. /\ air' \subseteq Packets
      /\ \A a \in air' : downFor'[a.instance] <= a.age
  <2> SUFFICES ASSUME NEW a \in air' PROVE a \in Packets /\ downFor'[a.instance] <= a.age
    OBVIOUS
  <2>1. PICK b \in air : b.age < MaxDelay /\ a = Older(b)
    BY DEF Tick
  <2>2. b \in Packets /\ downFor[b.instance] <= b.age
    BY DEF DiscoveryOK, AgeInv
  <2>3. a \in Packets /\ a.instance = b.instance /\ a.age = b.age + 1
    BY <1>2, <2>1, <2>2
  <2>4. /\ downFor'[a.instance] <= downFor[b.instance] + 1 /\ downFor[b.instance] \in Nat
        /\ downFor'[a.instance] \in Nat /\ b.age \in Nat
    BY <1>1, <1>2, <2>2, <2>3 DEF DiscoveryOK
  <2> QED BY <2>2, <2>3, <2>4
<1>4. /\ entries' \in Seq(Packets) /\ Len(entries') = Len(entries)
      /\ \A k \in DOMAIN entries' : downFor'[entries'[k].instance] <= entries'[k].age
  <2>1. /\ entries \in Seq(Packets) /\ Len(entries) \in Nat
        /\ DOMAIN entries = 1..Len(entries)
        /\ \A k \in DOMAIN entries : entries[k] \in Packets
    BY ElementOfSeq, LenProperties DEF DiscoveryOK
  <2>2. entries' = [k \in 1..Len(entries) |-> Older(entries[k])]
    BY <2>1 DEF Tick
  <2>3. \A k \in 1..Len(entries) : Older(entries[k]) \in Packets
    BY <1>2, <2>1 DEF Tick
  <2>4. entries' \in Seq(Packets) /\ Len(entries') = Len(entries)
    BY <2>1, <2>2, <2>3, IsASeq
  <2>5. ASSUME NEW k \in 1..Len(entries)
        PROVE  downFor'[entries'[k].instance] <= entries'[k].age
    <3> DEFINE b == entries[k]
    <3>1. b \in Packets /\ downFor[b.instance] <= b.age
      BY <2>1 DEF AgeInv
    <3>2. entries'[k].instance = b.instance /\ entries'[k].age = b.age + 1
      BY <1>2, <2>2, <3>1
    <3>3. /\ downFor'[b.instance] <= downFor[b.instance] + 1 /\ downFor[b.instance] \in Nat
          /\ downFor'[b.instance] \in Nat /\ b.age \in Nat
      BY <1>1, <1>2, <3>1 DEF DiscoveryOK
    <3> QED BY <3>1, <3>2, <3>3
  <2> QED BY <2>2, <2>4, <2>5
<1>5. /\ age' \in [Instances -> 0..Absent] /\ age'[Self] = Absent
      /\ \A i \in Instances : age'[i] <= PeerTTL => downFor'[i] <= age'[i] + MaxDelay
  <2>1. /\ age' \in [Instances -> 0..Absent]
        /\ \A i \in Instances : age'[i] = IF age[i] <= PeerTTL THEN age[i] + 1 ELSE age[i]
    BY DEF Tick, DiscoveryOK, Absent
  <2>2. age'[Self] = Absent
    BY <2>1 DEF AgeInv, Absent
  <2>3. ASSUME NEW i \in Instances, age'[i] <= PeerTTL PROVE downFor'[i] <= age'[i] + MaxDelay
    <3>1. age[i] \in Nat /\ downFor[i] \in Nat /\ downFor'[i] \in Nat
      BY <1>1 DEF DiscoveryOK
    <3>2. age[i] <= PeerTTL /\ age'[i] = age[i] + 1
      BY <2>1, <2>3, <3>1
    <3>3. downFor[i] <= age[i] + MaxDelay /\ downFor'[i] <= downFor[i] + 1
      BY <1>1, <3>2 DEF AgeInv
    <3> QED BY <3>1, <3>2, <3>3
  <2> QED BY <2>1, <2>2, <2>3
<1>6. DiscoveryOK'
  BY <1>1, <1>3, <1>4, <1>5 DEF DiscoveryOK, Tick
<1>7. AgeInv'
  BY <1>3, <1>4, <1>5 DEF AgeInv
<1> QED BY <1>6, <1>7

(* One case per step of the hosts, the library, the browser and the        *)
(* command: what is handed over was on the air, and is new when it is      *)
(* written down.                                                           *)
LEMMA DiscoveryInvPreserved ==
  ASSUME DiscoveryInv, [DiscoveryNext]_discoveryVars
  PROVE  DiscoveryInv'
<1> USE SelfAssumption, TimesAssumption, CapAssumption DEF DiscoveryInv
<1>1. ASSUME NEW i \in Instances, Announce(i) PROVE DiscoveryInv'
  <2>1. \A j \in Instances : downFor'[j] = IF j = i THEN 0 ELSE downFor[j]
    BY <1>1 DEF Announce, DiscoveryOK
  <2>2. [instance |-> i, age |-> 0] \in Packets
    BY DEF Packets
  <2>3. DiscoveryOK'
    BY <1>1, <2>2 DEF Announce, DiscoveryOK, LongAgo
  <2>4. \A a \in Packets : a.instance \in Instances /\ a.age \in Nat
    BY DEF Packets
  <2>5. \A j \in Instances : downFor[j] \in Nat /\ age[j] \in Nat /\ downFor'[j] <= downFor[j]
    BY <2>1 DEF DiscoveryOK
  <2>6. \A a \in air' : downFor'[a.instance] <= a.age
    BY <1>1, <2>1, <2>4, <2>5 DEF Announce, DiscoveryOK, AgeInv
  <2>7. \A k \in DOMAIN entries : entries[k] \in Packets
    BY ElementOfSeq, LenProperties DEF DiscoveryOK
  <2>8. \A k \in DOMAIN entries' : downFor'[entries'[k].instance] <= entries'[k].age
    BY <1>1, <2>1, <2>4, <2>5, <2>7 DEF Announce, AgeInv
  <2>9. \A j \in Instances : age'[j] <= PeerTTL => downFor'[j] <= age'[j] + MaxDelay
    BY <1>1, <2>1, <2>5 DEF Announce, AgeInv
  <2> QED BY <1>1, <2>3, <2>6, <2>8, <2>9 DEF Announce, AgeInv
<1>2. ASSUME NEW i \in Instances, Leave(i) PROVE DiscoveryInv'
  BY <1>2 DEF Leave, DiscoveryOK, AgeInv
<1>3. CASE Tick
  BY <1>3, TickKeepsInv
<1>4. ASSUME NEW a \in air, Found(a) PROVE DiscoveryInv'
  <2>1. a \in Packets /\ entries \in Seq(Packets) /\ Len(entries) \in Nat
    BY LenProperties DEF DiscoveryOK
  <2>2. /\ entries' \in Seq(Packets) /\ Len(entries') = Len(entries) + 1
        /\ \A k \in 1..Len(entries) : entries'[k] = entries[k]
        /\ entries'[Len(entries) + 1] = a
        /\ DOMAIN entries' = 1..(Len(entries) + 1) /\ DOMAIN entries = 1..Len(entries)
    BY <1>4, <2>1, AppendProperties DEF Found
  <2>3. \A k \in DOMAIN entries' : downFor[entries'[k].instance] <= entries'[k].age
    BY <2>1, <2>2 DEF AgeInv
  <2>4. Len(entries') <= ChanCap
    BY <1>4, <2>1, <2>2 DEF Found
  <2> QED BY <1>4, <2>2, <2>3, <2>4 DEF Found, DiscoveryOK, AgeInv, hostVars
<1>5. CASE Consume
  <2>1. /\ entries \in Seq(Packets) /\ entries # <<>> /\ Len(entries) \in Nat
        /\ entries' = Tail(entries) /\ Upsert
        /\ UNCHANGED <<announcer, downFor, air, service, browser, shown>>
    BY <1>5, LenProperties DEF Consume, DiscoveryOK, hostVars
  <2>2. /\ entries' \in Seq(Packets) /\ Len(entries') = Len(entries) - 1
        /\ \A k \in 1..Len(entries') : entries'[k] = entries[k + 1]
        /\ Len(entries) >= 1 /\ DOMAIN entries' = 1..Len(entries')
        /\ DOMAIN entries = 1..Len(entries)
    BY <2>1, HeadTailProperties, LenProperties
  <2>3. \A k \in DOMAIN entries' : downFor[entries'[k].instance] <= entries'[k].age
    <3> SUFFICES ASSUME NEW k \in DOMAIN entries'
                 PROVE  downFor[entries'[k].instance] <= entries'[k].age
      OBVIOUS
    <3>1. k + 1 \in DOMAIN entries /\ entries'[k] = entries[k + 1]
      BY <2>1, <2>2
    <3> QED BY <3>1 DEF AgeInv
  <2> DEFINE b == Head(entries)
  <2>4. b \in Packets /\ b = entries[1] /\ downFor[b.instance] <= b.age
    <3>1. 1 \in DOMAIN entries /\ b = entries[1]
      BY <2>1, <2>2, HeadTailProperties
    <3> QED BY <2>1, <3>1, HeadTailProperties DEF AgeInv
  <2>5. b.instance \in Instances /\ downFor[b.instance] <= MaxDelay
    BY <2>4 DEF Packets, DiscoveryOK
  <2>6. age' = IF b.instance = Self THEN age ELSE [age EXCEPT ![b.instance] = 0]
    BY <2>1 DEF Upsert
  <2> HIDE DEF b
  <2>7. age' \in [Instances -> 0..Absent] /\ age'[Self] = Absent
    BY <2>5, <2>6 DEF DiscoveryOK, AgeInv, Absent
  <2>8. ASSUME NEW j \in Instances, age'[j] <= PeerTTL PROVE downFor[j] <= age'[j] + MaxDelay
    BY <2>5, <2>6, <2>8 DEF DiscoveryOK, AgeInv
  <2>9. DiscoveryOK'
    BY <2>1, <2>2, <2>7 DEF DiscoveryOK
  <2>10. AgeInv'
    BY <2>1, <2>3, <2>7, <2>8 DEF AgeInv
  <2> QED BY <2>9, <2>10
<1>6. CASE ResolverStarts \/ ResolverFails \/ BrowserEnds
  BY <1>6 DEF ResolverStarts, ResolverFails, BrowserEnds, BrowserTurns, DiscoveryOK, AgeInv,
             hostVars
<1>7. CASE List
  <2>1. \A i \in Instances : age'[i] = IF Expired(i) THEN Absent ELSE age[i]
    BY <1>7 DEF List
  <2>2. age' \in [Instances -> 0..Absent] /\ age'[Self] = Absent /\ Self \notin shown'
    BY <1>7, <2>1 DEF List, DiscoveryOK, AgeInv, Absent, Expired
  <2>3. \A i \in Instances : age'[i] <= PeerTTL => age'[i] = age[i]
    BY <2>1 DEF Absent
  <2> QED BY <1>7, <2>2, <2>3 DEF List, DiscoveryOK, AgeInv, hostVars
<1>8. CASE Cancel \/ Stop
  BY <1>8 DEF Cancel, Stop, DiscoveryOK, AgeInv, hostVars
<1>9. CASE UNCHANGED discoveryVars
  BY <1>9 DEF discoveryVars, hostVars, DiscoveryOK, AgeInv
<1> QED BY <1>1, <1>2, <1>3, <1>4, <1>5, <1>6, <1>7, <1>8, <1>9
        DEF DiscoveryNext, HostStep, BrowseStep, CommandStep

(* A host is listed only while it is there, or for PeerTTL and the time an *)
(* announcement may take after it left, for any number of hosts and size   *)
(* of the channel; this host never is (Registry.List, Browse).             *)
THEOREM ListedWereAlive ==
  DiscoverySpec => ShownWereAlive
<1> DEFINE Fresh == List => \A i \in shown' : downFor[i] <= PeerTTL + MaxDelay
<1>1. ASSUME DiscoveryInv, [DiscoveryNext]_discoveryVars PROVE [Fresh]_discoveryVars
  <2> SUFFICES ASSUME List, NEW i \in shown' PROVE downFor[i] <= PeerTTL + MaxDelay
    OBVIOUS
  <2>1. i \in Instances /\ ~(age[i] > PeerTTL)
    BY DEF List, Expired
  <2>2. age[i] \in Nat /\ downFor[i] \in Nat
    BY <1>1, <2>1, TimesAssumption DEF DiscoveryInv, DiscoveryOK
  <2>3. age[i] <= PeerTTL
    BY <2>1, <2>2, TimesAssumption
  <2>4. downFor[i] <= age[i] + MaxDelay
    BY <1>1, <2>1, <2>3 DEF DiscoveryInv, AgeInv
  <2> QED BY <2>2, <2>3, <2>4, TimesAssumption
<1>2. DiscoveryInv => DiscoveryOK
  BY DEF DiscoveryInv
<1>3. DiscoverySpec => []DiscoveryInv
  BY DiscoveryInitInv, DiscoveryInvPreserved, PTL DEF DiscoverySpec
<1> QED BY <1>1, <1>2, <1>3, PTL DEF DiscoverySpec, ShownWereAlive

----------------------------------------------------------------------------------
(* Induction on a set of numbers: the prover instantiates no operator, so  *)
(* what is shown is that the set of the numbers that have a property is    *)
(* Nat.                                                                    *)
LEMMA LeastNat ==
  ASSUME NEW T \in SUBSET Nat, T # {}
  PROVE  \E n \in T : \A m \in T : n <= m
<1>1. PICK n \in T : \A m \in T : ~(<<m, n>> \in OpToRel(<, Nat))
  BY NatLessThanWellFounded, WFMin
<1>2. ASSUME NEW m \in T PROVE n <= m
  <2>1. m \in Nat /\ n \in Nat
    OBVIOUS
  <2>2. m < n => <<m, n>> \in OpToRel(<, Nat)
    BY <2>1 DEF OpToRel
  <2>3. ~(m < n)
    BY <1>1, <2>2
  <2> QED BY <2>1, <2>3
<1> QED BY <1>2

(* What holds of a number when it holds of all less holds of all.          *)
LEMMA StrongInduction ==
  ASSUME NEW T \in SUBSET Nat, \A n \in Nat : (\A m \in Nat : m < n => m \in T) => n \in T
  PROVE  T = Nat
<1> SUFFICES ASSUME Nat \ T # {} PROVE FALSE
  OBVIOUS
<1>1. PICK n \in Nat \ T : \A m \in Nat \ T : n <= m
  BY LeastNat
<1>2. \A m \in Nat : m < n => m \in T
  BY <1>1
<1> QED BY <1>1, <1>2

(* What holds of 0 and of the next of each number holds of all.            *)
LEMMA StepInduction ==
  ASSUME NEW T \in SUBSET Nat, 0 \in T, \A n \in T : n + 1 \in T
  PROVE  T = Nat
<1>1. ASSUME NEW n \in Nat, \A m \in Nat : m < n => m \in T
      PROVE  n \in T
  <2>1. CASE n = 0
    BY <2>1
  <2>2. CASE n # 0
    <3>1. n - 1 \in Nat /\ n - 1 < n /\ n - 1 + 1 = n
      BY <2>2
    <3> QED BY <1>1, <3>1
  <2> QED BY <2>1, <2>2
<1> QED BY <1>1, StrongInduction

(* Induction on a set of sequences, as on one of numbers.                  *)
LEMMA AppendInduction ==
  ASSUME NEW S, NEW T \in SUBSET Seq(S), <<>> \in T,
         \A s \in T : \A e \in S : Append(s, e) \in T
  PROVE  T = Seq(S)
<1> DEFINE N == {n \in Nat : \A s \in Seq(S) : Len(s) = n => s \in T}
<1>1. ASSUME NEW n \in Nat, \A m \in Nat : m < n => m \in N
      PROVE  n \in N
  <2> SUFFICES ASSUME NEW s \in Seq(S), Len(s) = n PROVE s \in T
    OBVIOUS
  <2>1. CASE s = <<>>
    BY <2>1
  <2>2. CASE s # <<>>
    <3>1. PICK u \in Seq(S), e \in S : s = Append(u, e)
      BY <2>2, SequenceEmptyOrAppend
    <3>2. Len(u) \in Nat /\ Len(s) = Len(u) + 1
      BY <3>1, LenProperties, AppendProperties
    <3>3. PICK m \in Nat : m = Len(u) /\ m < n
      BY <3>2
    <3> QED BY <1>1, <3>1, <3>3
  <2> QED BY <2>1, <2>2
<1>2. N = Nat
  <2>1. N \in SUBSET Nat
    OBVIOUS
  <2> HIDE DEF N
  <2> QED BY <1>1, <2>1, StrongInduction
<1>3. \A s \in Seq(S) : s \in T
  BY <1>2, LenProperties
<1> QED BY <1>3

----------------------------------------------------------------------------------
(* Lookup.                                                                 *)

(* Names are ordered: Before is asymmetric, transitive and total.          *)
LEMMA BeforeAsymmetric ==
  ASSUME NEW s \in Seq(Nat), NEW t \in Seq(Nat), Before(s, t)
  PROVE  ~Before(t, s)
<1>1. /\ Len(s) \in Nat /\ Len(t) \in Nat /\ \A i \in 1..Len(s) : s[i] \in Nat
      /\ \A i \in 1..Len(t) : t[i] \in Nat
  BY LenProperties, ElementOfSeq
<1>2. PICK n \in 0..Len(s) : /\ n < Len(t) /\ \A i \in 1..n : s[i] = t[i]
                             /\ n = Len(s) \/ s[n + 1] < t[n + 1]
  BY DEF Before
<1>3. SUFFICES ASSUME NEW m \in 0..Len(t), m < Len(s), \A i \in 1..m : t[i] = s[i],
                      m = Len(t) \/ t[m + 1] < s[m + 1]
               PROVE  FALSE
  BY DEF Before
<1>4. CASE n < m
  <2>1. n + 1 \in 1..m /\ n # Len(s)
    BY <1>1, <1>2, <1>3, <1>4
  <2>2. n + 1 \in 1..Len(s) /\ t[n + 1] = s[n + 1]
    BY <1>1, <1>3, <2>1
  <2> QED BY <1>1, <1>2, <2>1, <2>2
<1>5. CASE m < n
  <2>1. m + 1 \in 1..n /\ m # Len(t)
    BY <1>1, <1>2, <1>3, <1>5
  <2>2. m + 1 \in 1..Len(s) /\ t[m + 1] = s[m + 1]
    BY <1>1, <1>2, <2>1
  <2> QED BY <1>1, <1>3, <2>1, <2>2
<1>6. CASE m = n
  <2>1. n + 1 \in 1..Len(s) /\ n + 1 \in 1..Len(t) /\ n # Len(s) /\ m # Len(t)
    BY <1>1, <1>2, <1>3, <1>6
  <2>2. s[n + 1] < t[n + 1] /\ t[n + 1] < s[n + 1] /\ s[n + 1] \in Nat /\ t[n + 1] \in Nat
    BY <1>1, <1>2, <1>3, <1>6, <2>1
  <2> QED BY <2>2
<1> QED BY <1>1, <1>2, <1>3, <1>4, <1>5, <1>6

(* Of two names one is before the other.                                   *)
LEMMA BeforeTotal ==
  ASSUME NEW s \in Seq(Nat), NEW t \in Seq(Nat), s # t
  PROVE  Before(s, t) \/ Before(t, s)
<1>1. /\ Len(s) \in Nat /\ Len(t) \in Nat
      /\ \A i \in 1..Len(s) : s[i] \in Nat
      /\ \A i \in 1..Len(t) : t[i] \in Nat
  BY LenProperties, ElementOfSeq
<1> DEFINE D == {i \in 1..Len(s) : i <= Len(t) /\ s[i] # t[i]}
<1>2. CASE D = {}
  <2>1. \A i \in 1..Len(s) : i <= Len(t) => s[i] = t[i]
    BY <1>2
  <2>2. Len(s) # Len(t)
    <3>1. ASSUME Len(s) = Len(t) PROVE s = t
      <4>1. \A i \in 1..Len(s) : s[i] = t[i]
        BY <1>1, <2>1, <3>1
      <4> QED BY <3>1, <4>1, SeqEqual
    <3> QED BY <3>1
  <2>3. CASE Len(s) < Len(t)
    <3>1. PICK n \in 0..Len(s) : n = Len(s)
      BY <1>1
    <3>2. n < Len(t) /\ \A i \in 1..n : s[i] = t[i]
      BY <1>1, <2>1, <2>3, <3>1
    <3> QED BY <3>1, <3>2 DEF Before
  <2>4. CASE Len(t) < Len(s)
    <3>1. PICK n \in 0..Len(t) : n = Len(t)
      BY <1>1
    <3>2. n < Len(s) /\ \A i \in 1..n : t[i] = s[i]
      BY <1>1, <2>1, <2>4, <3>1
    <3> QED BY <3>1, <3>2 DEF Before
  <2> QED BY <1>1, <2>2, <2>3, <2>4
<1>3. CASE D # {}
  <2>1. D \in SUBSET Nat
    BY <1>1
  <2>2. PICK k \in D : \A i \in D : k <= i
    BY <1>3, <2>1, LeastNat
  <2>3. k \in 1..Len(s) /\ k \in 1..Len(t) /\ s[k] # t[k] /\ s[k] \in Nat /\ t[k] \in Nat
    BY <1>1, <2>2
  <2>4. PICK n \in Nat : n + 1 = k
    BY <1>1, <2>3
  <2>5. n \in 0..Len(s) /\ n < Len(s) /\ n \in 0..Len(t) /\ n < Len(t)
    BY <1>1, <2>3, <2>4
  <2>6. \A i \in 1..n : s[i] = t[i]
    <3>1. ASSUME NEW i \in 1..n, s[i] # t[i] PROVE FALSE
      <4>1. i \in 1..Len(s) /\ i <= Len(t)
        BY <1>1, <2>5
      <4>2. k <= i
        BY <2>2, <3>1, <4>1
      <4> QED BY <2>4, <4>2
    <3> QED BY <3>1
  <2>7. s[n + 1] < t[n + 1] \/ t[n + 1] < s[n + 1]
    BY <2>3, <2>4
  <2> QED BY <2>5, <2>6, <2>7 DEF Before
<1> QED BY <1>2, <1>3

(* The names before a name are before all that it is before.               *)
LEMMA BeforeTransitive ==
  ASSUME NEW s \in Seq(Nat), NEW t \in Seq(Nat), NEW u \in Seq(Nat), Before(s, t), Before(t, u)
  PROVE  Before(s, u)
<1>1. /\ Len(s) \in Nat /\ Len(t) \in Nat /\ Len(u) \in Nat
      /\ \A i \in 1..Len(s) : s[i] \in Nat
      /\ \A i \in 1..Len(t) : t[i] \in Nat
      /\ \A i \in 1..Len(u) : u[i] \in Nat
  BY LenProperties, ElementOfSeq
<1>2. PICK n \in 0..Len(s) : /\ n < Len(t) /\ \A i \in 1..n : s[i] = t[i]
                             /\ n = Len(s) \/ s[n + 1] < t[n + 1]
  BY DEF Before
<1>3. PICK m \in 0..Len(t) : /\ m < Len(u) /\ \A i \in 1..m : t[i] = u[i]
                             /\ m = Len(t) \/ t[m + 1] < u[m + 1]
  BY DEF Before
<1>4. CASE m < n
  <2>1. m \in 0..Len(s) /\ m < Len(u) /\ m # Len(t) /\ \A i \in 1..m : s[i] = u[i]
    BY <1>1, <1>2, <1>3, <1>4
  <2>2. m + 1 \in 1..n
    BY <1>1, <1>4
  <2>3. s[m + 1] < u[m + 1]
    BY <1>2, <1>3, <2>1, <2>2
  <2> QED BY <2>1, <2>3 DEF Before
<1>5. CASE n < m
  <2>1. n < Len(u) /\ \A i \in 1..n : s[i] = u[i]
    BY <1>1, <1>2, <1>3, <1>5
  <2>2. n + 1 \in 1..m
    BY <1>1, <1>5
  <2>3. n = Len(s) \/ s[n + 1] < u[n + 1]
    BY <1>2, <1>3, <2>2
  <2> QED BY <2>1, <2>3 DEF Before
<1>6. CASE n = m
  <2>1. n < Len(u) /\ \A i \in 1..n : s[i] = u[i]
    BY <1>1, <1>2, <1>3, <1>6
  <2>2. n # Len(t) /\ t[n + 1] < u[n + 1]
    BY <1>1, <1>2, <1>3, <1>6
  <2>3. n = Len(s) \/ s[n + 1] < u[n + 1]
    <3>1. CASE n # Len(s)
      <4>1. n + 1 \in 1..Len(s) /\ n + 1 \in 1..Len(t) /\ n + 1 \in 1..Len(u)
        BY <1>1, <1>2, <2>1, <3>1
      <4>2. /\ s[n + 1] \in Nat /\ t[n + 1] \in Nat /\ u[n + 1] \in Nat
            /\ s[n + 1] < t[n + 1]
        BY <1>1, <1>2, <3>1, <4>1
      <4> QED BY <2>2, <4>2
    <3> QED BY <3>1
  <2> QED BY <2>1, <2>3 DEF Before
<1> QED BY <1>1, <1>2, <1>3, <1>4, <1>5, <1>6

(* So one of any peers that were heard comes first.                        *)
LEMMA FirstListedExists ==
  ASSUME NEW peers, IsFiniteSet(peers), peers # {},
         \A p \in peers : p.instance \in Seq(Nat),
         \A p, q \in peers : p.instance = q.instance => p = q
  PROVE  /\ FirstListed(peers) \in peers
         /\ \A q \in peers \ {FirstListed(peers)} : Before(FirstListed(peers).instance, q.instance)
<1> DEFINE IsFirst(p, some) == \A q \in some \ {p} : Before(p.instance, q.instance)
           T == {n \in Nat : \A some \in SUBSET peers :
                   Cardinality(some) = n /\ some # {} => \E p \in some : IsFirst(p, some)}
<1>1. \A some \in SUBSET peers : IsFiniteSet(some) /\ Cardinality(some) \in Nat
  BY FS_Subset, FS_CardinalityType
<1>2. 0 \in T
  BY <1>1, FS_EmptySet
<1>3. ASSUME NEW n \in T PROVE n + 1 \in T
  <2> SUFFICES ASSUME NEW some \in SUBSET peers, Cardinality(some) = n + 1, some # {}
               PROVE  \E p \in some : IsFirst(p, some)
    OBVIOUS
  <2>1. PICK x \in some : TRUE
    OBVIOUS
  <2>2. PICK rest \in SUBSET peers : rest = some \ {x}
    OBVIOUS
  <2>3. Cardinality(rest) = n
    BY <1>1, <2>2, FS_RemoveElement
  <2>4. CASE rest = {}
    BY <2>1, <2>2, <2>4
  <2>5. CASE rest # {}
    <3>1. PICK p \in rest : IsFirst(p, rest)
      BY <2>3, <2>5
    <3>2. p \in some /\ p # x /\ p \in peers /\ x \in peers
      BY <2>1, <2>2
    <3>3. Before(p.instance, x.instance) \/ Before(x.instance, p.instance)
      BY <3>2, BeforeTotal
    <3>4. CASE Before(p.instance, x.instance)
      BY <2>2, <3>1, <3>2, <3>4
    <3>5. CASE Before(x.instance, p.instance)
      <4>1. ASSUME NEW q \in some \ {x} PROVE Before(x.instance, q.instance)
        <5>1. q \in rest /\ q \in peers
          BY <2>2
        <5>2. CASE q = p
          BY <3>5, <5>2
        <5>3. CASE q # p
          <6>1. Before(p.instance, q.instance)
            BY <3>1, <5>1, <5>3
          <6> QED BY <3>2, <3>5, <5>1, <6>1, BeforeTransitive
        <5> QED BY <5>2, <5>3
      <4> QED BY <2>1, <4>1
    <3> QED BY <3>3, <3>4, <3>5
  <2> QED BY <2>4, <2>5
<1>4. T = Nat
  <2>1. T \in SUBSET Nat
    OBVIOUS
  <2> HIDE DEF T
  <2> QED BY <1>2, <1>3, <2>1, StepInduction
<1>5. \E p \in peers : IsFirst(p, peers)
  BY <1>1, <1>4
<1> QED BY <1>5 DEF FirstListed

(* The first c of a sequence, if there is one.                             *)
LEMMA PlaceOf ==
  ASSUME NEW s, Len(s) \in Nat, NEW c
  PROVE  /\ (\A i \in 1..Len(s) : s[i] # c) => Place(s, c) = 0
         /\ \A k \in 1..Len(s) : s[k] = c /\ (\A i \in 1..(k - 1) : s[i] # c) => Place(s, c) = k
<1> DEFINE I == {i \in 1..Len(s) : s[i] = c}
<1>1. Place(s, c) = IF I # {} THEN Min(I) ELSE 0
  BY DEF Place, SelectInSeq
<1>2. ASSUME NEW k \in 1..Len(s), s[k] = c, \A i \in 1..(k - 1) : s[i] # c
      PROVE  Min(I) = k
  <2>1. \A i \in I : k <= i
    BY <1>2
  <2>2. k \in I
    BY <1>2
  <2>3. I \subseteq Nat
    OBVIOUS
  <2> HIDE DEF I
  <2>4. \A x \in I : (\A y \in I : x <= y) => x = k
    BY <2>1, <2>2, <2>3
  <2> QED BY <2>1, <2>2, <2>4 DEF Min
<1> QED BY <1>1, <1>2

(* The spaces around what was typed are gone.                              *)
LEMMA TrimmedIs ==
  ASSUME NEW u \in Seq(Nat \ {Space}), u # <<>>
  PROVE  TrimSpace(<<Space>> \o u \o <<Space>>) = u
<1>1. Len(u) \in Nat /\ Len(u) >= 1 /\ \A i \in 1..Len(u) : u[i] \in Nat /\ u[i] # Space
  BY EmptySeq, LenProperties, ElementOfSeq
<1>2. u \in Seq(Nat) /\ <<Space>> \in Seq(Nat) /\ Len(<<Space>>) = 1 /\ <<Space>>[1] = Space
  <2>1. Nat \ {Space} \subseteq Nat /\ Space \in Nat
    BY DEF Space
  <2> QED BY <1>1, <2>1, SeqDef
<1>3. PICK v : v = <<Space>> \o u
  OBVIOUS
<1>4. /\ v \in Seq(Nat) /\ Len(v) = 1 + Len(u)
      /\ \A i \in 1..(1 + Len(u)) : v[i] = IF i <= 1 THEN <<Space>>[i] ELSE u[i - 1]
  BY <1>2, <1>3, ConcatProperties
<1>5. PICK s : s = v \o <<Space>>
  OBVIOUS
<1>6. /\ s \in Seq(Nat) /\ Len(s) = 1 + Len(u) + 1
      /\ \A i \in 1..(1 + Len(u) + 1) : s[i] = IF i <= 1 + Len(u) THEN v[i] ELSE <<Space>>[i - (1 + Len(u))]
  BY <1>2, <1>4, <1>5, ConcatProperties
<1>7. /\ Len(s) = Len(u) + 2 /\ DOMAIN s = 1..(Len(u) + 2)
      /\ s[1] = Space /\ s[Len(u) + 2] = Space
      /\ \A i \in 1..Len(u) : s[i + 1] = u[i]
  <2>1. Len(s) = Len(u) + 2 /\ DOMAIN s = 1..(Len(u) + 2)
    BY <1>1, <1>6, LenProperties
  <2>2. s[1] = v[1] /\ v[1] = Space
    BY <1>1, <1>2, <1>4, <1>6
  <2>3. s[Len(u) + 2] = Space
    <3>1. PICK j \in 1..(1 + Len(u) + 1) : j = Len(u) + 2
      BY <1>1
    <3>2. ~(j <= 1 + Len(u)) /\ j - (1 + Len(u)) = 1
      BY <1>1, <3>1
    <3> QED BY <1>2, <1>6, <3>1, <3>2
  <2>4. ASSUME NEW i \in 1..Len(u) PROVE s[i + 1] = u[i]
    <3>1. PICK j \in 1..(1 + Len(u)) : j = i + 1
      BY <1>1
    <3>2. j \in 1..(1 + Len(u) + 1) /\ j <= 1 + Len(u) /\ ~(j <= 1) /\ j - 1 = i
      BY <1>1, <3>1
    <3>3. s[j] = v[j] /\ v[j] = u[i]
      BY <1>4, <1>6, <3>2
    <3> QED BY <3>1, <3>3
  <2> QED BY <2>1, <2>2, <2>3, <2>4
<1> DEFINE kept == {i \in DOMAIN s : s[i] # Space}
<1>8. \A i \in DOMAIN s : i \in kept <=> i \in 2..(Len(u) + 1)
  <2>1. ASSUME NEW i \in DOMAIN s, i \in 2..(Len(u) + 1) PROVE s[i] # Space
    <3>1. PICK j \in 1..Len(u) : j + 1 = i
      <4>1. Len(u) \in Nat
        BY <1>1
      <4>2. i - 1 \in 1..Len(u) /\ i - 1 + 1 = i
        BY <2>1, <4>1
      <4> QED BY <4>2
    <3> QED BY <1>1, <1>7, <3>1
  <2>2. ASSUME NEW i \in DOMAIN s, i \notin 2..(Len(u) + 1) PROVE s[i] = Space
    BY <1>1, <1>7, <2>2
  <2> QED BY <2>1, <2>2
<1>9. kept = 2..(Len(u) + 1)
  BY <1>1, <1>7, <1>8
<1>10. PICK e \in Nat : e = Len(u) + 1 /\ e >= 2
  BY <1>1
<1>11. Min(2..e) = 2 /\ Max(2..e) = e
  <2>1. /\ 2 \in 2..e /\ e \in 2..e
        /\ \A x \in 2..e : 2 <= x /\ e >= x
        /\ \A x \in 2..e : x <= 2 => x = 2
        /\ \A x \in 2..e : x >= e => x = e
    BY <1>10
  <2> QED BY <2>1 DEF Min, Max
<1>12. TrimSpace(s) = SubSeq(s, 2, e)
  <2>1. TrimSpace(s) = IF kept = {} THEN <<>> ELSE SubSeq(s, Min(kept), Max(kept))
    BY DEF TrimSpace
  <2>2. kept = 2..e /\ 2 \in 2..e
    BY <1>9, <1>10
  <2> HIDE DEF kept
  <2> QED BY <1>11, <2>1, <2>2
<1>13. SubSeq(s, 2, e) = u
  <2>1. PICK w : w = SubSeq(s, 2, e)
    OBVIOUS
  <2>2. \A i \in 2..e : s[i] \in Nat
    BY <1>1, <1>6, <1>7, <1>10, ElementOfSeq
  <2>3. /\ w \in Seq(Nat) /\ Len(w) = IF 2 <= e THEN e - 2 + 1 ELSE 0
        /\ \A i \in 1..(e - 2 + 1) : w[i] = s[2 + i - 1]
    BY <2>1, <2>2, SubSeqProperties
  <2>4. e - 2 + 1 = Len(u) /\ Len(w) = Len(u)
    BY <1>1, <1>10, <2>3
  <2>5. ASSUME NEW i \in 1..Len(u) PROVE w[i] = u[i]
    <3>1. w[i] = s[2 + i - 1] /\ 2 + i - 1 = i + 1
      BY <2>3, <2>4
    <3> QED BY <1>7, <3>1
  <2> QED BY <1>2, <2>1, <2>3, <2>4, <2>5, SeqEqual
<1> QED BY <1>3, <1>5, <1>12, <1>13

(* A reference is read as it was meant.                                    *)
LEMMA TargetRead ==
  ASSUME NEW t \in Targets
  PROVE  ParseTarget(<<Space>> \o TargetString(t) \o <<Space>>) =
           [ok |-> TRUE, peer |-> t.peer, repo |-> t.repo]
<1> DEFINE Letters == Nat \ {Space, Slash}
<1>1. /\ t.peer \in Seq(Letters) /\ t.peer # <<>>
      /\ t.repo = <<>> \/ (t.repo \in Seq(Letters) /\ t.repo # <<>>)
  BY WordAssumption DEF Targets
<1>2. PICK w, r : w = t.peer /\ r = t.repo
  OBVIOUS
<1>3. /\ w \in Seq(Letters) /\ Len(w) \in Nat /\ Len(w) >= 1
      /\ \A i \in 1..Len(w) : w[i] \in Nat /\ w[i] # Space /\ w[i] # Slash
  BY <1>1, <1>2, EmptySeq, LenProperties, ElementOfSeq
<1> SUFFICES ASSUME NEW u, u = TargetString(t)
             PROVE  ParseTarget(<<Space>> \o u \o <<Space>>) =
                      [ok |-> TRUE, peer |-> w, repo |-> r]
  BY <1>2
<1>4. CASE r = <<>>
  <2>1. u = w
    BY <1>2, <1>4 DEF TargetString
  <2>2. u \in Seq(Nat \ {Space}) /\ u # <<>>
    BY <1>3, <2>1, SeqDef, EmptySeq
  <2>3. Place(u, Slash) = 0
    BY <1>3, <2>1, PlaceOf
  <2>4. ParseTarget(<<Space>> \o u \o <<Space>>) =
          [ok |-> u # <<>> /\ u[1] # Slash, peer |-> CutBefore(u, Slash), repo |-> CutAfter(u, Slash)]
    BY <2>2, TrimmedIs DEF ParseTarget
  <2>5. CutBefore(u, Slash) = u /\ CutAfter(u, Slash) = <<>>
    BY <2>3 DEF CutBefore, CutAfter
  <2>6. u[1] # Slash
    BY <1>3, <2>1
  <2> QED BY <1>4, <2>1, <2>2, <2>4, <2>5, <2>6
<1>5. CASE r # <<>>
  <2>1. /\ r \in Seq(Letters) /\ Len(r) \in Nat
        /\ \A i \in 1..Len(r) : r[i] \in Nat /\ r[i] # Space /\ r[i] # Slash
    BY <1>1, <1>2, <1>5, LenProperties, ElementOfSeq
  <2>2. u = w \o <<Slash>> \o r
    BY <1>2, <1>5 DEF TargetString
  <2> DEFINE N == Nat \ {Space}
  <2>3. /\ w \in Seq(N) /\ r \in Seq(N) /\ <<Slash>> \in Seq(N)
        /\ Len(<<Slash>>) = 1 /\ <<Slash>>[1] = Slash
    <3>1. Slash \in N
      BY DEF Slash, Space
    <3>2. \A i \in 1..Len(w) : w[i] \in N
      BY <1>3
    <3>3. \A i \in 1..Len(r) : r[i] \in N
      BY <2>1
    <3> HIDE DEF N
    <3>4. w \in [1..Len(w) -> N] /\ r \in [1..Len(r) -> N]
      BY <1>3, <2>1, <3>2, <3>3, LenProperties
    <3>5. w \in Seq(N) /\ r \in Seq(N)
      <4>1. \A n \in Nat : [1..n -> N] \subseteq Seq(N)
        BY SeqDef
      <4> QED BY <1>3, <2>1, <3>4, <4>1
    <3>6. <<Slash>> \in Seq(N)
      BY <3>1
    <3> QED BY <3>5, <3>6
  <2> HIDE DEF N
  <2>4. PICK v : v = w \o <<Slash>>
    OBVIOUS
  <2>5. /\ v \in Seq(N) /\ Len(v) = Len(w) + 1
        /\ \A i \in 1..(Len(w) + 1) : v[i] = IF i <= Len(w) THEN w[i] ELSE <<Slash>>[i - Len(w)]
    BY <2>3, <2>4, ConcatProperties
  <2>6. /\ u \in Seq(N) /\ Len(u) = Len(w) + 1 + Len(r)
        /\ \A i \in 1..(Len(w) + 1 + Len(r)) :
             u[i] = IF i <= Len(w) + 1 THEN v[i] ELSE r[i - (Len(w) + 1)]
    BY <2>2, <2>3, <2>4, <2>5, ConcatProperties
  <2>7. Len(u) \in Nat /\ Len(u) = Len(w) + 1 + Len(r) /\ DOMAIN u = 1..Len(u)
    BY <1>3, <2>1, <2>6, LenProperties
  <2>8. ASSUME NEW i \in 1..Len(w) PROVE i \in 1..Len(u) /\ u[i] = w[i]
    <3>1. i \in 1..(Len(w) + 1 + Len(r)) /\ i \in 1..(Len(w) + 1) /\ i <= Len(w) + 1 /\ i <= Len(w)
      BY <1>3, <2>1
    <3> QED BY <2>5, <2>6, <3>1
  <2>9. u[Len(w) + 1] = Slash
    <3>1. PICK j \in Nat : j = Len(w) + 1
      BY <1>3
    <3>2. j \in 1..(Len(w) + 1 + Len(r)) /\ j \in 1..(Len(w) + 1) /\ j <= Len(w) + 1
          /\ ~(j <= Len(w)) /\ j - Len(w) = 1
      BY <1>3, <2>1, <3>1
    <3>3. u[j] = v[j] /\ v[j] = <<Slash>>[1]
      BY <2>5, <2>6, <3>2
    <3> QED BY <2>3, <3>1, <3>3
  <2>10. ASSUME NEW i \in 1..Len(r) PROVE u[Len(w) + 1 + i] = r[i]
    <3>1. PICK j \in Nat : j = Len(w) + 1 + i
      BY <1>3, <2>1
    <3>2. j \in 1..(Len(w) + 1 + Len(r)) /\ ~(j <= Len(w) + 1) /\ j - (Len(w) + 1) = i
      BY <1>3, <2>1, <3>1
    <3> QED BY <2>6, <3>1, <3>2
  <2>11. Place(u, Slash) = Len(w) + 1
    <3>1. PICK k \in 1..Len(u) : k = Len(w) + 1
      BY <1>3, <2>1, <2>7
    <3>2. \A i \in 1..(k - 1) : u[i] # Slash
      BY <1>3, <2>8, <3>1
    <3> QED BY <2>7, <2>9, <3>1, <3>2, PlaceOf
  <2>12. CutBefore(u, Slash) = w
    <3>1. PICK c : c = SubSeq(u, 1, Len(w))
      OBVIOUS
    <3>2. \A i \in 1..Len(w) : u[i] \in N
      BY <2>6, <2>8, ElementOfSeq
    <3>3. /\ c \in Seq(N) /\ Len(c) = IF 1 <= Len(w) THEN Len(w) - 1 + 1 ELSE 0
          /\ \A i \in 1..(Len(w) - 1 + 1) : c[i] = u[1 + i - 1]
      BY <1>3, <3>1, <3>2, SubSeqProperties
    <3>4. Len(w) - 1 + 1 = Len(w) /\ \A i \in 1..Len(w) : 1 + i - 1 = i
      BY <1>3
    <3>5. Len(c) = Len(w) /\ \A i \in 1..Len(w) : c[i] = w[i]
      BY <1>3, <2>8, <3>3, <3>4
    <3>6. c = w
      BY <2>3, <3>3, <3>5, SeqEqual
    <3>7. Len(w) + 1 # 0 /\ Len(w) + 1 - 1 = Len(w)
      BY <1>3
    <3> QED BY <2>11, <3>1, <3>6, <3>7 DEF CutBefore
  <2>13. CutAfter(u, Slash) = r
    <3>1. PICK m \in Nat, e \in Nat : m = Len(w) + 2 /\ e = Len(u)
      BY <1>3, <2>7
    <3>2. PICK c : c = SubSeq(u, m, e)
      OBVIOUS
    <3>3. \A i \in m..e : u[i] \in N
      BY <2>6, <2>7, <3>1, ElementOfSeq
    <3>4. /\ c \in Seq(N) /\ Len(c) = IF m <= e THEN e - m + 1 ELSE 0
          /\ \A i \in 1..(e - m + 1) : c[i] = u[m + i - 1]
      BY <3>2, <3>3, SubSeqProperties
    <3>5. e - m + 1 = Len(r) /\ (m <= e \/ Len(r) = 0)
          /\ \A i \in 1..Len(r) : m + i - 1 = Len(w) + 1 + i
      BY <1>3, <2>1, <2>7, <3>1
    <3>6. Len(c) = Len(r) /\ \A i \in 1..Len(r) : c[i] = r[i]
      BY <2>10, <3>4, <3>5
    <3>7. c = r
      BY <2>3, <3>4, <3>6, SeqEqual
    <3>8. Len(w) + 1 # 0 /\ Len(w) + 1 + 1 = m
      BY <1>3, <3>1
    <3> QED BY <2>11, <3>1, <3>2, <3>7, <3>8 DEF CutAfter
  <2>14. u # <<>> /\ u[1] # Slash
    <3>1. 1 \in 1..Len(w)
      BY <1>3
    <3>2. u[1] = w[1] /\ Len(u) # 0
      BY <1>3, <2>1, <2>7, <2>8, <3>1
    <3> QED BY <1>3, <2>6, <3>1, <3>2, EmptySeq
  <2>15. ParseTarget(<<Space>> \o u \o <<Space>>) =
           [ok |-> u # <<>> /\ u[1] # Slash, peer |-> CutBefore(u, Slash), repo |-> CutAfter(u, Slash)]
    BY <2>6, <2>14, TrimmedIs DEF ParseTarget, N
  <2> QED BY <2>12, <2>13, <2>14, <2>15
<1> QED BY <1>4, <1>5

(* Whom a name is taken for: the first in the list of those that begin     *)
(* with it, and so none that begins with another's whole name.             *)
LEMMA FindPeerFacts ==
  ASSUME NEW peers, IsFiniteSet(peers), NEW name,
         \A p \in peers : p.instance \in Seq(Nat),
         \A p, q \in peers : p.instance = q.instance => p = q
  PROVE  LET named == {p \in peers : EqualFoldName(p.instance, name)}
         IN  /\ named = {} => FindPeer(peers, name) = <<>>
             /\ named # {} => \E p \in named :
                  /\ FindPeer(peers, name) = <<p>>
                  /\ ~\E q \in named \ {p} : IsPrefix(q.instance, p.instance)
<1> DEFINE named == {p \in peers : EqualFoldName(p.instance, name)}
<1>1. FindPeer(peers, name) = IF named = {} THEN <<>> ELSE <<FirstListed(named)>>
  BY DEF FindPeer
<1>2. IsFiniteSet(named) /\ named \subseteq peers
  BY FS_Subset
<1> HIDE DEF named
<1>3. ASSUME named # {}
      PROVE  \E p \in named : /\ FindPeer(peers, name) = <<p>>
                              /\ ~\E q \in named \ {p} : IsPrefix(q.instance, p.instance)
  <2>1. PICK p \in named : /\ p = FirstListed(named)
                           /\ \A q \in named \ {p} : Before(p.instance, q.instance)
    BY <1>2, <1>3, FirstListedExists
  <2>2. ASSUME NEW q \in named \ {p} PROVE ~IsPrefix(q.instance, p.instance)
    <3>1. PICK s \in Seq(Nat), t \in Seq(Nat) : s = p.instance /\ t = q.instance
      BY <1>2
    <3>2. s # t
      BY <1>2, <3>1
    <3>3. Before(s, t)
      BY <2>1, <3>1
    <3>4. SUFFICES ASSUME IsPrefix(t, s) PROVE Before(t, s)
      BY <3>1, <3>3, BeforeAsymmetric
    <3>5. Len(s) \in Nat /\ Len(t) \in Nat
      BY LenProperties
    <3>6. /\ Len(t) <= Len(s)
          /\ \A i \in 1..Len(t) : t[i] = s[i]
      <4>1. Len(t) <= Len(s) /\ SubSeq(t, 1, Len(t)) = SubSeq(s, 1, Len(t))
        BY <3>4 DEF IsPrefix
      <4>2. ASSUME NEW i \in 1..Len(t) PROVE t[i] = s[i]
        <5>1. PICK n \in Nat : n = Len(t)
          BY <3>5
        <5>2. /\ \A j \in 1..n : t[j] \in Nat /\ s[j] \in Nat
          BY <3>5, <4>1, <5>1, ElementOfSeq
        <5>3. /\ \A j \in 1..(n - 1 + 1) : SubSeq(t, 1, n)[j] = t[1 + j - 1]
              /\ \A j \in 1..(n - 1 + 1) : SubSeq(s, 1, n)[j] = s[1 + j - 1]
          BY <5>2, SubSeqProperties
        <5>4. i \in 1..(n - 1 + 1) /\ 1 + i - 1 = i
          BY <5>1
        <5> QED BY <4>1, <5>1, <5>3, <5>4
      <4> QED BY <4>1, <4>2
    <3>7. Len(t) < Len(s)
      <4>1. ASSUME Len(t) = Len(s) PROVE s = t
        BY <3>6, <4>1, SeqEqual
      <4> QED BY <3>2, <3>5, <3>6, <4>1
    <3>8. PICK n \in 0..Len(t) : n = Len(t)
      BY <3>5
    <3> QED BY <3>6, <3>7, <3>8 DEF Before
  <2> QED BY <1>1, <1>3, <2>1, <2>2
<1> QED BY <1>1, <1>3 DEF named

(* Everyone heard says what he is called, each a name of his own.          *)
LookupInv == RegistryOK /\ IsFiniteSet(heard)

(* The peers heard are finitely many, and their names tell them apart.     *)
LEMMA HeardFacts ==
  ASSUME LookupInv
  PROVE  /\ \A p \in heard : p.instance \in Seq(Nat)
         /\ \A p, q \in heard : p.instance = q.instance => p = q
         /\ IsFiniteSet(heard)
<1>1. \A e \in Entries : PeerFromEntry(e).instance = e.instance /\ e.instance \in Seq(Nat)
  BY EntryAssumption DEF PeerFromEntry
<1>2. \A p \in Lan : p.instance \in Seq(Nat)
  BY <1>1 DEF Lan
<1> QED BY <1>2 DEF LookupInv, RegistryOK

(* What a reference is resolved to has a repository.                       *)
LEMMA ResolvedHas ==
  ASSUME LookupInv, NEW ref
  PROVE  \/ ResolvePeer(heard, ref) = <<>>
         \/ \E p \in heard : \E repo : repo # <<>> /\ ResolvePeer(heard, ref) = <<[peer |-> p, repo |-> repo]>>
<1> DEFINE target == ParseTarget(ref)
           first == IF target.ok THEN FindPeer(heard, target.peer) ELSE <<>>
           repo == IF target.repo # <<>> THEN target.repo ELSE first[1].ad.repo
<1>1. ResolvePeer(heard, ref) =
        IF first = <<>> \/ repo = <<>> THEN <<>> ELSE <<[peer |-> first[1], repo |-> repo]>>
  BY DEF ResolvePeer
<1>2. first = <<>> \/ \E p \in heard : first = <<p>>
  BY HeardFacts, FindPeerFacts
<1> HIDE DEF first, repo
<1>3. ASSUME NEW p \in heard, first = <<p>> PROVE first[1] = p
  BY <1>3
<1> QED BY <1>1, <1>2, <1>3

(* Nobody has been heard when the browser starts.                          *)
LEMMA LookupInvInit ==
  Browsing => LookupInv
BY FS_EmptySet DEF Browsing, LookupInv, RegistryOK

(* Hear puts one peer in the place of its namesake; nothing else does.     *)
LEMMA LookupInvPreserved ==
  ASSUME LookupInv, [CommandNext]_commandVars
  PROVE  LookupInv'
<1>1. ASSUME NEW e \in Entries, Hear(e) PROVE LookupInv'
  <2>1. PICK rest : rest = {p \in heard : p.instance # e.instance}
    OBVIOUS
  <2>2. rest \subseteq heard /\ IsFiniteSet(rest)
    BY <2>1, FS_Subset DEF LookupInv
  <2>3. heard' = rest \cup {PeerFromEntry(e)} /\ stage' = stage /\ found' = found
    BY <1>1, <2>1 DEF Hear
  <2>4. IsFiniteSet(heard')
    BY <2>2, <2>3, FS_AddElement
  <2>5. PeerFromEntry(e) \in Lan /\ PeerFromEntry(e).instance = e.instance
    BY DEF Lan, PeerFromEntry
  <2>6. heard' \subseteq Lan /\ \A p, q \in heard' : p.instance = q.instance => p = q
    BY <2>1, <2>2, <2>3, <2>5 DEF LookupInv, RegistryOK
  <2> QED BY <2>3, <2>4, <2>6 DEF LookupInv, RegistryOK
<1>2. ASSUME NEW ref, Resolve(ref) PROVE LookupInv'
  <2>1. /\ heard' = {} /\ found' = ResolvePeer(heard, ref)
        /\ stage' = IF found' = <<>> THEN "failed" ELSE "found"
    BY <1>2 DEF Resolve
  <2>2. heard \subseteq Lan
    BY DEF LookupInv, RegistryOK
  <2>3. CASE ResolvePeer(heard, ref) = <<>>
    BY <2>1, <2>3, FS_EmptySet DEF LookupInv, RegistryOK
  <2>4. ASSUME NEW p \in heard, NEW repo, repo # <<>>,
               ResolvePeer(heard, ref) = <<[peer |-> p, repo |-> repo]>>
        PROVE  LookupInv'
    <3>1. PICK r : r = [peer |-> p, repo |-> repo]
      OBVIOUS
    <3>2. found' = <<r>> /\ r.peer \in Lan /\ r.repo # <<>>
      BY <2>1, <2>2, <2>4, <3>1
    <3>3. found' # <<>> /\ \A i \in DOMAIN found' : found'[i] = r
      BY <3>2
    <3> QED BY <2>1, <3>2, <3>3, FS_EmptySet DEF LookupInv, RegistryOK
  <2> QED BY <2>3, <2>4, ResolvedHas
<1>3. CASE TakeAim
  BY <1>3 DEF TakeAim, LookupInv, RegistryOK
<1>4. CASE DestExists
  BY <1>4 DEF DestExists, LookupInv, RegistryOK
<1>5. CASE UNCHANGED lookupVars
  BY <1>5 DEF lookupVars, LookupInv, RegistryOK
<1>6. \/ \E e \in Entries : Hear(e)
      \/ \E ref : Resolve(ref)
      \/ TakeAim
      \/ DestExists
      \/ UNCHANGED lookupVars
  BY DEF CommandNext, HandOver, LookUp, UseIdentity, Address, commandVars
<1> QED BY <1>1, <1>2, <1>3, <1>4, <1>5, <1>6

(* The aim of a reference typed as TargetString or with spaces around it.  *)
LEMMA AimOf ==
  ASSUME LookupInv, NEW t \in Targets
  PROVE  LET aim == Aim(heard, <<Space>> \o TargetString(t) \o <<Space>>)
             named == {p \in heard : EqualFoldName(p.instance, t.peer)}
             longer(p) == \E q \in named \ {p} : IsPrefix(q.instance, p.instance)
             asked(p) == IF t.repo = <<>> THEN p.ad.repo ELSE t.repo
         IN  IF aim = <<>>
             THEN named = {} \/ \E p \in named : asked(p) = <<>> \/ ~HasAddr(p)
             ELSE \E p \in named :
                    /\ ~longer(p)
                    /\ aim = <<[addr |-> Addr(p), pin |-> p.instance, path |-> PathAsked(asked(p))]>>
<1>1. PICK ref : ref = <<Space>> \o TargetString(t) \o <<Space>>
  OBVIOUS
<1> DEFINE named == {p \in heard : EqualFoldName(p.instance, t.peer)}
           longer(p) == \E q \in named \ {p} : IsPrefix(q.instance, p.instance)
           asked(p) == IF t.repo = <<>> THEN p.ad.repo ELSE t.repo
           target == ParseTarget(ref)
           first == IF target.ok THEN FindPeer(heard, target.peer) ELSE <<>>
           repo == IF target.repo # <<>> THEN target.repo ELSE first[1].ad.repo
           r == ResolvePeer(heard, ref)
           aim == Aim(heard, ref)
<1> SUFFICES IF aim = <<>>
             THEN named = {} \/ \E p \in named : asked(p) = <<>> \/ ~HasAddr(p)
             ELSE \E p \in named :
                    /\ ~longer(p)
                    /\ aim = <<[addr |-> Addr(p), pin |-> p.instance, path |-> PathAsked(asked(p))]>>
  BY <1>1
<1>2. target.ok /\ target.peer = t.peer /\ target.repo = t.repo
  <2>1. target = [ok |-> TRUE, peer |-> t.peer, repo |-> t.repo]
    BY <1>1, TargetRead
  <2> HIDE DEF target
  <2> QED BY <2>1
<1>3. first = FindPeer(heard, t.peer)
  BY <1>2
<1>4. /\ named = {} => first = <<>>
      /\ named # {} => \E p \in named : first = <<p>> /\ ~longer(p)
  BY <1>3, HeardFacts, FindPeerFacts
<1>5. r = IF first = <<>> \/ repo = <<>> THEN <<>> ELSE <<[peer |-> first[1], repo |-> repo]>>
  BY DEF ResolvePeer
<1>6. aim = IF r = <<>> \/ ~HasAddr(r[1].peer) THEN <<>>
            ELSE <<[addr |-> Addr(r[1].peer), pin |-> r[1].peer.instance, path |-> PathAsked(r[1].repo)]>>
  BY DEF Aim, PinOf
<1>7. CASE named = {}
  BY <1>4, <1>5, <1>6, <1>7
<1>8. CASE named # {}
  <2>1. PICK p \in named : first = <<p>> /\ ~longer(p)
    BY <1>4, <1>8
  <2>2. first # <<>> /\ first[1] = p
    BY <2>1
  <2>3. repo = asked(p)
    BY <1>2, <2>2
  <2> HIDE DEF first, repo, r, aim, asked, longer, named, target
  <2>4. CASE asked(p) = <<>>
    BY <1>5, <1>6, <2>1, <2>3, <2>4
  <2>5. CASE asked(p) # <<>>
    <3>1. PICK found1 : found1 = [peer |-> p, repo |-> asked(p)]
      OBVIOUS
    <3>2. found1.peer = p /\ found1.repo = asked(p)
      BY <3>1
    <3>3. r = <<found1>>
      BY <1>5, <2>2, <2>3, <2>5, <3>1
    <3>4. r # <<>> /\ r[1] = found1
      BY <3>3
    <3>5. aim = IF ~HasAddr(p) THEN <<>>
                ELSE <<[addr |-> Addr(p), pin |-> p.instance, path |-> PathAsked(asked(p))]>>
      BY <1>6, <3>2, <3>4
    <3> QED BY <2>1, <3>5
  <2> QED BY <2>4, <2>5
<1> QED BY <1>7, <1>8

(* A command aims at one host that was heard, for every name and reference *)
(* (findPeer, resolvePeer, clientForPeer).                                 *)
THEOREM AimsAtOneHost ==
  CommandSpec => []AimIsOneHost
<1>1. LookupInv => AimIsOneHost
  BY AimOf DEF AimIsOneHost, LookupInv
<1>2. CommandInit => LookupInv
  BY LookupInvInit DEF CommandInit
<1>3. LookupInv /\ [CommandNext]_commandVars => LookupInv'
  BY LookupInvPreserved
<1> QED BY <1>1, <1>2, <1>3, PTL DEF CommandSpec

----------------------------------------------------------------------------------
(* Tokens.                                                                 *)

(* Division by a base.                                                     *)
LEMMA DivFacts ==
  ASSUME NEW n \in Nat, NEW b \in Nat, b >= 2
  PROVE  /\ n \div b \in Nat /\ n % b \in 0..(b - 1) /\ n = (n \div b) * b + (n % b)
         /\ n > 0 => n \div b < n
<1>1. n \div b \in Int /\ n % b \in 0..(b - 1)
  OBVIOUS
<1>2. n = (n \div b) * b + (n % b)
  OBVIOUS
<1>3. n \div b \in Nat
  BY <1>1, <1>2
<1>4. n > 0 => n \div b < n
  BY <1>1, <1>2, <1>3
<1> QED BY <1>1, <1>2, <1>3, <1>4

(* A digit appended to a number is divided off again.                      *)
LEMMA DivUnique ==
  ASSUME NEW q \in Nat, NEW b \in Nat, b >= 2, NEW d \in 0..(b - 1)
  PROVE  (q * b + d) \div b = q /\ (q * b + d) % b = d
<1>1. q * b \in Nat /\ q * b + d \in Nat
  OBVIOUS
<1> QED BY <1>1

(* Dividing makes a number less, as the recursion of DigitsOf needs.       *)
LEMMA DivLess ==
  ASSUME NEW n \in Nat \ {0}, NEW b \in Nat, b >= 2
  PROVE  \E m \in Nat : m = n \div b /\ m < n
<1>1. n \div b \in Nat /\ n \div b < n
  BY DivFacts
<1> QED BY ONLY <1>1

(* The recursive function of ValueOf exists, and any other that adds the   *)
(* digits of s up gives the same value.                                    *)
Adds(f, s, b, l) == f[0] = 0 /\ \A n \in 1..l : f[n] = f[n - 1] * b + s[n]

(* There is such a function for the digits of any sequence.                *)
LEMMA ValueFunction ==
  ASSUME NEW s, Len(s) \in Nat, NEW b
  PROVE  \E f : ValueOf(s, b) = f[Len(s)] /\ Adds(f, s, b, Len(s))
<1> DEFINE Is(f, l) == f = [n \in 0..l |-> IF n = 0 THEN 0 ELSE f[n - 1] * b + s[n]]
           T == {l \in Nat : \E f : Is(f, l)}
<1>1. 0 \in T
  <2>1. PICK f : f = [n \in 0..0 |-> 0]
    OBVIOUS
  <2>2. Is(f, 0)
    BY <2>1
  <2> QED BY <2>2
<1>2. ASSUME NEW l \in T PROVE l + 1 \in T
  <2>1. PICK f : Is(f, l)
    BY <1>2
  <2>2. PICK g : g = [n \in 0..(l + 1) |-> IF n = l + 1 THEN f[l] * b + s[l + 1] ELSE f[n]]
    OBVIOUS
  <2>3. ASSUME NEW n \in 0..(l + 1)
        PROVE  g[n] = IF n = 0 THEN 0 ELSE g[n - 1] * b + s[n]
    <3>1. CASE n = 0
      BY <2>1, <2>2, <3>1
    <3>2. CASE n = l + 1
      <4>1. l \in 0..(l + 1) /\ l # l + 1 /\ n - 1 = l /\ n # 0
        BY <3>2
      <4>2. g[l] = f[l] /\ g[n] = f[l] * b + s[n]
        BY <2>2, <3>2, <4>1
      <4> QED BY <4>1, <4>2
    <3>3. CASE n # 0 /\ n # l + 1
      <4>1. n \in 0..l /\ n - 1 \in 0..(l + 1) /\ n - 1 # l + 1
        BY <3>3
      <4>2. g[n] = f[n] /\ g[n - 1] = f[n - 1]
        BY <2>2, <3>3, <4>1
      <4>3. f[n] = f[n - 1] * b + s[n]
        BY <2>1, <3>3, <4>1
      <4> QED BY <3>3, <4>2, <4>3
    <3> QED BY <3>1, <3>2, <3>3
  <2>4. Is(g, l + 1)
    BY <2>2, <2>3
  <2>5. l + 1 \in Nat
    OBVIOUS
  <2> HIDE DEF Is
  <2> QED BY <2>4, <2>5
<1>3. T = Nat
  <2>1. T \in SUBSET Nat
    OBVIOUS
  <2> HIDE DEF T
  <2> QED BY <1>1, <1>2, <2>1, StepInduction
<1>4. \E f : Is(f, Len(s))
  BY <1>3
<1>5. PICK f : f = CHOOSE g : Is(g, Len(s))
  OBVIOUS
<1>6. Is(f, Len(s))
  BY <1>4, <1>5
<1>7. ValueOf(s, b) = f[Len(s)]
  BY <1>5 DEF ValueOf
<1>8. Adds(f, s, b, Len(s))
  BY <1>6 DEF Adds
<1> QED BY <1>7, <1>8

(* Whatever adds the digits up like this comes to their value.             *)
LEMMA ValueUnique ==
  ASSUME NEW s, Len(s) \in Nat, NEW b, NEW f, Adds(f, s, b, Len(s))
  PROVE  ValueOf(s, b) = f[Len(s)]
<1>1. PICK g : ValueOf(s, b) = g[Len(s)] /\ Adds(g, s, b, Len(s))
  BY ValueFunction
<1> DEFINE T == {n \in Nat : n <= Len(s) => f[n] = g[n]}
<1>2. 0 \in T
  BY <1>1 DEF Adds
<1>3. ASSUME NEW n \in T PROVE n + 1 \in T
  <2> SUFFICES ASSUME n + 1 <= Len(s) PROVE f[n + 1] = g[n + 1]
    OBVIOUS
  <2>1. n + 1 \in 1..Len(s) /\ n + 1 - 1 = n /\ f[n] = g[n]
    OBVIOUS
  <2> QED BY <1>1, <2>1 DEF Adds
<1>4. T = Nat
  <2>1. T \in SUBSET Nat
    OBVIOUS
  <2> HIDE DEF T
  <2> QED BY <1>2, <1>3, <2>1, StepInduction
<1>5. Len(s) \in T /\ Len(s) <= Len(s)
  BY <1>4
<1> QED BY <1>1, <1>5

(* What a digit adds.                                                      *)
LEMMA ValueSteps ==
  ASSUME NEW b
  PROVE  /\ ValueOf(<<>>, b) = 0
         /\ \A s \in Seq(Nat), d \in Nat : ValueOf(Append(s, d), b) = ValueOf(s, b) * b + d
<1>1. ValueOf(<<>>, b) = 0
  <2>1. Len(<<>>) = 0
    OBVIOUS
  <2>2. PICK f : ValueOf(<<>>, b) = f[Len(<<>>)] /\ Adds(f, <<>>, b, Len(<<>>))
    BY <2>1, ValueFunction
  <2> QED BY <2>1, <2>2 DEF Adds
<1>2. ASSUME NEW s \in Seq(Nat), NEW d \in Nat
      PROVE  ValueOf(Append(s, d), b) = ValueOf(s, b) * b + d
  <2>1. PICK t : t = Append(s, d)
    OBVIOUS
  <2>2. /\ Len(t) = Len(s) + 1 /\ t[Len(s) + 1] = d
        /\ \A i \in 1..Len(s) : t[i] = s[i]
    BY <2>1, AppendProperties
  <2>3. PICK l \in Nat : l = Len(s) /\ l + 1 = Len(t)
    BY <2>2, LenProperties
  <2>4. PICK f : ValueOf(t, b) = f[l + 1] /\ Adds(f, t, b, l + 1)
    BY <2>3, ValueFunction
  <2>5. Adds(f, s, b, l)
    BY <2>2, <2>3, <2>4 DEF Adds
  <2>6. ValueOf(s, b) = f[l]
    BY <2>3, <2>5, ValueUnique
  <2>7. f[l + 1] = f[l] * b + d
    <3>1. l + 1 \in 1..(l + 1) /\ l + 1 - 1 = l
      OBVIOUS
    <3> QED BY <2>2, <2>3, <2>4, <3>1 DEF Adds
  <2> QED BY <2>1, <2>4, <2>6, <2>7
<1> QED BY <1>1, <1>2

(* The digits of a number stand for a number.                              *)
LEMMA ValueNat ==
  ASSUME NEW b \in Nat, NEW s \in Seq(Nat)
  PROVE  ValueOf(s, b) \in Nat
<1> DEFINE T == {u \in Seq(Nat) : ValueOf(u, b) \in Nat}
<1>1. <<>> \in T
  BY ValueSteps, EmptySeq
<1>2. ASSUME NEW u \in T, NEW e \in Nat PROVE Append(u, e) \in T
  <2>1. Append(u, e) \in Seq(Nat) /\ ValueOf(Append(u, e), b) = ValueOf(u, b) * b + e
    BY AppendProperties, ValueSteps
  <2>2. PICK v \in Nat : v = ValueOf(u, b)
    OBVIOUS
  <2>3. v * b + e \in Nat
    OBVIOUS
  <2> QED BY <2>1, <2>2, <2>3
<1>3. T = Seq(Nat)
  <2>1. T \in SUBSET Seq(Nat)
    OBVIOUS
  <2> HIDE DEF T
  <2> QED BY <1>1, <1>2, <2>1, AppendInduction
<1> QED BY <1>3

(* The recursive function of DigitsOf exists, and holds the digits of every*)
(* number up to its own.                                                   *)
Divides(f, b, l) == f[0] = <<>> /\ \A n \in 1..l : f[n] = Append(f[n \div b], n % b)

(* There is such a function for any number.                                *)
LEMMA DigitsFunction ==
  ASSUME NEW number \in Nat, NEW b \in Nat, b >= 2
  PROVE  \E f : DigitsOf(number, b) = f[number] /\ Divides(f, b, number)
<1> DEFINE Is(f, l) == f = [n \in 0..l |-> IF n = 0 THEN <<>> ELSE Append(f[n \div b], n % b)]
           T == {l \in Nat : \E f : Is(f, l)}
<1>1. 0 \in T
  <2>1. PICK f : f = [n \in 0..0 |-> <<>>]
    OBVIOUS
  <2>2. Is(f, 0)
    BY <2>1
  <2> QED BY <2>2
<1>2. ASSUME NEW l \in T PROVE l + 1 \in T
  <2>1. PICK f : Is(f, l)
    BY <1>2
  <2>2. PICK g : g = [n \in 0..(l + 1) |->
                        IF n = l + 1 THEN Append(f[n \div b], n % b) ELSE f[n]]
    OBVIOUS
  <2>3. ASSUME NEW n \in 0..(l + 1)
        PROVE  g[n] = IF n = 0 THEN <<>> ELSE Append(g[n \div b], n % b)
    <3>1. CASE n = 0
      BY <2>1, <2>2, <3>1
    <3>2. CASE n # 0
      <4>1. PICK m \in 0..l : m = n \div b
        <5>1. n \in Nat \ {0}
          BY <3>2
        <5>2. PICK m \in Nat : m = n \div b /\ m < n
          BY <5>1, DivLess
        <5>3. m \in 0..l
          BY <5>2
        <5> QED BY <5>2, <5>3
      <4>2. g[m] = f[m]
        BY <2>2, <4>1
      <4>3. CASE n = l + 1
        BY <2>2, <3>2, <4>1, <4>2, <4>3
      <4>4. CASE n # l + 1
        <5>1. n \in 0..l
          BY <4>4
        <5>2. g[n] = f[n] /\ f[n] = Append(f[n \div b], n % b)
          BY <2>1, <2>2, <3>2, <4>4, <5>1
        <5> QED BY <3>2, <4>1, <4>2, <5>2
      <4> QED BY <4>3, <4>4
    <3> QED BY <3>1, <3>2
  <2>4. Is(g, l + 1)
    BY <2>2, <2>3
  <2>5. l + 1 \in Nat
    OBVIOUS
  <2> HIDE DEF Is
  <2> QED BY <2>4, <2>5
<1>3. T = Nat
  <2>1. T \in SUBSET Nat
    OBVIOUS
  <2> HIDE DEF T
  <2> QED BY <1>1, <1>2, <2>1, StepInduction
<1>4. \E f : Is(f, number)
  BY <1>3
<1>5. PICK f : f = CHOOSE g : Is(g, number)
  OBVIOUS
<1>6. Is(f, number)
  BY <1>4, <1>5
<1>7. DigitsOf(number, b) = f[number]
  BY <1>5 DEF DigitsOf
<1>8. Divides(f, b, number)
  <2>1. f[0] = <<>>
    BY <1>6
  <2>2. ASSUME NEW n \in 1..number PROVE f[n] = Append(f[n \div b], n % b)
    <3>1. n \in 0..number /\ n # 0
      OBVIOUS
    <3> QED BY <1>6, <3>1
  <2> QED BY <2>1, <2>2 DEF Divides
<1> QED BY <1>7, <1>8

(* Whatever divides a number like this comes to its digits.                *)
LEMMA DigitsUnique ==
  ASSUME NEW number \in Nat, NEW b \in Nat, b >= 2, NEW f, Divides(f, b, number),
         NEW n \in 0..number
  PROVE  f[n] = DigitsOf(n, b)
<1>1. PICK g : DigitsOf(n, b) = g[n] /\ Divides(g, b, n)
  BY DigitsFunction
<1> DEFINE T == {m \in Nat : m <= n => f[m] = g[m]}
<1>2. ASSUME NEW m \in Nat, \A k \in Nat : k < m => k \in T
      PROVE  m \in T
  <2>1. CASE m = 0
    BY <1>1, <2>1 DEF Divides
  <2>2. CASE m # 0 /\ m <= n
    <3>1. PICK k \in Nat : k = m \div b /\ k < m
      BY <2>2, DivLess
    <3>2. f[k] = g[k]
      BY <1>2, <2>2, <3>1
    <3>3. m \in 1..n /\ m \in 1..number
      BY <2>2
    <3> QED BY <1>1, <3>1, <3>2, <3>3 DEF Divides
  <2> QED BY <2>1, <2>2
<1>3. T = Nat
  <2>1. T \in SUBSET Nat
    OBVIOUS
  <2> HIDE DEF T
  <2> QED BY <1>2, <2>1, StrongInduction
<1>4. n \in T /\ n <= n
  BY <1>3
<1> QED BY <1>1, <1>4

(* The last digit is the remainder.                                        *)
LEMMA DigitsSteps ==
  ASSUME NEW b \in Nat, b >= 2
  PROVE  /\ DigitsOf(0, b) = <<>>
         /\ \A n \in Nat \ {0} : DigitsOf(n, b) = Append(DigitsOf(n \div b, b), n % b)
<1>1. DigitsOf(0, b) = <<>>
  <2>1. PICK f : DigitsOf(0, b) = f[0] /\ Divides(f, b, 0)
    BY DigitsFunction
  <2> QED BY <2>1 DEF Divides
<1>2. ASSUME NEW n \in Nat \ {0}
      PROVE  DigitsOf(n, b) = Append(DigitsOf(n \div b, b), n % b)
  <2>1. PICK f : DigitsOf(n, b) = f[n] /\ Divides(f, b, n)
    BY DigitsFunction
  <2>2. PICK m \in 0..n : m = n \div b
    <3>1. PICK m \in Nat : m = n \div b /\ m < n
      BY DivLess
    <3>2. m \in 0..n
      BY <3>1
    <3> QED BY <3>1, <3>2
  <2>3. f[m] = DigitsOf(m, b)
    BY <2>1, DigitsUnique
  <2>4. n \in 1..n
    OBVIOUS
  <2> QED BY <2>1, <2>2, <2>3, <2>4 DEF Divides
<1> QED BY <1>1, <1>2

(* Zeros in front of a sequence, and a digit behind it.                    *)
LEMMA ZerosFacts ==
  ASSUME NEW S, 0 \in S, NEW k \in Nat
  PROVE  Zeros(k) \in Seq(S) /\ Len(Zeros(k)) = k /\ \A i \in 1..k : Zeros(k)[i] = 0
<1>1. PICK z : z = Zeros(k)
  OBVIOUS
<1>2. z \in [1..k -> S] /\ \A i \in 1..k : z[i] = 0
  BY <1>1 DEF Zeros
<1>3. z \in Seq(S)
  BY <1>2, SeqDef
<1>4. DOMAIN z = 1..k /\ DOMAIN z = 1..Len(z) /\ Len(z) \in Nat
  BY <1>2, <1>3, LenProperties
<1>5. Len(z) = k
  BY <1>4
<1> QED BY <1>1, <1>2, <1>3, <1>5

(* Zeros in front stay in front when a digit is appended.                  *)
LEMMA ZerosAppend ==
  ASSUME NEW S, 0 \in S, NEW k \in Nat, NEW s \in Seq(S), NEW d \in S
  PROVE  Zeros(k) \o Append(s, d) = Append(Zeros(k) \o s, d)
<1>1. PICK z \in Seq(S) : z = Zeros(k)
  BY ZerosFacts
<1>2. z \o s \in Seq(S) /\ <<d>> \in Seq(S)
  BY ConcatProperties
<1>3. Append(s, d) = s \o <<d>> /\ Append(z \o s, d) = (z \o s) \o <<d>>
  BY <1>2, AppendIsConcat
<1>4. (z \o s) \o <<d>> = z \o (s \o <<d>>)
  BY <1>2, ConcatAssociative
<1> QED BY <1>1, <1>3, <1>4

(* Zeros alone stand for zero.                                             *)
LEMMA ValueOfZeros ==
  ASSUME NEW k \in Nat, NEW b \in Nat
  PROVE  ValueOf(Zeros(k), b) = 0
<1> DEFINE T == {n \in Nat : ValueOf(Zeros(n), b) = 0}
<1>1. 0 \in T
  <2>1. Zeros(0) \in Seq(Nat) /\ Len(Zeros(0)) = 0
    BY ZerosFacts
  <2>2. Zeros(0) = <<>>
    BY <2>1, EmptySeq
  <2> QED BY <2>2, ValueSteps
<1>2. ASSUME NEW n \in T PROVE n + 1 \in T
  <2>1. PICK z \in Seq(Nat) : z = Zeros(n) /\ Len(z) = n /\ \A i \in 1..n : z[i] = 0
    BY ZerosFacts
  <2>2. PICK y \in Seq(Nat) : y = Zeros(n + 1) /\ Len(y) = n + 1 /\ \A i \in 1..(n + 1) : y[i] = 0
    <3>1. PICK m \in Nat : m = n + 1
      OBVIOUS
    <3> QED BY <3>1, ZerosFacts
  <2>3. PICK a : a = Append(z, 0)
    OBVIOUS
  <2>4. /\ a \in Seq(Nat) /\ Len(a) = n + 1 /\ a[n + 1] = 0
        /\ \A i \in 1..n : a[i] = 0
    BY <2>1, <2>3, AppendProperties
  <2>5. y = a
    <3>1. \A i \in 1..(n + 1) : i \in 1..n \/ i = n + 1
      OBVIOUS
    <3> QED BY <2>2, <2>4, <3>1, SeqEqual
  <2>6. ValueOf(a, b) = ValueOf(z, b) * b + 0
    BY <2>3, ValueSteps
  <2> QED BY <2>1, <2>2, <2>5, <2>6
<1>3. T = Nat
  <2>1. T \in SUBSET Nat
    OBVIOUS
  <2> HIDE DEF T
  <2> QED BY <1>1, <1>2, <2>1, StepInduction
<1> QED BY <1>3

(* The digits of a number stand for it, with or without zeros in front,    *)
(* and have none of their own there.                                       *)
LEMMA DigitsFacts ==
  ASSUME NEW b \in Nat, b >= 2, NEW n \in Nat
  PROVE  /\ DigitsOf(n, b) \in Seq(0..(b - 1))
         /\ n = 0 => DigitsOf(n, b) = <<>>
         /\ n # 0 => DigitsOf(n, b) # <<>> /\ DigitsOf(n, b)[1] # 0
         /\ \A k \in Nat : ValueOf(Zeros(k) \o DigitsOf(n, b), b) = n
<1> DEFINE Good(m) == /\ DigitsOf(m, b) \in Seq(0..(b - 1))
                      /\ m # 0 => DigitsOf(m, b) # <<>> /\ DigitsOf(m, b)[1] # 0
                      /\ \A k \in Nat : ValueOf(Zeros(k) \o DigitsOf(m, b), b) = m
           T == {m \in Nat : Good(m)}
<1>1. DigitsOf(0, b) = <<>>
  BY DigitsSteps
<1>2. ASSUME NEW m \in Nat, \A j \in Nat : j < m => j \in T
      PROVE  m \in T
  <2>1. CASE m = 0
    <3>1. DigitsOf(m, b) \in Seq(0..(b - 1))
      BY <1>1, <2>1, EmptySeq
    <3>2. ASSUME NEW k \in Nat PROVE ValueOf(Zeros(k) \o DigitsOf(m, b), b) = m
      <4>1. Zeros(k) \in Seq(Nat)
        BY ZerosFacts
      <4>2. Zeros(k) \o DigitsOf(m, b) = Zeros(k)
        BY <1>1, <2>1, <4>1, ConcatEmptySeq
      <4> QED BY <2>1, <4>2, ValueOfZeros
    <3> QED BY <2>1, <3>1, <3>2
  <2>2. CASE m # 0
    <3>1. PICK q \in Nat : q = m \div b /\ q < m
      BY <2>2, DivLess
    <3>2. PICK r \in 0..(b - 1) : r = m % b /\ m = q * b + r
      <4>1. m % b \in 0..(b - 1) /\ m = (m \div b) * b + (m % b)
        BY DivFacts
      <4> QED BY ONLY <3>1, <4>1
    <3>3. PICK u : u = DigitsOf(q, b)
      OBVIOUS
    <3>4. /\ u \in Seq(0..(b - 1))
          /\ q # 0 => u # <<>> /\ u[1] # 0
          /\ \A k \in Nat : ValueOf(Zeros(k) \o u, b) = q
      BY <1>2, <3>1, <3>3
    <3>5. DigitsOf(m, b) = Append(u, r)
      BY <2>2, <3>1, <3>2, <3>3, DigitsSteps
    <3>6. PICK v : v = Append(u, r)
      OBVIOUS
    <3>7. /\ v \in Seq(0..(b - 1)) /\ v # <<>> /\ v[Len(u) + 1] = r
          /\ \A i \in 1..Len(u) : v[i] = u[i]
      BY <3>4, <3>6, AppendProperties
    <3>8. v[1] # 0
      <4>1. CASE q = 0
        <5>1. u = <<>>
          BY <1>1, <3>3, <4>1
        <5>2. v[1] = r
          BY <3>6, <5>1
        <5> QED BY <2>2, <3>2, <4>1, <5>2
      <4>2. CASE q # 0
        <5>1. Len(u) \in Nat \ {0}
          BY <3>4, <4>2, EmptySeq
        <5> QED BY <3>4, <3>7, <4>2, <5>1
      <4> QED BY <4>1, <4>2
    <3>9. ASSUME NEW k \in Nat PROVE ValueOf(Zeros(k) \o v, b) = m
      <4>1. 0 \in 0..(b - 1)
        OBVIOUS
      <4>2. Zeros(k) \o v = Append(Zeros(k) \o u, r)
        BY <3>4, <3>6, <4>1, ZerosAppend
      <4>3. Zeros(k) \o u \in Seq(Nat) /\ r \in Nat
        <5>1. Zeros(k) \in Seq(0..(b - 1))
          BY <4>1, ZerosFacts
        <5>2. Zeros(k) \o u \in Seq(0..(b - 1)) /\ 0..(b - 1) \subseteq Nat
          BY <3>4, <5>1, ConcatProperties
        <5> QED BY <5>2, SeqMonotonic
      <4>4. ValueOf(Append(Zeros(k) \o u, r), b) = ValueOf(Zeros(k) \o u, b) * b + r
        BY <4>3, ValueSteps
      <4>5. ValueOf(Zeros(k) \o u, b) = q
        BY <3>4
      <4> QED BY <3>2, <4>2, <4>4, <4>5
    <3>10. Good(m)
      BY <3>5, <3>6, <3>7, <3>8, <3>9
    <3> HIDE DEF Good
    <3> QED BY <3>10
  <2> QED BY <2>1, <2>2
<1>3. T = Nat
  <2>1. T \in SUBSET Nat
    OBVIOUS
  <2> HIDE DEF T
  <2> QED BY <1>2, <2>1, StrongInduction
<1>4. Good(n)
  BY <1>3
<1> QED BY <1>1, <1>4

(* Zeros in front are counted up to the first digit that is none.          *)
LEMMA LeadingZerosIs ==
  ASSUME NEW s \in Seq(Nat), NEW k \in 0..Len(s),
         \A i \in 1..k : s[i] = 0, k < Len(s) => s[k + 1] # 0
  PROVE  LeadingZeros(s) = k
<1> DEFINE Counts(n) == (\A i \in 1..n : s[i] = 0) /\ (n < Len(s) => s[n + 1] # 0)
<1>1. Len(s) \in Nat
  BY LenProperties
<1>2. ASSUME NEW n \in 0..Len(s), Counts(n) PROVE n = k
  <2>1. CASE n < k
    <3>1. n + 1 \in 1..k /\ n < Len(s)
      BY <1>1, <2>1
    <3> QED BY <1>2, <3>1
  <2>2. CASE k < n
    <3>1. k + 1 \in 1..n /\ k < Len(s)
      BY <1>1, <2>2
    <3> QED BY <1>2, <3>1
  <2> QED BY <1>1, <2>1, <2>2
<1>3. Counts(k)
  OBVIOUS
<1>4. LeadingZeros(s) = CHOOSE n \in 0..Len(s) : Counts(n)
  BY DEF LeadingZeros
<1> HIDE DEF Counts
<1> QED BY <1>2, <1>3, <1>4

(* The digits in front are zero, and the one after them is not.            *)
LEMMA LeadingZerosFacts ==
  ASSUME NEW s \in Seq(Nat)
  PROVE  /\ LeadingZeros(s) \in 0..Len(s)
         /\ \A i \in 1..LeadingZeros(s) : s[i] = 0
         /\ LeadingZeros(s) < Len(s) => s[LeadingZeros(s) + 1] # 0
<1>1. Len(s) \in Nat
  BY LenProperties
<1>2. \E k \in 0..Len(s) : (\A i \in 1..k : s[i] = 0) /\ (k < Len(s) => s[k + 1] # 0)
  <2> DEFINE D == {i \in 1..Len(s) : s[i] # 0}
  <2>1. CASE D = {}
    <3>1. PICK k \in 0..Len(s) : k = Len(s)
      BY <1>1
    <3> QED BY <2>1, <3>1
  <2>2. CASE D # {}
    <3>1. PICK d \in D : \A i \in D : d <= i
      <4>1. D \in SUBSET Nat
        OBVIOUS
      <4> QED BY <2>2, <4>1, LeastNat
    <3>2. PICK k \in Nat : k + 1 = d
      <4>1. d - 1 \in Nat /\ d - 1 + 1 = d
        OBVIOUS
      <4> QED BY <4>1
    <3>3. k \in 0..Len(s) /\ k < Len(s) /\ s[k + 1] # 0
      BY <1>1, <3>2
    <3>4. ASSUME NEW i \in 1..k, s[i] # 0 PROVE FALSE
      <4>1. i \in D /\ i < d
        BY <1>1, <3>2, <3>3, <3>4
      <4> QED BY <3>1, <4>1
    <3> QED BY <3>3, <3>4
  <2> QED BY <2>1, <2>2
<1> QED BY <1>2 DEF LeadingZeros

(* What a text in one base becomes in another: base58Encode from bytes to  *)
(* characters, base58Decode from characters to bytes.                      *)
Recode(s, from, to) == Zeros(LeadingZeros(s)) \o DigitsOf(ValueOf(s, from), to)

(* The value and the zeros in front survive it.                            *)
LEMMA RecodeFacts ==
  ASSUME NEW from \in Nat, NEW to \in Nat, to >= 2, NEW s \in Seq(Nat)
  PROVE  /\ Recode(s, from, to) \in Seq(0..(to - 1))
         /\ Recode(s, from, to) \in Seq(Nat)
         /\ ValueOf(Recode(s, from, to), to) = ValueOf(s, from)
         /\ LeadingZeros(Recode(s, from, to)) = LeadingZeros(s)
<1>1. PICK n \in Nat, k \in Nat : n = ValueOf(s, from) /\ k = LeadingZeros(s)
  BY ValueNat, LeadingZerosFacts, LenProperties
<1>2. PICK d : d = DigitsOf(n, to)
  OBVIOUS
<1>3. /\ d \in Seq(0..(to - 1)) /\ (n = 0 => d = <<>>)
      /\ n # 0 => d # <<>> /\ d[1] # 0
      /\ ValueOf(Zeros(k) \o d, to) = n
  BY <1>2, DigitsFacts
<1>4. PICK z : z = Zeros(k)
  OBVIOUS
<1>5. z \in Seq(0..(to - 1)) /\ Len(z) = k /\ \A i \in 1..k : z[i] = 0
  <2>1. 0 \in 0..(to - 1)
    OBVIOUS
  <2> QED BY <1>4, <2>1, ZerosFacts
<1>6. PICK e : e = z \o d
  OBVIOUS
<1>7. /\ e \in Seq(0..(to - 1)) /\ Len(e) = k + Len(d)
      /\ \A i \in 1..(k + Len(d)) : e[i] = IF i <= k THEN z[i] ELSE d[i - k]
  BY <1>3, <1>5, <1>6, ConcatProperties
<1>8. Len(d) \in Nat /\ (Len(d) # 0 => d # <<>>)
  BY <1>3, LenProperties
<1>9. e \in Seq(Nat)
  <2>1. 0..(to - 1) \subseteq Nat
    OBVIOUS
  <2> QED BY <1>7, <2>1, SeqMonotonic
<1>10. LeadingZeros(e) = k
  <2>1. k \in 0..Len(e)
    BY <1>7, <1>8
  <2>2. \A i \in 1..k : e[i] = 0
    BY <1>5, <1>7, <1>8
  <2>3. k < Len(e) => e[k + 1] # 0
    <3>1. SUFFICES ASSUME k < Len(e) PROVE e[k + 1] # 0
      OBVIOUS
    <3>2. Len(d) # 0 /\ k + 1 \in 1..(k + Len(d)) /\ ~(k + 1 <= k) /\ k + 1 - k = 1
      BY <1>7, <1>8, <3>1
    <3>3. e[k + 1] = d[1] /\ d # <<>>
      BY <1>7, <1>8, <3>2
    <3> QED BY <1>3, <3>3
  <2> QED BY <1>9, <2>1, <2>2, <2>3, LeadingZerosIs
<1> QED BY <1>1, <1>2, <1>3, <1>4, <1>6, <1>7, <1>9, <1>10 DEF Recode

(* Nothing is lost of a text that is recoded in its own base.              *)
LEMMA RecodeSame ==
  ASSUME NEW b \in Nat, b >= 2, NEW s \in Seq(0..(b - 1))
  PROVE  Recode(s, b, b) = s
<1> DEFINE Digits == 0..(b - 1)
           T == {u \in Seq(Digits) : Recode(u, b, b) = u}
<1>1. 0 \in Digits /\ Digits \subseteq Nat
  OBVIOUS
<1> HIDE DEF Digits
<1>2. <<>> \in T
  <2>1. <<>> \in Seq(Digits) /\ <<>> \in Seq(Nat) /\ Len(<<>>) = 0
    BY EmptySeq
  <2>2. ValueOf(<<>>, b) = 0 /\ DigitsOf(0, b) = <<>>
    BY ValueSteps, DigitsSteps
  <2>3. LeadingZeros(<<>>) = 0
    <3>1. LeadingZeros(<<>>) \in 0..Len(<<>>)
      BY <2>1, LeadingZerosFacts
    <3> QED BY <2>1, <3>1
  <2>4. Zeros(0) = <<>>
    <3>1. Zeros(0) \in Seq(Nat) /\ Len(Zeros(0)) = 0
      BY ZerosFacts
    <3> QED BY <3>1, EmptySeq
  <2>5. <<>> \o <<>> = <<>>
    BY <2>1, ConcatEmptySeq
  <2> QED BY <2>1, <2>2, <2>3, <2>4, <2>5 DEF Recode
<1>3. ASSUME NEW u \in T, NEW d \in Digits PROVE Append(u, d) \in T
  <2>1. u \in Seq(Digits) /\ u \in Seq(Nat) /\ Len(u) \in Nat /\ d \in Nat
    BY <1>1, SeqMonotonic, LenProperties
  <2>2. PICK k \in Nat, v \in Nat : k \in 0..Len(u) /\ k = LeadingZeros(u) /\ v = ValueOf(u, b)
    BY <2>1, LeadingZerosFacts, ValueNat
  <2>3. u = Zeros(k) \o DigitsOf(v, b)
    BY <2>2 DEF Recode
  <2>4. PICK a : a = Append(u, d)
    OBVIOUS
  <2>5. /\ a \in Seq(Digits) /\ Len(a) = Len(u) + 1 /\ a[Len(u) + 1] = d
        /\ \A i \in 1..Len(u) : a[i] = u[i]
    BY <2>1, <2>4, AppendProperties
  <2>6. a \in Seq(Nat)
    BY <1>1, <2>5, SeqMonotonic
  <2>7. ValueOf(a, b) = v * b + d
    BY <2>1, <2>2, <2>4, ValueSteps
  <2>8. v = 0 <=> k = Len(u)
    <3>1. CASE v = 0
      <4>1. Zeros(k) \in Seq(Nat) /\ Len(Zeros(k)) = k
        BY ZerosFacts
      <4>2. u = Zeros(k)
        BY <2>3, <3>1, <4>1, DigitsSteps, ConcatEmptySeq
      <4> QED BY <3>1, <4>1, <4>2
    <3>2. CASE k = Len(u)
      <4>1. \A i \in 1..k : u[i] = 0
        BY <2>1, <2>2, LeadingZerosFacts
      <4>2. Zeros(k) \in Seq(Nat) /\ Len(Zeros(k)) = k /\ \A i \in 1..k : Zeros(k)[i] = 0
        BY ZerosFacts
      <4>3. u = Zeros(k)
        BY <2>1, <3>2, <4>1, <4>2, SeqEqual
      <4> QED BY <2>2, <3>2, <4>3, ValueOfZeros
    <3> QED BY <3>1, <3>2
  <2>9. CASE v = 0 /\ d = 0
    <3>1. k = Len(u) /\ \A i \in 1..k : u[i] = 0
      BY <2>1, <2>2, <2>8, <2>9, LeadingZerosFacts
    <3>2. PICK n \in Nat : n = k + 1 /\ n = Len(a)
      BY <2>1, <2>5, <3>1
    <3>3. \A i \in 1..n : a[i] = 0
      <4>1. \A i \in 1..n : i \in 1..Len(u) \/ i = Len(u) + 1
        BY <2>1, <3>1, <3>2
      <4> QED BY <2>5, <2>9, <3>1, <4>1
    <3>4. LeadingZeros(a) = n
      BY <2>6, <3>2, <3>3, LeadingZerosIs
    <3>5. Zeros(n) \in Seq(Nat) /\ Len(Zeros(n)) = n /\ \A i \in 1..n : Zeros(n)[i] = 0
      BY ZerosFacts
    <3>6. a = Zeros(n)
      BY <2>6, <3>2, <3>3, <3>5, SeqEqual
    <3>7. ValueOf(a, b) = 0
      BY <2>7, <2>9
    <3>8. Zeros(n) \o DigitsOf(0, b) = Zeros(n)
      BY <3>5, DigitsSteps, ConcatEmptySeq
    <3>9. Recode(a, b, b) = a
      BY <3>4, <3>6, <3>7, <3>8 DEF Recode
    <3> QED BY <2>4, <2>5, <3>9
  <2>10. CASE v # 0 \/ d # 0
    <3>1. PICK n \in Nat \ {0} : n = v * b + d
      <4>1. v * b \in Nat
        OBVIOUS
      <4>2. v # 0 => v * b # 0
        BY ONLY b \in Nat, b >= 2, v \in Nat
      <4>3. PICK w \in Nat, e \in Nat : w = v * b /\ e = d /\ (w # 0 \/ e # 0)
        BY <2>1, <2>10, <4>1, <4>2
      <4>4. w + e \in Nat \ {0}
        BY <4>3
      <4> QED BY <4>3, <4>4
    <3>2. n \div b = v /\ n % b = d
      BY <3>1, DivUnique DEF Digits
    <3>3. DigitsOf(n, b) = Append(DigitsOf(v, b), d)
      BY <3>2, DigitsSteps
    <3>4. LeadingZeros(a) = k
      <4>1. k \in 0..Len(a) /\ k < Len(a)
        <5>1. PICK l \in Nat : l = Len(u) /\ Len(a) = l + 1
          BY <2>1, <2>5
        <5>2. k \in 0..(l + 1) /\ k < l + 1
          BY <2>2, <5>1
        <5> QED BY <5>1, <5>2
      <4>2. \A i \in 1..k : a[i] = 0
        <5>1. \A i \in 1..k : u[i] = 0 /\ i \in 1..Len(u)
          BY <2>1, <2>2, LeadingZerosFacts
        <5> QED BY <2>5, <5>1
      <4>3. a[k + 1] # 0
        <5>1. CASE v = 0
          BY <2>5, <2>8, <2>10, <5>1
        <5>2. CASE v # 0
          <6>1. k < Len(u) /\ k + 1 \in 1..Len(u)
            <7>1. PICK l \in Nat : l = Len(u)
              BY <2>1
            <7>2. k \in 0..l /\ k # l
              BY <2>2, <2>8, <5>2, <7>1
            <7>3. k < l /\ k + 1 \in 1..l
              BY <7>2
            <7> QED BY <7>1, <7>3
          <6>2. u[k + 1] # 0
            BY <2>1, <2>2, <6>1, LeadingZerosFacts
          <6> QED BY <2>5, <6>1, <6>2
        <5> QED BY <5>1, <5>2
      <4> QED BY <2>6, <4>1, <4>2, <4>3, LeadingZerosIs
    <3>5. Zeros(k) \o Append(DigitsOf(v, b), d) = Append(Zeros(k) \o DigitsOf(v, b), d)
      <4>1. DigitsOf(v, b) \in Seq(Digits)
        BY DigitsFacts DEF Digits
      <4> QED BY <1>1, <4>1, ZerosAppend
    <3>6. Recode(a, b, b) = a
      BY <2>3, <2>4, <2>7, <3>1, <3>3, <3>4, <3>5 DEF Recode
    <3> QED BY <2>4, <2>5, <3>6
  <2> QED BY <2>9, <2>10
<1>4. T = Seq(Digits)
  <2>1. T \in SUBSET Seq(Digits)
    OBVIOUS
  <2> HIDE DEF T
  <2> QED BY <1>2, <1>3, <2>1, AppendInduction
<1>5. s \in Seq(Digits)
  BY DEF Digits
<1> QED BY <1>4, <1>5

(* Recoded there and back, a text is the same.                             *)
LEMMA RecodeTwice ==
  ASSUME NEW a \in Nat, a >= 2, NEW b \in Nat, b >= 2, NEW s \in Seq(0..(a - 1))
  PROVE  Recode(Recode(s, a, b), b, a) = s
<1>1. s \in Seq(Nat)
  <2>1. 0..(a - 1) \subseteq Nat
    OBVIOUS
  <2> QED BY <2>1, SeqMonotonic
<1>2. PICK e \in Seq(Nat) : /\ e = Recode(s, a, b)
                            /\ ValueOf(e, b) = ValueOf(s, a) /\ LeadingZeros(e) = LeadingZeros(s)
  BY <1>1, RecodeFacts
<1>3. Recode(e, b, a) = Recode(s, a, a)
  BY <1>2 DEF Recode
<1> QED BY <1>2, <1>3, RecodeSame

(* What was minted is an invite, what was typed a text of characters.      *)
TokenInv == /\ invite \in {"none", "printed", "typed", "read"}
            /\ invite \in {"printed", "typed"} => minted \in Seq(Bytes) /\ Len(minted) = InviteLen
            /\ invite = "typed" => typed \in Seq(Characters)

(* Minting, typing and reading keep to bytes and characters.               *)
LEMMA TokenInvPreserved ==
  ASSUME TokenInv, [CommandNext]_commandVars
  PROVE  TokenInv'
<1>1. CASE GenerateInvite
  <2>1. minted' \in [1..InviteLen -> Bytes] /\ invite' = "printed"
    BY <1>1 DEF GenerateInvite, Invites
  <2>2. PICK m : m = minted'
    OBVIOUS
  <2>3. m \in Seq(Bytes) /\ DOMAIN m = 1..InviteLen /\ InviteLen \in Nat
    BY <2>1, <2>2, TokenLengthAssumption, SeqDef
  <2>4. DOMAIN m = 1..Len(m) /\ Len(m) \in Nat
    BY <2>3, LenProperties
  <2>5. Len(m) = InviteLen
    BY <2>3, <2>4
  <2> QED BY <2>1, <2>2, <2>3, <2>5 DEF TokenInv
<1>2. CASE TypeToken
  <2>1. typed' \in UNION {[1..l -> Characters] : l \in 0..MaxTyped}
    BY <1>2 DEF TypeToken, BoundedSeq, SeqOf
  <2>2. typed' \in Seq(Characters)
    BY <2>1, TokenLengthAssumption, SeqDef
  <2> QED BY <1>2, <2>2 DEF TypeToken, TokenInv
<1>3. CASE ReadToken
  BY <1>3 DEF ReadToken, TokenInv
<1>4. CASE UNCHANGED tokenVars
  BY <1>4 DEF tokenVars, TokenInv
<1> QED BY <1>1, <1>2, <1>3, <1>4
    DEF CommandNext, HandOver, TokenNext, LookUp, DestExists, UseIdentity, Address, commandVars

(* base58Decode takes base58Encode back, and nothing else to the same bytes*)
LEMMA ParsedAsPrinted ==
  TokenInv => InviteAsPrinted
<1> SUFFICES ASSUME TokenInv, invite = "typed"
             PROVE  ParseInvite(typed) <=> typed = Encode(minted)
  BY DEF InviteAsPrinted
<1>1. /\ Base \in Nat /\ Base >= 2 /\ Radix \in Nat /\ Radix >= 2
      /\ Bytes = 0..(Base - 1) /\ Characters = 0..Radix
  BY BaseAssumption DEF Bytes, Characters
<1>2. minted \in Seq(0..(Base - 1)) /\ Len(minted) = InviteLen /\ typed \in Seq(0..Radix)
  BY <1>1 DEF TokenInv
<1>3. PICK m \in Seq(0..(Base - 1)), s \in Seq(0..Radix) : m = minted /\ s = typed
  BY <1>2
<1>4. Encode(m) = Recode(m, Base, Radix)
  BY DEF Encode, Recode
<1>5. Decode(s) = [ok |-> \A i \in DOMAIN s : s[i] # Radix, bytes |-> Recode(s, Radix, Base)]
  BY DEF Decode, Recode
<1>6. ParseInvite(s) <=> (\A i \in DOMAIN s : s[i] # Radix) /\ Recode(s, Radix, Base) = m
  BY <1>2, <1>3, <1>5 DEF ParseInvite
<1>7. ASSUME s = Encode(m) PROVE ParseInvite(s)
  <2>1. s \in Seq(0..(Radix - 1))
    <3>1. m \in Seq(Nat)
      <4>1. 0..(Base - 1) \subseteq Nat
        OBVIOUS
      <4> QED BY <4>1, SeqMonotonic
    <3> QED BY <1>1, <1>4, <1>7, <3>1, RecodeFacts
  <2>2. \A i \in DOMAIN s : s[i] # Radix
    <3>1. \A i \in DOMAIN s : s[i] \in 0..(Radix - 1)
      BY <2>1, LenProperties, ElementOfSeq
    <3> QED BY <1>1, <3>1
  <2>3. Recode(s, Radix, Base) = m
    BY <1>1, <1>4, <1>7, RecodeTwice
  <2> QED BY <1>6, <2>2, <2>3
<1>8. ASSUME ParseInvite(s) PROVE s = Encode(m)
  <2>1. s \in Seq(0..(Radix - 1))
    <3>1. Len(s) \in Nat /\ DOMAIN s = 1..Len(s) /\ \A i \in 1..Len(s) : s[i] \in 0..Radix
      BY LenProperties, ElementOfSeq
    <3>2. ASSUME NEW i \in 1..Len(s) PROVE s[i] \in 0..(Radix - 1)
      <4>1. s[i] \in 0..Radix /\ s[i] # Radix
        BY <1>6, <1>8, <3>1
      <4> QED BY <1>1, <4>1
    <3>3. PICK D : D = 0..(Radix - 1)
      OBVIOUS
    <3>4. s \in [1..Len(s) -> D]
      BY <3>1, <3>2, <3>3, LenProperties
    <3>5. \A n \in Nat : [1..n -> D] \subseteq Seq(D)
      BY SeqDef
    <3> QED BY <3>1, <3>3, <3>4, <3>5
  <2>2. Recode(Recode(s, Radix, Base), Base, Radix) = s
    BY <1>1, <2>1, RecodeTwice
  <2> QED BY <1>4, <1>6, <1>8, <2>2
<1> QED BY <1>3, <1>7, <1>8

(* In any two bases, so in bytes and in characters, an invite reads as it  *)
(* was printed and nothing else does (base58Encode, base58Decode).         *)
THEOREM InviteRoundTrip ==
  CommandSpec => []InviteAsPrinted
<1>1. CommandInit => TokenInv
  BY DEF CommandInit, TokensInit, TokenInv
<1>2. TokenInv /\ [CommandNext]_commandVars => TokenInv'
  BY TokenInvPreserved
<1> QED BY <1>1, <1>2, ParsedAsPrinted, PTL DEF CommandSpec
====================================================================================
