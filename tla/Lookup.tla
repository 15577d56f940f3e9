---------------------------------- MODULE Lookup ----------------------------------
(***************************************************************************)
(* How a command gets from "peer/repo" on its command line, and from what  *)
(* its browser heard, to the host it dials, the pin it checks and the      *)
(* repository it asks for.  Names and references are sequences of ASCII    *)
(* codes, since case and the order of bytes decide which host is meant;    *)
(* what an announcement carries besides is told apart only where it counts.*)
(***************************************************************************)
EXTENDS Integers, SequencesExt

CONSTANTS MaxBranchLen, \* 20, 7 and 12 in the code
          MaxHeadLen,
          MaxRowLen,    \* of a branch in a row of `list`
          Entries,      \* service entries a browser may hear
          Words         \* names typed, without spaces and slashes

ASSUME LengthAssumption == /\ MaxBranchLen \in Nat /\ MaxHeadLen \in Nat
                           /\ MaxRowLen \in 0..MaxBranchLen

VARIABLES heard, \* peers in the registry of the command's browser
          stage, \* "browsing", "found", "aimed" or "failed"
          found  \* peer and repository the reference was resolved to, or <<>>

lookupVars == <<heard, stage, found>>

Space == 32
Slash == 47
UpperCase == 65..90
ASSUME WordAssumption == Words \subseteq Seq(Nat \ {Space, Slash}) \ {<<>>}

(* The prefix of a sequence before the first c, and what follows it.       *)
Place(s, c) == SelectInSeq(s, LAMBDA x : x = c)
CutBefore(s, c) == IF Place(s, c) = 0 THEN s ELSE SubSeq(s, 1, Place(s, c) - 1)
CutAfter(s, c) == IF Place(s, c) = 0 THEN <<>> ELSE SubSeq(s, Place(s, c) + 1, Len(s))
Short(s, n) == SubSeq(s, 1, IF Len(s) > n THEN n ELSE Len(s))

(* The order of two different names by their bytes.                        *)
Before(s, t) == \E n \in 0..Len(s) :
                  /\ n < Len(t) /\ \A i \in 1..n : s[i] = t[i]
                  /\ n = Len(s) \/ s[n + 1] < t[n + 1]

----------------------------------------------------------------------------------
(* Faulty variants of operators below: a pin looked up under the name      *)
(* typed; a flag written as a word.                                        *)
LockAsWord(a) == [v |-> "v1", repo |-> a.repo, branch |-> Short(a.branch, MaxBranchLen),
                  head |-> Short(a.head, MaxHeadLen), mod |-> a.modified, session |-> a.session,
                  lock |-> IF a.locked THEN "true" ELSE "false",
                  presence |-> IF a.presence = "" THEN "online" ELSE a.presence]
PinTyped(p, ref) == CutBefore(ref, Slash)

----------------------------------------------------------------------------------
(* ParseTarget and Target.String.                                          *)
TrimSpace(s) ==
  LET kept == {i \in DOMAIN s : s[i] # Space}
  IN  IF kept = {} THEN <<>> ELSE SubSeq(s, Min(kept), Max(kept))

ParseTarget(s) ==
  LET t == TrimSpace(s)
  IN  [ok |-> t # <<>> /\ t[1] # Slash, peer |-> CutBefore(t, Slash), repo |-> CutAfter(t, Slash)]

TargetString(t) == IF t.repo = <<>> THEN t.peer ELSE t.peer \o <<Slash>> \o t.repo

(* gitDaemonURL asks for the repository below the served directory.        *)
PathAsked(repo) == IF repo # <<>> /\ repo[1] = Slash THEN Tail(repo) ELSE repo

----------------------------------------------------------------------------------
(* Advertisement.TXT, ParseTXT and peerFromEntry: a record that is missing *)
(* is read as empty, and an empty presence as online.                      *)
TXT(a) == [v |-> "v1", repo |-> a.repo, branch |-> Short(a.branch, MaxBranchLen),
           head |-> Short(a.head, MaxHeadLen), mod |-> a.modified, session |-> a.session,
           lock |-> IF a.locked THEN "1" ELSE "0",
           presence |-> IF a.presence = "" THEN "online" ELSE a.presence]

Value(kv, key, empty) == IF key \in DOMAIN kv THEN kv[key] ELSE empty
ParseTXT(kv) ==
  LET said == Value(kv, "presence", "")
  IN  [repo |-> Value(kv, "repo", <<>>), branch |-> Value(kv, "branch", <<>>),
       head |-> Value(kv, "head", <<>>), modified |-> Value(kv, "mod", 0),
       session |-> Value(kv, "session", <<>>), locked |-> Value(kv, "lock", "0") = "1",
       presence |-> IF said = "" THEN "online" ELSE said]

Announcements == [repo : Seq(Nat), branch : Seq(Nat), head : Seq(Nat), modified : Int,
                  session : Seq(Nat), locked : BOOLEAN, presence : STRING]
ASSUME EntryAssumption == \A e \in Entries : /\ e.instance \in Seq(Nat)
                                             /\ ParseTXT(e.text) \in Announcements

PeerFromEntry(e) == [instance |-> e.instance, host |-> e.host, port |-> e.port,
                     addrs |-> e.v4 \o e.v6, ad |-> ParseTXT(e.text)]

(* presenceAt, for a peer last heard of within PeerTTL or not, and the row *)
(* formatPeerRow makes of it.                                              *)
PresenceAt(p, expired) ==
  IF expired THEN "offline"
  ELSE IF p.ad.presence \in {"idle", "coding", "online"} THEN p.ad.presence
  ELSE IF p.ad.modified > 0 THEN "coding" ELSE "online"

Row(p, expired) ==
  IF PresenceAt(p, expired) = "offline" THEN [name |-> p.instance, glyph |-> "offline"]
  ELSE [name |-> p.instance, glyph |-> PresenceAt(p, expired),
        branch |-> Short(p.ad.branch, MaxRowLen), head |-> p.ad.head,
        tag |-> IF p.ad.session = <<>> THEN <<>> ELSE <<p.ad.locked, p.ad.session>>]

----------------------------------------------------------------------------------
(* Registry.List sorts by the bytes of the name, findPeer takes the first  *)
(* name that begins with the one asked for, in upper or lower case.        *)
Lower(s) == [i \in DOMAIN s |-> IF s[i] \in UpperCase THEN s[i] + 32 ELSE s[i]]
EqualFoldName(a, b) == Len(a) >= Len(b) /\ Lower(SubSeq(a, 1, Len(b))) = Lower(b)

FirstListed(peers) == CHOOSE p \in peers : \A q \in peers \ {p} : Before(p.instance, q.instance)

FindPeer(peers, name) ==
  LET named == {p \in peers : EqualFoldName(p.instance, name)}
  IN  IF named = {} THEN <<>> ELSE <<FirstListed(named)>>

(* resolvePeer: the peer's own repository unless the reference names one.  *)
ResolvePeer(peers, ref) ==
  LET target == ParseTarget(ref)
      first == IF target.ok THEN FindPeer(peers, target.peer) ELSE <<>>
      repo == IF target.repo # <<>> THEN target.repo ELSE first[1].ad.repo
  IN  IF first = <<>> \/ repo = <<>> THEN <<>> ELSE <<[peer |-> first[1], repo |-> repo]>>

(* Peer.Addr: the first IPv4 address, else the first other, else the name, *)
(* and the port.                                                           *)
IsV4(ip) == ip[1] = "v4"
PreferredIP(p) == LET v4 == SelectInSeq(p.addrs, IsV4)
                  IN  IF v4 # 0 THEN p.addrs[v4] ELSE p.addrs[1]
Addr(p) == [host |-> IF p.addrs = <<>> THEN <<"host", p.host>> ELSE PreferredIP(p), port |-> p.port]

(* clientForPeer: what the command dials and the name whose pin it checks. *)
HasAddr(p) == p.addrs # <<>> \/ p.host # ""
PinOf(p, ref) == p.instance
Aim(peers, ref) ==
  LET r == ResolvePeer(peers, ref)
  IN  IF r = <<>> \/ ~HasAddr(r[1].peer) THEN <<>>
      ELSE <<[addr |-> Addr(r[1].peer), pin |-> PinOf(r[1].peer, ref), path |-> PathAsked(r[1].repo)]>>

----------------------------------------------------------------------------------
Lan == {PeerFromEntry(e) : e \in Entries}
Targets == [peer : Words, repo : Words \cup {<<>>}]

Browsing == heard = {} /\ stage = "browsing" /\ found = <<>>

(* Browse puts a host in the registry in place of what it said before.     *)
Hear(e) == /\ stage = "browsing"
           /\ heard' = {p \in heard : p.instance # e.instance} \cup {PeerFromEntry(e)}
           /\ UNCHANGED <<stage, found>>

(* resolvePeer, when the time to browse is over; the registry is dropped.  *)
Resolve(ref) == /\ stage = "browsing"
                /\ found' = ResolvePeer(heard, ref)
                /\ stage' = IF found' = <<>> THEN "failed" ELSE "found"
                /\ heard' = {}

(* clientForPeer, once it has an identity, asks for the peer's address.    *)
TakeAim == /\ stage = "found"
           /\ stage' = IF HasAddr(found[1].peer) THEN "aimed" ELSE "failed"
           /\ UNCHANGED <<heard, found>>

----------------------------------------------------------------------------------
RegistryOK == /\ heard \subseteq Lan
              /\ \A p, q \in heard : p.instance = q.instance => p = q
              /\ stage \in {"browsing", "found", "aimed", "failed"}
              /\ \A i \in DOMAIN found : /\ found[i].peer \in Lan
                                         /\ found[i].repo # <<>>
              /\ stage \in {"found", "aimed"} => found # <<>>

(* However a reference is spaced, address, pin and repository are those of *)
(* one host heard of, whose name begins with the one typed, and there is   *)
(* none only when no such host is there or nothing says what to ask it for *)
(* or where it is (ParseTarget, resolvePeer, clientForPeer).  One whose name*)
(* is typed in full is not passed over for one whose name only begins like *)
(* that in the same case (findPeer, Registry.List).                        *)
AimIsOneHost ==
  RegistryOK /\ \A t \in Targets :
    LET aim == Aim(heard, <<Space>> \o TargetString(t) \o <<Space>>)
        named == {p \in heard : EqualFoldName(p.instance, t.peer)}
        longer(p) == \E q \in named \ {p} : IsPrefix(q.instance, p.instance)
        asked(p) == IF t.repo = <<>> THEN p.ad.repo ELSE t.repo
    IN  IF aim = <<>>
        THEN named = {} \/ \E p \in named : asked(p) = <<>> \/ ~HasAddr(p)
        ELSE \E p \in named :
               /\ ~longer(p)
               /\ aim = <<[addr |-> Addr(p), pin |-> p.instance, path |-> PathAsked(asked(p))]>>

(* What a host advertises is what its peers read, but for the ends of long *)
(* branch and commit names; no row shows that a branch was shortened, and  *)
(* shortening again changes nothing (TXT, ParseTXT, formatPeerRow).        *)
ReadAsSaid(p) ==
  LET read == ParseTXT(TXT(p.ad))
      whole == [p EXCEPT !.ad.head = read.head]
  IN  /\ \A field \in DOMAIN p.ad \ {"branch", "head"} : read[field] = p.ad[field]
      /\ IsPrefix(read.head, p.ad.head)
      /\ \A expired \in BOOLEAN : Row([p EXCEPT !.ad = read], expired) = Row(whole, expired)
      /\ ParseTXT(TXT(read)) = read
MetadataSurvives == \A p \in heard : ReadAsSaid(p)
=================================================================================
