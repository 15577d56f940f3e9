--------------------------------- MODULE TrustRing ---------------------------------
(***************************************************************************)
(* trusted_peers.json and who changes it: runs of `trust add` and `trust   *)
(* remove`, and the "trust always" answers a host's operator gives to      *)
(* inbound peers.  Every change loads the ring, edits it in memory and     *)
(* saves it whole; approveMu orders the answers of one host, and nothing   *)
(* orders them with the commands, nor with the tunnels of clone, pull and  *)
(* push, which look up the pin of the host they reach.                     *)
(***************************************************************************)
EXTENDS FiniteSets

CONSTANTS Procs,  \* runs of `trust add` and `trust remove`
          Conns,  \* inbound connections of one host
          Tunnels, \* outgoing connections of this user
          Labels, \* names peers are pinned under
          Fps,    \* fingerprints
          Meets,  \* Meets[t]: the name t dials and the fingerprint it is shown
          None,
          Faults  \* what may go wrong: "save", an error from os.WriteFile

ASSUME ActorsAssumption == Procs \cap Conns = {} /\ None \notin Conns
ASSUME NoneAssumption == None \notin Fps
ASSUME MeetsAssumption == Meets \in [Tunnels -> [label : Labels, fp : Fps]]
ASSUME FaultsAssumption == Faults \subseteq {"save"}

VARIABLES file,      \* trusted_peers.json: whether it parses, and its pins
          pc,        \* pc[a]: where a command or a connection stands
          edit,      \* edit[a]: the label a changes and its new pin, None to remove it
          loaded,    \* loaded[a]: the ring a has in memory
          peerFp,    \* peerFp[c]: the fingerprint c's peer presented
          approveMu, \* the connection holding approveMu, or None
          saved,     \* history: actors whose save has succeeded
          damaged,   \* history: the last save to end failed after truncating, or overlaid another
          initial,   \* history: the ring in the beginning
          tunnel     \* tunnel[t]: what verifyPinnedPeer said of t's host

vars == <<file, pc, edit, loaded, peerFp, approveMu, saved, damaged, initial, tunnel>>

Actors == Procs \cup Conns
Rings == [Labels -> Fps \cup {None}]
Edits == [label : Labels, fp : Fps \cup {None}]
NoPins == [l \in Labels |-> None]

TypeOK == /\ file \in [st : {"ok", "empty", "garbled"}, ring : Rings]
          /\ pc \in [Actors -> {"idle", "waiting", "asking", "naming", "loaded", "truncated",
                                "admitted", "refused", "done", "failed"}]
          /\ edit \in [Actors -> Edits]
          /\ loaded \in [Actors -> Rings]
          /\ peerFp \in [Conns -> Fps]
          /\ approveMu \in {None} \cup {c \in Conns : pc[c] \in {"asking", "naming", "loaded", "truncated"}}
          /\ saved \subseteq Actors
          /\ damaged \in BOOLEAN
          /\ initial \in Rings
          /\ tunnel \in [Tunnels -> {"dialed", "passed", "aborted"}]

(* An answer's label is read when it is given; here it is drawn beforehand.*)
Init == /\ initial \in Rings
        /\ file = [st |-> "ok", ring |-> initial]
        /\ pc = [a \in Actors |-> "idle"]
        /\ edit \in [Actors -> Edits]
        /\ peerFp \in [Conns -> Fps]
        /\ \A c \in Conns : edit[c].fp = peerFp[c]
        /\ loaded = [a \in Actors |-> NoPins]
        /\ approveMu = None
        /\ saved = {}
        /\ damaged = FALSE
        /\ tunnel = [t \in Tunnels |-> "dialed"]

----------------------------------------------------------------------------------
Truncated == [st |-> "empty", ring |-> NoPins]
Garbled == [st |-> "garbled", ring |-> NoPins]
Stored(ring) == [st |-> "ok", ring |-> ring]
Readable == file.st = "ok"

(* os.WriteFile has truncated before it writes at offset 0: over another's *)
(* longer text it leaves a tail.                                           *)
Overlaid(ring) == IF file = Truncated THEN {Stored(ring)} ELSE {Stored(ring), Garbled}

(* A faulty variant of Edited, which saves what LoadTrust starts from.     *)
EditedFromEmpty(a) == [NoPins EXCEPT ![edit[a].label] = edit[a].fp]

(* FingerprintTrusted; Add and Remove on the ring in memory.               *)
FingerprintTrusted(ring, fp) == \E l \in Labels : ring[l] = fp
Edited(a) == [file.ring EXCEPT ![edit[a].label] = edit[a].fp]
Removes(a) == edit[a].fp = None

(* VerifyHost: no pin, or this one; a faulty variant takes any host's pin. *)
VerifiedAsAny(ring, host) == ring[host.label] = None \/ FingerprintTrusted(ring, host.fp)
VerifyHost(ring, host) == ring[host.label] \in {None, host.fp}

Moves(a, from, to) == pc[a] = from /\ pc' = [pc EXCEPT ![a] = to]

----------------------------------------------------------------------------------
(* Faulty variants of operators below, which show that the properties can  *)
(* fail: approveMu given back before the answer is saved, or never.        *)
AnswerUnlocks(c) == /\ Moves(c, "asking", "naming")
                    /\ approveMu' = None
                    /\ UNCHANGED <<file, initial, edit, loaded, peerFp, saved, damaged>>
DecidesKeepsMu(c, outcome) == /\ pc' = [pc EXCEPT ![c] = outcome]
                              /\ UNCHANGED approveMu

----------------------------------------------------------------------------------
(* trust add and trust remove.                                             *)
CommandLoads(p) ==
  /\ IF Readable /\ (Removes(p) => file.ring[edit[p].label] # None)
     THEN Moves(p, "idle", "loaded") /\ loaded' = [loaded EXCEPT ![p] = Edited(p)]
     ELSE Moves(p, "idle", "failed") /\ UNCHANGED loaded
  /\ UNCHANGED <<file, initial, edit, peerFp, approveMu, saved, damaged>>

Truncates(a) == /\ Moves(a, "loaded", "truncated")
                /\ file' = Truncated
                /\ UNCHANGED <<initial, edit, loaded, peerFp, approveMu, saved, damaged>>

Writes(a) == /\ file' \in Overlaid(loaded[a])
             /\ saved' = saved \cup {a}
             /\ damaged' = (file # Truncated)
             /\ UNCHANGED <<initial, edit, loaded, peerFp>>

CommandWrites(p) == /\ Moves(p, "truncated", "done")
                    /\ Writes(p)
                    /\ UNCHANGED approveMu

(* os.WriteFile fails to open the file, or to write all of it.             *)
SaveFails(a) == /\ "save" \in Faults
                /\ \/ pc[a] = "loaded" /\ UNCHANGED <<file, damaged>>
                   \/ /\ pc[a] = "truncated"
                      /\ file' \in {file, Garbled}
                      /\ damaged' = TRUE
                /\ UNCHANGED <<initial, edit, loaded, peerFp, saved>>

CommandFails(p) == /\ SaveFails(p)
                   /\ pc' = [pc EXCEPT ![p] = "failed"]
                   /\ UNCHANGED approveMu

----------------------------------------------------------------------------------
(* approvePeer: the ring is read before approveMu is taken, and an         *)
(* unreadable one trusts nobody.                                           *)
Arrive(c) == /\ Moves(c, "idle", IF Readable /\ FingerprintTrusted(file.ring, peerFp[c])
                                 THEN "admitted" ELSE "waiting")
             /\ UNCHANGED <<file, initial, edit, loaded, peerFp, approveMu, saved, damaged>>

Ask(c) == /\ approveMu = None
          /\ Moves(c, "waiting", "asking")
          /\ approveMu' = c
          /\ UNCHANGED <<file, initial, edit, loaded, peerFp, saved, damaged>>

(* Leaving approvePeer gives approveMu back.                               *)
Decides(c, outcome) == /\ pc' = [pc EXCEPT ![c] = outcome]
                       /\ approveMu' = None

AnswerOnce(c) == /\ pc[c] = "asking"
                 /\ Decides(c, "admitted") \/ Decides(c, "refused")
                 /\ UNCHANGED <<file, initial, edit, loaded, peerFp, saved, damaged>>

AnswerAlways(c) == /\ Moves(c, "asking", "naming")
                   /\ UNCHANGED <<file, initial, edit, loaded, peerFp, approveMu, saved, damaged>>

(* persistTrust: a ring it cannot load it does not change, and whether it  *)
(* is saved or not the peer is admitted.                                   *)
PersistLoads(c) == /\ pc[c] = "naming"
                   /\ \/ /\ Readable
                         /\ Moves(c, "naming", "loaded")
                         /\ loaded' = [loaded EXCEPT ![c] = Edited(c)]
                         /\ UNCHANGED approveMu
                      \/ /\ ~Readable
                         /\ Decides(c, "admitted")
                         /\ UNCHANGED loaded
                   /\ UNCHANGED <<file, initial, edit, peerFp, saved, damaged>>

PersistWrites(c) == /\ pc[c] = "truncated"
                    /\ Decides(c, "admitted")
                    /\ Writes(c)

PersistFails(c) == /\ SaveFails(c)
                   /\ Decides(c, "admitted")

----------------------------------------------------------------------------------
CommandStep(p) == CommandLoads(p) \/ Truncates(p) \/ CommandWrites(p) \/ CommandFails(p)
ConnStep(c) == \/ Arrive(c) \/ Ask(c) \/ AnswerOnce(c) \/ AnswerAlways(c)
               \/ PersistLoads(c) \/ Truncates(c) \/ PersistWrites(c) \/ PersistFails(c)

(* verifyPinnedPeer: a ring that cannot be loaded stops nobody.            *)
VerifyPinnedPeer(t) ==
  /\ tunnel[t] = "dialed"
  /\ tunnel' = [tunnel EXCEPT ![t] = IF Readable => VerifyHost(file.ring, Meets[t])
                                     THEN "passed" ELSE "aborted"]
  /\ UNCHANGED <<file, pc, edit, loaded, peerFp, approveMu, saved, damaged, initial>>

Next == \/ (\E p \in Procs : CommandStep(p)) /\ UNCHANGED tunnel
        \/ (\E c \in Conns : ConnStep(c)) /\ UNCHANGED tunnel
        \/ \E t \in Tunnels : VerifyPinnedPeer(t)

Spec == Init /\ [][Next]_vars

(* Handlers run and the operator answers every prompt.                     *)
FairSpec == Spec /\ \A c \in Conns : WF_vars(ConnStep(c) /\ UNCHANGED tunnel)

----------------------------------------------------------------------------------
(* A trust-always answer that was saved is in the ring, as long as nobody  *)
(* else edits its label and no command runs: approveMu keeps the answers of*)
(* one host from undoing each other (persistTrust).                        *)
AnswersStick == \A c \in saved \cap Conns :
  /\ file.st = "ok"
  /\ \A a \in Actors \ {c} : edit[a].label # edit[c].label
  /\ \A p \in Procs : pc[p] = "idle"
  => file.ring[edit[c].label] = edit[c].fp

(* A pin in the ring is the one it began with or one somebody asked for,   *)
(* and a label nobody edits keeps its pin, whatever saves overlap and      *)
(* whichever of them are lost (Add, Remove, Save); and the state is well   *)
(* typed, approveMu held by who is being answered.                         *)
PinsWereAskedFor == TypeOK /\ (file.st = "ok" =>
  \A l \in Labels :
    file.ring[l] \in {initial[l]} \cup {edit[a].fp : a \in {b \in Actors : edit[b].label = l}})

(* A host that does not match a pin nobody edits is let through only in   *)
(* the middle of a save, or while the last save of the file is one that    *)
(* failed after it had truncated, or that wrote over another's bytes.  A   *)
(* save that failed before it opened the file, an answer that saves nothing*)
(* and edits of other pins let nobody through (verifyPinnedPeer, Save).    *)
PinIsHeeded == [][\A t \in Tunnels :
  /\ tunnel[t] = "dialed" /\ tunnel'[t] = "passed"
  /\ initial[Meets[t].label] \notin {None, Meets[t].fp}
  /\ \A a \in Actors : edit[a].label # Meets[t].label
  => damaged \/ \E a \in Actors : pc[a] = "truncated"]_vars

(* Every inbound peer is let in or turned away: no answer, save error or   *)
(* unreadable ring leaves approveMu taken (approvePeer).                   *)
InboundDecided == \A c \in Conns : pc[c] = "waiting" ~> pc[c] \in {"admitted", "refused"}
====================================================================================
