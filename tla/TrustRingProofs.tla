------------------------------ MODULE TrustRingProofs ------------------------------
(***************************************************************************)
(* What TrustRing keeps for any commands, connections, tunnels and pins,   *)
(* whichever saves fail.  The invariant says of every ring in memory what  *)
(* the properties say of the one in the file, since it is what the file    *)
(* will hold next.                                                         *)
(***************************************************************************)
EXTENDS TrustRing, TLAPS

Holding == {"asking", "naming", "loaded", "truncated"}
HasRing == {"loaded", "truncated"}

(* Pins a ring may hold: at each label the first one or one asked for.     *)
Asked(ring) == \A l \in Labels :
  ring[l] \in {initial[l]} \cup {edit[a].fp : a \in {b \in Actors : edit[b].label = l}}

(* The ring in the file and those about to be written to it were asked for.*)
AskedInv == /\ file.st = "ok" => Asked(file.ring)
            /\ \A a \in Actors : pc[a] \in HasRing => Asked(loaded[a])

(* A connection in approvePeer past the prompt is the one with approveMu.  *)
MuInv == \A c \in Conns : pc[c] \in Holding => approveMu = c

(* A save that succeeded is its actor's last step.                         *)
SavedInv == \A a \in saved : pc[a] \in {"done", "admitted"}

(* What an actor saves has its own edit in it.                             *)
EditInv == \A a \in Actors : pc[a] \in HasRing => loaded[a][edit[a].label] = edit[a].fp

(* The answer of a connection that saved, which nobody else edits, is in   *)
(* the file and in every ring an answer after it will write.               *)
Alone(c) == /\ \A a \in Actors \ {c} : edit[a].label # edit[c].label
            /\ \A p \in Procs : pc[p] = "idle"
StickInv == \A c \in saved \cap Conns : Alone(c) =>
  /\ file.st = "ok" => file.ring[edit[c].label] = edit[c].fp
  /\ \A d \in Conns : pc[d] \in HasRing => loaded[d][edit[c].label] = edit[c].fp

(* A file that cannot be read is being saved, or was left so by the last   *)
(* save to end.                                                            *)
EmptyInv == file.st # "ok" => damaged \/ \E a \in Actors : pc[a] = "truncated"

IInv == TypeOK /\ AskedInv /\ MuInv /\ SavedInv /\ EditInv /\ StickInv /\ EmptyInv

(* Nothing is saved or asked for in the beginning.                         *)
LEMMA InitIInv ==
  Init => IInv
<1> SUFFICES ASSUME Init PROVE IInv
  OBVIOUS
<1> USE DEF Init
<1>1. TypeOK
  BY NoneAssumption DEF TypeOK, Rings, NoPins, Edits
<1>2. AskedInv /\ MuInv /\ SavedInv /\ EditInv /\ StickInv /\ EmptyInv
  BY DEF AskedInv, Asked, MuInv, SavedInv, EditInv, StickInv, EmptyInv, HasRing, Holding, Actors
<1> QED BY <1>1, <1>2 DEF IInv

(* An edit of the ring changes the one label (TrustStore.Add, Remove).     *)
LEMMA EditedIsARing ==
  ASSUME TypeOK, NEW a \in Actors
  PROVE  /\ Edited(a) \in Rings
         /\ Edited(a)[edit[a].label] = edit[a].fp
         /\ \A l \in Labels \ {edit[a].label} : Edited(a)[l] = file.ring[l]
BY DEF TypeOK, Edited, Rings, Edits

(* A write over another's longer text leaves nothing that can be read; one *)
(* to the file that was truncated for it leaves the ring.                  *)
LEMMA SavedOrGarbled ==
  ASSUME NEW ring, file' \in Overlaid(ring)
  PROVE  /\ file' \in {Stored(ring), Garbled}
         /\ file = Truncated => file' = Stored(ring)
BY DEF Overlaid

(* What trusted_peers.json holds during and after a save (Save, LoadTrust).*)
LEMMA FileTypes ==
  /\ Truncated \in [st : {"ok", "empty", "garbled"}, ring : Rings]
  /\ Garbled \in [st : {"ok", "empty", "garbled"}, ring : Rings]
  /\ \A ring \in Rings : Stored(ring) \in [st : {"ok", "empty", "garbled"}, ring : Rings]
BY DEF Truncated, Garbled, Stored, NoPins, Rings

(* The values of every variable stay in their types, through every         *)
(* interleaving of commands, answers and tunnels.                          *)
LEMMA TypePreserved ==
  ASSUME TypeOK, [Next]_vars
  PROVE  TypeOK'
<1> USE FileTypes DEF TypeOK, Actors, Moves
<1>1. ASSUME NEW p \in Procs, CommandStep(p), UNCHANGED tunnel PROVE TypeOK'
  <2>1. p \in Actors /\ p \notin Conns
    BY ActorsAssumption
  <2>2. CASE CommandLoads(p)
    BY <1>1, <2>1, <2>2, EditedIsARing DEF CommandLoads
  <2>3. CASE Truncates(p)
    BY <1>1, <2>1, <2>3 DEF Truncates
  <2>4. CASE CommandWrites(p)
    BY <1>1, <2>1, <2>4, SavedOrGarbled DEF CommandWrites, Writes
  <2>5. CASE CommandFails(p)
    BY <1>1, <2>1, <2>5 DEF CommandFails, SaveFails
  <2> QED BY <1>1, <2>2, <2>3, <2>4, <2>5 DEF CommandStep
<1>2. ASSUME NEW c \in Conns, ConnStep(c), UNCHANGED tunnel PROVE TypeOK'
  <2>1. CASE Arrive(c)
    BY <1>2, <2>1 DEF Arrive
  <2>2. CASE Ask(c)
    BY <1>2, <2>2 DEF Ask
  <2>3. CASE AnswerOnce(c)
    BY <1>2, <2>3 DEF AnswerOnce, Decides
  <2>4. CASE AnswerAlways(c)
    BY <1>2, <2>4 DEF AnswerAlways
  <2>5. CASE PersistLoads(c)
    BY <1>2, <2>5, EditedIsARing DEF PersistLoads, Decides
  <2>6. CASE Truncates(c)
    BY <1>2, <2>6 DEF Truncates
  <2>7. CASE PersistWrites(c)
    BY <1>2, <2>7, SavedOrGarbled DEF PersistWrites, Writes, Decides
  <2>8. CASE PersistFails(c)
    BY <1>2, <2>8 DEF PersistFails, SaveFails, Decides
  <2> QED
    BY <1>2, <2>1, <2>2, <2>3, <2>4, <2>5, <2>6, <2>7, <2>8 DEF ConnStep
<1>3. ASSUME NEW t \in Tunnels, VerifyPinnedPeer(t) PROVE TypeOK'
  BY <1>3 DEF VerifyPinnedPeer
<1>4. CASE UNCHANGED vars
  BY <1>4 DEF vars
<1> QED BY <1>1, <1>2, <1>3, <1>4 DEF Next

(* What a step of an actor may do to the rings: nothing, load the file and *)
(* edit what it holds, truncate it, put the edited ring there, or fail to. *)
Aside(a) == /\ UNCHANGED <<file, loaded, saved, damaged>>
            /\ pc[a] \in {"idle", "waiting", "asking", "naming"}
            /\ pc'[a] \notin HasRing
Takes(a) == /\ UNCHANGED <<file, saved, damaged>>
            /\ Readable
            /\ pc[a] \in {"idle", "naming"} /\ pc'[a] = "loaded"
            /\ a \in Conns => pc[a] = "naming"
            /\ loaded' = [loaded EXCEPT ![a] = Edited(a)]
Empties(a) == /\ UNCHANGED <<loaded, saved, damaged>>
              /\ pc[a] = "loaded" /\ pc'[a] = "truncated"
              /\ file' = Truncated
Puts(a) == /\ UNCHANGED loaded
           /\ pc[a] = "truncated" /\ pc'[a] \in {"done", "admitted"}
           /\ file' \in {Stored(loaded[a]), Garbled}
           /\ saved' = saved \cup {a}
           /\ IF file = Truncated THEN file' = Stored(loaded[a]) ELSE damaged'
Loses(a) == /\ UNCHANGED <<loaded, saved>>
            /\ pc[a] \in HasRing /\ pc'[a] \in {"failed", "admitted"}
            /\ \/ pc[a] = "loaded" /\ UNCHANGED <<file, damaged>>
               \/ pc[a] = "truncated" /\ file' \in {file, Garbled} /\ damaged'
Acts(a) == /\ \A b \in Actors \ {a} : pc'[b] = pc[b]
           /\ pc'[a] # "idle"
           /\ Aside(a) \/ Takes(a) \/ Empties(a) \/ Puts(a) \/ Loses(a)

(* Every step is one of these, or leaves the rings alone.                  *)
LEMMA StepsOnRings ==
  ASSUME TypeOK, [Next]_vars
  PROVE  /\ UNCHANGED <<initial, edit>>
         /\ UNCHANGED <<file, pc, loaded, saved, damaged>> \/ \E a \in Actors : Acts(a)
<1> USE DEF TypeOK, Actors, Moves, HasRing, Acts
<1>1. ASSUME NEW p \in Procs, CommandStep(p)
      PROVE  UNCHANGED <<initial, edit>> /\ Acts(p)
  <2>1. p \in Actors /\ p \notin Conns
    BY ActorsAssumption
  <2>2. CASE CommandLoads(p)
    BY <2>1, <2>2 DEF CommandLoads, Takes, Aside
  <2>3. CASE Truncates(p)
    BY <2>1, <2>3 DEF Truncates, Empties
  <2>4. CASE CommandWrites(p)
    BY <2>1, <2>4, SavedOrGarbled DEF CommandWrites, Writes, Puts
  <2>5. CASE CommandFails(p)
    BY <2>1, <2>5 DEF CommandFails, SaveFails, Loses
  <2> QED BY <1>1, <2>2, <2>3, <2>4, <2>5 DEF CommandStep
<1>2. ASSUME NEW c \in Conns, ConnStep(c)
      PROVE  UNCHANGED <<initial, edit>> /\ Acts(c)
  <2>1. CASE Arrive(c)
    BY <2>1 DEF Arrive, Aside
  <2>2. CASE Ask(c)
    BY <2>2 DEF Ask, Aside
  <2>3. CASE AnswerOnce(c)
    BY <2>3 DEF AnswerOnce, Decides, Aside
  <2>4. CASE AnswerAlways(c)
    BY <2>4 DEF AnswerAlways, Aside
  <2>5. CASE PersistLoads(c)
    BY <2>5 DEF PersistLoads, Decides, Takes, Aside
  <2>6. CASE Truncates(c)
    BY <2>6 DEF Truncates, Empties
  <2>7. CASE PersistWrites(c)
    BY <2>7, SavedOrGarbled DEF PersistWrites, Writes, Decides, Puts
  <2>8. CASE PersistFails(c)
    BY <2>8 DEF PersistFails, SaveFails, Decides, Loses
  <2> QED
    BY <1>2, <2>1, <2>2, <2>3, <2>4, <2>5, <2>6, <2>7, <2>8 DEF ConnStep
<1>3. ASSUME NEW t \in Tunnels, VerifyPinnedPeer(t)
      PROVE  UNCHANGED <<initial, edit, file, pc, loaded, saved, damaged>>
  BY <1>3 DEF VerifyPinnedPeer
<1>4. CASE UNCHANGED vars
  BY <1>4 DEF vars
<1> QED BY <1>1, <1>2, <1>3, <1>4 DEF Next

(* approveMu is taken by Ask only when nobody has it, and whoever has it   *)
(* gives it back on leaving approvePeer (approvePeer's deferred Unlock).   *)
LEMMA MuPreserved ==
  ASSUME TypeOK, MuInv, [Next]_vars
  PROVE  MuInv'
<1> USE ActorsAssumption DEF TypeOK, MuInv, Holding, Actors, Moves
<1>1. ASSUME NEW p \in Procs, CommandStep(p) PROVE MuInv'
  <2>1. UNCHANGED approveMu /\ \A c \in Conns : pc'[c] = pc[c]
    BY <1>1 DEF CommandStep, CommandLoads, Truncates, CommandWrites, CommandFails
  <2> QED BY <2>1
<1>2. ASSUME NEW c \in Conns, ConnStep(c) PROVE MuInv'
  <2>1. CASE Arrive(c)
    BY <2>1 DEF Arrive
  <2>2. CASE Ask(c)
    BY <2>2 DEF Ask
  <2>3. CASE AnswerOnce(c) \/ PersistLoads(c) \/ PersistWrites(c) \/ PersistFails(c)
    BY <2>3 DEF AnswerOnce, PersistLoads, PersistWrites, PersistFails, SaveFails, Decides
  <2>4. CASE AnswerAlways(c) \/ Truncates(c)
    BY <2>4 DEF AnswerAlways, Truncates
  <2> QED BY <1>2, <2>1, <2>2, <2>3, <2>4 DEF ConnStep
<1>3. ASSUME NEW t \in Tunnels, VerifyPinnedPeer(t) PROVE MuInv'
  BY <1>3 DEF VerifyPinnedPeer
<1>4. CASE UNCHANGED vars
  BY <1>4 DEF vars
<1> QED BY <1>1, <1>2, <1>3, <1>4 DEF Next

(* A ring that is loaded, edited and saved was asked for if the one in the *)
(* file was; a truncated or garbled file holds none.                       *)
LEMMA AskedPreserved ==
  ASSUME TypeOK, AskedInv, [Next]_vars
  PROVE  AskedInv'
<1>1. UNCHANGED <<initial, edit>>
  BY StepsOnRings
<1>2. \A ring : Asked(ring) => Asked(ring)'
  BY <1>1 DEF Asked, Actors
<1>3. CASE UNCHANGED <<file, pc, loaded, saved, damaged>>
  BY <1>2, <1>3 DEF AskedInv
<1>4. ASSUME NEW a \in Actors, Acts(a) PROVE AskedInv'
  <2>1. Readable => Asked(Edited(a))
    BY EditedIsARing DEF AskedInv, Asked, Readable
  <2>2. file'.st = "ok" => file' = file \/ (pc[a] \in HasRing /\ file' = Stored(loaded[a]))
    BY <1>4 DEF Acts, Aside, Takes, Empties, Puts, Loses, HasRing, Truncated, Garbled
  <2>3. file'.st = "ok" => Asked(file'.ring)
    BY <2>2 DEF AskedInv, Stored
  <2>4. ASSUME NEW b \in Actors, pc'[b] \in HasRing PROVE Asked(loaded'[b])
    <3>1. \/ pc[b] \in HasRing /\ loaded'[b] = loaded[b]
          \/ b = a /\ Readable /\ loaded'[b] = Edited(a)
      BY <1>4, <2>4 DEF Acts, Aside, Takes, Empties, Puts, Loses, HasRing, TypeOK
    <3> QED BY <2>1, <3>1 DEF AskedInv
  <2>5. (file.st = "ok" => Asked(file.ring))' /\ (\A b \in Actors : pc[b] \in HasRing => Asked(loaded[b]))'
    BY <1>2, <2>3, <2>4
  <2> QED BY <2>5 DEF AskedInv
<1> QED BY <1>3, <1>4, StepsOnRings

(* No step follows a save that succeeded; and every save has its own edit. *)
LEMMA SavedPreserved ==
  ASSUME TypeOK, SavedInv, EditInv, [Next]_vars
  PROVE  SavedInv' /\ EditInv'
<1> USE StepsOnRings DEF SavedInv, EditInv, HasRing
<1>1. UNCHANGED edit
  OBVIOUS
<1>2. CASE UNCHANGED <<file, pc, loaded, saved, damaged>>
  BY <1>1, <1>2
<1>3. ASSUME NEW a \in Actors, Acts(a) PROVE SavedInv' /\ EditInv'
  <2>1. SavedInv'
    BY <1>3 DEF Acts, Aside, Takes, Empties, Puts, Loses, TypeOK
  <2>2. EditInv'
    BY <1>1, <1>3, EditedIsARing DEF Acts, Aside, Takes, Empties, Puts, Loses, TypeOK
  <2> QED BY <2>1, <2>2
<1> QED BY <1>2, <1>3

(* The file is unreadable from a truncation to the end of that save, or, if*)
(* the write after it fails or overlays another's, until a save goes well. *)
LEMMA EmptyPreserved ==
  ASSUME TypeOK, SavedInv, EmptyInv, [Next]_vars
  PROVE  EmptyInv'
<1> USE StepsOnRings DEF SavedInv, EmptyInv, HasRing
<1>1. CASE UNCHANGED <<file, pc, loaded, saved, damaged>>
  BY <1>1
<1>2. ASSUME NEW a \in Actors, Acts(a) PROVE EmptyInv'
  <2>1. CASE Aside(a)
    BY <1>2, <2>1 DEF Acts, Aside
  <2>2. CASE Takes(a)
    BY <1>2, <2>2 DEF Acts, Takes, Readable
  <2>3. CASE Empties(a)
    BY <1>2, <2>3 DEF Acts, Empties
  <2>4. CASE Puts(a)
    BY <1>2, <2>4 DEF Acts, Puts, Stored, Garbled
  <2>5. CASE Loses(a)
    BY <1>2, <2>5 DEF Acts, Loses, Garbled
  <2> QED BY <1>2, <2>1, <2>2, <2>3, <2>4, <2>5 DEF Acts
<1> QED BY <1>1, <1>2

(* While nobody runs a command, an answer that was saved is in the file or *)
(* the file is unreadable; by approveMu no other answer is being saved at  *)
(* that moment, and those given later load a ring that has it.             *)
LEMMA StickPreserved ==
  ASSUME TypeOK, MuInv, SavedInv, EditInv, StickInv, [Next]_vars
  PROVE  StickInv'
<1>1. UNCHANGED edit
  BY StepsOnRings
<1>2. CASE UNCHANGED <<file, pc, loaded, saved, damaged>>
  BY <1>1, <1>2 DEF StickInv, Alone
<1>3. ASSUME NEW a \in Actors, Acts(a),
             NEW c \in saved' \cap Conns, Alone(c)'
      PROVE  /\ file'.st = "ok" => file'.ring[edit[c].label] = edit[c].fp
             /\ \A d \in Conns : pc'[d] \in HasRing => loaded'[d][edit[c].label] = edit[c].fp
  <2>1. Alone(c) /\ a \in Conns
    BY <1>1, <1>3 DEF Alone, Acts, Actors
  <2>2. CASE c \in saved
    <3>1. /\ a # c /\ edit[a].label # edit[c].label
          /\ file.st = "ok" => file.ring[edit[c].label] = edit[c].fp
          /\ \A d \in Conns : pc[d] \in HasRing => loaded[d][edit[c].label] = edit[c].fp
      BY <1>3, <2>1, <2>2
      DEF SavedInv, StickInv, Alone, Acts, Aside, Takes, Empties, Puts, Loses, HasRing, Actors
    <3>2. edit[c].label \in Labels
      BY DEF TypeOK, Actors, Edits
    <3>3. Readable => Edited(a)[edit[c].label] = edit[c].fp
      BY <3>1, <3>2, EditedIsARing DEF Readable
    <3> QED
      BY <1>3, <2>1, <3>1, <3>3
      DEF Acts, Aside, Takes, Empties, Puts, Loses, HasRing, Actors, TypeOK, Truncated,
          Garbled, Stored
  <2>3. CASE c \notin saved
    <3>1. a = c /\ Puts(a)
      BY <1>3, <2>3 DEF Acts, Aside, Takes, Empties, Puts, Loses
    <3>2. \A d \in Conns \ {c} : pc[d] \notin HasRing
      BY <3>1 DEF Puts, MuInv, Holding, HasRing
    <3>3. loaded[c][edit[c].label] = edit[c].fp
      BY <3>1 DEF Puts, EditInv, HasRing, Actors
    <3> QED
      BY <1>3, <2>1, <3>1, <3>2, <3>3 DEF Acts, Puts, HasRing, Actors, Garbled, Stored
  <2> QED BY <2>2, <2>3
<1>4. (\E a \in Actors : Acts(a)) => StickInv'
  BY <1>1, <1>3 DEF StickInv
<1> QED BY <1>2, <1>4, StepsOnRings

(* All of it is kept by every step.                                        *)
LEMMA IInvHolds ==
  Spec => []IInv
<1>1. IInv /\ [Next]_vars => IInv'
  BY TypePreserved, AskedPreserved, MuPreserved, SavedPreserved, EmptyPreserved,
     StickPreserved DEF IInv
<1> QED BY InitIInv, <1>1, PTL DEF Spec

----------------------------------------------------------------------------------
(* Whatever commands and answers overlap, and whichever saves are lost, a  *)
(* pin in trusted_peers.json is one it began with or one somebody asked    *)
(* for under that very name (TrustStore.Add, Remove, Save).                *)
THEOREM PinsAreAskedFor ==
  Spec => []PinsWereAskedFor
<1>1. IInv => PinsWereAskedFor
  BY DEF IInv, AskedInv, Asked, PinsWereAskedFor
<1> QED BY <1>1, IInvHolds, PTL

(* The trust-always answers of one host never undo each other: with no     *)
(* command running and no other edit of its label, an answer that was saved*)
(* is in every ring anybody can read (persistTrust under approveMu).       *)
THEOREM AnswersAreKept ==
  Spec => []AnswersStick
<1>1. IInv => AnswersStick
  BY DEF IInv, StickInv, Alone, AnswersStick
<1> QED BY <1>1, IInvHolds, PTL

(* A readable ring has the pin nobody edits; an unreadable one is being    *)
(* saved, or was damaged by the last save.                                 *)
LEMMA PassedIsPinned ==
  ASSUME IInv, [Next]_vars, NEW t \in Tunnels,
         tunnel[t] = "dialed", tunnel'[t] = "passed",
         initial[Meets[t].label] \notin {None, Meets[t].fp},
         \A a \in Actors : edit[a].label # Meets[t].label
  PROVE  damaged \/ \E a \in Actors : pc[a] = "truncated"
<1>1. Readable => VerifyHost(file.ring, Meets[t])
  BY DEF Next, VerifyPinnedPeer, vars, IInv, TypeOK
<1>2. Meets[t].label \in Labels
  BY MeetsAssumption
<1>3. file.st = "ok" => file.ring[Meets[t].label] = initial[Meets[t].label]
  BY <1>2 DEF IInv, AskedInv, Asked
<1>4. file.st \in {"empty", "garbled"}
  BY <1>1, <1>3 DEF Readable, VerifyHost, IInv, TypeOK
<1> QED BY <1>4 DEF IInv, EmptyInv

(* verifyPinnedPeer lets a host through against a pin that nobody edits    *)
(* only in the middle of a save, or while the last save is one that failed *)
(* after truncating or wrote over another's bytes.                         *)
THEOREM PinIsAlwaysHeeded ==
  Spec => PinIsHeeded
<1>1. IInv /\ [Next]_vars =>
        [\A t \in Tunnels :
           /\ tunnel[t] = "dialed" /\ tunnel'[t] = "passed"
           /\ initial[Meets[t].label] \notin {None, Meets[t].fp}
           /\ \A a \in Actors : edit[a].label # Meets[t].label
           => damaged \/ \E a \in Actors : pc[a] = "truncated"]_vars
  BY PassedIsPinned
<1> QED BY <1>1, IInvHolds, PTL DEF Spec, PinIsHeeded
====================================================================================
