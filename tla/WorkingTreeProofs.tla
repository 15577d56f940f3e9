----------------------------- MODULE WorkingTreeProofs -----------------------------
(***************************************************************************)
(* What WorkingTree keeps for any tree of directories, any queue and any   *)
(* time to idle: what the watcher may miss, how old an edit it shows may   *)
(* be, and what a heartbeat has told of files left uncommitted.            *)
(***************************************************************************)
EXTENDS WorkingTree, SequenceTheorems, TLAPS

Adverts == [presence : Presence, modified : 0..1]
TypeInv == TypeOK /\ advert \in Adverts

(* A directory in the watcher's sight is watched, or the news of it waits. *)
QueueInv == hasWatcher => \A d \in exists \ hidden : d \in watched \/ d \in ToSet(events)

(* Only a dirty tree is counted as dirty for some ticks; a heartbeat that  *)
(* git answered has told.                                                  *)
DirtyInv == /\ dirtyFor > 0 => dirty
            /\ SeenByHeartbeat /\ ~blind => advert.modified = 1

IInv == TypeInv /\ QueueInv /\ EditsNoticed /\ DirtyInv

----------------------------------------------------------------------------------
(* What is in a queue after an event came.                                 *)
LEMMA AppendedSet ==
  ASSUME NEW S, NEW s \in Seq(S), NEW e \in S
  PROVE  /\ Append(s, e) \in Seq(S) /\ Append(s, e) # <<>> /\ Len(Append(s, e)) = Len(s) + 1
         /\ ToSet(Append(s, e)) = ToSet(s) \cup {e}
<1>1. /\ Append(s, e) \in Seq(S) /\ Append(s, e) # <<>> /\ Len(Append(s, e)) = Len(s) + 1
      /\ \A i \in 1..Len(s) : Append(s, e)[i] = s[i]
      /\ Append(s, e)[Len(s) + 1] = e
      /\ DOMAIN s = 1..Len(s) /\ Len(s) \in Nat
  BY AppendProperties, LenProperties
<1>2. DOMAIN Append(s, e) = 1..(Len(s) + 1)
  BY <1>1, LenProperties
<1> QED BY <1>1, <1>2 DEF ToSet

(* What was in a queue is its first event and what is left.                *)
LEMMA TakenSet ==
  ASSUME NEW S, NEW s \in Seq(S), s # <<>>
  PROVE  /\ Head(s) \in S /\ Tail(s) \in Seq(S) /\ Len(Tail(s)) = Len(s) - 1
         /\ ToSet(s) = {Head(s)} \cup ToSet(Tail(s))
<1>1. /\ Head(s) \in S /\ Tail(s) \in Seq(S) /\ Len(Tail(s)) = Len(s) - 1
      /\ \A i \in 1..Len(Tail(s)) : Tail(s)[i] = s[i + 1]
      /\ DOMAIN s = 1..Len(s) /\ Len(s) \in Nat /\ Len(s) # 0 /\ Head(s) = s[1]
  BY HeadTailProperties, LenProperties, EmptySeq
<1>2. DOMAIN Tail(s) = 1..(Len(s) - 1)
  BY <1>1, LenProperties
<1>3. \A i \in 1..Len(s) : i = 1 \/ (i - 1 \in 1..(Len(s) - 1) /\ Tail(s)[i - 1] = s[i])
  BY <1>1
<1>4. \A i \in 1..(Len(s) - 1) : i + 1 \in 1..Len(s) /\ Tail(s)[i] = s[i + 1]
  BY <1>1
<1>5. 1 \in 1..Len(s)
  BY <1>1
<1> HIDE DEF ToSet
<1>6. ASSUME NEW e \in ToSet(s) PROVE e \in {Head(s)} \cup ToSet(Tail(s))
  <2>1. PICK i \in 1..Len(s) : e = s[i]
    BY <1>1 DEF ToSet
  <2>2. CASE i = 1
    BY <1>1, <2>1, <2>2
  <2>3. CASE i # 1
    <3>1. i - 1 \in DOMAIN Tail(s) /\ Tail(s)[i - 1] = e
      BY <1>2, <1>3, <2>1, <2>3
    <3> QED BY <3>1 DEF ToSet
  <2> QED BY <2>2, <2>3
<1>7. {Head(s)} \cup ToSet(Tail(s)) \subseteq ToSet(s)
  BY <1>1, <1>2, <1>4, <1>5 DEF ToSet
<1> QED BY <1>1, <1>6, <1>7

(* The presence computed is one of those there are.                        *)
LEMMA PresenceNowIsOne == \A b : PresenceNow(b) \in Presence
BY DEF PresenceNow, Compute, Presence

(* Ticks are counted up to a cap.                                          *)
LEMMA CappedProperties ==
  ASSUME NEW n \in Nat, NEW most \in Nat, n <= most
  PROVE  /\ Capped(n + 1, most) \in 0..most
         /\ Capped(n + 1, most) = IF n < most THEN n + 1 ELSE most
BY DEF Capped

----------------------------------------------------------------------------------
(* The watcher begins with every directory there is.                       *)
LEMMA InitIInv ==
  Init => IInv
<1> SUFFICES ASSUME Init PROVE IInv
  OBVIOUS
<1> USE TreeAssumption, NumberAssumption DEF Init
<1>1. TypeInv
  <2>1. events \in Seq(Dirs \cup {"change"}) /\ Len(events) <= MaxQueue
    BY EmptySeq
  <2>2. advert \in Adverts /\ reading \in Presence
    BY PresenceNowIsOne DEF Adverts, Modified
  <2>3. /\ exists \subseteq AllDirs /\ Root \in exists
        /\ watched \subseteq exists /\ hidden \subseteq exists \ watched
    BY DEF AllDirs
  <2>7. dirty \in BOOLEAN /\ resting \in BOOLEAN /\ hasWatcher \in BOOLEAN /\ blind \in BOOLEAN
    BY Zenon
  <2>4. /\ quiet \in 0..IdleAfter /\ sinceEdit \in 0..IdleAfter /\ dirtyFor \in 0..2
        /\ beat \in {"due", "read", "done"} /\ failures \in 0..MaxFailures
    OBVIOUS
  <2>5. \A d \in exists \cap Dirs : Parent[d] \in exists
    OBVIOUS
  <2>6. advert.presence \in Presence /\ advert.modified \in 0..1
    BY <2>2 DEF Adverts
  <2> HIDE DEF Init
  <2> QED BY <2>1, <2>2, <2>3, <2>4, <2>5, <2>6, <2>7 DEF TypeInv, TypeOK
<1>2. QueueInv /\ EditsNoticed /\ DirtyInv
  BY DEF QueueInv, EditsNoticed, DirtyInv, SeenByHeartbeat
<1> QED BY <1>1, <1>2 DEF IInv

(* Work in the tree leaves an event where there is a watch.                *)
LEMMA WorksProperties ==
  ASSUME TypeInv, NEW d, NEW event \in Dirs \cup {"change"}, Works(d, event)
  PROVE  /\ events' \in Seq(Dirs \cup {"change"}) /\ Len(events') <= MaxQueue
         /\ ToSet(events) \subseteq ToSet(events')
         /\ d \in watched => event \in ToSet(events') /\ events' # <<>>
         /\ events' = <<>> => events = <<>>
         /\ UNCHANGED <<resting, hasWatcher, quiet, beat, reading, advert, failures, blind>>
<1>1. events \in Seq(Dirs \cup {"change"}) /\ Len(events) <= MaxQueue /\ Len(events) \in Nat
  BY LenProperties DEF TypeInv, TypeOK
<1>2. UNCHANGED <<resting, hasWatcher, quiet, beat, reading, advert, failures, blind>>
  BY DEF Works, beatVars
<1>3. CASE d \in watched
  <2>1. events' = Append(events, event) /\ Len(events) < MaxQueue
    BY <1>3 DEF Works
  <2> QED BY <1>1, <1>2, <2>1, AppendedSet, NumberAssumption
<1>4. CASE d \notin watched
  BY <1>1, <1>2, <1>4 DEF Works
<1> QED BY <1>3, <1>4

(* An edit out of the watcher's sight is not counted; one in a directory   *)
(* that waits for its watch has that directory's event before it.          *)
LEMMA EditPreserves ==
  ASSUME IInv, NEW d \in AllDirs, Edit(d)
  PROVE  IInv'
<1> USE DEF IInv
<1>1. /\ events' \in Seq(Dirs \cup {"change"}) /\ Len(events') <= MaxQueue
      /\ ToSet(events) \subseteq ToSet(events')
      /\ d \in watched => events' # <<>>
      /\ events' = <<>> => events = <<>>
      /\ UNCHANGED <<resting, hasWatcher, quiet, beat, reading, advert, failures, blind>>
  BY WorksProperties DEF Edit
<1>2. /\ d \in exists /\ dirty' = TRUE /\ sinceEdit' = IF d \in hidden THEN sinceEdit ELSE 0
      /\ UNCHANGED <<exists, hidden, watched, dirtyFor>>
  BY DEF Edit
<1>3. TypeInv'
  BY <1>1, <1>2, NumberAssumption DEF TypeInv, TypeOK
<1>4. QueueInv' /\ DirtyInv'
  BY <1>1, <1>2 DEF QueueInv, DirtyInv, SeenByHeartbeat
<1>5. EditsNoticed'
  <2> SUFFICES ASSUME hasWatcher', events' = <<>> PROVE quiet' <= sinceEdit'
    BY DEF EditsNoticed
  <2>1. events = <<>> /\ d \notin watched
    BY <1>1
  <2>2. ToSet(events) = {}
    BY <2>1 DEF ToSet
  <2>3. d \in hidden
    BY <1>1, <1>2, <2>1, <2>2 DEF QueueInv
  <2> QED BY <1>1, <1>2, <2>1, <2>3 DEF EditsNoticed
<1> QED BY <1>3, <1>4, <1>5

(* A directory made is in the queue, or hidden with those it is in.        *)
LEMMA MakeDirPreserves ==
  ASSUME IInv, NEW d \in Dirs, MakeDir(d)
  PROVE  IInv'
<1> USE DEF IInv
<1>1. /\ events' \in Seq(Dirs \cup {"change"}) /\ Len(events') <= MaxQueue
      /\ ToSet(events) \subseteq ToSet(events')
      /\ Parent[d] \in watched => d \in ToSet(events')
      /\ events' = <<>> => events = <<>>
      /\ UNCHANGED <<resting, hasWatcher, quiet, beat, reading, advert, failures, blind>>
  BY WorksProperties DEF MakeDir
<1>2. /\ d \notin exists /\ Parent[d] \in exists
      /\ exists' = exists \cup {d}
      /\ hidden' = IF Parent[d] \in watched THEN hidden ELSE hidden \cup {d}
      /\ UNCHANGED <<dirty, sinceEdit, watched, dirtyFor>>
  BY DEF MakeDir
<1>3. TypeInv'
  BY <1>1, <1>2 DEF TypeInv, TypeOK, AllDirs
<1>4. QueueInv'
  BY <1>1, <1>2 DEF QueueInv
<1>5. EditsNoticed' /\ DirtyInv'
  BY <1>1, <1>2 DEF EditsNoticed, DirtyInv, SeenByHeartbeat
<1> QED BY <1>3, <1>4, <1>5

(* A directory that goes takes its watch with it.                          *)
LEMMA RemoveDirPreserves ==
  ASSUME IInv, NEW d \in Dirs, RemoveDir(d)
  PROVE  IInv'
<1> USE DEF IInv
<1>1. /\ events' \in Seq(Dirs \cup {"change"}) /\ Len(events') <= MaxQueue
      /\ ToSet(events) \subseteq ToSet(events')
      /\ events' = <<>> => events = <<>>
      /\ UNCHANGED <<resting, hasWatcher, quiet, beat, reading, advert, failures, blind>>
  BY WorksProperties DEF RemoveDir
<1>2. /\ \A e \in exists \cap Dirs : Parent[e] # d
      /\ exists' = exists \ {d} /\ watched' = watched \ {d} /\ hidden' = hidden \ {d}
      /\ dirty' \in BOOLEAN /\ dirtyFor' = IF dirty' THEN dirtyFor ELSE 0
      /\ UNCHANGED sinceEdit
  BY DEF RemoveDir
<1>3. TypeInv'
  <2>1. /\ Root # d /\ exists' \subseteq AllDirs /\ Root \in exists'
        /\ watched' \subseteq exists' /\ hidden' \subseteq exists' \ watched'
    BY <1>2, TreeAssumption DEF TypeInv, TypeOK
  <2>2. \A e \in exists' \cap Dirs : Parent[e] \in exists'
    BY <1>2 DEF TypeInv, TypeOK
  <2>3. dirty' \in BOOLEAN /\ dirtyFor' \in 0..2
    BY <1>2 DEF TypeInv, TypeOK
  <2> QED BY <1>1, <1>2, <2>1, <2>2, <2>3 DEF TypeInv, TypeOK
<1>4. QueueInv'
  BY <1>1, <1>2 DEF QueueInv
<1>5. EditsNoticed' /\ DirtyInv'
  BY <1>1, <1>2 DEF EditsNoticed, DirtyInv, SeenByHeartbeat
<1> QED BY <1>3, <1>4, <1>5

(* A commit is seen by git alone; resting changes nothing.                 *)
LEMMA CommitOrRestPreserves ==
  ASSUME IInv, Commit \/ Rest
  PROVE  IInv'
<1> USE DEF IInv, watchVars, beatVars
<1>1. TypeInv'
  <2>1. /\ UNCHANGED <<exists, hidden, sinceEdit, events, hasWatcher, watched, quiet, beat, reading, advert,
                      failures, blind>>
        /\ dirty' \in BOOLEAN /\ resting' \in BOOLEAN /\ (dirtyFor' = dirtyFor \/ dirtyFor' = 0)
    BY DEF Commit, Rest, TypeInv, TypeOK
  <2> QED BY <2>1 DEF TypeInv, TypeOK
<1>2. QueueInv' /\ EditsNoticed' /\ DirtyInv'
  BY DEF QueueInv, EditsNoticed, DirtyInv, SeenByHeartbeat, Commit, Rest
<1> QED BY <1>1, <1>2

(* What leaves the queue is watched, if it is still there.                 *)
LEMMA ConsumePreserves ==
  ASSUME IInv, Consume
  PROVE  IInv'
<1> USE DEF IInv
<1>1. /\ UNCHANGED <<exists, dirty, resting, sinceEdit, dirtyFor, hasWatcher, beat, reading, advert,
                    failures, blind>>
      /\ quiet' = 0 /\ hidden' = hidden \ watched'
      /\ events # <<>> /\ events' = Tail(events)
      /\ watched' = IF Head(events) \in exists THEN watched \cup {Head(events)} ELSE watched
  BY DEF Consume, Touched, Tracked, beatVars
<1>2. /\ events' \in Seq(Dirs \cup {"change"}) /\ Len(events') <= MaxQueue
      /\ ToSet(events) = {Head(events)} \cup ToSet(events')
  <2>1. events \in Seq(Dirs \cup {"change"}) /\ Len(events) <= MaxQueue /\ Len(events) \in Nat
    BY LenProperties DEF TypeInv, TypeOK
  <2> QED BY <1>1, <2>1, TakenSet, NumberAssumption
<1>3. TypeInv'
  BY <1>1, <1>2, NumberAssumption DEF TypeInv, TypeOK
<1>4. QueueInv'
  BY <1>1, <1>2 DEF QueueInv
<1>5. EditsNoticed' /\ DirtyInv'
  BY <1>1 DEF EditsNoticed, DirtyInv, SeenByHeartbeat, TypeInv, TypeOK
<1> QED BY <1>3, <1>4, <1>5

(* A heartbeat that git answers tells what there is.                       *)
LEMMA HeartbeatPreserves ==
  ASSUME IInv, Heartbeat
  PROVE  IInv'
<1> USE DEF IInv
<1>1. UNCHANGED <<exists, dirty, resting, hidden, sinceEdit, dirtyFor, events, hasWatcher, watched, quiet>>
  BY DEF Heartbeat, HeartbeatReads, HeartbeatPublishes, treeVars, watchVars
<1>2. QueueInv' /\ EditsNoticed'
  BY <1>1 DEF QueueInv, EditsNoticed
<1>3. CASE HeartbeatReads
  <2>1. /\ failures' \in 0..MaxFailures /\ reading' \in Presence /\ beat' = "read"
        /\ UNCHANGED <<advert, blind>>
    BY <1>3, PresenceNowIsOne, NumberAssumption DEF HeartbeatReads, Status, TypeInv, TypeOK
  <2>2. TypeInv'
    BY <1>1, <2>1 DEF TypeInv, TypeOK
  <2>3. DirtyInv'
    BY <1>1, <2>1 DEF DirtyInv, SeenByHeartbeat
  <2> QED BY <1>2, <2>2, <2>3
<1>4. CASE HeartbeatPublishes
  <2>1. PICK count \in 0..1 : /\ Status(count)
                             /\ advert' = [presence |-> reading, modified |-> Counted(count)]
    BY <1>4 DEF HeartbeatPublishes
  <2>2. /\ failures' \in 0..MaxFailures /\ blind' = (failures' # failures)
        /\ beat' = "done" /\ UNCHANGED reading
    BY <1>4, <2>1, NumberAssumption DEF HeartbeatPublishes, Status, TypeInv, TypeOK
  <2>3. advert'.modified = count /\ advert' \in Adverts
    BY <2>1 DEF Counted, Adverts, TypeInv, TypeOK
  <2>4. TypeInv'
    BY <1>1, <2>2, <2>3 DEF TypeInv, TypeOK, Adverts
  <2>5. dirty /\ ~blind' => count = 1
    <3>1. failures \in Nat /\ (failures' = failures + 1 => failures' # failures)
      BY NumberAssumption DEF TypeInv, TypeOK
    <3> SUFFICES ASSUME dirty, ~blind' PROVE count = 1
      OBVIOUS
    <3>2. failures' = failures
      BY <2>2
    <3>3. count = Modified
      BY <2>1, <3>1, <3>2 DEF Status
    <3> QED BY <3>3 DEF Modified
  <2>6. DirtyInv'
    BY <1>1, <2>2, <2>3, <2>5 DEF DirtyInv, SeenByHeartbeat
  <2> QED BY <1>2, <2>4, <2>6
<1> QED BY <1>3, <1>4 DEF Heartbeat

(* Time passes alike for the watcher and for the edits; a tree dirty for a *)
(* whole tick had a heartbeat in it.                                       *)
LEMMA TickPreserves ==
  ASSUME IInv, Tick
  PROVE  IInv'
<1> USE DEF IInv
<1>1. /\ beat = "done" /\ events = <<>> /\ beat' = "due"
      /\ quiet' = Capped(quiet + 1, IdleAfter) /\ sinceEdit' = Capped(sinceEdit + 1, IdleAfter)
      /\ dirtyFor' = IF dirty THEN Capped(dirtyFor + 1, 2) ELSE 0
      /\ UNCHANGED <<exists, dirty, resting, hidden, events, hasWatcher, watched, reading,
                     advert, failures, blind>>
  BY DEF Tick
<1>2. /\ quiet \in 0..IdleAfter /\ sinceEdit \in 0..IdleAfter /\ dirtyFor \in 0..2
      /\ dirty \in BOOLEAN /\ IdleAfter \in Nat
  BY NumberAssumption DEF TypeInv, TypeOK
<1>3. /\ quiet' \in 0..IdleAfter /\ quiet' = IF quiet < IdleAfter THEN quiet + 1 ELSE IdleAfter
      /\ sinceEdit' \in 0..IdleAfter
      /\ sinceEdit' = IF sinceEdit < IdleAfter THEN sinceEdit + 1 ELSE IdleAfter
      /\ dirtyFor' \in 0..2
      /\ dirty => dirtyFor' = IF dirtyFor < 2 THEN dirtyFor + 1 ELSE 2
      /\ ~dirty => dirtyFor' = 0
  BY <1>1, <1>2 DEF Capped
<1>4. TypeInv'
  BY <1>1, <1>3 DEF TypeInv, TypeOK
<1>5. QueueInv'
  BY <1>1 DEF QueueInv
<1>6. EditsNoticed'
  BY <1>1, <1>2, <1>3 DEF EditsNoticed
<1>7. DirtyInv'
  BY <1>1, <1>2, <1>3 DEF DirtyInv, SeenByHeartbeat
<1> QED BY <1>4, <1>5, <1>6, <1>7

(* The invariant holds, whoever works in the tree.                         *)
LEMMA IInvHolds == Spec => []IInv
<1>1. IInv /\ [Next]_vars => IInv'
  <2> SUFFICES ASSUME IInv, [Next]_vars PROVE IInv'
    OBVIOUS
  <2>1. CASE UNCHANGED vars
    BY <2>1 DEF IInv, TypeInv, TypeOK, Modified, QueueInv, EditsNoticed, DirtyInv, SeenByHeartbeat, vars,
                treeVars, watchVars, beatVars
  <2>2. CASE Work
    BY <2>2, EditPreserves, MakeDirPreserves, RemoveDirPreserves, CommitOrRestPreserves DEF Work
  <2> QED BY <2>1, <2>2, CommitOrRestPreserves, ConsumePreserves, HeartbeatPreserves, TickPreserves
          DEF Next
<1> QED BY <1>1, InitIInv, PTL DEF Spec

----------------------------------------------------------------------------------
(* However directories come and go, one made where there was a watch is    *)
(* watched or about to be (Watcher.Start).                                 *)
THEOREM NewDirsAreWatched == Spec => []NewDirsWatched
<1>1. IInv => NewDirsWatched
  BY DEF IInv, TypeInv, QueueInv, NewDirsWatched
<1> QED BY <1>1, IInvHolds, PTL

(* With no event left, the watcher's last activity is no older than the    *)
(* last edit in its sight (touch, Start).                                  *)
THEOREM EditsAreNoticed == Spec => []EditsNoticed
<1>1. IInv => EditsNoticed
  BY DEF IInv
<1> QED BY <1>1, IInvHolds, PTL

(* Who pushes to a host that shows changed files is warned just if there   *)
(* are changed files on the pushing side too (Detect, Risky).              *)
LEMMA WarnsOfFiles ==
  ASSUME NEW S, NEW files \in Seq(S), NEW n, n > 0
  PROVE  Risky(Detect(files, <<>>, n)) <=> files # <<>>
<1>1. files # <<>> => 1 \in DOMAIN files
  BY LenProperties, EmptySeq
<1>2. DedupSorted(files) # {} <=> files # <<>>
  BY <1>1 DEF DedupSorted, ToSet
<1>3. n # 0
  OBVIOUS
<1> QED BY <1>2, <1>3 DEF Detect, Risky

(* The pusher's git status lists files in a sequence.                      *)
LEMMA LocalsHaveFiles ==
  ASSUME NEW local \in Locals PROVE local.files \in Seq(Files)
BY NumberAssumption DEF Locals, BoundedSeq, SeqOf

(* Of a host whose tree was dirty at its last heartbeat, and whose git did *)
(* not fail in it, those who push with uncommitted files and a git status  *)
(* that works are warned, and nobody else (advertisementFor, Risky).       *)
THEOREM OldWorkIsWarned == Spec => []OldWorkWarned
<1>1. IInv => OldWorkWarned
  <2>1. ASSUME IInv, SeenByHeartbeat, ~blind, NEW local \in Locals
        PROVE  Warned(local) <=> local.ok /\ local.files # <<>>
    <3>1. advert.modified = 1
      BY <2>1 DEF IInv, DirtyInv
    <3>2. Risky(Detect(local.files, <<>>, 1)) <=> local.files # <<>>
      BY LocalsHaveFiles, WarnsOfFiles
    <3> QED BY <3>1, <3>2 DEF Warned
  <2> QED BY <2>1 DEF OldWorkWarned
<1> QED BY <1>1, IInvHolds, PTL
====================================================================================
