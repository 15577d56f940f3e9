------------------------------- MODULE WorkingTree -------------------------------
(***************************************************************************)
(* The working tree of a host, the watcher that timestamps edits in it, and*)
(* the heartbeat that turns both into the metadata peers see and judge a   *)
(* push by.  A tick is one heartbeat of 20 s: git and the watcher's        *)
(* goroutine keep up with it, and edits fall anywhere in between.          *)
(***************************************************************************)
EXTENDS Integers, SequencesExt

CONSTANTS Dirs,       \* directories below the root that may exist
          Root,
          Parent,     \* Parent[d]: the directory d is in
          IdleAfter,  \* ticks without an edit before a host is idle
          MaxQueue,   \* bound: events the watcher has not consumed
          MaxFailures, \* bound: calls of the host's git status that fail
          Files,      \* files of who pushes to the host
          MaxFiles    \* bound: of them, files its git status lists

ASSUME TreeAssumption == Root \notin Dirs /\ Parent \in [Dirs -> Dirs \cup {Root}]
ASSUME NumberAssumption == IdleAfter \in Nat \ {0} /\ MaxQueue \in Nat /\ MaxFailures \in Nat
                           /\ MaxFiles \in Nat

VARIABLES exists,    \* directories there are
          dirty,     \* git status lists a file
          events,    \* fsnotify events not consumed: "change" or a directory made
          hasWatcher, \* NewWatcher succeeded
          watched,   \* directories with a watch
          quiet,     \* ticks since Watcher.lastActivity, at most IdleAfter
          beat,      \* the heartbeat of this tick: "due", "read", "done"
          reading,   \* the presence it computed
          advert,    \* svc's Advertisement
          failures,  \* calls of git status that failed
          resting,   \* nobody works in the tree any more
          hidden,    \* history: directories made in one without a watch
          sinceEdit, \* history: ticks since an edit in a directory not hidden
          dirtyFor,  \* history: ticks begun since the tree was clean, at most 2
          blind      \* history: the last count advertised is of a failed call

treeVars == <<exists, dirty, resting, hidden, sinceEdit, dirtyFor>>
watchVars == <<events, hasWatcher, watched, quiet>>
beatVars == <<beat, reading, advert, failures, blind>>
vars == <<treeVars, watchVars, beatVars>>

Presence == {"online", "coding", "idle"}
Modified == IF dirty THEN 1 ELSE 0
AllDirs == Dirs \cup {Root}

TypeOK == /\ exists \subseteq AllDirs /\ Root \in exists
          /\ \A d \in exists \cap Dirs : Parent[d] \in exists
          /\ dirty \in BOOLEAN /\ resting \in BOOLEAN
          /\ events \in Seq(Dirs \cup {"change"}) /\ Len(events) <= MaxQueue
          /\ hasWatcher \in BOOLEAN
          /\ watched \subseteq exists \* inotify drops the watch with the directory
          /\ hidden \subseteq exists \ watched
          /\ quiet \in 0..IdleAfter /\ sinceEdit \in 0..IdleAfter /\ dirtyFor \in 0..2
          /\ beat \in {"due", "read", "done"} /\ reading \in Presence
          /\ advert.presence \in Presence /\ advert.modified \in 0..1
          /\ failures \in 0..MaxFailures /\ blind \in BOOLEAN

----------------------------------------------------------------------------------
(* Faulty variants of operators below: an event that only timestamps; a    *)
(* directory that only is watched; an idle test on the tree alone; a count *)
(* read once, at the start.                                                *)
OnlyTouches(d) == watched
TouchOnChange(d) == IF d = "change" THEN 0 ELSE quiet
NeverIdle(isDirty, since) == IF isDirty THEN "coding" ELSE "online"
CountKept(count) == advert.modified

----------------------------------------------------------------------------------
(* presence.Compute, and what advertisementFor does without a watcher.     *)
Compute(isDirty, since) == IF since >= IdleAfter THEN "idle"
                           ELSE IF isDirty THEN "coding" ELSE "online"
PresenceNow(isDirty) == Compute(isDirty, IF hasWatcher THEN quiet ELSE 0)
Counted(count) == count

(* addTree watches every directory there is; Start and the advertisementFor*)
(* before the announcement follow at once, which asks git twice, and git   *)
(* may fail either time.                                                   *)
Init == /\ exists \in {ds \cup {Root} : ds \in SUBSET Dirs}
        /\ \A d \in exists \cap Dirs : Parent[d] \in exists
        /\ dirty \in BOOLEAN
        /\ events = <<>>
        /\ hasWatcher \in BOOLEAN
        /\ watched = IF hasWatcher THEN exists ELSE {}
        /\ quiet = 0
        /\ beat = "done"
        /\ \E first, second \in 0..1 : \* whether the look at git fails
             /\ failures = first + second /\ failures <= MaxFailures
             /\ reading = PresenceNow(dirty /\ first = 0)
             /\ advert = [presence |-> reading, modified |-> IF second = 0 THEN Modified ELSE 0]
             /\ blind = (second = 1)
        /\ resting = FALSE
        /\ hidden = IF hasWatcher THEN {} ELSE exists
        /\ sinceEdit = 0 /\ dirtyFor = 0

----------------------------------------------------------------------------------
(* Work in the tree: an event is queued where there is a watch.            *)
Capped(n, most) == IF n < most THEN n ELSE most
Works(d, event) == /\ ~resting
                   /\ IF d \in watched
                      THEN Len(events) < MaxQueue /\ events' = Append(events, event)
                      ELSE UNCHANGED events
                   /\ UNCHANGED <<resting, hasWatcher, quiet, beatVars>>

Edit(d) == /\ d \in exists
           /\ Works(d, "change")
           /\ dirty' = TRUE
           /\ sinceEdit' = IF d \in hidden THEN sinceEdit ELSE 0
           /\ UNCHANGED <<exists, hidden, watched, dirtyFor>>

MakeDir(d) == /\ d \notin exists /\ Parent[d] \in exists
              /\ Works(Parent[d], d)
              /\ exists' = exists \cup {d}
              /\ hidden' = IF Parent[d] \in watched THEN hidden ELSE hidden \cup {d}
              /\ UNCHANGED <<dirty, sinceEdit, watched, dirtyFor>>

(* Empty when it goes: what removes a tree begins with what is inside.     *)
RemoveDir(d) == /\ d \in exists
                /\ \A e \in exists \cap Dirs : Parent[e] # d
                /\ Works(Parent[d], "change")
                /\ exists' = exists \ {d}
                /\ watched' = watched \ {d}
                /\ hidden' = hidden \ {d}
                /\ dirty' \in BOOLEAN
                /\ dirtyFor' = IF dirty' THEN dirtyFor ELSE 0
                /\ UNCHANGED sinceEdit

(* git commit, of everything: .git is not watched.                         *)
Commit == /\ ~resting /\ dirty
          /\ dirty' = FALSE
          /\ dirtyFor' = 0
          /\ UNCHANGED <<exists, resting, hidden, sinceEdit, watchVars, beatVars>>

Rest == /\ ~resting
        /\ resting' = TRUE
        /\ UNCHANGED <<exists, dirty, hidden, sinceEdit, dirtyFor, watchVars, beatVars>>

----------------------------------------------------------------------------------
(* The goroutine of Watcher.Start: a directory made gets a watch of its    *)
(* own, if it is still there; those inside it do not.                      *)
Touched(d) == 0
Tracked(d) == IF d \in exists THEN watched \cup {d} ELSE watched
Consume == /\ events # <<>>
           /\ events' = Tail(events)
           /\ quiet' = Touched(Head(events))
           /\ watched' = Tracked(Head(events))
           /\ hidden' = hidden \ watched'
           /\ UNCHANGED <<exists, dirty, resting, sinceEdit, dirtyFor, hasWatcher, beatVars>>

(* heartbeat: advertisementFor asks git twice, for the presence and for the*)
(* count; a call that fails counts no file.                                *)
Status(count) == \/ count = Modified /\ UNCHANGED failures
                 \/ count = 0 /\ failures < MaxFailures /\ failures' = failures + 1

HeartbeatReads == /\ beat = "due"
                  /\ \E count \in 0..1 : Status(count) /\ reading' = PresenceNow(count > 0)
                  /\ beat' = "read"
                  /\ UNCHANGED <<treeVars, watchVars, advert, blind>>

HeartbeatPublishes ==
  /\ beat = "read"
  /\ \E count \in 0..1 :
       /\ Status(count)
       /\ advert' = [presence |-> reading, modified |-> Counted(count)]
  /\ blind' = (failures' # failures)
  /\ beat' = "done"
  /\ UNCHANGED <<treeVars, watchVars, reading>>

Tick == /\ beat = "done" /\ events = <<>>
        /\ beat' = "due"
        /\ quiet' = Capped(quiet + 1, IdleAfter)
        /\ sinceEdit' = Capped(sinceEdit + 1, IdleAfter)
        /\ dirtyFor' = IF dirty THEN Capped(dirtyFor + 1, 2) ELSE 0
        /\ UNCHANGED <<exists, dirty, resting, hidden, events, hasWatcher, watched, reading,
                       advert, failures, blind>>

----------------------------------------------------------------------------------
(* conflict.Detect and Risky, as warnOnConflicts of another host's push    *)
(* uses them on the count it sees and on what its own git status says.  A  *)
(* report's sorted list without duplicates is the set of its files.        *)
DedupSorted(files) == ToSet(files)
Intersect(a, b) == ToSet(a) \cap ToSet(b)
Detect(localDirty, peerDirty, peerModified) ==
  [localDirty |-> DedupSorted(localDirty),
   overlap |-> Intersect(localDirty, peerDirty),
   peerModified |-> IF peerModified = 0 THEN Len(peerDirty) ELSE peerModified]
Risky(report) == report.peerModified > 0 /\ report.localDirty # {}
Locals == [ok : BOOLEAN, files : BoundedSeq(Files, MaxFiles)]
Warned(local) == local.ok /\ Risky(Detect(local.files, <<>>, advert.modified))

----------------------------------------------------------------------------------
Work == (\E d \in AllDirs : Edit(d)) \/ (\E d \in Dirs : MakeDir(d) \/ RemoveDir(d)) \/ Commit
Heartbeat == HeartbeatReads \/ HeartbeatPublishes
Next == Work \/ Rest \/ Consume \/ Heartbeat \/ Tick

Spec == Init /\ [][Next]_vars

(* The goroutines run and time passes; nobody has to work or to rest.      *)
FairSpec == Spec /\ WF_vars(Consume) /\ WF_vars(Heartbeat) /\ WF_vars(Tick)

----------------------------------------------------------------------------------
(* A directory made where there was a watch is watched or about to be,     *)
(* whatever was removed and made again in between, and one that is gone is *)
(* not (TypeOK, Watcher.Start).                                            *)
NewDirsWatched ==
  TypeOK /\ (hasWatcher => \A d \in exists \ hidden : d \in watched \/ d \in ToSet(events))

(* Once the watcher has caught up, no edit is newer than lastActivity, not *)
(* one in a directory whose watch was still to come either; edits in one   *)
(* that was made out of the watcher's sight do not count (touch, Start).   *)
EditsNoticed == (hasWatcher /\ events = <<>>) => quiet <= sinceEdit

(* Of a host whose tree was dirty at its last heartbeat, and whose git did *)
(* not fail in it, just those who push are warned that have uncommitted    *)
(* files too and whose own git status works (advertisementFor,             *)
(* warnOnConflicts, Risky).  Who pushes commits from a clean tree does not *)
(* find out, against README.md ("find out before you push").               *)
SeenByHeartbeat == dirtyFor = 2 \/ (dirtyFor = 1 /\ beat = "done")
OldWorkWarned ==
  (SeenByHeartbeat /\ ~blind) =>
    \A local \in Locals : Warned(local) <=> local.ok /\ local.files # <<>>

(* When everybody rests, the host is shown with the files it has and, with *)
(* a watcher, as idle, without one as online or coding, whatever half-read *)
(* state a heartbeat published before (heartbeat, advertisementFor).       *)
Truth == /\ advert.modified = Modified
         /\ advert.presence = IF hasWatcher THEN "idle" ELSE IF dirty THEN "coding" ELSE "online"
AdvertSettles == <>[](resting => Truth)
=================================================================================
