------------------------------ MODULE SessionStore ------------------------------
(***************************************************************************)
(* sessions.json and everyone who reads and writes it: runs of `session    *)
(* create` (a host), the invite validators of their connections, `session  *)
(* invite` and `session leave`.  Every host here is locked: an open one    *)
(* has no validator.                                                       *)
(*                                                                         *)
(* A save is os.WriteFile: open with O_TRUNC, then one write at offset 0.  *)
(* Nothing locks the file between processes, so the two halves are steps   *)
(* of their own and other writers come in between.                         *)
(***************************************************************************)
EXTENDS Naturals, FiniteSets

CONSTANTS Hosts,     \* runs of `session create`; each draws a fresh secret, so a
                     \* host also names its secret and its session
          Conns,     \* connections that present an invite
          Tokens,    \* invite IDs, fresh random at minting
          None,
          Faults     \* what may go wrong: "crash", a host killed at any point;
                     \* "save", an error from os.WriteFile

ASSUME NoneAssumption == None \notin Hosts /\ None \notin Conns
ASSUME FaultsAssumption == Faults \subseteq {"crash", "save"}

VARIABLES file,    \* sessions.json
          host,    \* host[h]: where the run h stands
          mem,     \* mem[h]: Session.Burned in the memory of run h
          lock,    \* lock[h]: the connection inside h's validator, or None
          pc,      \* pc[c]: where connection c's validation stands
          at,      \* at[c]: the host c is connected to
          tok,     \* tok[c]: the token c presents
          snap,    \* snap[c]: the Burned list c's Save has marshalled
          minted,  \* minted[t]: the session whose secret signed t
          expired, \* tokens past their expiry
          leave    \* the step of the one running `session leave`

storeVars == <<file, mem, snap>>
connVars == <<pc, at, tok>>
vars == <<file, host, mem, lock, pc, at, tok, snap, minted, expired, leave>>

Contents == [st : {"ok", "empty", "garbled"}, sid : Hosts \cup {None},
             burned : SUBSET Tokens]
HostStates == {"new", "creating", "live", "stopping", "clearing", "erasing",
               "closing", "exited", "crashed"}
ConnStates == {"idle", "waiting", "burnt", "truncated", "admitted", "refused", "dead"}

TypeOK == /\ file \in Contents
          /\ host \in [Hosts -> HostStates]
          /\ mem \in [Hosts -> SUBSET Tokens]
          /\ lock \in [Hosts -> Conns \cup {None}]
          /\ pc \in [Conns -> ConnStates]
          /\ at \in [Conns -> Hosts \cup {None}]
          /\ tok \in [Conns -> Tokens \cup {None}]
          /\ snap \in [Conns -> SUBSET Tokens]
          /\ minted \in [Tokens -> Hosts \cup {None}]
          /\ expired \subseteq Tokens
          /\ leave \in {"idle", "loaded", "truncated"}

----------------------------------------------------------------------------------
(* Store contents.  An absent file loads like a cleared one.               *)
Cleared == [st |-> "ok", sid |-> None, burned |-> {}]
Truncated == [st |-> "empty", sid |-> None, burned |-> {}]
Garbled == [st |-> "garbled", sid |-> None, burned |-> {}]
Active(h, burned) == [st |-> "ok", sid |-> h, burned |-> burned]

Readable == file.st = "ok"

(* Writing data at offset 0 over what the file holds by now: the tail of a *)
(* longer old text survives and the JSON no longer parses.  {"active":null}*)
(* is shorter than any session, which is longer than any cleared store.    *)
Overlaid(data) ==
  IF file \in {Truncated, Cleared} THEN {data}
  ELSE IF data = Cleared THEN {Garbled}
  ELSE {data, Garbled}

(* A write that fails has written nothing or a part.                       *)
FailedWrite == IF "save" \in Faults THEN {file, Garbled} ELSE {}

Running(h) == host[h] \in {"creating", "live", "stopping", "clearing", "erasing", "closing"}

Init == /\ file = Cleared
        /\ host = [h \in Hosts |-> "new"]
        /\ mem = [h \in Hosts |-> {}]
        /\ lock = [h \in Hosts |-> None]
        /\ pc = [c \in Conns |-> "idle"]
        /\ at = [c \in Conns |-> None]
        /\ tok = [c \in Conns |-> None]
        /\ snap = [c \in Conns |-> {}]
        /\ minted = [t \in Tokens |-> None]
        /\ expired = {}
        /\ leave = "idle"

----------------------------------------------------------------------------------
(* runSessionCreate: the store is saved once the port is known; only then  *)
(* are clearActiveSession deferred and Serve started.                      *)
MoveHost(h, from, to) == /\ host[h] = from
                         /\ host' = [host EXCEPT ![h] = to]

CreateTruncate(h) == /\ MoveHost(h, "new", "creating")
                     /\ file' = Truncated
                     /\ UNCHANGED <<mem, lock, connVars, snap, minted, expired, leave>>

CreateWrite(h) == /\ MoveHost(h, "creating", "live")
                  /\ file' \in Overlaid(Active(h, {}))
                  /\ UNCHANGED <<mem, lock, connVars, snap, minted, expired, leave>>

(* A failed save returns before the deferred clear is registered.          *)
CreateFail(h) == /\ "save" \in Faults
                 /\ \/ MoveHost(h, "new", "exited") /\ UNCHANGED file
                    \/ MoveHost(h, "creating", "exited") /\ file' \in FailedWrite
                 /\ UNCHANGED <<mem, lock, connVars, snap, minted, expired, leave>>

(* Ctrl+C: the deferred calls stop discovery and the server, then clear.   *)
(* Shutdown waits for no handler, so validators go on meanwhile.           *)
Stop(h) == /\ MoveHost(h, "live", "stopping")
           /\ UNCHANGED <<storeVars, lock, connVars, minted, expired, leave>>

(* clearActiveSession: an unreadable store is left as it is.               *)
ClearLoad(h) == /\ MoveHost(h, "stopping", IF Readable THEN "clearing" ELSE "closing")
                /\ UNCHANGED <<storeVars, lock, connVars, minted, expired, leave>>

ClearTruncate(h) == /\ \/ MoveHost(h, "clearing", "erasing") /\ file' = Truncated
                       \/ "save" \in Faults /\ MoveHost(h, "clearing", "closing") /\ UNCHANGED file
                    /\ UNCHANGED <<mem, lock, connVars, snap, minted, expired, leave>>

ClearWrite(h) == /\ MoveHost(h, "erasing", "closing")
                 /\ file' \in Overlaid(Cleared) \cup FailedWrite
                 /\ UNCHANGED <<mem, lock, connVars, snap, minted, expired, leave>>

(* The process ends with main's return and takes its handlers with it,     *)
(* wherever they are.                                                      *)
InFlight(c) == pc[c] \in {"waiting", "burnt", "truncated"}
EndProcess(h) == /\ pc' = [c \in Conns |-> IF at[c] = h /\ InFlight(c) THEN "dead" ELSE pc[c]]
                 /\ UNCHANGED <<storeVars, lock, at, tok, minted, expired, leave>>

Exit(h) == /\ MoveHost(h, "closing", "exited")
           /\ EndProcess(h)

Crash(h) == /\ "crash" \in Faults
            /\ Running(h)
            /\ host' = [host EXCEPT ![h] = "crashed"]
            /\ EndProcess(h)

----------------------------------------------------------------------------------
(* session invite: a fresh ID signed with whatever secret the file holds.  *)
Invite(t) == /\ Readable
             /\ file.sid # None
             /\ minted[t] = None
             /\ minted' = [minted EXCEPT ![t] = file.sid]
             /\ UNCHANGED <<storeVars, host, lock, connVars, expired, leave>>

Expire(t) == /\ minted[t] # None
             /\ expired' = expired \cup {t}
             /\ UNCHANGED <<storeVars, host, lock, connVars, minted, leave>>

(* session leave: load, and save the cleared store if a session was there. *)
LeaveLoad == /\ leave = "idle"
             /\ Readable
             /\ file.sid # None
             /\ leave' = "loaded"
             /\ UNCHANGED <<storeVars, host, lock, connVars, minted, expired>>

LeaveTruncate == /\ leave = "loaded"
                 /\ \/ leave' = "truncated" /\ file' = Truncated
                    \/ "save" \in Faults /\ leave' = "idle" /\ UNCHANGED file
                 /\ UNCHANGED <<mem, host, lock, connVars, snap, minted, expired>>

LeaveWrite == /\ leave = "truncated"
              /\ leave' = "idle"
              /\ file' \in Overlaid(Cleared) \cup FailedWrite
              /\ UNCHANGED <<mem, host, lock, connVars, snap, minted, expired>>

----------------------------------------------------------------------------------
(* A connection reaches the gate of a host that serves and presents a      *)
(* minted token: possibly one of another session, spent or expired.        *)
Serving(h) == host[h] \in {"live", "stopping", "clearing", "erasing", "closing"}

Present(c, h, t) == /\ pc[c] = "idle"
                    /\ Serving(h)
                    /\ minted[t] # None
                    /\ pc' = [pc EXCEPT ![c] = "waiting"]
                    /\ at' = [at EXCEPT ![c] = h]
                    /\ tok' = [tok EXCEPT ![c] = t]
                    /\ UNCHANGED <<storeVars, host, lock, minted, expired, leave>>

(* Faulty variants of the operators below, which show that the properties  *)
(* can fail: an invite of any session accepted; a burn recorded in a copy; *)
(* the zero ID burnt after a parse error; the store marshalled before the  *)
(* burn; an error return that skips the unlock.                            *)
ParsesAnySecret(h, t) == t \notin expired
BurnCopy(c) == /\ lock' = [lock EXCEPT ![at[c]] = c]
               /\ pc' = [pc EXCEPT ![c] = "burnt"]
               /\ UNCHANGED mem
BurnZeroID(c) == /\ mem' = [mem EXCEPT ![at[c]] = @ \cup {None}]
                 /\ lock' = [lock EXCEPT ![at[c]] = c]
                 /\ pc' = [pc EXCEPT ![c] = "burnt"]
SaveBeforeBurn(c) == /\ pc[c] = "burnt"
                     /\ pc' = [pc EXCEPT ![c] = "truncated"]
                     /\ snap' = [snap EXCEPT ![c] = mem[at[c]] \ {tok[c]}]
                     /\ file' = Truncated
                     /\ UNCHANGED <<mem, host, lock, at, tok, minted, expired, leave>>
LeavesLocked(c, outcome) ==
  /\ pc' = [pc EXCEPT ![c] = outcome]
  /\ lock' = IF outcome = "refused" THEN lock ELSE [lock EXCEPT ![at[c]] = None]

(* ParseInvite accepts what this session's secret signed and has not       *)
(* expired.                                                                *)
Parses(h, t) == minted[t] = h /\ t \notin expired

(* inviteValidator up to Save: under mu, verify and burn in memory.        *)
Refuse(c) == /\ pc' = [pc EXCEPT ![c] = "refused"]
             /\ UNCHANGED <<mem, lock>>

BurnInvite(c) == /\ mem' = [mem EXCEPT ![at[c]] = @ \cup {tok[c]}]
                 /\ lock' = [lock EXCEPT ![at[c]] = c]
                 /\ pc' = [pc EXCEPT ![c] = "burnt"]

Validate(c) == /\ pc[c] = "waiting"
               /\ lock[at[c]] = None
               /\ IF Parses(at[c], tok[c]) /\ tok[c] \notin mem[at[c]]
                  THEN BurnInvite(c)
                  ELSE Refuse(c)
               /\ UNCHANGED <<file, snap, host, at, tok, minted, expired, leave>>

(* Save, still under mu: marshal the store and open the file; write it; or *)
(* fail at either.  A failure refuses the connection, its token burnt.     *)
SaveTruncate(c) == /\ pc[c] = "burnt"
                   /\ pc' = [pc EXCEPT ![c] = "truncated"]
                   /\ snap' = [snap EXCEPT ![c] = mem[at[c]]]
                   /\ file' = Truncated
                   /\ UNCHANGED <<mem, host, lock, at, tok, minted, expired, leave>>

Leaves(c, outcome) == /\ pc' = [pc EXCEPT ![c] = outcome]
                      /\ lock' = [lock EXCEPT ![at[c]] = None]

SaveWrite(c) == /\ pc[c] = "truncated"
                /\ Leaves(c, "admitted")
                /\ file' \in Overlaid(Active(at[c], snap[c]))
                /\ UNCHANGED <<mem, snap, host, at, tok, minted, expired, leave>>

SaveFail(c) == /\ "save" \in Faults
               /\ \/ pc[c] = "burnt" /\ UNCHANGED file
                  \/ pc[c] = "truncated" /\ file' \in FailedWrite
               /\ Leaves(c, "refused")
               /\ UNCHANGED <<mem, snap, host, at, tok, minted, expired, leave>>

----------------------------------------------------------------------------------
HostStep(h) == \/ CreateTruncate(h) \/ CreateWrite(h) \/ CreateFail(h)
               \/ Stop(h) \/ ClearLoad(h) \/ ClearTruncate(h) \/ ClearWrite(h)
               \/ Exit(h) \/ Crash(h)
ValidatorStep(c) == Validate(c) \/ SaveTruncate(c) \/ SaveWrite(c) \/ SaveFail(c)
LeaveStep == LeaveLoad \/ LeaveTruncate \/ LeaveWrite

Next == \/ \E h \in Hosts : HostStep(h)
        \/ \E t \in Tokens : Invite(t) \/ Expire(t)
        \/ \E c \in Conns : ValidatorStep(c)
        \/ \E c \in Conns, h \in Hosts, t \in Tokens : Present(c, h, t)
        \/ LeaveStep

Spec == Init /\ [][Next]_vars

----------------------------------------------------------------------------------
(* A one-time token lets at most one connection in, however connections,   *)
(* failed saves, restarts and other commands interleave                    *)
(* (inviteValidator).                                                      *)
SingleUse == \A c, d \in Conns :
               pc[c] = "admitted" /\ pc[d] = "admitted" /\ c # d => tok[c] # tok[d]

(* "persisted so a token cannot be reused, even across restarts": whenever *)
(* the file can be read and still describes the session that let a         *)
(* connection in, it lists the token as burnt, whatever commands raced on  *)
(* the file since (inviteValidator, Store.Save).                           *)
BurnIsDurable == \A c \in Conns :
                   pc[c] = "admitted" /\ file.st = "ok" /\ file.sid = at[c]
                     => tok[c] \in file.burned

(* The store implements what an invite promises: a token admits once, and  *)
(* only at the session that minted it (ParseInvite, Burn, Save).           *)
Admissions == {[token |-> tok[c], conn |-> c, host |-> at[c]] :
                 c \in {d \in Conns : pc[d] = "admitted"}}
Promise == INSTANCE OneTimeInvite WITH issuer <- minted, admissions <- Admissions
ImplementsOneTimeInvite == Promise!Spec

(* Nobody but a connection on its way from burn to saved, or one whose     *)
(* process has ended, holds a validator's mutex: no refusal, failed save or*)
(* admission leaves it taken for those who wait (inviteValidator).         *)
LockReleased == \A h \in Hosts : lock[h] # None =>
  at[lock[h]] = h /\ pc[lock[h]] \in {"burnt", "truncated", "dead"}

(* The inductive invariant behind the theorems of SessionStoreProofs.      *)
Saving(c) == pc[c] \in {"burnt", "truncated"}
Claimed(c) == Saving(c) \/ pc[c] = "admitted"

PlacedInv == \A c \in Conns : pc[c] # "idle" =>
               /\ at[c] \in Hosts
               /\ tok[c] \in Tokens
               /\ host[at[c]] \notin {"new", "creating"}
LockInv == \A c \in Conns : Saving(c) => lock[at[c]] = c
ClaimInv == \A c \in Conns : Claimed(c) =>
              minted[tok[c]] = at[c] /\ tok[c] \in mem[at[c]]
DistinctInv == \A c, d \in Conns :
                 Claimed(c) /\ Claimed(d) /\ c # d => tok[c] # tok[d]
SnapInv == \A c \in Conns : pc[c] = "truncated" => snap[c] = mem[at[c]]
IInv == /\ TypeOK
        /\ PlacedInv
        /\ LockInv
        /\ ClaimInv
        /\ DistinctInv
        /\ SnapInv
        /\ LockReleased
        /\ BurnIsDurable

(* "Active is nil when none is running" (manager.go): with no run of       *)
(* `session create` left and none killed, no session is recorded.          *)
ActiveNilWhenNoneRunning ==
  (\A h \in Hosts : host[h] \in {"new", "exited"}) => file.sid = None
==================================================================================
