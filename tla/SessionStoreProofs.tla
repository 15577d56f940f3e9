--------------------------- MODULE SessionStoreProofs ---------------------------
(***************************************************************************)
(* What SessionStore keeps for every number of hosts, connections and      *)
(* tokens and every choice of faults.  One inductive invariant, IInv,      *)
(* carries the safety theorems.                                            *)
(***************************************************************************)
EXTENDS SessionStore, TLAPS

(* What a store can hold when nothing is hosted, while it is being saved,  *)
(* after a save gone wrong, and with a session in it (Session, Store).     *)
LEMMA ContentsTypes ==
  /\ {Cleared, Truncated, Garbled} \subseteq Contents
  /\ \A h \in Hosts, burned \in SUBSET Tokens : Active(h, burned) \in Contents
BY DEF Cleared, Truncated, Garbled, Active, Contents

(* Whatever the file held, an overlaid save leaves the saved text or       *)
(* something that cannot be read.                                          *)
LEMMA OverlaidIsDataOrGarbled ==
  ASSUME NEW data
  PROVE  Overlaid(data) \subseteq {data, Garbled}
BY DEF Overlaid

(* A save that fails leaves the file as it was or unreadable (Store.Save). *)
LEMMA FailedWriteKeepsOrGarbles ==
  FailedWrite \subseteq {file, Garbled}
BY DEF FailedWrite

(* The values of every variable stay in their types, through every         *)
(* interleaving of hosts, validators and commands.                         *)
LEMMA TypePreserved ==
  ASSUME TypeOK, PlacedInv, [Next]_vars
  PROVE  TypeOK'
<1> USE NoneAssumption, ContentsTypes DEF TypeOK, HostStates, ConnStates
<1>1. ASSUME NEW h \in Hosts, HostStep(h) PROVE TypeOK'
  <2>1. host' \in [Hosts -> HostStates]
    BY <1>1 DEF HostStep, MoveHost, CreateTruncate, CreateWrite, CreateFail, Stop,
                ClearLoad, ClearTruncate, ClearWrite, Exit, Crash
  <2>2. file' \in Contents
    <3>1. /\ Overlaid(Active(h, {})) \subseteq Contents
          /\ Overlaid(Cleared) \subseteq Contents
          /\ FailedWrite \subseteq Contents
      BY OverlaidIsDataOrGarbled, FailedWriteKeepsOrGarbles
    <3>2. file' \in Overlaid(Active(h, {})) \cup Overlaid(Cleared) \cup FailedWrite
                      \cup {Truncated, file}
      BY <1>1
      DEF HostStep, CreateTruncate, CreateWrite, CreateFail, Stop, ClearLoad, ClearTruncate,
          ClearWrite, Exit, Crash, EndProcess, storeVars
    <3> QED BY <3>1, <3>2
  <2>3. pc' \in [Conns -> ConnStates]
    BY <1>1 DEF HostStep, CreateTruncate, CreateWrite, CreateFail, Stop, ClearLoad,
                ClearTruncate, ClearWrite, Exit, Crash, EndProcess, connVars
  <2>4. UNCHANGED <<mem, lock, at, tok, snap, minted, expired, leave>>
    BY <1>1 DEF HostStep, CreateTruncate, CreateWrite, CreateFail, Stop, ClearLoad,
                ClearTruncate, ClearWrite, Exit, Crash, EndProcess, connVars, storeVars
  <2> QED BY <2>1, <2>2, <2>3, <2>4
<1>2. ASSUME NEW t \in Tokens, Invite(t) \/ Expire(t) PROVE TypeOK'
  BY <1>2 DEF Invite, Expire, storeVars, connVars, Contents
<1>3. ASSUME NEW c \in Conns, ValidatorStep(c) PROVE TypeOK'
  <2>1. at[c] \in Hosts /\ tok[c] \in Tokens
    BY <1>3 DEF PlacedInv, ValidatorStep, Validate, SaveTruncate, SaveWrite, SaveFail
  <2>2. CASE Validate(c)
    BY <2>1, <2>2 DEF Validate, BurnInvite, Refuse
  <2>3. CASE SaveTruncate(c)
    BY <2>1, <2>3 DEF SaveTruncate
  <2>4. CASE SaveWrite(c)
    <3>1. file' \in {Active(at[c], snap[c]), Garbled}
      BY <2>4, OverlaidIsDataOrGarbled DEF SaveWrite
    <3>2. file' \in Contents
      BY <2>1, <3>1
    <3> QED BY <2>1, <2>4, <3>2 DEF SaveWrite, Leaves
  <2>5. CASE SaveFail(c)
    <3>1. file' \in Contents
      BY <2>5, FailedWriteKeepsOrGarbles DEF SaveFail
    <3> QED BY <2>1, <2>5, <3>1 DEF SaveFail, Leaves
  <2> QED BY <1>3, <2>2, <2>3, <2>4, <2>5 DEF ValidatorStep
<1>4. ASSUME NEW c \in Conns, NEW h \in Hosts, NEW t \in Tokens, Present(c, h, t)
      PROVE  TypeOK'
  BY <1>4 DEF Present, storeVars
<1>5. CASE LeaveStep
  <2>1. file' \in {Truncated, file} \cup Overlaid(Cleared) \cup FailedWrite
    BY <1>5 DEF LeaveStep, LeaveLoad, LeaveTruncate, LeaveWrite, storeVars
  <2>2. file' \in Contents
    BY <2>1, OverlaidIsDataOrGarbled, FailedWriteKeepsOrGarbles
  <2> QED
    BY <1>5, <2>2 DEF LeaveStep, LeaveLoad, LeaveTruncate, LeaveWrite, storeVars, connVars
<1>6. CASE UNCHANGED vars
  BY <1>6 DEF vars
<1> QED BY <1>1, <1>2, <1>3, <1>4, <1>5, <1>6 DEF Next

(* A connection's host and token are fixed when it presents, and its host  *)
(* has been live since.                                                    *)
LEMMA PlacedPreserved ==
  ASSUME TypeOK, PlacedInv, [Next]_vars
  PROVE  PlacedInv'
<1> USE DEF TypeOK, PlacedInv
<1>1. ASSUME NEW h \in Hosts, HostStep(h) PROVE PlacedInv'
  <2>1. UNCHANGED <<at, tok>> /\ \A c \in Conns : pc'[c] # "idle" => pc[c] # "idle"
    BY <1>1 DEF HostStep, CreateTruncate, CreateWrite, CreateFail, Stop, ClearLoad,
                ClearTruncate, ClearWrite, Exit, Crash, EndProcess, InFlight, connVars
  <2>2. \A g \in Hosts : host[g] \notin {"new", "creating"} => host'[g] \notin {"new", "creating"}
    BY <1>1 DEF HostStep, MoveHost, CreateTruncate, CreateWrite, CreateFail, Stop,
                ClearLoad, ClearTruncate, ClearWrite, Exit, Crash
  <2> QED BY <2>1, <2>2
<1>2. ASSUME NEW t \in Tokens, Invite(t) \/ Expire(t) PROVE PlacedInv'
  BY <1>2 DEF Invite, Expire, connVars
<1>3. ASSUME NEW c \in Conns, ValidatorStep(c) PROVE PlacedInv'
  BY <1>3 DEF ValidatorStep, Validate, BurnInvite, Refuse, SaveTruncate, SaveWrite,
              SaveFail, Leaves
<1>4. ASSUME NEW c \in Conns, NEW h \in Hosts, NEW t \in Tokens, Present(c, h, t)
      PROVE  PlacedInv'
  BY <1>4 DEF Present, Serving
<1>5. CASE LeaveStep
  BY <1>5 DEF LeaveStep, LeaveLoad, LeaveTruncate, LeaveWrite, connVars
<1>6. CASE UNCHANGED vars
  BY <1>6 DEF vars, connVars
<1> QED BY <1>1, <1>2, <1>3, <1>4, <1>5, <1>6 DEF Next
ClaimsInv == LockInv /\ ClaimInv /\ DistinctInv /\ SnapInv

(* Between the burn and the end of its save a connection holds its host's  *)
(* validator and a token nobody else claims; its marshalled list is still  *)
(* the list in memory when it is written.                                  *)
LEMMA ClaimsPreserved ==
  ASSUME TypeOK, PlacedInv, ClaimsInv, [Next]_vars
  PROVE  ClaimsInv'
<1> USE DEF TypeOK, PlacedInv, ClaimsInv, LockInv, ClaimInv, DistinctInv, SnapInv,
            Claimed, Saving
<1>1. ASSUME NEW h \in Hosts, HostStep(h) PROVE ClaimsInv'
  <2>1. UNCHANGED <<mem, lock, at, tok, snap, minted>>
    BY <1>1 DEF HostStep, CreateTruncate, CreateWrite, CreateFail, Stop, ClearLoad,
                ClearTruncate, ClearWrite, Exit, Crash, EndProcess, connVars, storeVars
  <2>2. \A c \in Conns : pc'[c] \in {pc[c], "dead"}
    BY <1>1 DEF HostStep, CreateTruncate, CreateWrite, CreateFail, Stop, ClearLoad,
                ClearTruncate, ClearWrite, Exit, Crash, EndProcess, InFlight, connVars
  <2> QED BY <2>1, <2>2
<1>2. ASSUME NEW t \in Tokens, Invite(t) \/ Expire(t) PROVE ClaimsInv'
  BY <1>2, NoneAssumption DEF Invite, Expire, storeVars, connVars, Contents
<1>3. ASSUME NEW c \in Conns, Validate(c) PROVE ClaimsInv'
  <2>1. at[c] \in Hosts /\ tok[c] \in Tokens /\ lock[at[c]] = None /\ pc[c] = "waiting"
    BY <1>3 DEF Validate
  <2>2. CASE Refuse(c)
    BY <1>3, <2>1, <2>2 DEF Validate, Refuse
  <2>3. CASE BurnInvite(c) /\ Parses(at[c], tok[c]) /\ tok[c] \notin mem[at[c]]
    <3>1. \A d \in Conns : Saving(d) => at[d] # at[c]
      BY <2>1, NoneAssumption
    <3>2. \A d \in Conns : Claimed(d) => tok[d] # tok[c]
      BY <2>1, <2>3 DEF Parses
    <3>3. UNCHANGED <<snap, at, tok, minted>>
      BY <1>3 DEF Validate
    <3>4. /\ mem' = [mem EXCEPT ![at[c]] = @ \cup {tok[c]}]
          /\ lock' = [lock EXCEPT ![at[c]] = c]
          /\ pc' = [pc EXCEPT ![c] = "burnt"]
      BY <2>3 DEF BurnInvite
    <3>5. LockInv' /\ SnapInv'
      BY <2>1, <3>1, <3>3, <3>4
    <3>6. ClaimInv'
      BY <2>1, <2>3, <3>3, <3>4 DEF Parses
    <3>7. DistinctInv'
      BY <2>1, <3>2, <3>3, <3>4
    <3> QED BY <3>5, <3>6, <3>7
  <2> QED BY <1>3, <2>2, <2>3 DEF Validate
<1>4. ASSUME NEW c \in Conns, SaveTruncate(c) PROVE ClaimsInv'
  BY <1>4 DEF SaveTruncate
<1>5. ASSUME NEW c \in Conns, SaveWrite(c) \/ SaveFail(c) PROVE ClaimsInv'
  <2>1. Saving(c) /\ UNCHANGED <<mem, snap, at, tok, minted>>
    BY <1>5 DEF SaveWrite, SaveFail
  <2>2. \A d \in Conns : d # c /\ Saving(d) => at[d] # at[c]
    BY <2>1
  <2>3. /\ lock' = [lock EXCEPT ![at[c]] = None]
        /\ \/ pc' = [pc EXCEPT ![c] = "admitted"]
           \/ pc' = [pc EXCEPT ![c] = "refused"]
    BY <1>5 DEF SaveWrite, SaveFail, Leaves
  <2> QED BY <2>1, <2>2, <2>3
<1>6. ASSUME NEW c \in Conns, NEW h \in Hosts, NEW t \in Tokens, Present(c, h, t)
      PROVE  ClaimsInv'
  BY <1>6 DEF Present, storeVars
<1>7. CASE LeaveStep
  BY <1>7 DEF LeaveStep, LeaveLoad, LeaveTruncate, LeaveWrite, connVars, storeVars
<1>8. CASE UNCHANGED vars
  BY <1>8 DEF vars, connVars, storeVars
<1> QED
  BY <1>1, <1>2, <1>3, <1>4, <1>5, <1>6, <1>7, <1>8 DEF Next, ValidatorStep

(* A validator's mutex is taken by a burn and given back when its save ends*)
(* well or badly; the end of a process leaves it to the dead.              *)
LEMMA LockReleasedPreserved ==
  ASSUME TypeOK, PlacedInv, LockInv, LockReleased, [Next]_vars
  PROVE  LockReleased'
<1> USE DEF TypeOK, PlacedInv, LockInv, LockReleased, Saving
<1>1. ASSUME NEW h \in Hosts, HostStep(h) PROVE LockReleased'
  <2>1. UNCHANGED <<lock, at>>
    BY <1>1 DEF HostStep, CreateTruncate, CreateWrite, CreateFail, Stop, ClearLoad,
                ClearTruncate, ClearWrite, Exit, Crash, EndProcess, connVars
  <2>2. \A c \in Conns : pc'[c] \in {pc[c], "dead"}
    BY <1>1 DEF HostStep, CreateTruncate, CreateWrite, CreateFail, Stop, ClearLoad,
                ClearTruncate, ClearWrite, Exit, Crash, EndProcess, InFlight, connVars
  <2> QED BY <2>1, <2>2
<1>2. ASSUME NEW t \in Tokens, Invite(t) \/ Expire(t) PROVE LockReleased'
  BY <1>2 DEF Invite, Expire, connVars
<1>3. ASSUME NEW c \in Conns, Validate(c) PROVE LockReleased'
  BY <1>3 DEF Validate, BurnInvite, Refuse
<1>4. ASSUME NEW c \in Conns, SaveTruncate(c) PROVE LockReleased'
  BY <1>4 DEF SaveTruncate
<1>5. ASSUME NEW c \in Conns, SaveWrite(c) \/ SaveFail(c) PROVE LockReleased'
  <2>1. Saving(c) /\ UNCHANGED at
    BY <1>5 DEF SaveWrite, SaveFail
  <2>2. /\ lock' = [lock EXCEPT ![at[c]] = None]
        /\ \A d \in Conns \ {c} : pc'[d] = pc[d]
    BY <1>5 DEF SaveWrite, SaveFail, Leaves
  <2>3. \A h \in Hosts : lock'[h] # None => lock[h] = lock'[h] /\ h # at[c]
    BY <2>1, <2>2
  <2>4. \A h \in Hosts : lock'[h] # None => lock[h] \in Conns \ {c}
    BY <2>3
  <2> QED BY <2>1, <2>2, <2>3, <2>4
<1>6. ASSUME NEW c \in Conns, NEW h \in Hosts, NEW t \in Tokens, Present(c, h, t)
      PROVE  LockReleased'
  BY <1>6 DEF Present
<1>7. CASE LeaveStep \/ UNCHANGED vars
  BY <1>7 DEF LeaveStep, LeaveLoad, LeaveTruncate, LeaveWrite, connVars, vars
<1> QED
  BY <1>1, <1>2, <1>3, <1>4, <1>5, <1>6, <1>7 DEF Next, ValidatorStep

(* A save writes every burn made so far, and nothing else writes a session *)
(* that has let anybody in.                                                *)
LEMMA DurablePreserved ==
  ASSUME TypeOK, PlacedInv, ClaimsInv, BurnIsDurable, [Next]_vars
  PROVE  BurnIsDurable'
<1> USE DEF TypeOK, BurnIsDurable, Cleared, Truncated, Garbled, Active
<1>1. ASSUME NEW h \in Hosts, HostStep(h) PROVE BurnIsDurable'
  <2>1. UNCHANGED <<at, tok>> /\ \A c \in Conns : pc'[c] = "admitted" => pc[c] = "admitted"
    BY <1>1 DEF HostStep, CreateTruncate, CreateWrite, CreateFail, Stop, ClearLoad,
                ClearTruncate, ClearWrite, Exit, Crash, EndProcess, InFlight, connVars
  <2>2. CASE CreateWrite(h)
    <3>1. \A c \in Conns : pc[c] = "admitted" => at[c] # h
      BY <2>2 DEF PlacedInv, CreateWrite, MoveHost
    <3>2. file' \in {Active(h, {}), Garbled}
      BY <2>2, OverlaidIsDataOrGarbled DEF CreateWrite
    <3> QED BY <2>1, <3>1, <3>2
  <2>3. CASE ~CreateWrite(h)
    <3>1. file' \in Overlaid(Cleared) \cup FailedWrite \cup {Truncated, file}
      BY <1>1, <2>3
      DEF HostStep, CreateTruncate, CreateFail, Stop, ClearLoad, ClearTruncate, ClearWrite,
          Exit, Crash, EndProcess, storeVars
    <3>2. file' = file \/ file'.st # "ok" \/ file'.sid = None
      BY <3>1, OverlaidIsDataOrGarbled, FailedWriteKeepsOrGarbles
    <3> QED BY <2>1, <3>2, NoneAssumption DEF PlacedInv
  <2> QED BY <2>2, <2>3
<1>2. ASSUME NEW t \in Tokens, Invite(t) \/ Expire(t) PROVE BurnIsDurable'
  BY <1>2 DEF Invite, Expire, storeVars, connVars
<1>3. ASSUME NEW c \in Conns, Validate(c) \/ SaveTruncate(c) PROVE BurnIsDurable'
  BY <1>3 DEF Validate, BurnInvite, Refuse, SaveTruncate
<1>4. ASSUME NEW c \in Conns, SaveWrite(c) PROVE BurnIsDurable'
  <2>1. file' \in {Active(at[c], mem[at[c]]), Garbled}
    BY <1>4, OverlaidIsDataOrGarbled DEF SaveWrite, ClaimsInv, SnapInv
  <2>2. \A d \in Conns : Claimed(d) => tok[d] \in mem[at[d]]
    BY DEF ClaimsInv, ClaimInv
  <2>3. \A d \in Conns : pc'[d] = "admitted" => Claimed(d)
    BY <1>4 DEF SaveWrite, Leaves, Claimed, Saving
  <2> QED BY <1>4, <2>1, <2>2, <2>3 DEF SaveWrite
<1>5. ASSUME NEW c \in Conns, SaveFail(c) PROVE BurnIsDurable'
  <2>1. file' \in {file, Garbled}
    BY <1>5, FailedWriteKeepsOrGarbles DEF SaveFail
  <2> QED BY <1>5, <2>1 DEF SaveFail, Leaves
<1>6. ASSUME NEW c \in Conns, NEW h \in Hosts, NEW t \in Tokens, Present(c, h, t)
      PROVE  BurnIsDurable'
  BY <1>6 DEF Present, storeVars
<1>7. CASE LeaveStep
  <2>1. file' \in {Truncated, file} \cup Overlaid(Cleared) \cup FailedWrite
    BY <1>7 DEF LeaveStep, LeaveLoad, LeaveTruncate, LeaveWrite, storeVars
  <2>2. file' = file \/ file'.st # "ok" \/ file'.sid = None
    BY <2>1, OverlaidIsDataOrGarbled, FailedWriteKeepsOrGarbles
  <2>3. UNCHANGED connVars
    BY <1>7 DEF LeaveStep, LeaveLoad, LeaveTruncate, LeaveWrite
  <2> QED BY <2>2, <2>3, NoneAssumption DEF PlacedInv, connVars
<1>8. CASE UNCHANGED vars
  BY <1>8 DEF vars, connVars, storeVars
<1> QED
  BY <1>1, <1>2, <1>3, <1>4, <1>5, <1>6, <1>7, <1>8 DEF Next, ValidatorStep

----------------------------------------------------------------------------------
(* Before anything is hosted the invariant holds (an empty store, Load).   *)
LEMMA InitEstablishesIInv == Init => IInv
BY ContentsTypes
DEF Init, IInv, TypeOK, HostStates, ConnStates, PlacedInv, LockInv, ClaimInv, DistinctInv,
    SnapInv, LockReleased, BurnIsDurable, Claimed, Saving

(* No step of a host, a validator or a command breaks the invariant.       *)
LEMMA IInvPreserved == IInv /\ [Next]_vars => IInv'
BY TypePreserved, PlacedPreserved, ClaimsPreserved, LockReleasedPreserved, DurablePreserved
DEF IInv, ClaimsInv

(* The inductive invariant that carries the theorems below holds always    *)
(* (runSessionCreate, inviteValidator, session invite, session leave).     *)
THEOREM IInvHolds == Spec => []IInv
BY InitEstablishesIInv, IInvPreserved, PTL DEF Spec

(* Every variable of the store, its validators and the commands keeps its  *)
(* type (runSessionCreate, inviteValidator, Store.Save).                   *)
THEOREM TypeCorrect == Spec => []TypeOK
<1>1. IInv => TypeOK BY DEF IInv
<1> QED BY <1>1, IInvHolds, PTL

(* An invite lets at most one connection in: the validator's mutex, its    *)
(* burn before the save and the fresh secret per session are enough, with  *)
(* any number of hosts, connections and commands and any failed save       *)
(* (inviteValidator, Session.Burn).                                        *)
THEOREM InviteIsSingleUse == Spec => []SingleUse
<1>1. IInv => SingleUse BY DEF IInv, DistinctInv, SingleUse, Claimed
<1> QED BY <1>1, IInvHolds, PTL

(* Whatever saves fail and whoever is refused, a validator's mutex is never*)
(* left taken for the connections that wait for it (inviteValidator).      *)
THEOREM ValidatorIsReleased == Spec => []LockReleased
<1>1. IInv => LockReleased BY DEF IInv
<1> QED BY <1>1, IInvHolds, PTL

(* A connection is let in only after its burn reached sessions.json, and   *)
(* no later save of its session forgets it (Store.Save under mu).          *)
THEOREM BurnsAreDurable == Spec => []BurnIsDurable
<1>1. IInv => BurnIsDurable BY DEF IInv
<1> QED BY <1>1, IInvHolds, PTL
----------------------------------------------------------------------------------
(* A step that lets nobody in leaves the promise's admissions alone.       *)
LEMMA AdmissionsUnchanged ==
  ASSUME UNCHANGED <<at, tok>>,
         \A c \in Conns : pc'[c] = "admitted" <=> pc[c] = "admitted"
  PROVE  Admissions' = Admissions
BY DEF Admissions

(* A finished save is the promise's Admit, minting its Issue, and every    *)
(* other step of the store a stutter.                                      *)
LEMMA StepImplementsPromise ==
  ASSUME IInv, [Next]_vars
  PROVE  [Promise!Next]_(Promise!absVars)
<1> USE DEF IInv, TypeOK
<1>1. ASSUME NEW h \in Hosts, HostStep(h) PROVE UNCHANGED <<minted, Admissions>>
  <2>1. UNCHANGED <<at, tok, minted>>
    BY <1>1 DEF HostStep, CreateTruncate, CreateWrite, CreateFail, Stop, ClearLoad,
                ClearTruncate, ClearWrite, Exit, Crash, EndProcess, connVars
  <2>2. \A c \in Conns : pc'[c] = "admitted" <=> pc[c] = "admitted"
    BY <1>1 DEF HostStep, CreateTruncate, CreateWrite, CreateFail, Stop, ClearLoad,
                ClearTruncate, ClearWrite, Exit, Crash, EndProcess, InFlight, connVars
  <2> QED BY <2>1, <2>2, AdmissionsUnchanged
<1>2. ASSUME NEW t \in Tokens, Invite(t) PROVE Promise!Next
  <2>1. file.sid \in Hosts
    BY <1>2 DEF Invite, Contents
  <2>2. Admissions' = Admissions
    BY <1>2, AdmissionsUnchanged DEF Invite, connVars
  <2>3. Promise!Issue(t, file.sid)
    BY <1>2, <2>2 DEF Invite, Promise!Issue
  <2> QED BY <2>1, <2>3 DEF Promise!Next
<1>3. ASSUME NEW t \in Tokens, Expire(t) PROVE UNCHANGED <<minted, Admissions>>
  BY <1>3, AdmissionsUnchanged DEF Expire, connVars
<1>4. ASSUME NEW c \in Conns, SaveWrite(c) PROVE Promise!Next
  <2>1. at[c] \in Hosts /\ tok[c] \in Tokens /\ minted[tok[c]] = at[c]
    BY <1>4 DEF SaveWrite, PlacedInv, ClaimInv, Claimed, Saving
  <2>2. \A d \in Conns : pc[d] = "admitted" => d # c /\ tok[d] # tok[c]
    BY <1>4 DEF SaveWrite, DistinctInv, Claimed, Saving
  <2>3. \A a \in Admissions : a.token # tok[c] /\ a.conn # c
    BY <2>2 DEF Admissions
  <2>4. /\ UNCHANGED <<at, tok, minted>>
        /\ pc' = [pc EXCEPT ![c] = "admitted"]
    BY <1>4 DEF SaveWrite, Leaves
  <2>5. Admissions' = Admissions \cup {[token |-> tok[c], conn |-> c, host |-> at[c]]}
    <3>1. {d \in Conns : pc'[d] = "admitted"} = {d \in Conns : pc[d] = "admitted"} \cup {c}
      BY <2>4
    <3> QED BY <2>4, <3>1 DEF Admissions
  <2>6. Promise!Admit(tok[c], c, at[c])
    BY <2>1, <2>3, <2>4, <2>5 DEF Promise!Admit
  <2> QED BY <2>1, <2>6 DEF Promise!Next
<1>5. ASSUME NEW c \in Conns, Validate(c) \/ SaveTruncate(c) \/ SaveFail(c)
      PROVE  UNCHANGED <<minted, Admissions>>
  <2>1. /\ UNCHANGED <<at, tok, minted>>
        /\ pc[c] # "admitted"
        /\ \E v \in ConnStates \ {"admitted"} : pc' = [pc EXCEPT ![c] = v]
    BY <1>5 DEF Validate, BurnInvite, Refuse, SaveTruncate, SaveFail, Leaves, ConnStates
  <2> QED BY <2>1, AdmissionsUnchanged
<1>6. ASSUME NEW c \in Conns, NEW h \in Hosts, NEW t \in Tokens, Present(c, h, t)
      PROVE  UNCHANGED <<minted, Admissions>>
  <2>1. /\ pc[c] = "idle"
        /\ \A d \in Conns \ {c} : pc'[d] = pc[d] /\ at'[d] = at[d] /\ tok'[d] = tok[d]
        /\ pc'[c] = "waiting"
    BY <1>6 DEF Present
  <2>2. {d \in Conns : pc'[d] = "admitted"} = {d \in Conns : pc[d] = "admitted"}
    BY <2>1
  <2>3. \A d \in Conns : pc[d] = "admitted" => at'[d] = at[d] /\ tok'[d] = tok[d]
    BY <2>1
  <2> QED BY <1>6, <2>2, <2>3 DEF Present, Admissions
<1>7. ASSUME LeaveStep \/ UNCHANGED vars PROVE UNCHANGED <<minted, Admissions>>
  <2>1. UNCHANGED connVars /\ UNCHANGED minted
    BY <1>7 DEF LeaveStep, LeaveLoad, LeaveTruncate, LeaveWrite, vars, connVars
  <2> QED BY <2>1, AdmissionsUnchanged DEF connVars
<1>8. Promise!Next \/ UNCHANGED <<minted, Admissions>>
  BY <1>1, <1>2, <1>3, <1>4, <1>5, <1>6, <1>7 DEF Next, ValidatorStep
<1> QED BY <1>8 DEF Promise!absVars

(* The store implements the abstract promise of an invite, for every       *)
(* number of hosts, connections and tokens and every fault (session invite,*)
(* inviteValidator).                                                       *)
THEOREM StoreImplementsOneTimeInvite == Spec => ImplementsOneTimeInvite
<1>1. Init => Promise!Init
  BY DEF Init, Promise!Init, Admissions
<1>2. IInv /\ [Next]_vars => [Promise!Next]_(Promise!absVars)
  BY StepImplementsPromise
<1> QED BY <1>1, <1>2, IInvHolds, PTL DEF Spec, Promise!Spec, ImplementsOneTimeInvite
==================================================================================
