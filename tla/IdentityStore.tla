------------------------------ MODULE IdentityStore ------------------------------
(***************************************************************************)
(* identity.key and the commands that load it, or make it on first run:    *)
(* LoadOrCreateIdentity and writeSecretFile.  Nothing keeps two commands   *)
(* from both finding the file absent; the key each generates is named by   *)
(* the command.                                                            *)
(***************************************************************************)
CONSTANTS Procs,  \* commands run by the user, each loading the identity once
          None,
          Faults  \* what may go wrong: "io", an error from a file operation;
                  \* "crash", a command killed at any point

ASSUME NoneAssumption == None \notin Procs
ASSUME PartAssumption == "part" \notin Procs \cup {None}  \* not a key
ASSUME FaultsAssumption == Faults \subseteq {"io", "crash"}

VARIABLES file, \* identity.key: the key in it, None if absent, "part" if cut short
          tmp,  \* tmp[p]: the same of p's temporary file
          pc,   \* pc[p]: where command p stands
          id,   \* id[p]: the identity p runs under, or None
          stuck \* history: commands whose os.Remove of the temporary file failed

vars == <<file, tmp, pc, id, stuck>>

FileContents == Procs \cup {None, "part"}
Making == {"generated", "created", "written", "renamed", "removing"}

TypeOK == /\ file \in FileContents
          /\ tmp \in [Procs -> FileContents]
          /\ pc \in [Procs -> {"idle", "running", "failed", "crashed"} \cup Making]
          /\ id \in [Procs -> Procs \cup {None}]
          /\ \A p \in Procs : pc[p] = "running" => id[p] # None
          /\ stuck \subseteq Procs

Init == /\ file = None
        /\ tmp = [p \in Procs |-> None]
        /\ pc = [p \in Procs |-> "idle"]
        /\ id = [p \in Procs |-> None]
        /\ stuck = {}

Moves(p, from, to) == pc[p] = from /\ pc' = [pc EXCEPT ![p] = to]

----------------------------------------------------------------------------------
(* LoadOrCreateIdentity: an absent file is the first run; a whole key is   *)
(* used; anything else, parseIdentity refuses.                             *)
Load(p) == /\ CASE file = None -> Moves(p, "idle", "generated") /\ UNCHANGED id
                [] file \in Procs -> Moves(p, "idle", "running") /\ id' = [id EXCEPT ![p] = file]
                [] OTHER -> Moves(p, "idle", "failed") /\ UNCHANGED id
           /\ UNCHANGED <<file, tmp, stuck>>

LoadFails(p) == /\ "io" \in Faults
                /\ Moves(p, "idle", "failed")
                /\ UNCHANGED <<file, tmp, id, stuck>>

(* Faulty variants of operators below, which show that the properties can  *)
(* fail: identity.key itself written in two steps; the temporary file left *)
(* behind by an error; a key returned that was never made.                 *)
CreatesInPlace(p) == /\ Moves(p, "generated", "created")
                     /\ tmp' = [tmp EXCEPT ![p] = "part"]
                     /\ file' = "part"
                     /\ UNCHANGED <<id, stuck>>
FailureLeavesTmp(p) == /\ "io" \in Faults
                       /\ pc[p] \in {"generated", "created", "written", "renamed"}
                       /\ pc' = [pc EXCEPT ![p] = "failed"]
                       /\ UNCHANGED <<file, tmp, id, stuck>>

(* writeSecretFile: a temporary file of p's own, 0600; the key in it; its  *)
(* rename over identity.key; the permissions of that.                      *)
Create(p) == /\ Moves(p, "generated", "created")
             /\ tmp' = [tmp EXCEPT ![p] = "part"]
             /\ UNCHANGED <<file, id, stuck>>

Write(p) == /\ Moves(p, "created", "written")
            /\ tmp' = [tmp EXCEPT ![p] = p]
            /\ UNCHANGED <<file, id, stuck>>

Rename(p) == /\ Moves(p, "written", "renamed")
             /\ file' = tmp[p]
             /\ tmp' = [tmp EXCEPT ![p] = None]
             /\ UNCHANGED <<id, stuck>>

Secure(p) == /\ Moves(p, "renamed", "running")
             /\ id' = [id EXCEPT ![p] = p]
             /\ UNCHANGED <<file, tmp, stuck>>

(* Any of these failing runs the deferred os.Remove of the temporary file, *)
(* whose own error is dropped; then the error ends the command.  A key     *)
(* already renamed stays.                                                  *)
WriteFails(p) == /\ "io" \in Faults
                 /\ pc[p] \in {"generated", "created", "written", "renamed"}
                 /\ pc' = [pc EXCEPT ![p] = "removing"]
                 /\ UNCHANGED <<file, tmp, id, stuck>>

RemoveTmp(p) == /\ Moves(p, "removing", "failed")
                /\ \/ tmp' = [tmp EXCEPT ![p] = None] /\ UNCHANGED stuck
                   \/ "io" \in Faults /\ stuck' = stuck \cup {p} /\ UNCHANGED tmp
                /\ UNCHANGED <<file, id>>

Crash(p) == /\ "crash" \in Faults
            /\ pc[p] \in Making \cup {"running"}
            /\ pc' = [pc EXCEPT ![p] = "crashed"]
            /\ UNCHANGED <<file, tmp, id, stuck>>

Step(p) == \/ Load(p) \/ LoadFails(p)
           \/ Create(p) \/ Write(p) \/ Rename(p) \/ Secure(p)
           \/ WriteFails(p) \/ RemoveTmp(p) \/ Crash(p)

Next == \E p \in Procs : Step(p)

Spec == Init /\ [][Next]_vars

----------------------------------------------------------------------------------
(* "A reader never observes a partially written key" (crypto.go), whoever  *)
(* is writing, failing or killed meanwhile; and once there is a key, no    *)
(* step takes it away.                                                     *)
KeyStaysWhole == [][file' # "part" /\ (file # None => file' # None)]_vars

(* A command that ended in an error leaves no copy of a private key next   *)
(* to identity.key unless it could not be removed, as the deferred         *)
(* os.Remove covers every return of writeSecretFile; and none runs without *)
(* an identity (in TypeOK).                                                *)
NoTmpLeft == TypeOK /\ \A p \in Procs \ stuck : pc[p] \in {"failed", "running"} => tmp[p] = None
==================================================================================
