---------------------------------- MODULE Command ----------------------------------
(***************************************************************************)
(* What clone, pull, push and session join do before they dial: take an    *)
(* invite from the command line if there is one (Tokens), browse for the   *)
(* host the reference names (Lookup), stop if what they would make is there*)
(* already, then load this host's identity, or make it (IdentityStore),    *)
(* then take the host's address.  Other commands of the same user race for *)
(* the identity meanwhile.                                                 *)
(***************************************************************************)
EXTENDS Tokens, Lookup, IdentityStore

CONSTANT Cmd  \* the command followed here

ASSUME CmdAssumption == Cmd \in Procs

commandVars == <<tokenVars, lookupVars, vars>>

CommandInit == TokensInit /\ Browsing /\ Init

(* An invite is handed over before the command starts.  (The validator     *)
(* reads it later, at the gate; its text does not change on the way.)      *)
NothingDone == Browsing /\ Init
HandOver == /\ NothingDone
            /\ TokenNext
            /\ UNCHANGED <<lookupVars, vars>>

Started == invite \in {"none", "read"}

(* The browser and resolvePeer, before the identity is looked at.          *)
LookUp == /\ Started
          /\ \/ \E e \in Entries : Hear(e)
             \/ \E t \in Targets : Resolve(TargetString(t))
          /\ UNCHANGED <<tokenVars, vars>>

(* clone and session join stop where their destination exists.             *)
DestExists == /\ Started
              /\ stage = "found" /\ pc[Cmd] = "idle"
              /\ stage' = "failed"
              /\ UNCHANGED <<heard, found, tokenVars, vars>>

(* clientForPeer: the identity first, the address after it.                *)
UseIdentity(p) == /\ Started
                  /\ p = Cmd => stage = "found"
                  /\ Step(p)
                  /\ UNCHANGED <<tokenVars, lookupVars>>

Address == pc[Cmd] = "running" /\ TakeAim /\ UNCHANGED <<tokenVars, vars>>

CommandNext == HandOver \/ LookUp \/ DestExists \/ (\E p \in Procs : UseIdentity(p)) \/ Address

CommandSpec == CommandInit /\ [][CommandNext]_commandVars
===================================================================================
