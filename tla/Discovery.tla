--------------------------------- MODULE Discovery ---------------------------------
(***************************************************************************)
(* A discovery.Service and the LAN around it: the announcers of the hosts, *)
(* the announcements on the air, the browsing goroutines with the channel  *)
(* between them, the registry, and the command that lists it and stops.    *)
(* What the mDNS library does between the air and the channel is external: *)
(* it may hand over an announcement, once or again, or lose it.            *)
(*                                                                         *)
(* Time passes in ticks of a HeartbeatInterval.  Ages stop counting where  *)
(* no comparison tells them apart any more.                                *)
(***************************************************************************)
EXTENDS Naturals, SequencesExt

CONSTANTS Instances, \* mDNS instance names, one per host
          Self,      \* the name of this host
          PeerTTL,   \* ticks after which a peer not heard of is offline
          MaxDelay,  \* bound: ticks an announcement takes to reach the registry
          ChanCap    \* capacity of the entries channel

ASSUME SelfAssumption == Self \in Instances
ASSUME TimesAssumption == PeerTTL \in Nat /\ MaxDelay \in Nat
ASSUME CapAssumption == ChanCap \in Nat \ {0}

VARIABLES announcer, \* announcer[i]: whether i is registered with its announcer
          downFor,   \* downFor[i]: ticks since i was last registered
          air,       \* announcements on the air or in the library, with their age
          entries,   \* the channel, in order
          age,       \* age[i]: ticks since LastSeen, Absent if not in the registry
          service,   \* where the command and its Service stand
          browser,   \* the goroutine in Browse
          shown      \* what the last List returned

hostVars == <<announcer, downFor>>
discoveryVars == <<hostVars, air, entries, age, service, browser, shown>>

Absent == PeerTTL + 2
LongAgo == PeerTTL + MaxDelay + 1
Packets == [instance : Instances, age : 0..MaxDelay]

DiscoveryOK ==
  /\ announcer \in [Instances -> {"off", "on"}]
  /\ downFor \in [Instances -> 0..LongAgo]
  /\ air \subseteq Packets
  /\ entries \in Seq(Packets) /\ Len(entries) <= ChanCap
  /\ age \in [Instances -> 0..Absent]
  /\ service \in {"running", "cancelled", "stopped"}
  /\ browser \in {"starting", "browsing", "done"}
  /\ shown \subseteq Instances \ {Self}

DiscoveryInit ==
  /\ announcer = [i \in Instances |-> "off"]
  /\ downFor = [i \in Instances |-> LongAgo]
  /\ air = {}
  /\ entries = <<>>
  /\ age = [i \in Instances |-> Absent]
  /\ service = "running"
  /\ browser = "starting"
  /\ shown = {}

----------------------------------------------------------------------------------
(* Announcers: registering, and SetText at each heartbeat, put the service *)
(* on the air.  A host leaves by Close or by vanishing; the goodbye of     *)
(* Close goes no further than the library, and nothing calls Remove.       *)
Announce(i) == /\ announcer' = [announcer EXCEPT ![i] = "on"]
               /\ downFor' = [downFor EXCEPT ![i] = 0]
               /\ air' = air \cup {[instance |-> i, age |-> 0]}
               /\ UNCHANGED <<entries, age, service, browser, shown>>

Leave(i) == /\ announcer[i] = "on"
            /\ announcer' = [announcer EXCEPT ![i] = "off"]
            /\ UNCHANGED <<downFor, air, entries, age, service, browser, shown>>

(* Whatever is on its way for longer than MaxDelay is lost; the consumer   *)
(* of the channel is not that slow.                                        *)
Older(a) == [a EXCEPT !.age = @ + 1]
Tick == /\ \A k \in DOMAIN entries : entries[k].age < MaxDelay
        /\ downFor' = [i \in Instances |->
                         IF announcer[i] = "on" \/ downFor[i] = LongAgo THEN downFor[i]
                         ELSE downFor[i] + 1]
        /\ air' = {Older(a) : a \in {b \in air : b.age < MaxDelay}}
        /\ entries' = [k \in DOMAIN entries |-> Older(entries[k])]
        /\ age' = [i \in Instances |-> IF age[i] <= PeerTTL THEN age[i] + 1 ELSE age[i]]
        /\ UNCHANGED <<announcer, service, browser, shown>>

----------------------------------------------------------------------------------
(* The library sends services it has found to the channel.                 *)
Found(a) == /\ browser = "browsing"
            /\ Len(entries) < ChanCap
            /\ entries' = Append(entries, a)
            /\ UNCHANGED <<hostVars, air, age, service, browser, shown>>

(* A faulty variant of Expired, which shows that the property can fail.    *)
ExpiredNever(i) == age[i] = Absent

(* Browse's consumer: Upsert stamps what it takes with the present time;   *)
(* this host is skipped.                                                   *)
Upsert == LET i == Head(entries).instance IN
            age' = IF i = Self THEN age ELSE [age EXCEPT ![i] = 0]

Consume == /\ entries # <<>>
           /\ entries' = Tail(entries)
           /\ Upsert
           /\ UNCHANGED <<hostVars, air, service, browser, shown>>

(* Browse fails at once if the resolver does, and nobody looks at its      *)
(* error; otherwise it returns when its context is done.                   *)
BrowserTurns(from, to) == /\ browser = from
                          /\ browser' = to
                          /\ UNCHANGED <<hostVars, air, entries, age, service, shown>>

ResolverStarts == BrowserTurns("starting", "browsing")
ResolverFails == BrowserTurns("starting", "done")
BrowserEnds == service = "cancelled" /\ BrowserTurns("browsing", "done")

----------------------------------------------------------------------------------
(* Registry.List: drop what has expired, return the rest.                  *)
Expired(i) == age[i] > PeerTTL

List == /\ service \in {"running", "cancelled"}
        /\ age' = [i \in Instances |-> IF Expired(i) THEN Absent ELSE age[i]]
        /\ shown' = {i \in Instances : ~Expired(i)}
        /\ UNCHANGED <<hostVars, air, entries, service, browser>>

(* The command's context ends, by Ctrl+C (status, session create) or by    *)
(* its timeout (list and findPeer, which list once after it); only then is *)
(* Stop called, which waits for the browser.                               *)
Cancel == /\ service = "running"
          /\ service' = "cancelled"
          /\ UNCHANGED <<hostVars, air, entries, age, browser, shown>>

Stop == /\ service = "cancelled"
        /\ browser = "done"
        /\ service' = "stopped"
        /\ UNCHANGED <<hostVars, air, entries, age, browser, shown>>

----------------------------------------------------------------------------------
HostStep(i) == Announce(i) \/ Leave(i)
BrowseStep == \/ \E a \in air : Found(a)
              \/ Consume \/ ResolverStarts \/ ResolverFails \/ BrowserEnds
CommandStep == List \/ Cancel \/ Stop

DiscoveryNext == (\E i \in Instances : HostStep(i)) \/ Tick \/ BrowseStep \/ CommandStep

DiscoverySpec == DiscoveryInit /\ [][DiscoveryNext]_discoveryVars

----------------------------------------------------------------------------------
(* A host that left, in order or not, is not listed for longer than        *)
(* PeerTTL after the last of its announcements could arrive: lost goodbyes,*)
(* announcements handed over again and a registry that only looks at its   *)
(* clock when it is read do not add to that (Upsert, List).  This host is  *)
(* never listed at all (DiscoveryOK).                                      *)
ShownWereAlive ==
  /\ []DiscoveryOK
  /\ [][List => \A i \in shown' : downFor[i] <= PeerTTL + MaxDelay]_discoveryVars
====================================================================================
