# git-lan: specification and verification

TLA+ models of git-lan, the TLC runs that check them on small instances, and
TLAPS proofs of what must hold for any number of hosts, connections, writers, tokens and directories.
Everything here is written from the Go source under `src/`; `PROJECT.json` maps
each definition to the lines it stands for.

git-lan lets people on one local network share git repositories without a
server.  A host runs `git lan session create`: it listens on a port, announces
itself by mDNS, and serves `git daemon --inetd` over encrypted connections.
Others run `git lan clone`, `pull`, `push` or `session join`, which start a local
bridge for git and tunnel each connection to the host.

## 1. The system

| component | state | operations | correct when |
|---|---|---|---|
| session store (`internal/session/manager.go`, `invite.go`, `cmd/session*.go`) | `sessions.json` {active session, burned invite IDs}; `Session.Burned` in the memory of the process hosting it; the validator's mutex | `session create` saves and, on exit, clears; `session invite` mints; `session leave` clears; each gate's validator burns and saves | an invite admits one connection, also after crashes and failed saves; the file describes the session that runs |
| transport server (`internal/transport/server.go`) | listener, accept loop, a goroutine per connection, `subs` (running daemons) under `s.mu` | Listen, Serve, handle, serveGit, track, untrack, Shutdown | no handler leaks, no daemon outlives its host, an interrupt ends the process |
| inbound approval (`cmd/approve.go`) | the process-wide `approveMu`, stdin | approvePeer, persistTrust | every peer is decided, one prompt at a time, by a line of the operator's that says so |
| encrypted stream (`internal/e2e/stream.go`, `nonce.go`, `e2e.go`) | per direction: key, frame counter, `writeMu`; last nonce accepted, read buffer | Write, writeFrame, Read, readFrame | it is a byte stream; no nonce repeats; nothing altered or repeated on the way is delivered |
| key agreement (`internal/e2e/handshake*.go`) | ephemeral and identity keys of both sides | ClientAuth, ServerAuth | both sides hold the same two keys, bound to both identities |
| gate, bridge, operations (`internal/transport/auth.go`, `client.go`, `pipe.go`, `cmd/common.go`, `clone.go`, `pull.go`, `push.go`, `session_join.go`) | a tunnel per connection of git: local socket, remote connection, credential | Bridge, tunnel, ClientGate, ServerGate, duplex | only who may gets through, whoever may does, both ends close |
| trust ring (`internal/security/trust.go`, `cmd/trust.go`) | `trusted_peers.json`: name to fingerprint | trust add, remove, list; VerifyHost; trust-always answers | an edit reported done is in the ring; no pin appears unasked; a pin is heeded |
| identity key (`internal/security/fingerprint.go`, `crypto.go`) | `identity.key`, temporary files | LoadOrCreateIdentity, writeSecretFile | the key is whole, one, and the one every command runs under |
| discovery (`internal/discovery`) | registry: peer and when it was last seen; announcer; browsing goroutines | Announce, Update, Close, Browse, Upsert, List, Stop, findPeer, resolvePeer | who is listed is there, or left at most a TTL ago; never this host; a name leads to one host |
| presence, watcher (`internal/presence`, `internal/git/watcher.go`) | time of the last change, watched directories | run, addTree, Compute | an edit anywhere in the tree counts as activity |
| git wrapper (`internal/git/repo.go`) | none (runs `git`) | Clone, Pull, Push, status | a failed call counts no file |
| conflict warning (`internal/conflict`) | none (pure) | Detect, Risky | who has uncommitted files and pushes to a dirty host is warned |
| target and token encodings (`internal/transport/protocol.go`, `internal/session/base58.go`, `internal/discovery/txt.go`) | none (pure) | ParseTarget, Base58, TXT | decoding inverts encoding |
| password (`internal/session/auth.go`) | none (Argon2id) | HashPassword, SeedFromPassword | |
| font detection (`internal/display`, `cmd/config.go`) | terminal in raw mode, goroutines of timed-out queries, profile cache | probe, cache | only a measured font is cached; what a query leaves behind stops no prompt |
| display, configuration, command line | none of their own | | |

How they interact.  `session create` calls the server's Listen, saves the store
with the port, starts discovery, then Serve and its heartbeat (`cmd/session.go`).  Each
handler calls back into the command for the operator's approval (which reads and may
write the trust ring) and for the invite validator (which writes the store).
A client's tunnel calls back into the command to judge the host's identity
against the trust ring.  The commands of one user share three files
(`sessions.json`, `trusted_peers.json`, `identity.key`), a cache of terminal
profiles, and no lock.  The host's heartbeat asks git and the watcher, and what it advertises is what other
hosts list, resolve names with, and warn about before a push.

What is hard, by component:

* *store*: `os.WriteFile` is two steps that several processes interleave; a burn is in
  memory before it is on disk; a host clears the store while its own validators save.
* *server*: `Shutdown` looks once at daemons that are starting or ending; nothing
  has a deadline; one error ends the accept loop.
* *approval*: the ring is read before a lock is waited for; prompts share stdin with what
  the font probe left there, and with lines typed before anybody was asked about.
* *stream*: two writers on one connection; a wire that repeats, reorders, loses or
  changes frames; a sender that dies, or a connection that breaks, inside one; the end of the nonces.
* *gate and bridge*: six exchanges in step, any of which may end either side.
* *trust ring, identity*: load, edit and save without a lock; first runs that race.
* *discovery*: time, late, lost and repeated announcements, hosts that vanish; names that begin
  like others.
* *key agreement*: both ends compute the same terms the other way round.
* *presence*: watches are added one by one while the tree changes; a heartbeat looks at git twice.
* *font detection*: a late answer of the terminal, typed keys, saves that race.

Every hazard is listed at its line in `PROJECT.json`, with the properties that
would show it going wrong; six stand there with a note instead: the code takes them
as they come, and no property can hold against them.

## 2. Modules

| module | models | composed with |
|---|---|---|
| `OneTimeInvite` | abstract: what an invite promises | implemented by `SessionStore` |
| `SessionStore` | the store, its hosts, validators and commands | |
| `Server` | accept loop, handlers, approval, daemons, shutdown | |
| `ByteStream` | abstract: one direction of a `net.Conn` | implemented by `EncryptedConn` |
| `EncryptedConn` | one direction of the encrypted stream | |
| `Connection` | tunnels and handlers end to end | uses the stream as ordered messages |
| `TrustRing` | the trust file and who edits it | |
| `KeyAgreement` | both handshakes over symbolic keys | |
| `IdentityStore` | the identity key and who makes it | |
| `Tokens` | an invite's text: minted, printed, typed, read | |
| `Lookup` | what a browser heard, the host a name stands for, a peer's metadata | |
| `Command` | a command up to its dial | `Tokens`, `Lookup` and `IdentityStore` |
| `Discovery` | announcers, network, browser, registry, listing | |
| `WorkingTree` | edits, watcher, heartbeat, conflict warning | |
| `Terminal` | one stdin: font probe, its leftovers, prompts; the profile cache | |
| `SessionStoreProofs`, `ServerProofs`, `EncryptedConnProofs`, `ConnectionProofs`, `TrustRingProofs`, `KeyAgreementProofs`, `CommandProofs`, `WorkingTreeProofs` | theorems (section 4) | each extends the module it is named after; `ConnectionProofs` also `Terminal`, `CommandProofs` also `Discovery` |
| `MC*` | the instances for TLC: values of constants, a symmetry set where it is sound, in `MCConnection` and `MCTerminal` fewer initial states | |

Modules have a type invariant `TypeOK` (`RegistryOK` in `Lookup`, `DiscoveryOK` and `TerminalOK` in the modules of
those names).  `store_safety` checks `SessionStore`'s by itself; the others are a conjunct
of one of their module's safety properties.  Where a property is checked to be breakable, a faulty variant of an operator
stands before it in the module (`...KeepsMu`, `...Unlocks` and so on).  No
action uses them.

### SessionStore and OneTimeInvite

A *host* is one run of `session create`; every run draws a fresh secret, so the host also
names its session.  `file` is `sessions.json`: readable, empty (truncated and
not yet written) or garbled.  A save is the two steps of `os.WriteFile`: open with
O_TRUNC, then a write at offset 0 that overlays what another process has put there
since (`Overlaid`): a longer old text leaves its tail and the JSON no longer
parses.  `Validate` is `inviteValidator` from its lock to its burn, `SaveTruncate` and
`SaveWrite` its save, still under the lock, `SaveFail` a save that fails at either step.
`Stop`, `ClearLoad`, `ClearTruncate`, `ClearWrite`, `Exit` are the deferred calls of
`runSessionCreate`; Shutdown waits for no handler, so validators go on meanwhile.
`Crash` is a kill at any point.  `Invite` signs with whatever secret the file holds.

* `SingleUse`: two connections are never let in by one token.
* `BurnIsDurable`: whenever the file can be read and describes the session that let
  a connection in, it lists that token as burnt.
* `ImplementsOneTimeInvite`: with admissions read off the validators, the store
  implements the abstract promise; the rest are stutters.
* `LockReleased`: no refusal, failed save or admission leaves the validator's mutex taken.

### Server

`pc[c]` follows a connection from the kernel's queue through `handle` and `serveGit`.
`exec.Cmd.Run` is split where it matters: `Track`, `Fork` (the process exists),
`Publish` (`cmd.Process` is set), `Waited`.  Shutdown holds `s.mu` through its
loop: `ShutdownBegins` takes it, `Kill` looks at one daemon, `ShutdownEnds` releases it; `Track` and
`Untrack` wait for it.  `asking` is the holder of `approveMu`; whether the ring holds a peer is a choice here (`ReadRing`), which `TrustRing` models.  A read blocks until the peer
sends or hangs up.  The handshake and gate are here steps that go well or
not; `Connection` has what they say.  The race on `cmd.Process` is modelled as its two
outcomes, seen or not seen.

* `SubsAreServing`: until Shutdown has looked, `subs` is exactly the handlers in
  `serveGit`: no error path leaks or loses one.
* `SurvivorsStartedLate`: a daemon that outlives Shutdown had not been published when Shutdown
  began.
* `HandlerFinishes`, `InterruptEnds`, `QueuedIsAccepted`: under fairness, below.

### EncryptedConn and ByteStream

One direction; the two share no state.  A byte is the pair of its
writer and its place, so every byte is told from every other.  `BeginWrite` to
`EndWrite` or `WriteFails` is the critical section of `writeMu`; `WriteFrame` seals the next chunk;
`NextNonce` fails at the last counter value, and `WriteFails` is that or an error of `conn.Write`.  The wire may replay, reorder, drop or corrupt
whole frames, `MaxFaults` times; a frame corrupted in its length does not open, and one may get another nonce.
`Crash` is a sender that dies, with a
frame on the wire whole, not at all, or cut in its header, just after it or in its body.
`Reset` is a connection that breaks under both ends (`link`): any end of what was on the wire is lost, the last frame
perhaps in part, writers get errors, and the reader an error or a clean end.
`sent` and `written` are histories: the frames that left whole, and their bytes one after the other.
The reader is split at the header, whose nonce the guard judges before anything
is authenticated.  AEAD is assumed unforgeable: a frame opens iff it was not changed.

* `DeliveredInOrder`: whatever the wire does, what is read was written, once, in order, and a Write of
  several frames is not mixed with another's.
* `IsByteStream`: the connection implements `ByteStream` with every step up to the first fault
  of the wire, also with a sender that dies or a connection that breaks, neither of which counts as a fault here.
* `NoncesUnique`, `WritesEnd`: at the end of the counter no nonce repeats, and there and on a broken
  connection every Write of a living sender returns.
* `AllDelivered`: over a wire without faults, on a connection that does not break, everything that left whole is read.

### Connection

`up` and `down` are the two directions as sequences of messages, which is what
`EncryptedConn` is proved to provide.  What users chose and hold is drawn in `Init` and stays:
lock, push policy, each tunnel's command, password, token, pin and approval.  A tunnel may hold a password and a token, of
which `ClientGate` sends the token, and a token may be `Stale`: expired, malformed, or another session's.
A pin that matches behaves like no pin (both let the connection go on), so there
are only "unknown" and "mismatch".  The password's MAC is bound to the
connection's challenge and is right or wrong.  git sends one request and takes one
answer.  `ServerGateChecks` spends an invite in one step: `SessionStore` shows that
this is what the validator amounts to.  The save behind it may fail: the invite is spent, and who brought it is refused (`unsaved`).

* `OnlyTheEntitled`: nobody is served (`ServedOnlyIfVetted`), and no git succeeds (`OkOnlyIfEntitled`),
  unless each check of either side agreed.
* `InviteBringsOneIn`: an invite brings in one tunnel of all that present it.
* `NothingToMismatchedPeer`: a host whose identity differs from its pin gets the
  hello and nothing else, no credential above all.
* `EntitledSucceeds`, `TunnelEnds`: whoever may does get through, unless the network cuts it off or the host cannot save that
  the invite is spent; both ends close.

git may open more than one connection to the bridge, each of which runs the gate: a one-time
invite pays for the first.  `EntitledSucceeds` therefore speaks of a token that no
other tunnel presents.

### TrustRing

The file as in `SessionStore`; actors are runs of `trust add` / `trust remove` and inbound
peers answered on one host.  A *label* is a name in the ring.  A *tunnel* has dialed a host and
judges its identity by the ring (`VerifyPinnedPeer`): a file that cannot be parsed stops nobody.

* `AnswersStick`: a trust-always answer that was saved is in the ring, as long as nobody else
  edits its label and no command has run: `approveMu` keeps the answers of one host apart.
* `PinsWereAskedFor`: no pin appears or changes that nobody asked for.
* `InboundDecided`: whatever saves fail, nobody is left waiting for `approveMu`.
* `PinIsHeeded`: a host that differs from a pin nobody edits passes only in the middle of a save (between its truncation and its
  write), or while the last save to end is one that failed after truncating or wrote over another's bytes (`damaged`).  Peers
  accepted once or from the ring, and removals that find nothing, touch no file and excuse nothing.

### KeyAgreement

An *end* is one side of a connection.  A private key and its public key are one number, the
result of a Diffie-Hellman step is the sorted pair of its keys, a derived key is its master secret, salt
and label.  Numbers, because the code sorts keys and secrets by their bytes.  `Substitute` hands an
end any other hello: of another connection, halves of two, its own, or keys nobody holds, 0
being the one that ECDH refuses.  `Init` chooses the authenticated handshake or the plain one.

* `PairedIsMutual`: if one end reads with what another writes with, each heard the other, and with
  authentication the identities returned to be judged are theirs.
* `UndisturbedAgree`: ends that heard each other hold each other's keys.
* `SendKeysUnique`: an end that heard its own peer writes under a key nobody else writes under, so
  that frame counters that start alike never meet under one key.

### IdentityStore

`Create`, `Write`, `Rename`, `Secure` are `writeSecretFile`, any of which may fail or be
the last thing the command does; a key is named by the command that made it.

* `KeyStaysWhole`: `identity.key` is never partial and never goes away.
* `NoTmpLeft`: a command that ended in an error left no second copy of a key, unless the file could not be removed
  (`os.Remove`'s error is dropped; `stuck` remembers whose).

### Tokens, Lookup and Command

`Command` follows one of `clone`, `pull`, `push` or `session join` up to its dial: an invite is
handed over, the browser hears hosts and resolves the reference, the identity is loaded or made while
other commands do so too, the host's address is taken; `clone` and `session join` stop before that where their destination
exists (`DestExists`).  It composes three modules on one state.

`Tokens` has bytes and characters in two small bases; `Encode` and `Decode` are base58's, with the zeros
in front that the number does not have.  Only the minted bytes carry a right MAC.

* `InviteAsPrinted`: an invite reads as valid iff it is typed as printed.

`Lookup` writes names and references as sequences of ASCII codes, since case and byte order decide which host
is meant; all else an announcement carries is told apart only where the code does.

* `AimIsOneHost`: address and port, pin and repository are those of one host heard of whose name begins
  as typed, and not those of a longer name when a shorter one of the same case fits; there is none only for want of
  such a host, a repository or an address.  (A longer name in upper case does come first: `findPeer` takes the first
  that begins with the name in any case, and upper case sorts first.)  `RegistryOK` is part of it: one entry to a
  name, the last one heard.
* `MetadataSurvives`: what is advertised is what is read, but for the ends of long branch and commit names.

### Discovery

Time passes in ticks of a heartbeat.  An announcement is on the air for at most `MaxDelay`
ticks, in which the library may hand it over once, again, or never; how often it does
is the library's affair and modelled as a choice.  `Consume` is Browse's goroutine and `Upsert`;
`List` expires what it finds too old.  A host leaves in order or vanishes, which is the same to the registry (`Leave`).

* `ShownWereAlive`: a host that left is not listed for longer than `PeerTTL` after the
  last of its announcements could arrive.

### WorkingTree

`Edit`, `MakeDir`, `RemoveDir`, `Commit` are whoever works in the tree; each queues an event where there is a
watch.  `Consume` is the goroutine of `Watcher.Start`: it timestamps, and watches a directory just made if
it still exists.  A heartbeat asks git once for the presence (`HeartbeatReads`) and once for the count
(`HeartbeatPublishes`), and either call may fail.  `Tick` is 20 s, which the goroutines keep up with.
A directory made in one that is not watched yet gets no event: `hidden` remembers those.
A directory is removed when it is empty, as `os.RemoveAll` and git do, from the inside out.
`Detect` and `Risky` are the conflict warning of another host's push, with a sorted list of files without duplicates as
the set of them; `Warned` is `warnOnConflicts` with what the pusher's own `git status` lists, if it does not fail (`Locals`).

* `NewDirsWatched`: every other directory is watched or has an event waiting, whatever was removed and
  made again.
* `EditsNoticed`: once the queue is empty no edit outside `hidden` is newer than the timestamp.
* `OldWorkWarned`: of those who push to a host that was dirty at its last heartbeat, whose git did not fail in it, just those
  are warned that have uncommitted files too and whose own `git status` works.  Who pushes from a clean tree is not.
* `AdvertSettles`: when everybody rests, the host is shown with the files it has and, with a watcher, idle; without one it never
  goes idle, and is shown online or coding.

### Terminal

`tty[p]` is the input of p's terminal that nobody has read: cursor reports, keys typed in raw mode, lines.
A query that times out leaves a goroutine in a read of stdin (`leftover`).  Reads of one `os.File` are
serialized, so it gets what arrives first and, having seen no 'R', tries again behind whoever waits (`turn`).
In a cooked terminal one read returns at most one line, and a prompt's buffered reader so takes one line.
The operator types lines when he likes, asked or not, and they queue (`TypesLine`, at most `MaxLines` unread); nothing drains
them.  `profileCache.save` truncates and then writes, its error dropped; a write that fails leaves the file empty, and one over
another command's longer text leaves a tail, with which the file does not parse or has the other's entries for other
profiles (`Mixed`).  `Ask` to `PromptReads` are `approvePeer`.

* `GlyphWasMeasured`: a profile is cached as capable only if a terminal of it answered that the glyph took one
  cell.
* `AdmittedAsAnswered`: a peer gets in only if the operator typed a yes while that peer was shown (`said`), or had typed one
  that was still unread when it was (`ahead`): no line of one question is taken for another, except one left in the
  queue.  That the exception is needed is `AnsweredWhenShown`, below.
* `PromptsEnd`: on a terminal that answers before the operator types, every prompt ends.

## 3. Runs

Passing runs, with the distinct states TLC visits:

| run | instance | states | what it shows |
|---|---|---|---|
| `store_safety` | 2 hosts, 2 connections, 2 tokens, crashes and failed saves, symmetric | 412,754 | the invite's promise and its durability, whatever races |
| `server` | 2 connections, every fault, fair | 63,712 | exact bookkeeping of daemons; everything ends that must |
| `stream` | 3 writers that need 6 nonces of 3, 2 wire faults, a crash, a broken connection, fair | 644,838 | what is read was written, once, in order; a byte stream, up to the end of the nonces |
| `connection` | 2 tunnels, 1 token, 1 stale one, every input of one tunnel and a welcome other, refused dials, resets and failed saves, fair | 259,274 | nobody in without the checks; who may get in does; both ends close |
| `trust` | 2 inbound peers, a command and a tunnel, 2 labels, 2 fingerprints, failed saves, fair | 1,028,998 | answers do not undo each other; no pin unasked; everyone decided; pins heeded |
| `command` | 3 commands, 4 names that begin like each other, 6 announcements, tokens of 2 bytes, failures and crashes, symmetric; this host and another, TTL 2, delay 1, channel of 2 | 360,394 | the key is whole, and alone; the host meant is the host dialed; tokens and metadata survive; nobody is listed long after leaving |
| `keys` | 2 connections to one host, 2 hellos changed or connections cut | 788,736 | keys pair up exactly between ends that heard each other |
| `terminal` | a session and a `config --detect-fonts`, 2 profiles; or a session and 2 peers, 2 lines unread, fair | 763,911 | no font unmeasured, nobody admitted unasked, prompts end |
| `room` | a directory in a directory, 4 events queued, 1 failed git call, idle after 3 ticks, a pusher with up to 2 files, fair | 230,838 | the watcher and the advertisement catch up |

Why the bounds are enough.  Every race here is between two actors over one file,
lock or connection: two hosts overlap, two validators contend, two writers
interleave, two tunnels present one token, a command runs into an answer.  Tokens are
two, so that a spent one, a foreign one and a good one can be present at once.  Messages are
three bytes in frames of two, so that a Write is a whole frame plus a rest and a Read can be
shorter than a frame.  `MaxNonce` is three, since only the last value is
special; three writers pass it in the middle of a Write.  Two wire faults allow a
replay and a swap.  `PeerTTL` is two heartbeats, as in the code; the channel holds two entries
instead of 16, enough to queue one announcement behind another.  Peers only meet
in that channel, so one besides this host is enough.  Names
are chosen so that every pair of a name and one that begins with it, in both cases, is there; two
bytes and a base with a remainder give every pattern of zeros in front.  Ephemeral keys and identities alternate, so that
every order of keys and of the secrets made of them comes up; two connections to one host are what it takes to
mix hellos.  A directory in a directory is the least tree in which one is made out of sight.  In `terminal` the cache race, in which nobody types lines or
comes in, and the prompts are separate initial states, as they share only the profile.  In `command` the browser's `Discovery` and the
command have no state in common, so either is explored while the other has yet to begin.  Two lines are enough to answer one peer twice with the next at
the door.  A pusher's list of up to two files of two has none, one, two, or one twice.  Permutations of
hosts, connections and the like are declared symmetric in runs without liveness only.
Runs disable deadlock checking: behaviours end when processes have exited,
connections are closed and every command is done.  The theorems of section 4 need no bounds.

Fairness.  A goroutine that can run does (the Go scheduler), so each handler,
writer and reader is weakly fair; Go's mutexes do not starve a waiter.  A read is fair
only once its peer has hung up, and so is a daemon, whose stdin then ends: nothing in
the code bounds how long either takes while the peer stays.  The operator
answers what is shown when nothing of his is unread (`Answers`), and so every prompt.  No process has to start, stop, be
interrupted, crash or fail.  In `Connection` git and the daemon come to an end.  A terminal that answers cursor queries does so in the end, which may be after the query timed out.  `WorkingTree`
assumes that its goroutines run and time passes, never that anybody works or rests.  `SessionStore`, `Command`, `KeyAgreement` and
`Discovery` claim no liveness and assume no fairness.

### Disagreements with the documentation

Three runs check what a comment or document says, and TLC refutes it:

* `store_stale`: "Active is nil when none is running" (`manager.go`).  A burn saved while
  the host exits puts the session back after it was cleared.
* `conn_pushback`: "Share with a password and allow pushes back" (`README.md`).  Only
  `session join` sends a credential; `push` gives up at the gate of any locked session.
* `prompts_ahead`: "The first time you connect to an unknown peer you see its fingerprint and choose"
  (`SECURITY.md`).  `approvePeer` takes the next line on stdin, which may have been typed before the fingerprint was
  printed, or twice for the peer before.

Other places where the code does less than its words suggest are part of the models, and
the properties are stated so as to say what does hold:

* A host that exits clears the store even if another, overlapping one has its session there
  (`ClearLoad` looks at nothing but whether it can read).
* Shutdown passes over a daemon that is forked but not yet in `cmd.Process`
  (`SurvivorsStartedLate`).  A Ctrl+C at a terminal also reaches the daemons of its process
  group; a kill of the host, or the shutdown after discovery failed to start, does not.
* One transient Accept error ends the accept loop while the session goes on being advertised
  (`QueuedIsAccepted` excepts it).
* A stream cut exactly between a header and its body reads as a clean end (`ReadBody`).
* A replayed frame is not "dropped" (`SECURITY.md`) but ends the connection: `Read` returns `ErrReplay` and its callers
  stop (`ReadHeader`).
* A pin mismatch is accepted while the ring cannot be read, against "never silently accepted" (`SECURITY.md`):
  `PinIsHeeded` says when that is.
* The watcher calls itself recursive and says that it watches newly created directories; one made inside a directory
  whose own watch is still to come is not watched, and edits in it do not count (`hidden`): presence goes idle meanwhile.
* "Find out *before* you push that a teammate has uncommitted work" (`README.md`) holds only of who has uncommitted files too:
  `Risky` is false for a push of commits from a clean tree, and `warnOnConflicts` is silent where the pusher's own `git status`
  fails.  `OldWorkWarned` says exactly who is warned.
* A heartbeat's presence and count come from two calls of git and can contradict each other until the next one.
* README says fonts are probed at most once per terminal; racing saves lose entries (`SaveTruncate`), and a
  `config --detect-fonts` in an unknown terminal probes twice (`Redetection`).  A terminal that cannot be put in raw mode is
  cached as incapable, though nothing was measured (`Probe`).
* "Without side effects" does not hold of a query that timed out: its goroutine may take the operator's next line (`LeftoverReadsLine`).
* A name typed in full may lead to a longer one in upper case (`AimIsOneHost` excepts it), and a host whose name differs
  from this host's in case only is never listed.
* Two overlapping trust commands, or a command and an answer, can undo each other's
  edit (`AnswersStick` excepts commands).
* A peer that was just trusted is asked about again if its second connection was
  already waiting (`Ask` does not read the ring).
* Two commands on a first run make two identities; one runs under a key that is not the stored
  one (`Rename`).
* `Registry.Remove` is meant for goodbyes, and nothing calls it: a host that left in order is listed
  until its TTL has passed (`Leave`).

## 4. Proofs

TLAPS proves, for any sets in the place of the constants and any choice of faults:

| module | theorem | states |
|---|---|---|
| `SessionStoreProofs` | `TypeCorrect` | `Spec => []TypeOK` |
| | `InviteIsSingleUse` | `Spec => []SingleUse` |
| | `ValidatorIsReleased` | `Spec => []LockReleased` |
| | `BurnsAreDurable` | `Spec => []BurnIsDurable` |
| | `StoreImplementsOneTimeInvite` | `Spec => ImplementsOneTimeInvite` (refinement) |
| `ServerProofs` | `SubsAreTheServing` | `Spec => []SubsAreServing` |
| | `EstablishedAreKilled` | `Spec => []SurvivorsStartedLate` |
| `EncryptedConnProofs` | `NoncesAreUnique` | `Spec => []NoncesUnique` |
| | `ReadsAreInOrder` | `Spec => []DeliveredInOrder` |
| | `ConnectionIsByteStream` | `Spec => IsByteStream` (refinement, up to the first fault of the wire) |
| `ConnectionProofs` | `OnlyEntitledPass` | `Spec => []OnlyTheEntitled` |
| | `InviteIsForOne` | `Spec => []InviteBringsOneIn` |
| | `MismatchedPeerGetsNothing` | `Spec => []NothingToMismatchedPeer` |
| | `CapableWasMeasured` | `TerminalSpec => []GlyphWasMeasured` |
| | `AdmittedOnAnAnswer` | `TerminalSpec => []AdmittedAsAnswered` |
| `TrustRingProofs` | `PinsAreAskedFor` | `Spec => []PinsWereAskedFor` |
| | `AnswersAreKept` | `Spec => []AnswersStick` |
| | `PinIsAlwaysHeeded` | `Spec => PinIsHeeded` (action property) |
| `KeyAgreementProofs` | `SharingIsMutual` | `Spec => []PairedIsMutual` |
| | `PeersAgree` | `Spec => []UndisturbedAgree` |
| | `SendKeysAreUnique` | `Spec => []SendKeysUnique` |
| `CommandProofs` | `NoTmpIsLeft` | `Spec => []NoTmpLeft`, of `IdentityStore` |
| | `KeyIsKeptWhole` | `Spec => KeyStaysWhole` (action property) |
| | `CommandImplementsIdentityStore` | `CommandSpec => Spec` (refinement), and with it `CommandKeepsKey` |
| | `MetadataIsKept` | `CommandSpec => []MetadataSurvives` |
| | `AimsAtOneHost` | `CommandSpec => []AimIsOneHost` |
| | `InviteRoundTrip` | `CommandSpec => []InviteAsPrinted` |
| | `ListedWereAlive` | `DiscoverySpec => ShownWereAlive` (an invariant and an action property) |
| `WorkingTreeProofs` | `NewDirsAreWatched` | `Spec => []NewDirsWatched` |
| | `EditsAreNoticed` | `Spec => []EditsNoticed` |
| | `OldWorkIsWarned` | `Spec => []OldWorkWarned` |

Every safety property of the passing runs is among them.  Each proof has the same frame: an inductive invariant (`IInv`
but where noted), a lemma that `Init` establishes it, lemmas for the actions that every step preserves it, a step to the property, and temporal logic.  The invariants below were checked by
TLC on the instances of section 3 before they were proved.

### What is assumed

That a `None` is none of the values it stands beside, that `Faults` are faults, that bounds are numbers of the right
sign, and, beyond that:

* `PartAssumption` (`IdentityStore`): a key cut short is not a key.
* `TokensAssumption` (`Connection`): an invite, 40 bytes in base58, is no other message, and a stale token none of the session's invites.
* `KeyAssumption`, `PeerAssumption` (`KeyAgreement`): ephemeral keys, identities and keys nobody holds are different numbers,
  0 is nobody's key, and connections pair an initiator with a responder.
* `LengthAssumption` (`Lookup`): a row of `list` has no more room for a branch than the record (12 and 20 in the code).
  `EntryAssumption`: what a record is parsed to has the type of an `Advertisement`, and names are sequences of characters.
  `WordAssumption`: a name or repository typed as part of a reference is not empty and has no space, which
  `ParseTarget` would trim at an end, and no slash, at which it would cut.
* `BaseAssumption` (`Tokens`): there are at least two characters and no fewer values of a byte, as 58 and 256 are.
* `ProcAssumption` (`Terminal`): the session whose prompts are asked is one of the processes that may probe.
* `TreeAssumption` (`WorkingTree`): every directory has a parent, and the root is none of them.  That the tree has no
  cycles is not needed.
* `CmdAssumption`, `ActorsAssumption`, `MeetsAssumption`: a command is one of the processes; commands and
  connections are different actors; every tunnel meets a host.

TLC evaluates all of them on every run of their modules.

### The arguments

*SessionStore.*  `SingleUse` says nothing of connections that are not in yet, so it is not
inductive.  Call a connection *claiming* when it has burnt its token, whether or
not its save has ended.  `IInv` adds:

* `PlacedInv`: a connection that has begun is at a host whose creation has ended, with
  a token;
* `LockInv`: a connection between its burn and the end of its save holds the lock of its
  host, so no other burn happens there meanwhile;
* `ClaimInv`: a claimed token was minted by that host's session and is in its
  memory's burned list;
* `DistinctInv`: claiming connections have distinct tokens.  By `ClaimInv` two with one token
  would be at one host, and the second would have found it in memory;
* `SnapInv`: what a save has marshalled is still what memory holds, because of the lock;
* `LockReleased` itself, from `LockInv` and the end of each save;
* `BurnIsDurable` itself.  The only writes that leave this session readable in the file are its
  creation, when nobody is in yet (`PlacedInv`), and a validator's save, which by
  `SnapInv` writes the whole of memory, where by `ClaimInv` every claimed token is.

For the refinement, `StepImplementsPromise` shows that the end of a save is the abstract `Admit`, minting its
`Issue`, and every other step a stutter.

*Server.*  `KillInv` follows Shutdown through its loop: a daemon alive behind it is not looked at yet, or was
published after Shutdown began (`late`), or is forked and not yet published.  It needs `DaemonInv`, that a live daemon has
a handler waiting for it, and `SubsInv`, that until the loop ends `subs` is the handlers in `serveGit`.

*EncryptedConn.*  A byte is followed all the way.  `RestInv`: what a writer has left is the end of its message, and
only the holder of `writeMu` is in the middle of one; so bytes are written once and a Write's stay together
(`WrittenInv`).  `FrameInv`: the nonce of a frame is the number of frames before it, and frames carry what was written,
in its order.  `ReadInv`: a frame on the wire that opens is one that was sent (`Possible`), whatever the wire
did, and what was delivered or is buffered came in frames up to the last nonce accepted, in their
order; a frame accepted next has a greater nonce, hence later bytes.  Read with `FrameInv` this is the point of
the replay guard: it judges numbers that nothing has authenticated yet, and a forged one can only
make it refuse more.

For the byte stream, `StreamInv` adds that, as long as the wire did nothing, the frames on it carry the nonces after
the last one accepted, up to the last sent, only the last being cut and that by a dead sender or a broken connection (`WireOrder`), and that there are
marks in `written` where each frame ends, the bytes read reaching just the mark of the last frame read (`ReadUpTo`).
A sent frame adds a mark; the body of a frame takes the reader from one to the next; `Take` moves nothing but the
border between delivered and buffered.  Each step is then `ByteStream`'s Write, its Read, or a stutter.

*Connection.*  `TunnelInv` says of every tunnel what its ends have come to know, and what that says of the other
end: a daemon is served only behind approval and a gate that was `Opened`, a `pack` on the wire only comes from such a
daemon, and a client past `verify` has no mismatched pin.  What opened a gate stays: invites are only ever added to `burned`.  Each
step changes one tunnel (`StepOf`).  `InviteBringsOneIn` is part of the invariant.

*TrustRing.*  The rings in the memory of commands and answers are what the file will hold, so whatever is said of the
file is said of them (`AskedInv`, `EditInv`, `StickInv`).  `MuInv`, that who is past the prompt
holds `approveMu`, is what makes `StickInv` inductive: while one answer is loaded, no other is being saved.
`EmptyInv` says why a file can be empty or garbled: somebody has truncated it and not written yet, or it is `damaged`, which
is what `PinIsHeeded` needs.

*KeyAgreement.*  The keys of an end are those that its own hello and the one it heard derive.  The lemmas are about the
terms: a sorted pair forgets only its order (`SortedProperties`), secrets are totally ordered (`BeforeOrders`),
so equal keys have equal salts and equal ephemeral keys, which are nobody else's.

*Command.*  `TmpInv`: a temporary file exists only between `Create` and the rename or removal, and one that is renamed
is whole.  The refinement maps every step on the key to one of `IdentityStore`'s and all others to stutters.
`MetadataIsKept` is about operators: a short name is kept (`ShortProperties`), cutting to 20 and then to 12 is
cutting to 12 (`RowOfShort`), and `ParseTXT` reads what `TXT` wrote (`ReadBack`); the registry then holds nothing else.

*Lookup.*  The order of names is total (`BeforeAsymmetric`, `BeforeTotal`, `BeforeTransitive`), and `LookupInv` says that
the registry has finitely many peers, told apart by their names; so it has a first one of any name (`FirstListedExists`),
which is what `findPeer` returns.  `TargetRead` shows that `ParseTarget` takes a printed reference apart where it was put
together, with spaces around it as well.  A name comes before all that begin with it, so the first of those named is
none of the longer ones (`FindPeerFacts`), and `AimOf` takes address, pin and repository from it.

*Tokens.*  Both conversions are recursive functions, and the library's induction cannot be used (it takes an
operator), so each induction is over the set of numbers, or sequences, of which a fact holds (`StrongInduction`,
`StepInduction`, `AppendInduction`, from the well-foundedness of `<`).  Any function that adds digits
up, or divides them off, as the code does is the one of `ValueOf` or `DigitsOf` (`ValueUnique`, `DigitsUnique`).
`Encode` and `Decode` are one operator `Recode` with the bases swapped: it keeps the zeros in front and the
number (`RecodeFacts`), which are all it looks at, and from a base to itself it changes nothing (`RecodeSame`), so
recoding twice gives back what was recoded (`RecodeTwice`).  It follows both that the printed text reads back and that no other text does.

*Discovery.*  `AgeInv`: a host left no earlier than its announcements in the air or the channel are old, and one in
the registry left at most `MaxDelay` before it was last heard.  A listing drops what was heard more than `PeerTTL` ago.

*Terminal.*  `TtyInv` bounds what a terminal owes and what is unread by the queries sent, and says that a report is of
the column before the glyph or after it (`Cols`): so a probe that sees one column between two reports is on a terminal that
shows the glyph in one, whichever late report it took for which.  `CacheInv`: whoever says yes, in
the file or in what a command loaded before it saves, has measured it.  For admission, `AskInv` says that the holder of
`approveMu` is the peer shown, and `LineInv` that, while a question
stands, a yes is unread only if it was said of that peer or was queued ahead of it, whichever reader takes it.

*WorkingTree.*  `QueueInv`, `EditsNoticed` and `DirtyInv`: a directory in sight that is not watched has its event in the queue,
so an edit there leaves the queue not empty; a tree dirty for a whole heartbeat was counted in it.

### Only model-checked

Liveness: `HandlerFinishes`, `InterruptEnds`, `QueuedIsAccepted`, `WritesEnd`, `AllDelivered`, `TunnelEnds`,
`EntitledSucceeds`, `InboundDecided`, `PromptsEnd`, `AdvertSettles`.  The prover reaches neither fairness nor ENABLED.

## 5. Not modelled

* Password hashing: Argon2id is an oracle, a seed is right or wrong.
* git and `git daemon` themselves, mDNS, AEAD, HKDF, the curve: external, taken at what they promise.
* `git lan status`, `trust list`, `list --watch`, branch and commit names: they only read.
* Rendering, flags, paths, start-up configuration: no state of their own.  (`AllowPush` of the configuration file is read
  by nothing, and its port 0 means a random one.)
* Malformed gate messages, which no client of this code sends.
* Overflow of the kernel's queue of file events, which the watcher ignores.
* The overlap of file names in the conflict warning: no caller passes a peer's files, so it is always empty.

## 6. Plan

All components with a core of their own are modelled, and their safety is proved.  What would come next:

1. `Server` sharing its state with `SessionStore` and the gate of `Connection`, to show what survives an exit.
2. `Discovery` under the look-up of `Command`, to bound how stale the host of an aim may be.
