# A verification development for BitterJohn

BitterJohn is a relay server. It speaks shadowsocks, vmess, juicity and anytls
to clients, and takes its list of clients ("passages") from a control server,
SweetLisa, which is not part of the repository and appears here only through
the calls it makes. These modules model the parts of BitterJohn whose
correctness depends on the order in which goroutines run: TLC checks small
instances, TLAPS proves the most important invariants for all of them.

Every definition stands for lines of the Go source; `PROJECT.json` ("map") says
which.

## The system

| Part | State | Operations | Who calls them | What makes it correct |
|---|---|---|---|---|
| Passage synchronisation (`server/sync.go`, `common.Change`, `AddPassages`, `RemovePassages` and `Passages` of each protocol) | `s.passages`, under `s.mutex` | read and compare, remove, add | the registration loop and the connection that carries SweetLisa's `SyncPassages` message, concurrently | the table ends as the list that was sent; the manager stays; nobody lingers |
| Juicity users (`server/juicity/server.go`) | `users`, a sync.Map from client UUID to passage | stored to and deleted from under `s.mutex`, loaded without it | syncs; `handleAuth` and `handleStream` | the map and the table agree |
| User contexts (`server/{shadowsocks,vmess}/user_context.go`, `infra/lru`, `infra/lrulist`) | an LRU pool of private passage lists, one per client address, under a mutex of its own | get or insert, copy, update, expire | every connection handler; every sync | a context lists exactly the passages; authentication neither admits the removed nor refuses the settled; no deadlock |
| UDP relaying of shadowsocks (`server/shadowsocks/udp.go`, `udp_conn.go`) | the NAT mapping, its placeholders, the replay filter | packet, dial, publish, wait, write, relay | one goroutine per packet, one per socket | one socket per client, a relay closes only its own socket, every waiter is woken, no packet twice |
| anytls sessions, write side (`server/anytls/session.go`, `stream.go`, `frame.go`) | `writeMu`, `writeStateMu`, `activeWrite`, a deadline per stream and one on the connection | write a frame, set a deadline | the goroutines of the streams, `recvLoop` | a frame runs under no other stream's deadline; frames stay whole; what a deadline breaks, and for whom |
| anytls sessions (`session.go`, `stream.go`, `dialer.go`) | `closed`, the map of streams, the negotiated version, per stream `closed`, `synackCh`, `readCh` | dial, read, close a stream, close the session; frames of the peer | any number of dialling goroutines or handlers, `recvLoop` | nobody stays blocked on a closed session; a server keeps no handler of a closed connection; no stream is left open or in the map; dials agree on the version |
| Registration (`server.go` of each protocol: `NewJohn`, `registerBackground`, `register`, `handleMsg`) | `lastAlive`, the closed channel, the interval of the ticker | register, ping, receive a list, ask to be registered again | one loop per server; SweetLisa's messages; certificate callbacks | lists arrive; a control server that comes back hears from the server again |
| Life cycle (`Listen` and `Close` of each protocol, `cmd/run.go`) | listeners, port 80 of ACME, tracked connections, `closed` | listen, accept, track, close, shut down | `Run`, the goroutines of `Listen` and of the CDN validator, the accept loops | nothing survives `Close`; a shutdown ends |
| Connection handlers (`handleConn`, `handleTCP`, `handleStream`) | who the connection is for; in juicity `authCtx` with its two cancel functions | authenticate, read the header, dispatch | one goroutine per connection, in juicity one per stream beside the one that authenticates | nobody is served for an identifier that did not authenticate, and what juicity lets through when a connection ends |
| Relays (`server/tcp.go`, `server/udp.go`, the `uot.go` files) | two copying goroutines, half close, read deadlines | copy, close, limit | connection handlers | both directions end; what a reported success says about the transfer |
| Lists and pools (`infra/linklist`, `infra/lru`, `infra/lrulist`) | linked list with two maps; array lists with a pool of arrays | get, insert, expire; copy, insert, remove, put back | the pool of contexts; handlers and syncs | the pool forgets what expired; a copy does not change while it is walked |
| Tries (`infra/trie`, `infra/ip_mtu_trie`) | nodes with compressed edges | build, match | UDP relays, for the size of their buffers | the longest network |
| Dialer cache (`server/protocol.go`) | a map with eviction timers | get, insert, evict | connection handlers | idle dialers leave |
| Command line, configuration, certificates, `pkg/*` | files and prompts | | | not concurrent, not modelled |

The parts meet in the protocol servers. A sync changes the table and, in
shadowsocks and vmess, every pooled context, in juicity the users map. A
connection handler reads the context or the map, authenticates and relays,
through the anytls dialer or through UDP sockets of the NAT mapping.

## Modules

| Module | Contents |
|---|---|
| `PassageSync` | the table and the three critical sections of `SyncPassages`; the abstract specification the next two build on |
| `JuicityUsers` | `PassageSync` plus the users map: each step of the table with what it does to the map |
| `UserContexts` | the table with its mutex, the pool with its mutex, contexts, the traversal of the pool by a sync, and the handlers; implements `PassageSync` (`TableSpec`) |
| `UserAuth` | `UserContexts` with two history variables that record what authentication may rely on |
| `NatMapping` | what the NAT of shadowsocks promises: one dial per client, whose end everyone sees (abstract) |
| `UdpNat` | the UDP side of shadowsocks; implements `NatMapping` (`NatPromise`) |
| `AnyTLSWrite` | the write side of an anytls session |
| `AnyTLSSession` | one session of anytls, on a client or a server: its streams, negotiation, `recvLoop`, handlers and `Close` |
| `Registration` | one server and its control server: the loop, the messages, the lists |
| `Lifecycle` | `Run` with one server of any protocol: what is opened, tracked and closed |
| `Relay` | one relayed stream of any kind, from the dial on |
| `Serving` | a handler of any server before its relay; extends `Relay`, which it leads to |
| `RecencyMap` | what `infra/lru` promises: a map that forgets (abstract) |
| `Lru` | `infra/lru` over `infra/linklist`; implements `RecencyMap` |
| `LruList` | a list of `infra/lrulist`, the goroutines that walk copies of it and the pool of its arrays |
| `Trie` | building and matching |
| `PassageSyncProofs` (for `PassageSync` and `JuicityUsers`), `UserContextsProofs` (for `UserContexts` and `UserAuth`), `UdpNatProofs`, `AnyTLSWriteProofs`, `AnyTLSSessionProofs`, `ServerProofs` (for `Registration` and `Lifecycle`), `ServingProofs` (for `Relay` and `Serving`), `StructuresProofs` (for `Lru`, `LruList` and `Trie`) | theorems and proofs |
| `MC...` | values for the constants; one `.cfg` per run. `MCStructures` chooses one of `Lru`, `LruList` and `Trie` in each initial state, and `MCServer` one of `Lifecycle` and `Registration`, as these share nothing |

Definitions named `X_Something` next to a definition `X` are faulty variants:
mistakes in `X` that a property must notice. No specification uses them.

### How state and actions correspond to the code

* **PassageSync.** `table` is the bag of `s.passages`. `StartSync` is
  `s.Passages()` with `common.Change`; `RemovePassages` and `AddPassages` are
  the bodies of the methods of these names, atomic because they hold `s.mutex`
  from their first access to the table to their last. `list`, `toRemove` and
  `toAdd` are the locals of a running `SyncPassages`. A passage is told apart
  by its In and its Out; `InHash` gives the part `RemovePassages` compares.
* **JuicityUsers.** `users` is the sync.Map. Its stores and deletes happen
  inside the critical sections and are merged with them: a handler that loads
  in between can see what it would see before or after. A client whose name does
  not parse has the zero UUID (`uuid.Parse` fails, its error is dropped), and so
  has the manager: the constants may give any identifiers to any passages. What a
  list with two passages of one identifier leaves in the map is one of the two.
* **UserContexts.** `mutex` and `poolMutex` are held across steps. A sync takes
  `mutex` and changes the table (`LockTable`), asks the pool for its keys
  (`GetKeys`), then looks up (`GetContext`) and updates (`UpdateContext`) one
  context after the other and unlocks. A handler finds its context (`GetHit`) or
  creates one with the pool locked (`GetMiss`, `Snapshot`, `Insert`), copies its
  list (`GetListCopy`) and probes the copy (`Probe`). Which contexts have
  expired when one is inserted is left open. The order of a list is left out.
* **UdpNat.** One step per critical section of the mapping's mutex. A handler
  goes through `auth`, `lookup`, then `header`/`dial`/`publish` (or `undo`) if it
  found no entry, `wait` if it found one; `Wake` leads to `write` or, without a
  socket, back to `auth`, as the recursive call does. The bloom filter is exact. Seen as `NatMapping`,
  `LookupMiss` begins a dial, `LookupHit` waits for it unless it has ended, `Undo`
  and `Publish` end it, and an error of `Header` gives it up.
* **AnyTLSWrite.** Time is a small counter; a frame is written as a header and
  a payload, and a deadline can pass before either. `owed` is the stream whose
  payload the peer still expects, `broken` the stream whose write timed out: both
  ends give the session a `*tls.Conn` (`anytls/server.go:317`, `dialer.go:172`),
  on which every write after one that timed out fails.
* **AnyTLSSession.** A caller of `DialContext` and the stream it opens are one
  element of `Stream`, and `pc` is where it stands: `OpenStream`, `Register`,
  `WriteSYN` and `UndoOpen` are `Session.OpenStream`; `WriteAddr` the rest of
  `openStream`; `ServerSettingsState` to `GetPeerVersion` are
  `waitServerSettings`; `SynackOk` and `SynackFails` are `waitSYNACK`; then the
  caller reads, and closes in the three steps of `Stream.Close`. `recv` is where
  `recvLoop` stands: it calls `closeRemote`, `closeStream` and `receive` in steps
  of their own. `Close` is `BeginClose`, `CloseConn`, `ClearStreams`. A `select`
  with several cases ready is as many actions enabled. The peer sends any frame
  at any time; frames without effect are left out. `isClient` chooses the side in
  the initial state. On a server the elements of `Stream` are streams the peer
  opens: `ReceiveSYN`, `WriteSYNACK` and `StartHandler` are one round of `recvLoop`,
  after which `pc` is where the handler stands, and `CloseTracked` is what
  `Server.Close` does to the connection.
* **Registration.** `Tick` to `RegisterSyncs` are one round of
  `registerBackground`, with `register` in three steps: its answer, the store to
  `lastAlive`, the sync. `Ping`, `HandleSync` and `ReRegister` are the other
  writers. Time is abstract: `lastAlive` is recent or lost. Lists are version
  numbers of the control server, `inbox` the `SyncPassages` messages under way. A
  sync is one step (its critical sections are `PassageSync`).
* **Lifecycle.** `run`, `listen` and `cdn` are the three goroutines of `Run`,
  `tpc` the accept loops of `Listen`, `fields` what the fields of the server refer
  to, `close` and `toClose` where `Close` stands and what it has taken out. Which
  steps a protocol has, and whether `Close` works under the mutex, is chosen by
  `proto`. `others` stands for the syncs and look-ups of contexts that hold that
  mutex as well, and for the deadlock of `UserContexts` in which it is lost
  (`OthersCross`).
* **Relay.** Direction `up` is client to target. `copy[d]` is where the goroutine
  of a direction stands: `Arm`, `Read`, `Write` are the copy loop, `CloseWrite`,
  `LimitOther` and `SendResult` what follows it. Data are counted, not valued.
  `ends` tells what sort of connection the two ends are, as the code asks whether
  one has `CloseWrite`, and a `Stream` of anytls has none and gives EOF as soon as
  it is closed, with chunks unread or after its session broke.
* **Serving.** `stage` is where the handler stands, `auth` and `conn` the two
  other goroutines of a juicity connection, `authDone` and `cancelled` whether
  its two cancel functions were called. Searching the key is in `UserContexts`;
  here a peer authenticates if its passage is among `users` at that moment. `id`
  is the UUID in juicity, `IdOf` that of a passage: zero for the manager, for a
  client whose name does not parse, and before the authentication has written it.
* **Lru, LruList, Trie.** An operation of the LRU is a step, as it holds the
  mutex throughout. In `LruList` the operations under `muList` are steps, apart
  from the `Insert` that grows the pool; `Put`, which takes no mutex, is three.
  `Closest`, the capacity for a length, belongs to a library: a constant of which
  only that it suffices is assumed. In `Trie` a node is the word that leads to it,
  and a step is one round of the loop of `Match`.

## What TLC checks

* **`passages`** (`MCJuicityUsers`, `MCJuicityUsers_sync.cfg`, passes): `ManagerKept`, `NoStrays`, `AgreedListReached`, `LoadsFromTable`, `UnsharedClientsLoad`, `RemovesOnlyUnlisted`. Two goroutines run overlapping syncs with any lists, among them lists that change the password or the Out of one client or name one whose name does not parse: the control server keeps its passage, no client lingers in the table, syncs that agree leave the list they agree on, no sync removes what its list names, and the juicity users map returns what stands in the table.
* **`juicity_lockout`** (`MCJuicityUsers`, `MCJuicityUsers_lockout.cfg`, TLC finds the violation): `TableClientsLoad`. Two overlapping syncs lock a client out of juicity: one deletes the identifier the other has just stored for a passage that stays in the table.
* **`user_contexts`** (`MCUserAuth`, `MCUserAuth_auth.cfg`, passes): `ContextsMatchPassages`, `NoNilContext`, `AcceptedWasLive`, `SettledIsFound`, `TableSpec`. Two syncs and two connection handlers at two client addresses, with contexts created, expired and updated: no context misses or repeats a change of the table, no traversal meets a vanished context, nobody authenticates with what was removed before, nobody settled is turned away, and the table implements PassageSync. Deadlock is not checked because the code can deadlock (user_contexts_deadlock).
* **`user_contexts_deadlock`** (`MCUserContexts`, `MCUserContexts_deadlock.cfg`, TLC finds the violation): `SyncReturns`. A handler that creates a context (pool mutex, then server mutex) and a sync that updates the contexts (server mutex, then pool mutex) wait for each other for ever.
* **`udp_nat`** (`MCUdpNat`, `MCUdpNat_safe.cfg`, passes): `RelayOwnsSocket`, `OneSocketPerClient`, `SentOnce`, `NatPromise`, `DirectWaitEnds`. Packets of two clients, delivered in any order and again, with failing dials and headers and relays that end at any time: sockets and relays stay paired, a client has one of them, nothing is relayed twice, placeholders and channels amount to one dial per client whose end everyone who waits sees, and a packet of a client the server dials for directly never waits for ever.
* **`udp_nat_stuck`** (`MCUdpNat`, `MCUdpNat_stuck.cfg`, TLC finds the violation): `WaitEnds`. When GetHeader or NewDialer fails, the placeholder stays: later packets of that client wait for ever.
* **`anytls_write`** (`MCAnyTLSWrite`, `MCAnyTLSWrite_safe.cfg`, passes): `OwnDeadlineBreaks`, `WholeFrames`. Two writers of stream and control frames and two goroutines that set write deadlines: the connection is broken by a passed deadline of the stream that writes only, and frames stay whole.
* **`anytls_write_poison`** (`MCAnyTLSWrite`, `MCAnyTLSWrite_poison.cfg`, TLC finds the violation): `DeadlinePoisonsNobody`. The same sessions: after the write deadline of one stream has cut off a frame, the frames of the other streams fail.
* **`anytls_session`** (`MCAnyTLSSession`, `MCAnyTLSSession_safe.cfg`, passes): `TypeOK`, `NoOrphanStream`, `NothingLeftInMap`, `NoDowngrade`, `HandlersEnd`, `CloseReleasesEveryone`, `NegotiationEnds`. Two streams of one session, dialled by callers or opened by the peer and served by handlers, while the peer sends any frames or none and the session or its connection is closed at any moment: no stream is left open or in the map, dials agree on the version, nobody stays blocked after Close, and a server is left without handlers once its connection is closed.
* **`server`** (`MCServer`, `MCServer_all.cfg`, passes): `NothingLeftOpen`, `ShutdownCompletes`, `PaceFollowsOutcome`, `ListArrives`, `Recovers`. Two components that share nothing, each from its own initial states. Lifecycle: Run of each protocol, with sockets that cannot be opened, accepts that fail, two connections, syncs that hold the mutex or lose it for ever, and a shutdown by the CDN validator or by Listen at any moment: what Close must close is closed, and every goroutine ends unless the mutex is lost. Registration: a control server that comes and goes and changes its list three times, messages that are lost or overtaken, pings, renewals and Close at any moment: the back-off follows the attempts, lists arrive, and a server that was lost is heard from again.
* **`serving`** (`MCServing`, `MCServing_all.cfg`, passes): `ServedAsAuthenticated`, `NilMeansComplete`, `IdleIsNotCut`, `RelayEnds`, `GoroutinesEnd`, `StreamLeavesAwait`. A request of every kind to every server by a client, the control server, a client whose name does not parse or a stranger, while passages are added and removed, the authentication of juicity takes its time or the connection goes away, and peers send, end or break: what is served is for the identifier that authenticated, or in juicity for who has the zero one once the connection goes away; relays end unless a write stays blocked, and a nil result says what it can.
* **`structures`** (`MCStructures`, `MCStructures_all.cfg`, passes): `CopiesAreSnapshots`, `PanicNeedsRace`, `MatchIsLongest`, `LruForgets`. The data structures of infra/: the LRU implements a map that forgets, a copy of a list stays what it was while the list changes and its arrays go through the pool, and a match is the longest network.

Every property of a passing run is also checked against a fault: a variant of
one definition under which TLC must find the property violated
(`PROJECT.json`, "mutants").

### Bounds, and why they are enough

* Two syncing goroutines: the code has two callers of `SyncPassages`. Every list
  in which a client has at most one passage may be sent at any time, so no bound
  on the number of syncs is needed: the instances are finite.
* `passages` has the manager, a client with one passage and a client with three
  (two with the same In and different Out, one with another password; one of the
  two suffices in `juicity_lockout`): every way in which two passages can agree or differ. In `passages` a third client has
  a name that does not parse, hence the identifier of the manager. As no list names
  two passages of one identifier here, the choice in `JuicityUsers!Store` does not
  arise in the runs; the theorems cover it.
* `user_contexts` has two addresses and two handlers, the least at which one
  context expires while another is inserted and while a sync visits both; four
  context objects are as many as can be referenced at once.
* `udp_nat` has a client with two packets and a client with one, two handlers and
  four entries (two in the mapping, two held by handlers), one client whose
  passage names another server (`Relayed`) and one served directly. Packets are
  delivered any number of times.
* `anytls_write` and `anytls_write_poison` have two streams, two writers, two goroutines that set deadlines
  and a clock of one tick (`MaxTime`): a deadline is unset, passed or ahead.
* `anytls_session` has two streams, the least at which dials can disagree or one
  handler can hold up another, and a
  `readCh` of one chunk (`Cap`), so that it is full after one frame. The peer
  announces version 1, 2 or 257, whose low byte is 1; no bound limits how many
  frames it sends. The view `Observable` leaves out two variables where nothing
  reads them any more: `synackCh` after the wait, and `readCh` of a closed stream
  whose reader is gone.
* `server`, part `Registration`, has three lists (`MaxVersion`), so that one can be lost while
  another is overtaken, and intervals 2 to 7, so that the doubling meets the
  bound between two powers.
* `server`, part `Lifecycle`, has two connections, the least at which one is tracked while
  `Close` closes another, and every protocol.
* `serving` has every combination of server, request and peer, every sort of
  target behind the other servers, one sort behind juicity, whose requests for
  UDP it leaves out (the relay is that of vmess, and dispatch treats them as those
  for TCP; the theorems cover them), and one chunk of data per direction
  (`MaxBuf`): more only delays the same steps. Data that follow data are there,
  as a peer may send again once a chunk was read.
* `structures`: three keys, an LRU of length or timeout 2 and four ticks
  (`MaxTime`), so that two entries may expire at once and one be used in
  between; a list of up to three nodes, whose pool grows from 1 to 2 to 4, two
  walkers and four arrays (the list, two copies, one in the pool); up to three
  networks (`MaxDict`) over addresses of four bits, the least at which an edge
  of several bits lies between two others.

`CHECK_DEADLOCK FALSE` appears where the code may stop: in the two runs of
`UserContexts`, which can deadlock (`user_contexts_deadlock` shows it); in
`anytls_session`, where a closed session has nothing left to do; in
`server`, where `Run` returns; in `serving`, where the handler does; and in
`structures`, where a match is made or a slice expression panics.

### Fairness

`UserContexts!FairSpec` lets every goroutine that could proceed again and again
proceed (strong fairness): `sync.Mutex` hands itself to a waiter after a
millisecond, so a waiter is not overtaken for ever. Even so `SyncReturns` fails.
`UdpNat!FairSpec` assumes weak fairness of the packet goroutines, dialling
included, which `DialTimeout` bounds; clients and relays need do nothing.
`AnyTLSSession!FairSpec` assumes that goroutines proceed, timers fire and `Close`
is run to its end. A write on an open connection and the next frame of the peer
may be waited for without end: the peer need not read or send. On a closed
connection both fail at once. A handler reads what its stream has and returns
after the end of it; that its writes and dials in between return is an assumption
about the target, which the code does not ensure (see `WritesReturn` below).
`Registration!RFairness`: the ticker fires, `register` ends by its time limit,
and the `select` takes the closed channel some time when it could do so again
and again (strong fairness of `Stop`: Go chooses among ready cases at random).
Nothing is assumed of the control server; `Recovers` says what follows if it
stays reachable.
`Lifecycle!LFairness`: goroutines that can run do, and the handler of a
connection that was closed returns (for anytls `HandlersEnd` shows it). Those
that hold the mutex give it back unless they have crossed, and who waits for it
gets it in the end (strong fairness of `CloseLock` and `SetListener`, as above).
Sockets that fail, connections and the CDN's answers come or not.
`Relay!RelayFairness` and `Serving!SFairness`: deadlines pass and goroutines
run; peers need neither send, end nor read. Nothing is assumed of a write on a
connection that works: `RelayTCP` sets no deadline for it, so a peer that keeps
its connection open and never reads holds it up for ever. `RelayEnds` and
`GoroutinesEnd` therefore have the premise that no write stays blocked
(`WritesReturn`), and `StreamLeavesAwait` the premise that `handleAuth`, whose
time limit is for the accepting of its stream and not for the reads, does not
wait for ever for a silent peer on a connection that stays.

## What is proved

For all values of the constants that satisfy the assumptions named in the
modules (`PassageAssumption`, `UuidAssumption`, `ContextAssumption`,
`NatAssumption`, `WriteAssumption`, `SessionAssumption`, `RegistrationAssumption`,
`LifecycleAssumption`, `RelayAssumption`, `ServingAssumption`, `LruAssumption`,
`LruListAssumption`, `TrieAssumption`), with TLAPS:

* **PassageSyncProofs.** `TypeCorrect`, `ManagerAlwaysKept`, `NoClientLingers`,
  `AgreementReached`, `OnlyUnlistedRemoved`. `ManagerKept` is inductive with types
  because no difference ever adds the manager; `NoStrays` needs that what a
  goroutine is about to add stands in its list. For `AgreedListReached` the
  invariant adds that every client is in the table, or outside the last list of
  some goroutine, or about to be added by one, and that removals are of
  what the list leaves out. For the users map of juicity, in the same module:
  `JuicityTypeCorrect`, `JuicityLoadsFromTable`, `JuicityManagerLost`,
  `JuicityUnsharedLoad`. A removal forgets the identifier of every entry it takes
  out, so whatever is left in the map was stored for an entry that is left; and
  only for a client with several passages can it forget one that stays.
  `JuicityManagerLost`: juicity forgets the manager only in a step that adds or
  takes out a client with its identifier, which is what a name that does not parse
  has, and then for good, as no list names the manager.
  `JuicityImplementsTable` maps every step to one of the table, so that
  `JuicityTableCorrect` follows from the theorems about it. `JuicityLockoutLasts`
  says that the lockout `juicity_lockout` finds is not cured by the next sync: as
  `Change` compares lists with the table, a client that stands in the table and
  not in the map is never stored again until a list leaves it out (provided its In
  is its own and no list gives its identifier twice).
* **UserContextsProofs.** `ContextsAlwaysMatch` and `NeverNilContext` rest on an
  invariant about a running traversal: the contexts still to be visited differ
  from the table by exactly the change under way, those already visited do not;
  a handler between `Snapshot` and `Insert` holds a list that is up to date,
  because no traversal can pass `GetKeys` while it holds the pool.
  `RefinesPassageSync`: initial states map to initial states, the step that
  takes the mutex maps to the step of `PassageSync`, all the others to stutters.
  `AcceptedAlwaysLive` and `SettledAlwaysFound` (about `UserAuth`) build on it: a
  pooled list always lies between what is settled and what is live, a handler
  gets its context from the pool or holds one that no traversal reaches any more,
  and what was live or settled during a request only widens or narrows.
  `HistoryOnlyWatches`: `UserAuth` adds no behaviour. Two theorems explain the
  deadlock of `user_contexts_deadlock`. `CrossingAloneBlocks`: whoever holds one
  mutex and waits for the other waits for a goroutine that needs nothing more,
  unless a traversal and a `GetOrInsert` hold one each and want the other's.
  `CrossingLastsForever`: from then on table, syncs, mutexes and pool never change.
* **UdpNatProofs.** Two independent invariants. Mapping: the placeholder of a
  dialling handler stays until that handler replaces it, the socket of a relay
  until that relay removes it. Sending: a packet that passed the filter is in
  the filter. `NatKeepsPromise` maps every step to one of `NatMapping` or to a
  stutter. It needs besides that whoever waits does so for the entry of his
  client or was woken (`WaitInv`): then the step that closes the channel of an
  entry empties the set of those who wait. From it `WaitersHaveDialler`, the safe
  half of `DirectWaitEnds`: who waits has somebody dialling for his client, and
  only clients relayed through another server can be stranded, which
  `udp_nat_stuck` shows to happen. `AbandonedClientsStay`: for these nobody
  dials again, and those who wait go on waiting, for the placeholder stays.
* **AnyTLSWriteProofs.** The connection deadline is unset unless a stream holds
  `activeWrite`, and then it was given to that stream (`DeadlinesStayWithStreams`);
  so what breaks the connection is the passed deadline of the stream that was
  writing (`BreaksAreOwn`). Who writes data holds `writeMu` and has written its
  header, and a writer that fails half way leaves a connection on which nothing
  can follow (`FramesAreWhole`).
* **AnyTLSSessionProofs.** `NoStreamOrphaned` and `MapLeftClean` follow from one
  invariant (`StreamInv`) that says where a stream can be. Up to `ClearStreams`
  a stream that was handed out and is not closed is in the map, unless `recvLoop`
  is about to close it for a FIN; after `CloseConn` no SYN can be written, hence
  no stream handed out. On a server the session stays open between a SYN and its
  handler, because only `recvLoop` closes it. `NoVersionDowngrade`: a version of 2 or more that a dial
  was told is final, because the time limit counts only while no version is known.

* **ServerProofs.** Registration: while nothing was lost or overtaken, the newest
  list is in use, on its way, or in the hands of the loop (`Delivered`), from which
  `ListGetsThere`; `PaceIsRight` is inductive with types. Lifecycle: a loop that
  left has closed its socket (`LoopSockets`), port 80 and the connections of
  anytls are among the fields, or taken by `Close`, as long as they are open
  (`AcmeInReach`, `ConnsInReach`); from these `NothingStaysOpen`.
  `CrossingKeepsRun`: when syncs and look-ups have crossed before `Close` has the
  mutex, `Close` never has it, `once.Do` does not end and `Run` does not return.
* **ServingProofs.** `RelayInv` about the two goroutines of a relay, `FrontInv`
  about what comes before; they meet in `handler` and `isOpen` only. An end of
  file means that nothing is left to read and nothing can come, except from an
  anytls stream (`CopyErrors`); `RelayTCP` tells an end of file to whom it can,
  keeps both ends open while it copies and sets deadlines only when a copy has
  ended (`TcpCopies`). From these `NilIsComplete`, which says what is true of
  either sort of end, and `IdleRelayKept`. `id` is written by a successful
  authentication only, and `authDone` without one means that the connection goes
  away (`Identified`), from which `OnlyAuthenticatedServed`: what juicity serves
  is for the identifier that authenticated, or, while the connection goes away,
  for who has the zero UUID. `LeadsToRelay`: until a handler dials nothing of its
  relay has begun (`NotBegun`), so it dials in an initial state of `Relay`, and
  each step from there is one of `Relay` or leaves the relay alone.
  `NoStreamForgotten`, the safe half of `StreamLeavesAwait`: when an authentication
  is over, the wait for it was ended.
* **StructuresProofs.** Three independent parts.
  *Lru.* The two directions of the pointers describe one chain of different nodes,
  and the maps are inverse to each other and name these nodes (`Holds(Now,
  Linked(list))`, `PointersAndMapsAgree`); each operation of `infra/linklist` is
  shown to change the chain as it should. In the chain the times of use descend
  (`InOrder`): without that `insert`, which only looks at the back, would not drop
  exactly what has expired. From these `LruImplementsRecencyMap`: initial states
  map to initial states, `get`, `insert` and the clock to `Use`, `Add` and `Tick`.
  *LruList.* An array has one owner, the list, a copy or the pool (`Exclusive`,
  `ArraysNeverShared`), and the list fits in its array (`ListFits`), from which
  `CopiesStaySnapshots`; the capacities of what is pooled follow from the size
  that `Put` compared, unless `Get` replaced it meanwhile (`Capacities`), from
  which `PanicOnlyByRace`. The three hold until a slice expression panics.
  *Trie.* What `Match` has read is the way to the node it is at, and `prefix` the
  longest network on that way (`TrieInv`). `JumpFacts` says why it may skip: no
  network ends, and no other begins, inside a compressed edge. From these
  `MatchLongest`.
  The library's induction theorems cannot be used here. That following a pointer
  or popping can be repeated until it ends is `IterateExists`, and what is true of
  every element is shown by a least counterexample (`LeastOfNat`).

The types of all these modules are proved; those of `AnyTLSSession` are run as
well.

Every invariant, action property and refinement of a passing run is the subject
of a theorem. Only model-checked are the liveness properties (`DirectWaitEnds`,
`CloseReleasesEveryone`, `NegotiationEnds`, `HandlersEnd`, `ShutdownCompletes`,
`Recovers`, `RelayEnds`, `GoroutinesEnd`, `StreamLeavesAwait`): liveness under
fairness is beyond the prover. Of two of them the safe half is proved
(`WaitersHaveDialler`, `NoStreamForgotten`).

## What the code does otherwise than it says

* `TableClientsLoad`, run `juicity_lockout`, `src/server/juicity/server.go:309`: removePassagesFunc deletes the identifier of a removed passage from the users map even when the map already holds another passage of the same client that stays in s.passages, and nothing stores it again: the client stands in the table and is refused; src/server/juicity/dataplane.go:169 says of that client "no such user: %v".
* `SyncReturns`, run `user_contexts_deadlock`, `src/server/shadowsocks/user_context.go:63`: GetUserContextOrInsert takes the server mutex with the pool mutex held, AddPassages and RemovePassages take the pool mutex with the server mutex held (src/server/shadowsocks/server.go:377 and :390): one new client address during a sync stops both for ever, and every later connection with them; src/server/shadowsocks/server_test.go:108 "if err := s.SyncPassages(passages[i]); err != nil {" expects the call to return.
* `WaitEnds`, run `udp_nat_stuck`, `src/server/shadowsocks/udp.go:96`: When GetHeader or NewDialer fails, GetOrBuildUDPConn returns without removing the placeholder it inserted, so its channel is never closed and every later packet of that client address blocks for ever at line 130; the other error path says at src/server/shadowsocks/udp.go:108 "close channel to inform that establishment ends".
* `DeadlinePoisonsNobody`, run `anytls_write_poison`, `src/server/anytls/session.go:151`: The write deadline of a stream is set on the TLS connection all streams of a session share (src/server/anytls/server.go:317, src/server/anytls/dialer.go:172), and crypto/tls makes a write that timed out a permanent error: after it every frame of every other stream and every control frame fails, while the session stays open. The test TestStreamWriteDeadlineDoesNotPoisonOtherStreams (src/server/anytls/stream_test.go:67), which runs on a net.Pipe, says the other stream still writes; src/server/anytls/stream_test.go:112 "other stream Write() error = %v, want nil".

Seen while modelling, without a run of its own:

* Two overlapping syncs both append a missing passage, so that `common.Change`
  is later called with equal elements, against its comment
  (`common/common.go:73`).
* A removal compares `In.Argument` only (`shadowsocks/server.go:353-360`), while
  the difference of two lists tells passages apart by Out as well: a late removal
  takes both passages of one In, the one that stays included, until the next sync.
* A UDP packet that waited on a placeholder is handled again from the start, and
  the replay filter then refuses it because it has seen the salt: the packet is
  dropped even when the dial it waited for succeeded (`udp.go:133`, `:242`).
* A dial that waits for the server's settings on a session that is closed
  meanwhile succeeds, as if the peer were of version 1 (`session.go:284-289`).
* `SetWriteDeadline` between `getWriteDeadline` and `beginStreamWrite` does not
  reach the connection (`anytls/session.go:132-136`).
* `LocalizePassages` of shadowsocks looks the key length up under the method as
  it was sent, not under the default it has just set (`server.go:324`).
* `Stream.Read` returns end of file although data are buffered, when the stream
  is closed and `select` picks that case (`anytls/stream.go:68-77`).
* An answer to a registration and a `SyncPassages` message may overtake each
  other, and the older list then stays until the next of either. A request to
  register again is undone by a ping, or by a registration that is under way; and
  a ping does not end the back-off.
* `Close` of shadowsocks and vmess needs the mutex that the deadlock of
  `user_contexts_deadlock` never gives back (`shadowsocks/server.go:279`,
  `vmess/server.go:303`): a shutdown then does not end.
* vmess over gRPC starts its ACME server and sets `s.grpc` after it has left the
  critical section that looks at `s.closed` (`vmess/server.go:167`, `:174`): a
  `Close` in between leaves port 80 open, or lets `Listen` dereference nil.
* When `Accept` of anytls fails the listener is forgotten without being closed
  (`anytls/server.go:137-147`).
* juicity calls `authDone` before `cancel` when a connection ends
  (`juicity/dataplane.go:124-128`), and a stream that gets through in between looks
  an identifier up that may not be set. That is the zero UUID, and the zero UUID is
  the manager's (`juicity/server.go:28`): the request is dispatched as one of the
  manager's, though nobody authenticated. `ServedAsAuthenticated` names this case
  (`NotYet`).
* `uuid.Parse` of a name that is none gives the zero UUID as well, and its error is
  dropped (`juicity/server.go:246`): such a client takes the manager's place in the
  users map, and when it is removed nobody has that place.
* `handleAuth` of juicity reads from the stream it accepted without a time limit
  (`juicity/dataplane.go:268-282`).
* The relays of UDP over TCP of juicity and vmess never close the socket to the
  target (`juicity/dataplane.go:235`, `vmess/tcp.go:128`), and the limit of 10
  seconds they set is overwritten by the 3 minutes of the next round.
* `RelayTCP` passes an end on with `CloseWrite` whether the copy ended or failed
  (`server/tcp.go:16-19`), and writes have no deadline: to a peer that does not
  read one of them lasts as long as the connection.
* The `Stream` of anytls has no `CloseWrite`, so a relay to or from one tells it
  nothing before the handler closes it, and its EOF may stand for a session that
  broke: `RelayTCP` then returns nil for a truncated transfer.
* Nothing closes an anytls session whose connection a timed-out write has broken:
  its streams go on reading while all their writes fail.
* Every relayed stream with an anytls Out makes a dialer, and with it a session
  that nobody closes (`anytls/server.go:386`).
* `growingPool.Put` reads `size` without the mutex (`growing_pool.go:37`): against
  a `Get` that grows the pool it may panic or pool an array of the old size.
* On a server a repeated SYN of a stream that is open starts a second handler on
  it (`anytls/session.go:209-216`); the model lets a peer open a stream once.
* One stream whose `readCh` is full holds up all the frames of its session
  (`anytls/stream.go:128-137`), the end of the connection among them.
* A list made by `NewWithList` starts no updater, so contexts are never sorted by
  use (`lrulist.go:47`).
* `LRU.Insert` of a key that is in the map would leave its old node in the list;
  nothing calls it. `Trie.Match` is wrong for strings shorter than a word of the
  dictionary (`trie.go:106`); addresses have full width.
* The eviction of `server.NewDialer` compares values of two types and never
  succeeds (`protocol.go:67`).

## What is not modelled

* **Outbound dialer cache** (not modelled): One map under one mutex, each operation a single critical section: the timer of an entry compares the entry with the dialer inside it, which is never equal, so entries only come (see hazards). The rest are calls of a library. LimitedDNSConn is used by no server.
* **Passage contention** (not modelled): Check returns before it looks at anything, so there is no behaviour to model.
* **Users, headers and bandwidth** (not modelled): Conversions of configuration and of interface counters, without state.
* **Command line** (not modelled): Interactive installation and self-update: files and prompts, no concurrent state.
* **Support packages** (not modelled): Input and output, configuration and data tables.
* **Client sessions of anytls** (partly): One session of Dialer: opening and closing streams, negotiation of the version, recvLoop, and Close at any moment. Left out: read deadlines, the UoT request a UDP dial writes, management commands (DialCmdMsg), and that the dialer connects anew once its session is closed.
* **Server sessions of anytls** (partly): recvLoop of a server: settings, SYNs that start handlers, frames for their streams, the end of the connection. What a handler does between two reads is in Serving and Relay. Left out: a peer that opens the same id twice, read deadlines, the addresses and deadlines of netconn.go.
* **Lists and pools** (partly): The LRU over the linked list with its maps, and the list of a user context with the copies that are walked and the pool of their arrays. Not modelled: what no server calls (New of lrulist and its updater, Demote, PushBack, Insert of a key that is there).

## Plan

The plan of the first version is carried out: every component it names has its
module, and its safety is proved. What a next version could add, in this order:

1. The UoT request of a UDP dial, the read deadlines and a `SYN` that repeats an
   identifier in `AnyTLSSession`.
2. The CDN validator (`pkg/cdn_validator`), whose outcome `Registration` and
   `Lifecycle` leave open.
