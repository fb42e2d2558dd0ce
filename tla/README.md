# A TLA+ verification project for net-flux

net-flux is the base library of a media platform: framed protobuf packets over TCP,
service discovery over that protocol or over Nacos, periodic reporting of machine and
network metrics, load balancing, caches and rolling log files.  Nearly everything in it is
shared by goroutines, and most of what can go wrong is an order of steps that no unit test
produces.  This directory models those parts in TLA+, checks small instances with TLC, and
proves what matters most for every value of the constants with TLAPS.

All line numbers below are those of the repository's files.

## 1. Inventory

| Part (source) | State | Operations | What is hard | Module |
|---|---|---|---|---|
| Task scheduler (`pkg/dataflow/task/scheduler.go`, the tasks) | `started`, `stop`, `tasks`, a WaitGroup, a run goroutine per Start | AddTask, RemoveTask, Start, Stop, ticks | Stop works outside `mu`; `run` rereads `s.stop` without it | `Scheduler` |
| TCP discovery client (`pkg/naming/rpc_client.go`), answers of the discovery server | map `pending` of waiting calls, one channel per call | GetService/lookup, HandleLookupAck, Close | acks carry no request number; timeout against late ack; retries; Close | `RpcLookup` |
| TCP server (`pkg/network/tcp_server.go`, server side of `tcp_con.go`, `tcp_reader.go`) | table `conns`, queue `outgoing`, `acceptErr`, per connection `closeOnce`, `closed`, reader | Run, acceptor, registerConn, close, shutdown, Stop | close by five parties, bounded queue, bounded waits, handlers that hang | `TcpServer` |
| TCP client connection (`tcp_con.go`, `tcp_cli.go`) | `conn`, `closed`, `closeOnce`, `closeChan`, reader and heartbeat goroutines | Connect, Close, Write, reader, heartbeat, reconnect | fields replaced without a lock while others use them | `ClientConn` |
| Framing and dispatch (`tcp_writer.go`, `tcp_reader.go`, OnMessage, `misc/proto.go`) | write buffer and its lock, header and payload buffers | WritePacket, writeAll, ReadPacket, OnMessage | several writers, partial writes, unknown messages | `Framing` |
| LRU cache (`pkg/util/cache/lru.go`) | map and list of the same entries | Get, Set, Delete, Close | two structures kept in step; eviction at the limit | `LruCache`, `LruSpec` |
| Expiring cache (`inmem.go`) | map, `closed`, `closeCh`, a cleaner | Get, Set, SetWithTTL, Delete, Close | Get looks outside the lock | `InMemCache` |
| Byte streams (`pkg/network/stream/stream.go`) | buffer and cursor, two byte orders | reads and writes of integers, bytes, strings | cursor arithmetic, lengths, a write that fails half-way | `ByteStream` |
| Network prober (`net_prober.go`) | loop variable, round trips, failures, deadline | Probe | the deadline is noticed in three places | `NetProber` |
| Rolling log files (`pkg/logger/rolling.go`) | registration queue, list of the timer goroutine, open file | Open, Write, the timer | the timer feeds the queue it empties; the handle is nil inside Open | `RollingLog` |
| Logger (`pkg/logger/logger.go`) | level, output, the mutex of log.Logger | SetLevel, SetOutput, the output methods | Write tests the handle of its file without a lock | `Logger` |
| Dataflow front end (`pkg/dataflow/dataflow.go`, `report.go`, `core/channel.go`), session of `examples/disco/client` | `cli`, one channel per task, a stream goroutine per session | Initialize, Shutdown, Notify..., streamCancel | failures half-way, tasks that outlive their session, events after the cancel | `Dataflow` |
| Shared cache (`pkg/util/cache/shared.go`, `pkg/util/redis/redis.go`), configurations of `rpc_client.go` | keys in Redis, Redis clients shared by caches | New, NewSharedCache, Get, Set, SetWithTTL, Delete, Close, Set/Get/DeleteConfig | several caches on one client and one Redis, lifetimes | `SharedCache`, `CacheSpec` |
| Discovery server (`examples/disco/server/server.go`) | the factory, the registry behind it | Register, Deregister, Lookup, OnClose | one Nacos client keeps several instances alive | `DiscoServer` |
| Instances in Nacos (`pkg/naming/nacos_client.go`, `nacos_naming_cli.go`) | an instance and its metadata in the registry | Register, Deregister, the queries | conversions of numbers and texts, fallbacks, groups | `NacosInstance` |
| Balancers (`pkg/balancer/robin.go`, `compose.go`) | `nextIndex`, configurations in the service | Resolve, Pick | unlocked index, read-then-write of shared configuration | `Balancer` |
| Factory of Nacos clients (`examples/disco/server/disco_cli_factory.go`) | `serviceStorage` | GetDiscoClient, RemoveDiscoClient, RemoveAll | the client is made outside the lock | `DiscoFactory` |

How they interact: `TcpServer.Run` and `TcpClient` own connections; each connection has a
reader goroutine that calls the EventHandler, and the discovery client wraps that handler to
get its acks.  The front end makes tasks, gives each the channel of a TCP client and starts
the scheduler that runs them.  The balancers use a discovery client (TCP or Nacos) for
services and configurations; the TCP one keeps its configurations in the shared cache.  The
discovery server calls the factory from the reader goroutines of its connections.  Everybody
logs, through one logger, into a file that the timer goroutine opens anew.

### Not modelled

Metric gathering (`pkg/dataflow/gather`: reads the operating system and keeps no state; a
second CPU sample shorter than the first would be indexed out of range, `cpu.go:33`), the
Nacos configuration client (hands its arguments to the SDK), the commands of the Redis client
that nobody calls, the small helpers (`pkg/util`), the messages generated by protoc, the
menus and texts of the examples, `RedirectSTDOutput`.  What travels inside a TLS connection is
outside of the models, too.

## 2. Modules

`Scheduler`, `RpcLookup`, `TcpServer` and `ClientConn` are the core; each has its own
specification.  Four modules are built on others: `Dataflow` is `Scheduler` with the front end
and the stream goroutines, every step of it being a step of the scheduler or none;
`DiscoServer` is `DiscoFactory` with the commands of the connections and the registry;
`Logger` is `RollingLog` with the goroutines that write; `SharedCache` has the cache and
rpcClient's configurations on top of it.  `LruSpec` and `CacheSpec` are the abstract caches
that `LruCache` and `SharedCache` implement.

`MCDataflow`, `MCScheduler` and `MCRpcLookup` give the constants of their modules values that
a .cfg cannot express.  `MCObjects` puts the parts that are checked for safety alone
(`LruCache`, `ByteStream`, `NetProber`, `NacosInstance`, `DiscoServer`, `SharedCache`) into one
model whose first choice is the part; `MCShared` does the same for the parts with liveness or
data races (`Framing`, `InMemCache`, `Logger`, `Balancer`, `DiscoFactory`).

A definition whose comment begins with "A ... that does not ..." next to an action is a wrong
version of that action; `PROJECT.json` names, for each property, the wrong version that
violates it.

How the modules correspond to the code:

* **Scheduler.**  `mu` makes AddTask, RemoveTask, Start and the first half of Stop one step
  each.  Stop is StopLock, StopClose, StopWait (and StopWake when it had to park); the run
  goroutine is EnterSelect (reads `s.stop`), RunExit, Tick (copies the tasks), Scan, TaskDone.
  Channels and goroutines are named by the number of the Start that made them.  The WaitGroup
  is external: it counts the run goroutines, and panics if a woken Wait finds it reused.
* **RpcLookup.**  Lookup registers the channel, Write/WriteFails sends, Receive and Timeout
  are the two cases of the select, Leave is the deferred delete, HandleLookupAck one step
  because it holds the lock throughout.  Groups are strings that are sent as numbers: `NodeOf`
  and `GroupOf` are the two conversions, so that "01" comes back as "1".  Serve is the
  discovery server, Push an ack nobody asked for, Disconnect loses what is under way.  A key of
  the map is a pair of name and group; in the code it is the text name@group, so that names or
  groups that contain an @ and make two keys equal are left out.
* **TcpServer.**  Run, acceptor, the closer goroutine of closeConns and a reader per
  connection are processes.  `close()` is EnterClose, OnCloseReturns, PushOutgoing,
  CloseSocket; a second closer waits for the first, as sync.Once makes it.
* **ClientConn.**  Sockets, readers and heartbeats are numbered by the dial that made them.
  reconnect is one step per assignment: SetConn, ResetOnce, SetChan, then initIO.
* **Framing.**  The wire is a sequence of bytes, a length two digits of a small base.
  WriteSome is a round of writeAll, ReadHeader and ReadPayload the two io.ReadFull calls.
  `handled` has one entry for each packet read, Ignored for one that no handler gets.
  `Messages` is the table that the five Unmarshal functions spell out.
* **LruCache.**  The list holds elements, the map leads to elements, an element holds key and
  value, as container/list does it.  LruUpdate and LruInsert are the branches of Set.
* **ByteStream.**  Bytes are digits of a small base; Encode and Decode stand for
  encoding/binary, an integer being two of half its width, the high one first or last.  A behaviour writes values of any mix of types and then reads them back.
* **NetProber.**  LoopHead, PauseExpires/PauseElapses and RequestSucceeds/RequestFails are the
  places of the loop, BuildResult computes mean and jitter with the code's integer divisions.
* **InMemCache.**  Get is GetRead, GetCheck, GetDelete; the cleaner is CleanTick (takes the
  time), CleanSweep (under the lock), CleanExit.
* **RollingLog.**  Roll is one iteration of the tick: off the list, then Open, which is
  OpenBegin (the handle becomes nil), OpenFile (os.OpenFile, which may fail) and OpenEnd (the
  non-blocking Offer, the unlock).  `dropped` records the files whose offer met a full queue.
* **Logger.**  All output methods are Output (the filter), then BeginWrite (log.Logger's mutex
  and the unlocked test of the handle) and WriteLine (the file's lock).  Fatal ends the program.
* **Dataflow.**  Initialize is Initialize (the arguments, `cli` and NewChannel), InitAddTask per
  task, InitStart or InitAlreadyStarted; Shutdown is Shutdown (StopLock), ShutdownStops,
  ShutdownClears.  A stream goroutine is StreamWakes (the select of sleepCtx) and StreamWrites.
  A connection comes and goes by itself, so IsClosed answers anything.
* **SharedCache.**  Redis is a function of texts prefix + key; a Redis client is none, open or
  closed, under all caches that use it.  That no two prefixes make the same text is an
  assumption (PrefixesApart): the code concatenates a prefix that the caller chooses with the
  key, and the two prefixes it uses itself satisfy it.
* **DiscoServer.**  A command goes through the factory step by step and then acts on the
  registry.  The registry is external: an ephemeral instance lives as long as its client.  A
  deregistration does not say that the instance is ephemeral (`nacos_naming_cli.go:67-72`), so
  that it may have its effect or not; the closing of the client that follows it ends the
  instance in any case.
* **NacosInstance.**  A text is a word or a number that is printed; int32 and uint64 are
  integers modulo 2 Half and Wide, so that truncation and sign extension happen.  RegisterParam
  and DeregisterParam are the two requests, with service name, group and kind; which name the
  registry's client gives in an answer is a constant (`NameBack`), since the SDK may put the
  group in front of it.
* **Balancer.**  One step per call of the discovery client, and PickLoad, PickStore, PickIndex
  for the three accesses of `nextIndex`.  An absent configuration is empty, as with Nacos.  The
  keys of services and streams are taken to be different texts.
* **DiscoFactory.**  GetDiscoClient (RLock), NewClient and its two failures, InsertClient (Lock).
  The factory is checked as an object that any goroutines may use; in the example server only
  the reader of a connection asks for that connection's clients, and RemoveAll has no caller.

## 3. Runs

Distinct states are those of the given .cfg.

| Run | Checks | Result |
|---|---|---|
| `scheduler` | StopQuiesces, OneRunner, StartedHasClient, StopReturns, DueTaskRuns, CancelEndsStream, on `MCDataflow` | holds, 100,870 states |
| `scheduler_stop_hangs` | StopReturns with two controllers | **violated** |
| `lookup` | NameMatches, GroupMatches, PendingOwned, AckWakes, LookupReturns | holds, 617,052 |
| `lookup_close` | AckWakesAfterClose | **violated** |
| `server` | TypeOK, OpenConnTracked, LeakOnlyWhenFull, CleanShutdown, ShutdownReturns, EverythingCloses | holds, 417,564 |
| `client` | CloseCloses, Supervised, NoSocketLeak, CloseReleases, ReconnectSettles | holds, 24,326 |
| `client_close_reconnect` | CloseCloses when Close may come at any time | **violated** |
| `client_write_panic` | NeverPanics | **violated** |
| `objects` | ObjectsTypeOK, RoundTrip, EveryProbeCounted, MetricFits, ReadsBack, ImplementsLru, ImplementsCaches, InstanceLossExplained | holds, 149,247 |
| `stream_long_string` | RoundTrip with a string that is too long for its length | **violated** |
| `shared` | SharedTypeOK, InOrder, AllHandled, LossExplained, LineLossExplained, CleanerServes, RollsOver, PanicTakesTwo, StaysBound, ClientsAccounted | holds, 154,346 |
| `balancer_rereads` | ReadsOwnConfig | **violated** |

Several properties say exactly how far the code goes where one would wish for more; what they
allow by name is what the code does, and what they show is that nothing else happens:

* InstanceLossExplained: an instance may also vanish because its connection has deregistered a
  sibling of its name, which closes the client of both.  Nothing ends the instances of a closed
  connection.
* LineLossExplained: a line is lost when it comes while its file is being opened.
* LossExplained: a Get may delete a newer item than the one it has read.
* PanicTakesTwo: the index may be out of range as soon as a second goroutine has called Resolve.
* StaysBound: a call that began when the stream was unbound may bind it again.
* ClientsAccounted: the configuration client of a pair that could not be completed stays open.
* ReadsBack: an instance registered here is found in the group of its node only, never by its
  name alone, it comes back as an ephemeral one, and a Deregister of it meets its name, group,
  address and port, but not its kind.
* CancelEndsStream: one event may follow the cancel.
* LookupReturns: a call returns unless its write never does.  The write comes before the timer
  and has no deadline (`rpc_client.go:291`), so that a peer that stops reading can hold it.
* ShutdownReturns, EverythingCloses: unless an OnConnect that never returns holds Run
  (`tcp_server.go:220`), or, for the second, an OnClose holds the socket of its connection.
* RollsOver: a file rolls over unless an Open of it has failed or its registration has met a
  full queue; both take it out of the timer's hands for good.  The run has one file more than the
  queue has places, and NoneDropped proves that with no more files than places it never happens.
* CloseReleases: reader and heartbeat end where Close meets no reconnect; a heartbeat that goes
  on with the channel of a reconnect is not excluded.

What the violations show (`findings` in `PROJECT.json` quotes the line that says otherwise):

* `scheduler.go:89`: a Start of another goroutine between Stop's unlock and the end of its
  Wait makes Stop wait for the new goroutine, or panic.  With one controller (Initialize and
  Shutdown from one goroutine) this cannot happen, and that is proved.
* `rpc_client.go:281`: after a Close, the deferred delete of an old call removes the channel
  of a new call with the same key; its ack then wakes nobody.
* `tcp_con.go:339`: a Close while reconnect sleeps or dials is lost; the connection comes back.
* `tcp_con.go:193`: a Close between test and use of `c.conn` in Write is a nil dereference.
* `stream.go:244`: the length of a string of 65536 bytes or more wraps in uint16.
* `robin.go:82`: the JSON of a service is overwritten with its text format, and the second
  Resolve of the service cannot read it.

Met while modelling, and not the subject of a run of their own: Connect does not renew
`closeOnce` (`tcp_con.go:296`), so that a client closed once cannot be closed again; reconnect
replaces `closeOnce` before `closeChan` (351-352), so that a close between the two closes a
closed channel; reconnect uses plain TCP after ConnectWithTLS (342); `Get` of the expiring
cache may delete a newer item (`inmem.go:37`; LossExplained states exactly this exception);
`_startTimer` compares a date with a file name (`rolling.go:122`), so that every tick reopens
every file; with more than 16 files a registration may be dropped for good, and a file that
fails to open in a tick is never opened again; `nextIndex` is a data race that can index out
of range (PanicTakesTwo: only with a second goroutine); the TCP client's GetConfig reports an
absent configuration as an error (`rpc_client.go:118`), so that a balancer on top of it can
resolve nothing new; NewNacosDiscoverClient leaves the configuration client open when the
naming client fails (`nacos_client.go:192`; `halves` in DiscoFactory); the discovery server
never calls RemoveAll; the tasks of an earlier session stay in the scheduler's list and report to
their earlier client; SetConfig of the TCP client expires after ten minutes (`shared.go:64`);
RemoveDiscoClient does not map "" to "web" as GetDiscoClient does, so that a Deregister without a
name leaves its client; GetOutput does not know of SetOutput (`logger.go:274`); the reader's length test is dead (a uint16 against 65535); a write
deadline set by the application that expires inside a frame leaves a torn frame on an open
connection.

### Bounds

Every bound is a constant, tested in a guard: `MaxStarts`, `MaxCalls`, `MaxPush`, `MaxCloses`,
`MaxFaults`, `MaxConnects`, `MaxWrites`, `MaxItems`, `MaxPackets`, `MaxDay`, `MaxClients`,
`MaxCmds`.
* Scheduler and Dataflow: two Starts are what it takes for an old goroutine, or the stream of
  an old session, to meet a new channel; two tasks with the same ID, one for each Initialize,
  make RemoveTask choose and leave a task of the first session in the second.
* Lookup: two callers and two calls give a late ack, a retry and a second waiter; five
  spellings of groups give the own group, another, two spellings of one node and no number.
* Server: two connections and a queue of one make the queue full and let the closer wait for
  one connection while the other is registered; handlers of one of them may never return.
  `IdSpace` is above the number of connections: identifiers do not wrap.
* Client: one Connect, two failures and two attempts per reconnect give a reconnect after a
  reconnect and one that gives up.  Close is restricted (`AnyClose = FALSE`) to the calls that
  work, after Connect and without reconnect; the violation runs lift that.
* Objects and shared parts: one more key than the cache holds; a base of two for lengths, so
  that the longest body and the too long string have three and four bytes; services with no,
  one and three instances, so that an index valid for one is not for another; two log files and a
  queue of one, so that a registration meets a full queue, from the program and from a tick.
* Discovery server: two connections, two names (one of them empty), two addresses and three
  commands, so that one name gets two instances and loses one.  Instances: an int32 of four
  values and a uint64 of sixteen.  Redis: a prefix that ends like a key and a key that begins
  like one; one value and nil.
* Log levels: setting the level to INFO and the levels of the lines give lines below and above
  it; the other names only choose another threshold.
* `Objects.cfg` uses symmetry: connections are interchangeable, and so are Redis clients; no
  action tells them apart (the key that a goroutine at rest keeps is never read), and the run
  has no liveness property.

All .cfg files say `CHECK_DEADLOCK FALSE`: every system here may come to rest when its
callers have used up their calls, and a server that has returned has nothing left to do.

### Fairness

Nobody is obliged to call an operation, no message has to arrive and no socket has to fail.
Assumed is that a goroutine that can go on does (weak fairness of its steps), that tickers and
timers fire, that tasks return (probes have deadlines; the write of a report has none, so that
here a peer that reads is assumed), and that a select with several ready
cases does not pass over one for ever: Go picks at random, hence strong fairness of the
cases RunExit, HeartbeatStops, CleanExit, Receive and TimerTick.  A sleepCtx entered after the
cancel has no timer ready, so that weak fairness of a stream goroutine is enough.  Handlers of connections in
`Stuck` have no fairness at all, OnConnect included, which runs in Run's own goroutine; neither
has the write of a lookup.

## 4. Proofs

All theorems hold for every value of the constants that satisfies the named ASSUME of the
modules and the hypotheses given here.  Six of the eight proof modules belong to one component;
`SharedPartsProofs` and `ObjectsProofs` have the parts of `MCShared` and `MCObjects`, each in a
section of its own.

| Theorem | States | Inductive argument |
|---|---|---|
| `DataflowProofs!TypeCorrect` | TypeOK of the scheduler | inductive; StopLock needs `started => stop # 0`, Tick and Scan that a goroutine in a task has a non-empty rest |
| `DataflowProofs!StopQuiescesAlways` | StopQuiesces, any number of controllers | inductive with TypeOK: whoever clears `started` stays in Stop until no goroutine is left |
| `DataflowProofs!OneControllerSafe` | OneRunner and StopNeverPanics with one controller | `SingleInv`: a controller inside Stop means that nothing is started and that it holds the latest channel, not yet closed; without it a second close could not be excluded |
| `DataflowProofs!DataflowUsesScheduler` | DataSpec implies the scheduler's Spec | every action of the front end is a step of Scheduler or leaves it alone |
| `DataflowProofs!DataTypeCorrect` | DataTypeOK | inductive |
| `DataflowProofs!StartedHasClientAlways` | StartedHasClient with one controller | `FlowInv` ties the controller's place in Initialize and Shutdown to `started` and `cli`: only a controller that has passed Stop may drop the client, and only one with a client in hand adds tasks; with two controllers it is false |
| `RpcLookupProofs!TypeCorrect` | TypeOK | inductive |
| `RpcLookupProofs!NameMatchesAlways` | NameMatches | `NameInv`: a map entry is a call with that key or a finished one's, and a channel holds only acks with a service of the caller's name; that PickFirst then finds it is a lemma from well-founded choice |
| `RpcLookupProofs!GroupMatchesAlways` | GroupMatches, if no pushed ack mixes groups of one name (`OneGroup`) | `GroupInv` adds that every ack on its way is uniform and that an ack in a channel has the caller's name in the caller's group only; GetService chooses by name alone, so that without OneGroup it is false |
| `RpcLookupProofs!PendingOwnedAlways` | PendingOwned | inductive with TypeOK |
| `RpcLookupProofs!AckWakesAlways` | AckWakes | from PendingOwned and the sets of keys that HandleLookupAck visits |
| `TcpServerProofs!ServerTypeCorrect`, `OpenConnTrackedAlways`, `LeakOnlyWhenFullAlways`, `CleanShutdownAlways` | TypeOK, OpenConnTracked, LeakOnlyWhenFull, CleanShutdown, if identifiers do not wrap (`NoWrap`: finitely many connections, fewer than identifiers; a uint64 in the code) | `ServerInv`: identifiers are distinct and the next one is unused (`IdsApart`, `Fresh`), what the goroutine in Run holds at each of its steps (`RunAt`), who can still reach an unregistered connection (`Reachable`), where an open and a closed one is recorded (`Tracked`, `Reported`), and what the closer has waited for (`Waited`) |
| `ClientConnProofs!ClientTypeCorrect`, `CloseClosesAlways`, `SupervisedAlways`, `NoSocketLeakAlways` | TypeOK, CloseCloses, Supervised, NoSocketLeak, for one Connect and a Close that does not meet a reconnect (`OneConnect`; the violation runs show what happens without it) | `ClientInv`: until a panic, the reader, the holder of `closeOnce`, reconnect and Close take turns; which of them owns `conn` and `chan` is fixed by their places |
| `ClientConnProofs!PanicsOnlyInWriteAlways` | only Write and the heartbeat's write can panic, on a nil `conn` | a step property under ClientInv: close finds its channel open and its `conn` set |
| `LruCacheProofs!LruInvAlways` | LruInv, with IndexMatchesList | `LruInv` = types, IndexMatchesList, OrderedByUse, HoldsValues, ClosedEmpty; the lemmas WithoutFacts, PushFacts and MoveFacts say what the list operations do |
| `LruCacheProofs!CacheImplementsLru` | the refinement ImplementsLru | every step maps to a step of LruSpec under LruInv; OrderedByUse makes the last element the least recently used key |
| `DiscoFactoryProofs!ClientsAccountedAlways` | ClientsAccounted | `FactoryInv` adds `Apart`: a client is in one place at most, or closing it in one place would leave it in another |
| `DiscoFactoryProofs!NeverReplacedAlways` | NeverReplaced | a step property under the types |
| `SharedPartsProofs!FrameTypeCorrect`, `InOrderAlways` | FrameTypeOK, InOrder | `FrameInv`: the bytes handled, on the wire and still to be written are one tape, cut where one frame ends and the next begins, and the reader stands at a cut or behind a header whose numbers are those of the next packet |
| `SharedPartsProofs!InMemTypeCorrect`, `LossExplainedAlways` | InMemTypeOK, LossExplained | `InMemInv`: the item a Get has in hand is never newer than the one in the map, and it deletes only after it has found its own expired |
| `SharedPartsProofs!LogTypeCorrect`, `LineLossExplainedAlways` | LogTypeOK, LineLossExplained | `LogInv`: a file that nobody is opening and that has no handle was never opened or failed the last time |
| `SharedPartsProofs!NoneDropped` | no registration is dropped if there are no more files than the queue has places | `InOnePlace`, a part of LogInv: a file is being opened, once in the queue, or on the timer's list, and in one of these places only; so a full queue would hold as many other files as it has places (pigeonhole) |
| `SharedPartsProofs!BalancerTypeCorrect`, `PanicTakesTwoAlways`, `StaysBoundAlways` | BalancerTypeOK, PanicTakesTwo, StaysBound | `BalancerInv`: a goroutine that is alone finds in `nextIndex` what it has just stored, which is an index of the service it asks for |
| `SharedPartsProofs!SharedTypeCorrect` | SharedTypeOK of `MCShared` | the invariants of the parts together; each step is a step of every part or leaves it alone |
| `ObjectsProofs!SharedInvAlways` | SharedInv | types, and: a key without a lifetime is not mortal in Redis |
| `ObjectsProofs!SharedImplementsCaches` | the refinement ImplementsCaches | PrefixesApart makes a change of one Redis key a change of one key of one map; SharedInv makes every expiry a Vanish |
| `ObjectsProofs!EveryProbeCountedAlways` | EveryProbeCounted | `CountInv` adds that the body of the loop is entered with `i < ProbeCount` |
| `ObjectsProofs!ProbeTypeCorrect`, `MetricFitsAlways` | ProbeTypeOK, MetricFits | `ProbeInv` = CountInv, types, MetricFits; by induction on the length of a sequence (NatSetInduction) its sum lies between multiples of its bounds (SumBounds) and it has a least and a greatest element (Extremes), so that the rounded mean and the rounded mean difference are within bounds |
| `ObjectsProofs!DiscoTypeCorrect`, `InstanceLossExplainedAlways` | DiscoTypeOK, InstanceLossExplained | `DiscoInv`: FactoryInv, since every step of the server is one of the factory or none; a command with a client in hand has the one in the table, and the client of an instance is in the table unless its connection has deregistered the name |
| `ObjectsProofs!NacosTypeCorrect`, `ReadsBackAlways` | NacosTypeOK, ReadsBack | `NacosInv` (types, and the entry of an instance of ours is what RegisterParam makes of it); ComesBack: an int32 that is widened to a uint64 and cut again is itself (PortBack), and a printed number is read as itself |
| `ObjectsProofs!StreamInvAlways`, `StreamTypeCorrect`, `RoundTripAlways` | StreamTypeOK, RoundTrip, if every text is shorter than the values of two bytes (`TextsFit`; `stream_long_string` is what happens without it) | `StreamInv`: the items lie one behind the other in the buffer (`Laid`), each as its image, and the cursor is between two of them; a length whose text did not fit leads beyond the end.  CodecFacts: what is encoded in a width and byte order is decoded from it |
| `ObjectsProofs!ObjectsTypeCorrect` | ObjectsTypeOK of `MCObjects`, with TextsFit | the invariants of the parts together |

`Name # {}`, `Service # {}`, `Stream # {}`, `Keys # {}` and `ConnId # {}` are hypotheses where a
resting goroutine keeps an arbitrary key: without any key nothing can be called.

Only model-checked: liveness (StopReturns, DueTaskRuns, LookupReturns, ShutdownReturns,
EverythingCloses, CloseReleases, ReconnectSettles, AllHandled, CleanerServes, RollsOver,
CancelEndsStream), which with fairness and ENABLED is out of the prover's reach.  What needs induction over
data (the sums of MetricFits) is proved with induction in the form of a set that contains 0 and
with each number its successor, which follows from the well-foundedness of the natural numbers.

## 5. Plan

1. Done: all modules above and the theorems of section 4; every safety property that a passing
   run checks is proved.
2. Left to model, if anything: ConnectWithTLS in ClientConn (reconnect forgets it); a
   composition of ClientConn with RpcLookup, in which a reconnect loses the requests under way
   (RpcLookup has that loss as Disconnect).
3. Left to prove: the safety halves of the liveness arguments (a measure that every fair step
   decreases), and Supervised of ClientConn for several Connects.
