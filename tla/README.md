# mongodb-core in TLA+

A formal model of the core driver in `src/lib`: TLA+ modules of its stateful
parts, TLC configurations that check them on small instances, and TLAPS proofs
of what matters most for instances of every size. `PROJECT.json` lists, for
every definition, the lines of source it stands for; every run with its
properties; a plausible bug (a "mutant") that breaks each property; and what
was found where code and documentation disagree.

    tlc -workers 2 -config MCPool.cfg MCPool.tla         # model-check
    tlapm SessionPoolProofs.tla                          # check the proofs

## 1. The system

mongodb-core is the lower half of the Node.js driver of MongoDB: it turns
commands into messages, keeps connections to servers, watches the servers of a
deployment and picks one for each operation. All of it is JavaScript on one
thread. What runs at the same time is *callbacks*: each runs to its end, and
between two of them anything else that is pending may run. Callbacks that are
called synchronously, from inside another function of the driver, are the
second source of interleaving: they may call back into an object whose method
is half done.

| component (source) | state | operations | interacts with |
|---|---|---|---|
| connection pool (`connection/pool.js`) | state, three lists of connections, queue of operations, reconnect loop, counters | `connect`, `write`, `_execute`, `destroy`, responses, connection failures, timers | connections (events, `workItems`), its server (events), callbacks of operations |
| connection (`connection/connection.js`) | socket, `workItems`, bytes of an unfinished message | `write`, `dataHandler`, `destroy`, error/timeout/close | pool |
| connect and handshake (`connection/connect.js`, `auth/`) | none that outlives the attempt | `connect`, `isMaster`, authentication | pool, sockets |
| client sessions and transactions (`sessions.js`, `transactions.js`) | server session, transaction state, pinned server, times | `startTransaction`, `commitTransaction`, `abortTransaction`, `endSession`, `withTransaction`, `applySession` | topology (selection, commands), server session pool |
| server session pool (`sessions.js`) | list of server sessions, their last use | `acquire`, `release`, `endAllPooledSessions` | client sessions, topology's timeout |
| unified topology (`sdam/topology.js`, `sdam/server.js`, `sdam/monitoring.js`) | servers, description, monitor timers, waiting selections, sessions | `connect`, `close`, `selectServer`, description updates, `monitorServer`, `command`, writes with one retry | pools, descriptions, sessions, cursors |
| topology description (`sdam/topology_description.js`, `sdam/server_description.js`) | type, set name, greatest set version and election id, servers | `update` | topology |
| server selection (`sdam/server_selectors.js`, `topologies/read_preference.js`) | none | selectors and reducers | topology |
| cursor (`cursor.js`) | cursor id, batch, flags, position, session | `next`, `getMore`, `kill`, `rewind`, `close` | topology or server, sessions |
| legacy replica set (`topologies/replset.js`, `replset_state.js`) | member lists by role, map of known hosts, election ids, intervals, reconnect loop | `connect`, `update`, `remove`, `pickServer`, pings, reconnects, `destroy`, operations | legacy servers |
| legacy mongos proxies (`topologies/mongos.js`) | three lists of proxies, monitors | `connect`, pings, reconnects, `destroy`, operations | legacy servers |
| legacy single server (`topologies/server.js`, `shared.js`) | its pool, `ismaster`, one timer | `connect`, `destroy`, `command`, monitoring | one pool |
| wire protocol, message encoding (`wireprotocol/`, `connection/commands.js`, `msg.js`) | none | build and parse messages | pools |
| connection strings, errors, logging, events (`uri_parser.js`, `error.js`, ...) | none | parsing, reporting | everything |

### What is hard, and what makes each part correct

* **Pool.** `_execute` walks the queue and calls callbacks on its way; those may
  write, connect or destroy. It returns at once while it already runs or while
  a connection is being opened, and somebody must call it later. A connection
  ends by any of five events in any order, with operations in flight, possibly
  after `destroy` has begun. Correct: each operation is answered once; none is
  lost or sent twice; a monitoring operation is alone on its connection; the
  pool keeps to its size; connections are in one list until their failure is
  handled; one reconnect loop at a time that does not die; `destroy` is final
  and comes to an end.
* **Sessions.** A retried write must have the number of the write, and no other
  write or transaction may; the transaction's state must agree with what the
  server was told; a commit that is repeated needs a majority; a sharded
  transaction stays on one mongos; `endSession` may come at any moment, and
  with it the server session goes to somebody else.
* **Server session pool.** One holder for each server session; no stale session
  handed out, though staleness is computed modulo an hour and the pool is
  trimmed only from one end.
* **Topology description.** Answers of several servers come in any order, some
  from a primary that has been deposed. Correct: one primary at most, the
  stale one never believed again, members exactly those the primary lists.
* **Topology.** Answers from servers that were removed; selections that are
  retried on every change and given up by a timer (called back once); a
  monitor that stops rescheduling itself; `close` while any of this goes on.
* **Cursor.** `next` while a `getMore` is under way, `kill` in the middle of
  one, limits, empty batches, `rewind` at any moment. Correct: the application
  reads the result in order, once, up to the limit; the server's cursor does not
  survive the client's; the session is ended once and not under a command.
* **Connection.** Messages split anywhere over chunks of the socket, among them
  in the middle of the size header; compressed ones come out late.
* **Connect and authentication.** Answers, timeouts and the end of the socket in
  any order during the handshake, and moments in which nobody listens. Correct:
  called back once, with a connection only when it is authenticated, and with no
  socket left open otherwise.
* **Legacy replica set.** A member moves between the lists of roles over many
  updates and must be in one of them; elections as above; one loop connects to
  what is not connected, and must not die. Reads go by tags, latency and
  staleness of lists that change under them.
* **Legacy mongos proxies.** Monitors wait until as many proxies have connected
  or failed as they found disconnected: one event lost or counted twice, and a
  proxy is never tried again.

`PROJECT.json` has each of these as a *hazard* at its line, with the properties
that guard against it, or why none does yet.

## 2. Plan

Most important behaviour first. Modules with proofs declare their parameters as
CONSTANTS with a named assumption and use no RECURSIVE operator.

1. `Pool`, `PoolProofs` — done.
2. `SessionLease` (abstract), `SessionPool`, `ClientSession`,
   `SessionPoolProofs` — done.
3. `TopologyDescription`: `update` for every type of server and topology, with
   deposed primaries. `Topology`: the description with its servers, monitors and
   waiting selections, composed with what a server hears of its pool;
   `TopologyProofs`, of both — done.
4. `MessageFraming`: `dataHandler` against a reference definition of framing,
   for every way to cut a few messages into chunks; `Handshake`, composed with
   it — done.
5. `CursorReader` (abstract), `Cursor` — done.
6. `ReplSetState`, `ReplSetSelection`, `ReplSet`; `Mongos`; `ServerSelection`
   with every mode of a read preference — done.
7. Operations of the legacy topologies: `executeWriteOperation` and `command` of
   both with their retry, `pickProxy`, disconnect handlers; the legacy `Server`
   over `Pool` (`connect` again while the pool's state is a `disconnected` that
   survived a reconnect).
8. Overlapping operations on a session, `withTransaction`, `topology.command`'s
   own retry.

Theorems: type correctness, requests, connections and `NeverUndone` of the pool;
the one-holder invariant of the server session pool and of the client sessions,
and the refinement of `SessionLease` by both; `ServerAgrees` and `CommandsSound` of
`ClientSession`; the description's invariants with `NewestPrimary`; all invariants
of `Topology`; those of `Cursor`, with the refinement of `CursorReader`; those of
`ReplSet` and `ElectionsOrdered`; `EveryByteCounts` and `AttemptSound` of a
connection; `TypeOK` and `ProxiesSound` of `Mongos` — done, see section 5. Next: `AttemptSound`
with split headers for the mechanisms that wait for each answer.

## 3. Modules

| module | stands for | checked by | proved in |
|---|---|---|---|
| `Pool` | `connection/pool.js`, life cycle of `connection.js` | `MCPool.cfg`, `MCPoolLiveness.cfg` | `PoolProofs` |
| `MessageFraming` | `dataHandler`, `processMessage` of `connection.js` | `MCHandshake.cfg` | `HandshakeProofs` |
| `Handshake` (extends `MessageFraming`) | `connection/connect.js`, the conversations of `auth/` | `MCHandshake.cfg` | `HandshakeProofs` |
| `SessionLease` | what `ServerSessionPool` promises (abstract) | as a property of the next two | `SessionPoolProofs`, `ClientSessionProofs` |
| `SessionPool` | `ServerSessionPool`, ageing | `MCSessionPool.cfg` | `SessionPoolProofs` |
| `ClientSession` | sessions, transactions, retryable writes | `MCClientSession.cfg` | `ClientSessionProofs` |
| `TopologyDescription` | `sdam/topology_description.js`, `sdam/server_description.js` | `MCTopologyDescription*.cfg` | `TopologyProofs` |
| `ServerSelection` (extends `TopologyDescription`) | `sdam/server_selectors.js`, `topologies/read_preference.js` | `MCTopology.cfg` | `TopologyProofs` |
| `Topology` (extends `ServerSelection`) | `sdam/topology.js`, `sdam/server.js`, `sdam/monitoring.js` | `MCTopology.cfg` | `TopologyProofs` |
| `CursorReader` | what a cursor promises to its reader (abstract) | as a property of the next | `CursorProofs` |
| `Cursor` | `cursor.js`, `wireprotocol/get_more.js`, `kill_cursors.js` | `MCCursor.cfg` | `CursorProofs` |
| `ReplSetState` | member lists of `topologies/replset_state.js` | `MCReplSet.cfg` | `ReplSetProofs` |
| `ReplSetSelection` (extends `ReplSetState`) | `pickServer` of the same file | `MCReplSet.cfg` | `ReplSetProofs` |
| `ReplSet` (extends `ReplSetSelection`) | `topologies/replset.js` | `MCReplSet.cfg`, `MCReplSetRecovery.cfg` | `ReplSetProofs` |
| `Mongos` | `topologies/mongos.js` | `MCMongos.cfg` | `MongosProofs` |

Components are composed where they call each other within one step: `Topology`
with the description and the selectors, `Handshake` with the parser of messages,
`ReplSet` with its lists and its choice of a server. Where they meet through
events or callbacks only, each sees the other as an environment that may do all
the other can: the pool is in `Topology`, `ReplSet` and `Mongos` as the state of a
server object; `SessionLease` stands for the session pool in `ClientSession`, and
is shown of both sides.

### Pool

One action is one callback, with everything it calls. The loop of `_execute` is
the exception: one *iteration* is an action, because it may call the callback
of an operation (an operation without response, a flushed monitoring
operation), and that callback may call `write`, `connect` or `destroy` before
the loop goes on. `phase` says where the loop is: `loop` (about to iterate),
`calling` (in a callback, loop goes on after it), `leaving` (in a callback, loop
ends after it); `Pool.executing` is `phase # "idle"`. Events and timers need a
quiet moment (`Quiet`): no callback running and no `process.nextTick` pending;
`ticks` counts those.

* `queue` is split in two: monitoring operations are unshifted to the front,
  the others pushed to the end, so `monq \o queue` is the code's array.
  `Kept`/`Flushed` are `flushMonitoringOperations`, which splices the array it
  walks and so removes every other element only.
* `sock[c]` is what a connection object is good for. A connection the pool has
  forgotten and whose socket is closed becomes `none`: its name is used again.
* `attempts` are connection attempts under way; `connecting` is
  `connectingConnections`, which the code keeps itself. An attempt is one step
  with either result: socket, handshake and authentication are inside it.
* `reconnectId` is `null`, `armed` (the timer will fire) or `spent` (it fired or
  was cleared, and the property is still set).
* Operations compressed with zlib are `serializing` between `write` and the
  queue.
* The round robin over connections is any choice among those it can reach
  (`Selectable`): which one it takes depends on a counter no property is about.

Left out: events and logging, BSON options, the payloads and authentication
contexts, `socketTimeout` values, an exception thrown by an operation's
callback, and the branch `pool.js:1185-1195`, which cannot be reached. `connect`
is called once, as every server of the driver does. End callbacks of sockets
are assumed to be delivered.

### SessionLease, SessionPool

`SessionLease` says where each server session may go: from not yet made or the
pool to *one* client session; back, or away for good; pooled ones may go away
at any time; a new one is made only when the pool is emptied in the same step.
`SessionPool` is the code: the array, shifted by `acquire` and trimmed by
`release`, `lastUse` as an `age` in half minutes (`hasTimedOut` rounds to
minutes, so half minutes is the finest difference it makes), and the timeout as
the topology reports it, `0` standing for null (`null - 1` is `-1`: everything
is stale). `Place` maps the one to the other.

### ClientSession

`status` is `new`, `live`, `ending` (inside `endSession`, before `release`) and
`ended`. A session has two slots for requests: the client's `call` and the
abort sent by `endSession`. A request is `ready` when `selectServer` calls back
synchronously, `selecting` when it waits, `sent` when it is with a server. What
runs synchronously does so before anything else: `Still` holds when nothing is
half done, and everything that starts a callback asks for it.

`sent[l][n]` is history: what a server saw of the number `n` of server session
`l`: writes, first commands of a transaction, commits without majority, which
ends. `visited`/`upset` are the mongos a transaction's commands reached until one
of them failed. `thrown` is an exception nobody catches; Node ends the process,
so nothing is enabled after it.

`Refused` is a server without usable pool, or `applySession` refusing a read
preference: nothing is sent, but the number may have been taken. `Outcomes` are
the classes of answers the code tells apart: `network` (retryable and
transient), `notMaster` (retryable), `transient` (labelled only),
`writeConcern`, `other`.

Assumed: servers speak wire version 6 or later and support retryable writes;
the client waits for the answer of a call on a session before the next call on
it, except that `endSession` may come at any time, because `Topology.close` calls
it for every session (`sdam/topology.js:252-255`). A write is made by
`executeWriteOperation`; the retry in `topology.command` is the same but decides
after selection, and is left for later. Left out: recovery tokens, cluster and
operation times, the loop of `withTransaction` (its calls, in any order, are in
the model). Which pooled server sessions are stale is any choice here;
`SessionPool` decides it.

### TopologyDescription

`description` is the object, replaced on every update; `servers` is a Map, here a
function with any domain. An isMaster response is what `parseServerType` and the
direct mappings make of it, a member of `ServerDescription`: type, set name, the
two ids, hosts (`allHosts`), whether `me` is another address, whether its wire
versions are supported. `UnknownServer` is a description without a response.
`update` is one operator per part, applied in the code's order, each to what the
part before it left. Ids that are absent are 0, as the code's `|| null` makes
them.

`OidsRead` is about `electionId.$oid` (`topology_description.js:276`): the tests'
responses are extended JSON and have it, an ObjectID does not. With `TRUE` the
model is what the tests exercise, with `FALSE` what runs against a server.

`believed` is history: ids of the primaries the topology believed.

Assumed of responses (`DescriptionAssumption`): members have a set name, others
have none, and an unknown server says nothing. Addresses are in lower case: the
code converts those of responses, not the seeds. Left out: round trip times,
tags, session timeouts, the common wire version, election ids' bytes.

### Topology

The module has the variables of `TopologyDescription` and four parts more:
`phase` (what the client did with the topology), `server` (the Server objects and
their monitors), the selections, and how often each was called back. An action
is one callback with everything it calls: `ServerUpdate` is
`serverUpdateHandler` with `updateServers` and, through the event
`topologyDescriptionChanged`, every waiting selection.

* A server's `link` is what it knows of its pool: `opening` until the first
  connection is there or its only attempt failed (`failed`; the pool's
  reconnect loop starts only after a first connection), `connected`, or
  `disconnected` after a parse error. `dead` is that the pool destroyed itself
  (`pool.js:250-256`, or all reconnects failed). `check`, `timer` and `poked`
  are `s.monitoring` with the stage of the check, `monitorId`, and the timers
  that `retrySelection` sets; several of these do what one does, as `monitor`
  is a no-op during a check.
* `check = "lost"` is a check whose operation was in flight on a pool that was
  destroyed by force: its callback is never called (section 6).
* A selection is in `listening` and `timing` while it waits: both are left when
  it is called back. Selecting again keeps the same place: the timer is set to
  what is left of the time.
* `destroyServer` and `close` remove the listeners of a server, so that what a
  removed server still does reaches nobody: it has no state.

Assumed: the client calls `connect` first and selects no server after `close`,
and listens to `error` (an unsupported server would otherwise throw). When
several selections wait, a callback of one that calls `selectServer` finds the
description as the others do, so it may as well do so afterwards. Left out: cluster times, `command` and the
operations (writes and their retry are in `ClientSession`), selection before
`connect`, session bookkeeping.

### ServerSelection

The selectors as functions of a description. A selection's `Preference` is a mode,
a list of tag sets (none, or sets in order of preference) and a staleness; `writable`
stands for `writableServerSelector`. `MaxStalenessReducer`, `TagSetReducer` and the
split by type are applied in the code's order, since each sees what the one
before it left. `Wanted` is the reference the selectors are checked against: the
servers that fit a preference, whatever the order. The latency window keeps every
candidate: no round trip time is ever measured (`monitoring.js:178` passes none).
`Tags` and `Age` belong to an address and do not change.

### CursorReader, Cursor

`CursorReader` is a reader's view: a result of so many documents, a limit, what
was read, and whether the cursor is being read, over, killed or misused.
`Cursor` is the code. A document is its place in the result, so that a batch is
its first document and its size, and what the application read can be compared
with the result itself. `cursor` is `cursorState`; `requests` are the selection,
the commands under way and the calls held by a disconnect handler; `next`'s
recursion through `initializeCursor`, `getMore` and the batch is the operator
`NextFunction`, which returns the state, the requests and the answers.
The server keeps cursors (`position`), may forget one (`CursorTimedOut`), and a
command may fail before it acts; that an *answer* is lost after the server acted
is `LostAnswers`, off in the run (section 6).

Two calls of `next` that overlap, or a `rewind` during one, are `misused`: the
code keeps one cursor state for them and promises nothing, so `CursorReader`
allows anything afterwards. Left out: streams, transforms, the waiting of a
tailable cursor beyond its retries, and the wire versions without commands.

### MessageFraming, Handshake

A byte is named by its place in the stream, so that a property can tell which
bytes a message was made of. `Receive` takes a chunk of any length; one turn of
`dataHandler`'s loop is one action. A message is plain, compressed, corrupt (its
decompression fails) or states a length that is too small or too large.
`SplitHeaders` is whether a chunk may end in a size header that an earlier chunk
began; off in the run (section 6).

`Handshake` is one attempt to connect. `attempt.todo` are the steps left: isMaster,
then those of the mechanism, which are commands and the client's own work. What
tells mechanisms apart is kept: `checked` commands end the conversation when
refused, `unchecked` ones leave it to `AuthProvider.auth`, which reads the last
answer; the first command of MONGODB-CR is `careless`, it goes on whatever comes.
`connect.js` listens to the connection only while a command is under way. While
the client works (random bytes, Kerberos) nobody does: an end or a timeout of the
socket is missed, and an error is thrown for lack of a listener. `Hears` is what
a message or a parse error means to the attempt, in the step that emits it.

Answers of the handshake come only to commands that were sent, also late ones.
Assumed: `socketTimeout` is not 0, answers to plain requests are not compressed,
and the credentials' mechanism, if known, is any. After the attempt the connection
is the pool's, and the messages of other requests follow. Left out: socket and TLS
options, the handshake document, cryptography, `reauthenticate` and `logout`.

### ReplSetState, ReplSetSelection, ReplSet

A server object is a host and a number: a host may have several objects, one
listed and others being connected or already dropped. `ReplSetState` has the
lists (`primary`, `secondaries`, `arbiters`, `passives`, `unknownServers`), the map
`set` of hosts and their types, and `update` and `remove` as functions of these and
of an answer; each operator of `update` is one of its branches, in order.
Set versions and election ids that are absent are 0; `Less` is JavaScript's `<`.

`ReplSetSelection` is `pickServer`: the members it may return; which of them in
turn is a counter no property is about. Latency and staleness belong to a host.

`ReplSet` is one record `top`: a handler is an operator that takes it as it is and
gives it as the handler leaves it. `Interval(h)` is one timer of
`monitorServer` with `pingServer`; `pings` are on their way; `loop` is
`topologyMonitor`'s loop of reconnects, a batch of which is counted down in
`BatchDone`. Members are elected, step down, crash, come back, have other roles or
another set (`role`, `term`). Sweeps of the first monitors run in
`Sweep`. Objects nobody refers to are freed and their names used again.
`OperationFails` is the handler of a failed operation, which removes the primary by
force. Left out: `unref`, cursors, the retry of a write, events other than
`connect`, cluster times.

### Mongos

The same style: the topology is one record (`Proxies`) that a handler takes as it is
and leaves as `Becomes` says. A server object has a pool and the handlers its events
have now (`initial`, `reconnect`, `stable`); objects are in three lists. `loops` are
monitors: more than one may run, as the code starts one with each initial event that
finds no seed connecting, and a seed that is no mongos has its `close` handler left
when all seeds have been tried; a monitor pings, then renews each disconnected
proxy and waits for `count` of them. `MaxLoops` bounds how many run (`Spare`, a guard
of the initial events), `Copies` the objects of a host, in the seed list and later.
`connecting` is a sequence, since a loop that splices the list it walks skips an
entry: two seeds of one name side by side are removed one at a time (`Spliced`). The
other lists never hold two entries of a name side by side, and are sets. Left out:
the choice of a proxy, operations, `unref`.

## 4. Runs

| run | instance | shows |
|---|---|---|
| `pool` | 3 connection objects, size 2, minSize 1, 4 operations (one monitoring, one compressed and without response), 1 reconnect try; 1.1 million states | `TypeOK`, `AnsweredOnce`, `RequestsKept`, `ConnectionsSound`; `NeverUndone` |
| `pool_liveness` | 2 connections, size 1, 1 ordinary and 2 monitoring operations; 19 thousand states | `InFlightAnswered`, `DestroyFinishes`, `RecoversOrGivesUp` |
| `connection` | 4 messages of 2 sizes, after an attempt without credentials or with PLAIN, MONGODB-CR, SCRAM or GSSAPI; 470 thousand states | `EveryByteCounts`, `AttemptSound`; `AttemptEnds` |
| `session_pool` | 2 client sessions, 3 server sessions, timeout 30 minutes or null, ages to an hour; 3.5 thousand states | `PoolOK`, `AcquiredWithinTheHour`, `LeaseSpec` |
| `client_session` | 2 client sessions sharing 1 server session, 2 mongos, 2 transaction numbers; 176 thousand states | `TypeOK`, `ServerAgrees`, `CommandsSound`; `LeaseSpec`, `CallsEnd` |
| `description` | 3 addresses, 2 set names, ids up to 2, 13 responses, ids read; 6 thousand states | `DescriptionTypeOK`, `DescriptionSound`, `NewestPrimary` |
| `topology` | 2 addresses, 8 responses (two primaries with different members, one too old, a secondary, one that moved, a mongos, a standalone), a write and a read by tags and staleness that wait; 70 thousand states | `TypeOK`, `ServersSound`, `SelectionsSound`; `SelectionEnds` |
| `cursor` | results of 0 or 3 documents, no limit or 1, batches of 2, 2 cursors on the server; 389 thousand states | `TypeOK`, `CommandsSound`; `KilledOnServer`, `ReaderSpec`, `NextAnswered` |
| `replset` | 2 members, 1 seed, 2 objects per member, 2 elections, 1 fault, set names, arbiters, passives and ghosts, 25 read preferences; 1.0 million states | `TypeOK`, `ListsAgree`, `KeepsTrying`, `PicksWanted`; `ElectionsOrdered` |
| `replset_recovery` | the same with crashes and elections only, fair; 152 thousand states | `FindsPrimary` |
| `mongos` | 2 hosts, one of which may be no mongos, seed lists with and without a duplicate, 2 monitors, 1 fault; 159 thousand states | `TypeOK`, `ProxiesSound`; `FindsProxies` |

Properties whose name ends in `Sound`, `RequestsKept` and `NeverUndone` are
conjunctions of named parts, each with a comment of its own where it is defined:

* `RequestsKept`: a request is in one place (`OnePlace`), none is forgotten
  (`NoneForgotten`), a monitoring operation is alone (`MonitoringAlone`), and a pool
  is let go only when drained (`DrainedWhenDestroyed`).
* Pool's `ConnectionsSound`: `InUseNotLeaked`, `ListsSound`, `ConnectingCounted`,
  `SizeBound`. `NeverUndone`: `DestroyedForGood`, `NeverRequeued`.
* ClientSession's `ServerAgrees`: `NumberUsedOnce`, `StateMatchesServer`; its
  `CommandsSound`: `MajorityOnRetry`, `PinnedTogether`, `ExceptionOnlyWhenEnded`.
* `DescriptionSound`: `TypeFits`, `MembersOfPrimary`, `OneSet`. `ServersSound`:
  `ServersMatch`, `OneMonitor`, `WatchedWhileWaiting`. `SelectionsSound`:
  `NoMissedServer`, `AnsweredOnce`.
* Cursor's `CommandsSound`: `BatchFitsLimit`, `SessionHeld`. `ProxiesSound`:
  `NoneLost`, `MonitorsCount`.

One run refutes what a comment says: `description_stale`. "this primary is stale,
we must remove it" (`topology_description.js:281`), but without `$oid` (real
ObjectIDs) nothing is compared: a late answer of the old primary makes it the
primary again. The other disagreements that were met are in section 6.

**Why these bounds are enough.** *Pool:* size 2 with a third connection object
lets a connection fail, linger and be replaced while another works; one
operation of each kind and a second ordinary one give every pair that can meet
in the queue or on a connection; one reconnect try gives both the retry and its
exhaustion; `MaxTimers = 1` merges re-execute timers, each of which does the
same. Connections are interchangeable (symmetry; not used with liveness).
*SessionPool:* three server sessions make a pool with a first, a middle and a
last one; the lapses 29, 29.5 and 31 minutes reach both sides of the limit and
of the hour; older sessions repeat the same hours. *ClientSession:* two client
sessions in turn on one server session are what is needed to confuse numbers;
two numbers give a transaction and its successor, or a write; two holders at
once are excluded in `SessionPool`, by the run and by proof.
*TopologyDescription:* three addresses allow a primary, an older one and a
member only one of them lists; two ids of each kind give every order of a
reconfiguration and an election; what is proved holds for all. *Topology:* two
servers, so that one is added or removed while the other answers; two
selections of different kinds, one of which may be done while the other waits; of
the tag sets of the read the first is of one server, the second of any.
*Connection:* messages of 5 and 9 bytes are one with a header and one byte, and
one longer than two headers, so that a chunk ends before, in and after a header,
and a stub with a chunk makes one message or more; four messages are isMaster and
three of a conversation, or three of other requests. Of the malformed messages
only the first matters, and those after it are taken to be of one kind; answers
of the handshake have the larger size.
*Cursor:* three documents in batches of two are a full batch and a rest; a limit
below the batch cuts it; two server cursors are one and that of a rewind.
*ReplSet:* two members are a primary and one that takes over; two elections give
an old and a new answer; two objects of a host are one that is listed and one
that reconnects or lingers. *Mongos:* two hosts, one of which may not be a proxy;
two monitors are what one close adds to the first. Larger instances of the legacy
topologies were not explored to the end. Counters without
bound in the code (`txnNumber`, ages, terms, monitors) are capped in guards by
`MaxNumber`, `MaxAge`, `MaxTerm` and `MaxLoops`; crashes, lost connections and
failed operations by `MaxFaults`; server objects by `Copies`, server cursors by
`MaxFinds`.

**Deadlock** is not checked: a pool that is destroyed, or a client that makes no
more calls, rightly stops.

**Fairness.** *Pool:* `WF(Loop \/ Tick)` — a running function goes on and
`nextTick` functions run. Timers, compressions and results wait for a quiet
moment, which the event loop gives again and again but which a callback may take
away for a while: strong fairness for `DrainTimer`, `RetryTimer`,
`AttemptReconnect`, `Serialized`, for the end of attempts (`connectionTimeout`
bounds them, with any result) and for `ConnectionMovesOn` (`socketTimeout` bounds
a response; a broken or ended socket closes). Nothing is assumed of the client,
nor that an attempt succeeds or an operation is answered by its server.
*ClientSession:* what runs synchronously goes on (weak); a request's next step
comes (strong, since other callbacks come between): selection has a timer and
`Pool` shows that what is in flight is answered. Nothing makes the client act.
*Topology:* `WF(TimesOut)` — Node fires timers, whatever servers do; nothing is
assumed of servers, pools or monitors. *Handshake:* `WF(Parses)`, `WF(OpenFails)`
(`connectionTimeout`, a real possibility while a socket opens), `WF(TimesOut)` on
open sockets, and that the client's work ends. *Cursor:* `WF(Step(c))` — a
command is answered or fails (what `Pool` shows, with its timeouts), a held call is
run or flushed; `SF` that a selection ends, which disconnects may delay. *ReplSet:*
weak for the first sweep, seeds and `destroy`'s answer; for the reconnect timer and
the end of attempts; for the close of connections to members that do not answer;
and for each host's interval and ping together. *Mongos:* weak for each monitor's
timer, its pings and its reconnects, for the end of each attempt, the close of
connections to a host that is down, and the draining of a destroyed server. In all
of these nothing makes a client, an election or a crash happen, and none of the
properties assumes that a member recovers.

## 5. Proofs

Every theorem holds for all values of the constants that meet the named assumption
of its module (`PoolAssumption`, `CursorAssumption`, ...); six have a hypothesis
more, whose reason is given below. The runs of section 4 check the same properties on
small instances.

**Pool.** `PoolProofs.TypeCorrect`: `TypeOK` is inductive.
`PoolProofs.AnsweredAtMostOnce`: `Spec => [](AnsweredOnce /\ OnePlace)`. Neither
is inductive alone: a second answer is excluded because an operation that is
queued, compressed or in flight has not been answered *and* is in one place
only, and because only written operations are in any. `OpsInv` joins these.
The argument: every action's effect on operations is one of a few (`Effect`,
`EffectOnPending`): it moves some, answers some that were pending, adds one
that was not written before.

The same module goes on from there:

* `ConnectionsCorrect`: `ConnectionsSound`. To its parts `ConnsInv` adds `Draining`:
  `checkStatus` waits for its timer or has ended every connection of the pool,
  never both, and a destroyed pool holds none. `SizeBound` is kept by `SizeInv`, which
  says when attempts may be under way (`Growth`): until the first connection
  joins its attempt is the only one, later there is one of `_execute` at a time,
  or those for `minSize`, and one of the reconnect loop. What is bounded is the
  number of open connections and attempts together (`SizeBoundOpen`).
* `RequestsCorrect`: `RequestsKept`, from `RequestsInv`: `OpsInv` (where an operation
  is) and `ConnsInv`, with three facts that join them: operations are in flight
  only on connections whose end will be heard of (`WorkOnLive`), what was written
  and not answered is pending (`NoneLost`), and once the last sockets are ended
  only what was being compressed can still enter the queue (`LateQueue`).
* `NothingUndone`: the action property `NeverUndone`, from `TypeOK` and `OpsInv`.

**Sessions.** `SessionPoolProofs.PoolCorrect`: `PoolOK` is inductive; the work is in
three lemmas about injective sequences that lose a prefix, lose a suffix or gain a
new first element. `AcquiredInTime`: the action property `AcquiredWithinTheHour`, from
`PoolOK` and the arithmetic of `hasTimedOut`, exact within the hour
(`NotTimedOutIs`). `SessionPoolProofs.LeaseImplemented`: `Spec => LeaseSpec`, the
refinement of `SessionLease`: initial states map to initial states
(`InitImplements`) and each step, from a state with `PoolOK`, to a step or a stutter
(`StepImplements`). `Places` reads `Place` off the holders and the pool, `OthersStay`
follows the sessions a step does not mention, `MoveIs` puts them together.

`ClientSessionProofs`: `Invariance` (`Inv`), and from it `TypeCorrect`,
`ServerAgreesAlways` and `CommandsCorrect`. None of the three is inductive: whether
a command repeats a number or agrees with the server depends on how the session's
status, its transaction, its call and the abort of `endSession` combine.
`SessionInv` lists the combinations that are reached (`RequestsFit`, `CallFits`), what
the server then knows of the number (`NumberFits`) and which mongos were asked
(`PinFits`); `NumbersInv` says that numbers above the current one are unused and that
a commit without majority was sent once; `LeaseInv` that two sessions never share a
server session, without which a step of one could break the numbers of the
other. Each action changes one session, and `Untouched` carries the others over.
`LeaseImplemented`: the refinement of `SessionLease`, from `LeaseInv`.

**Description.** `TopologyProofs`: `TypeCorrect`, that every update leaves
a description; `TypeFitsCorrect`, `MembersOfPrimaryCorrect` and `OneSetCorrect`, those
invariants under `DescriptionSpec`, and `SoundCorrect`, the three together as the run
checks them. `Fits` is the inductive invariant: `TypeFits` with the members of the
primary, since which servers an old primary may leave behind decides whether the
next update can find two. Inside `update` neither holds: the answer is put in
first. `OthersFit` and `OthersNamed` say what holds of all servers but the one that
answered, and each part of `update` has a lemma that takes it to the invariant; a
primary in a set without one goes through two of them.

`NewestPrimaryCorrect`: `NewestPrimary`, under the hypothesis `OidsRead`. Without it the
run `description_stale` refutes the property, so the hypothesis is what the code
needs, not the proof. `NewestInv` ties the maxima that `update` keeps (`maxElectionId`,
`maxSetVersion`) to what was believed: they are the newest of it (`Seen`), and no
primary in the description is older (`AllNewest`).

**Topology.** `DescriptionImplemented` of the same module: `Spec => DescriptionSpec`, so that
all of the above holds of the topology's description. `TopologyInvariance`:
`DescriptionTypeOK /\ TopologyInv`, from which `StatesCorrect` (`TypeOK`),
`ServersCorrect` (`ServersSound`) and `SelectionsAnswered` follow. `TopologyInv` joins
the servers and their monitors with the selections, because
`WatchedWhileWaiting` can only be kept where a server that is added gets its monitor
and a selection that fails to choose hurries the ones there are. Two lemmas about
`update` are needed beyond its type: no update makes a server known but the one
that answered (`UpdateKnown`), and what a selection could not choose before it
cannot choose from a description with less known.

`SelectionsCorrect`: `SelectionsSound`, under `OneTagSet`, each preference having one
tag set at most. `NoMissedServer` is about servers that fit; with several tag sets
`tagSetReducer` takes the first that *any* server has, of whatever type or
latency, and a server that fits a later one may be passed over. The hypothesis
is about the preferences that applications give; in the run `topology` the read
has two tag sets, of which the second fits every server. Without the hypothesis
`SelectionsAnswered` still holds: a selection waits only while its own selector
finds nothing, and is answered once.

**Cursor.** `CursorProofs.CursorInvariance`, and from it `CursorTypeCorrect`,
`CommandsCorrect` (`CommandsSound`) and `KillsSent` (the action property
`KilledOnServer`). `CursorInv` is stated of a *state of the cursor*, not of the
variables, since `next` changes it several times within one step (`_next` calls
itself): `Good` of a state between steps, `Ready` of one in which an answer has just
been handled. It has three layers: types; `Ordered`, while the application does not
overlap its calls (`misused`), which says that the documents read are counted, that
at most one request is awaited, and which requests may be under way in each
state; and `DataFits`, while no answer was lost, which says that the documents read,
the buffer and the batch that is on its way follow each other and the server goes
on behind them.

`ReadingImplemented`: `Spec => ReaderSpec`, the refinement of `CursorReader`, under
`~LostAnswers`. When the connection fails after the server has acted on a `getMore`,
the one that the next call sends gets the batch *after* it (section 6), and the
reader of the abstract specification never skips. The run `cursor` has no lost
answers either; the other theorems of this module hold with them.

**Legacy replica set.** `ReplSetProofs.ReplSetInvariance`, and from it `TypeCorrect`,
`ListsCorrect` (`ListsAgree`) and `PicksCorrect` (`PicksWanted`). `Sound` is stated of a
state of the lists, since handlers update them several times in a step. It adds to
`ListsAgree` what the branches of `update` rely on (`Placed`): members are listed under
the name they answer under, arbiters are never elected, a set with a primary has
its name; `RolesOK` says what a member can have become meanwhile, on which these
depend. One lemma per branch of `update` takes a `Sound` state to a `Sound` one that is
`Later`, one per operator on the topology says that it `Keeps` the lists or that they
go on from one such state to the next (`Goes`), and one per handler composes them.

* `ElectionsKept`: the action property `ElectionsOrdered`, since every step `Goes`: no
  sequence of updates within a step loses the election that was heard of.
* `TriesForEver`: `KeepsTrying`, under `~SecondaryOnly`. `Tries` adds that `connect` is
  emitted only when the state leaves `connecting`, where it is once. With
  `secondaryOnlyConnectionAllowed` it is emitted again for each seed that joins while
  there is a secondary (`shouldTriggerConnect`), see section 6.
* `PicksCorrect` is a statement about `pickServer` on any lists of the right type.
  The latency window is never empty: the least latency is that of some
  candidate (`MinIs`, by well-foundedness of the numbers).

**Connection.** `HandshakeProofs.EveryByte`: `EveryByteCounts`, for any number and
sizes of messages and any way to cut them into chunks, under `~SplitHeaders`: with
split headers the code loses bytes (section 6). `FramingInv` says where the parser
stands. If *k* messages were cut out, the bytes it holds are those after the *k*-th,
up to the last one received, and it is `Between` two messages, `Inside` the next one,
of which it has `n` bytes in `buffer` and the right size, or `Stubbed`, with `n` bytes
of a header in `stub` and either nothing in `data` or enough to read the header
again. A step needs to know that the bytes it cuts out are those of a message
(`BytesAre`): no message is empty, and each begins where no other one does. `End`, the
recursive function that adds up sizes, is shown to be what its definition says
(`EndIs`) by induction over a set of numbers (`NatIn`).

`AttemptsSound`: `AttemptSound`, for all mechanisms, under the same hypothesis.
`AttemptInv` names the conversation and the step `i` the attempt is at: what is to be
done are the steps from `i` on, and as many commands were sent as there are among
the first `i`. That all of them were answered when the connection is handed over
would follow step by step if every command waited for its answer. MONGODB-CR's
first one does not, hence `HeardThrough`: the answer to a command comes behind those
to the earlier ones, none of which is compressed, so they were emitted too. That is
what the parser's invariant is for, and why both are one induction.

**Legacy mongos proxies.** `MongosProofs.Inductive`, and from it `TypeCorrect`
(`TypeOK`) and `ProxiesKept` (`ProxiesSound`), for any hosts, seed lists with
duplicates, and bounds. `Good` is stated of a state of the topology, and in two
layers, because `destroy` gives up part of it while callbacks still arrive:

* `Sound` holds to the end. An object that is free is in no list and has no
  handlers (`FreeFits`), one that connects is of one attempt only (`DialFits`), a
  monitor pings or renews only in the phase of it (`LoopFits`), no name is connected
  twice (`Alone`), and before `connect` there is nothing (`Untouched`).
* `Whole` holds while the topology works: a monitor that renews waits for exactly
  the proxies it has yet to replace and the new objects that dial (`Counts`); an
  object is in the list that its handlers say, and a connected one has a
  connection whose end will be heard of (`Settled`); and every mongos of the seed list
  is in a list (`Listed`).

None of this is inductive without the rest: that a count goes down by exactly one
needs that no object dials for two monitors and that an object never dials twice,
which needs to know where it is listed. There is one lemma for what a handler may
do to the monitors (`LoopsKeep`) and one for what it may do to lists and objects
(`ServersKeep`), then one for each operator and one for each action, which composes
them. `SplicedIs` says what the splicing loop leaves, by induction over a set of
numbers (`NatIn`): nothing that was not in the list, and every entry of another
name.

**Only model-checked.** The liveness properties (`CallsEnd`, `DestroyFinishes`,
`FindsProxies`, ...), which are beyond the prover. Every invariant and every action
property that a run checks, and the refinements of `SessionLease` and
`CursorReader`, are also proved. No module declares a RECURSIVE operator.

## 6. Observations

What the code does that its documents, comments or callers would not lead one to
expect, met while modelling. Where a property is stated so as to hold, it says
so at its definition.

**Pool**

* `destroy()` "will drain the reminder of the operation queue"
  (`docs/reference/content/driver/reference/pool/index.md:64`), but when the last
  connection is lost meanwhile no new one may be opened, and `checkStatus` polls for
  ever (`pool.js:741`); `DestroyFinishes` is about pools with only monitoring
  operations queued.
* `destroy(true)` says "Flush any remaining work items with an error"
  (`pool.js:694-695`), yet operations in flight are never answered: only the queue
  is flushed, and the listeners are gone. `NoneForgotten` exempts it. After too many
  timeouts the pool does this to itself (`pool.js:250-253`).
* `minSize = size`: the first connection does not count, one more than `size` is
  opened (`pool.js:595-598`); `SizeBound` is stated for `MinSize < Size`.
* After a reconnect `Pool.state` stays `disconnected` (`pool.js:296-342`), so that the
  legacy server's `connect` may be called again and would replace a working pool.
* `flushMonitoringOperations` leaves every other monitoring operation queued
  (`pool.js:1027-1037`); `DestroyFinishes` holds because it is called again.
* An operation that is being compressed when the pool is destroyed is queued in
  the destroyed pool and never answered (`pool.js:922-948`); see
  `DrainedWhenDestroyed`.
* What is written while a pool connects stays in the queue of the connected pool
  until another operation or message calls `_execute` (`pool.js:592`), though
  `docs/reference/content/driver/reference/pool/index.md:53` says the method is
  called.

**Connection, connect, authentication**

* A size header that comes in more than two chunks loses bytes: what follows a stub
  of up to four bytes is copied to a buffer nothing keeps (`connection.js:472-474`).
  `EveryByteCounts` does not hold with `SplitHeaders`.
* A message of exactly `maxBsonMessageSize` that is not all there is cut short
  (`connection.js:503-506`, `:556-565`), hence `FramingAssumption`.
* While SCRAM makes its nonce (`scram.js:235`) or Kerberos works, the connection has
  no listeners. If its socket closes or times out then, the next command is
  written to a socket of which nothing more is heard, and `connect` may never call
  back (`Deaf` in `Handshake`; the pool counts the attempt as under way); if the
  socket errs, the `error` event has no listener and is thrown.
* MONGODB-CR sends its second command although the first failed (`mongocr.js:21-46`),
  with the same effect when the connection is gone.
* After a handshake failed, `conn.destroy()` only ends the socket, and
  `runCommand` has removed its listeners: a later socket error is thrown
  (`connect.js:104-110`, `:317-322`).
* GSSAPI and SSPI hand over a connection after work during which it may have closed
  (`gssapi.js:224-230`); the pool finds out when it is to use it.

**Sessions**

* `hasTimedOut` computes the idle time modulo an hour (`sessions.js:533`): a session idle
  for exactly an hour has an idle time of 0, though stale ones are to be removed
  (`:567-571`); hence `AcquiredWithinTheHour`.
* `endSession` during a commit sends an abort of the same transaction, and the later
  answer is an illegal transition thrown from a callback (`sessions.js:121`), where
  `:410` says "Cannot call abortTransaction after calling commitTransaction"; hence
  `ExceptionOnlyWhenEnded`.
* A write with `retryWrites` on an ended session throws a TypeError
  (`sdam/topology.js:911`) where other operations get "Cannot use a session that
  has ended".
* A write after a commit that its server refuses takes a number and leaves the
  state committed: a repeated commit then names a transaction that was never
  started (`sdam/topology.js:909-916`, `sessions.js:424`).
* `release` "removes any stale sessions from the pool" (`sessions.js:591`), but
  stops at the first fresh one from the end.

**Unified topology and selection**

* A standalone at an address of a replica set stays in a `ReplicaSetNoPrimary`
  description, `Mongos` and `Unknown` are deleted instead
  (`topology_description.js:157-160`), while `non_rs_member.yml` of the SDAM tests has it
  gone.
* A topology of several seeds and no set name is `Unknown`; a seed that cannot be
  reached makes it `ReplicaSetNoPrimary` and is deleted
  (`topology_description.js:147`, `:157-160`, `:257-261`), and so is a member
  whose check fails while there is no primary.
* Set version and election id are compared with "or", not one after the other
  (`topology_description.js:280`): after a reconfiguration a newer primary with
  a smaller id is refused; `NewestPrimary` does not depend on it.
* When the first connection of a server fails it is never tried again: the
  server stays `STATE_CONNECTING`, on which `monitor` does nothing
  (`server.js:137`, `:186`).
* "there is always an active monitoring process" (`monitoring.js:120-121`), but
  after two failures the check is not rescheduled (`:207`); only a selection
  that waits revives it (`WatchedWhileWaiting`).
* A rescheduled check loses its options and goes on every 10 seconds, whatever
  `heartbeatFrequencyMS` is (`monitoring.js:127`, `:181`).
* A failed check ends all waiting selections with its error at once
  (`topology.js:762-764`), though `serverSelectionTimeoutMS` is how long
  selection blocks (`topology.js:80`).
* `close` leaves waiting selections to their timers (`topology.js:247-282`).
* The option `setName` or `rs_name` makes a replica set topology whose name is
  still the first one heard (`topology.js:122`, `:678`).
* Tag sets are chosen before servers are split by type: a tag set that only the
  primary has leaves read preference secondary without a server, though a later tag
  set is a secondary's. `NoMissedServer` is checked for a preference it holds of.
* A staleness in a topology without servers would throw (`server_selectors.js:61`, the
  reduction of an empty list).

**Cursor**

* `kill` before the answer of the first query never kills the server's cursor: there is
  no id yet, and the answer finds the cursor dead (`cursor.js:327`, where `:314` promises
  to kill it); `KilledOnServer` is about cursors with an id.
* A `getMore` whose answer is lost is sent again by the next call, and the server goes
  on with the next batch: a batch is skipped silently (`cursor.js:488`). `ReaderSpec`
  does not hold with `LostAnswers`.
* `kill` of a cursor made from an id, before its first `next`, sends nothing.
* `bufferedCount` is negative after `kill`; `next` after a failed first query may
  throw; a `rewind` goes on with its own session that was ended; `isConnectionDead`
  is never reached.

**Legacy replica set**

* `connect` may never be answered: a secondary that joined and loses its connection
  while other seeds connect is pushed to `connectingServers`, which nothing
  empties (`replset.js:703`).
* A listed primary that answers as a ghost leaves the lists without entering
  `unknownServers`: nobody connects to it again (`replset_state.js:311`). `FindsPrimary`
  is stated for crashes and elections.
* A retryable error of a command that was sent to a *secondary* removes the primary
  (`replset.js:1327-1329`). The removed object stays connected, listed nowhere and
  destroyed by nobody: every such failure leaks one, so `replset_recovery` has no
  operations.
* A write to be retried (`retryWrites`) with no primary and no disconnect handler calls
  a method of null (`replset.js:1143-1151`, `:1183`); with a primary, the retry goes to
  it at once, before an election can be heard of.
* A primary that steps down is destroyed while it is listed as a secondary: operations
  are sent to a destroyed server until its next ping.
* A secondary keeps its `staleness` when it is elected, so that `nearest` with
  `maxStalenessSeconds` may leave out the primary (`replset_state.js:693-711`).
* With `secondaryOnlyConnectionAllowed`, `connect` is emitted, and another monitoring loop
  started, for each seed that joins while there is a secondary
  (`replset.js:707-720`, `:778-790`): "connect" holds once only without the option,
  which is what `TriesForEver` assumes.
* `fullsetup` is not emitted by the sweep of the first monitors; `destroy` right after
  `connect`, and a reconnect in flight during a `destroy` without force, leave a
  server connected.
* Re-election of the same primary does not record the new election id; an old
  primary is not pushed to `unknownServers` until the next update; passives are
  listed twice; `filterByTags` returns a server once per tag set it fits.

**Legacy mongos proxies**

* `command` clones its options (`mongos.js:1066`) before it sets `willRetryWrite` on the
  caller's (`:1094-1097`): a retried write command carries no transaction number, the
  first time and the second, and may be applied twice.
* A seed that is not a mongos keeps its connection and its first handlers: it may
  become a proxy later, and its close starts a second monitor.
* `connect` is emitted by a first monitor without any proxy connected, while the state
  stays `connecting`; a duplicate host in the seed list returns early, and `connect`
  may never be emitted (`FindsProxies` exempts duplicates).
* Two monitors may connect two objects of one host; the one that is dropped stays
  open. A reconnect or a seed's timer that meets `destroy` leaves a server connected.

## 7. Not modelled

* **Legacy single server** (`topologies/server.js`, `shared.js`): event wiring around
  one pool; what its owners see of it is in the server objects of `ReplSet` and
  `Mongos`, and its effect on a pool is in `Pool`'s environment. Planned with the
  operations of the legacy topologies.
* **Operations of the legacy topologies**: of `ReplSet` the choice of a server and
  what a failure does to the lists are modelled, of `Mongos` neither is; retries and
  disconnect handlers are modelled in `ClientSession` and `Cursor` for the unified
  topology, and are planned for these.
* **`withTransaction`** beyond the calls it makes, overlapping calls on a session.
* **Message encoding, wire protocol**: byte layouts and the building of commands from
  options; pure data that no property tells apart. What of it has state, `getMore` and
  `killCursors`, is in `Cursor`.
* **Connection strings** (`uri_parser.js`): processing of strings and DNS lookups,
  beyond the reach of TLC at a useful size.
* **Cryptography** of the mechanisms, **errors, logging, monitoring events** and
  **utilities**: no protocol state.
