# osmoweb in TLA+

A formal model of [osmoweb](../src/README.md), the web front end, back end and
glue that lets a browser run a base station against an Osmocom core network. TLC
checks the modules on small instances; TLAPS proves the theorems of the
`*Proofs` modules for every value of the constants.

## The system

| Part | Code | State | Operations | Talks to |
|---|---|---|---|---|
| BTS manager | `backend-core/src/osmo/bts.manager.ts` | two maps (id to assignment, owner to id), known and free ids, ports in use | sync from the BSC's list, allocate or refresh, release, mark seen or disconnected, two clean-ups | called synchronously by the two parts below |
| BTS controller | `nestjs-microservice/src/osmo/controllers/bts.controller.ts` | none but the frames of its async handlers | `GET`, `PUT`, `DELETE` | BTS manager, BSC controller |
| Media bridge | `backend-core/src/osmorouter/controllers/media.controller.ts`, `osmoudp.client.ts` | a websocket, its BTS id, a UDP socket | named BTS, packets, close | BTS manager, media gateway |
| A-bis bridges | `backend-core/src/osmorouter/controllers/abis-*.ts`, `osmotcp.client.ts` | a websocket, a TCP socket, a buffer | connect, forward, close | browser transceiver, BSC |
| VTY client | `backend-core/src/osmoctrl/vty.client.ts` | connected, the pending command, a queue | exec, a line arrives, timer, close, error, connect | an Osmocom server's command line |
| BSC, HLR, MSC, MGW, STP controllers | `backend-core/src/osmoctrl/controllers` | the VTY session's node, on the server | sequences of VTY commands | VTY client |
| Transceiver manager | `frontend-core/src/osmo/osmoTrxManager.ts`, `osmoTrx.worker.ts` | promises by id; in the worker the module, the transceiver, the USB device | start, stop, open, close, requests | a browser worker, by messages |
| Transceiver worker | `frontend-core/src/osmo/osmoTrxWorker.ts`, `osmo.ts` | websockets, caches, the RSL messages held back | open and close websockets, data up and down | A-bis bridges, the WebAssembly BTS |
| Radio arithmetic | `core/src/radio` | none | channel to frequency and back, band tables | everybody |
| Configuration form | `vue3-components/src/components/BtsConfig.vue` | the form's fields, the page's configuration | select, submit, reset, new configuration | radio arithmetic |
| Statistics | `backend-core/src/osmostats`, `nestjs-microservice/src/osmo/stats` | an interval | collect, write | the controllers |
| Other Vue components, Docker, Grafana | `vue3-components`, `docker` | | | |

What is hard here:

* **Awaits.** Node and the browser run one callback at a time, so a handler is
  atomic up to its next `await`, and others run in between. `PUT` awaits twice
  and uses after each await what it read before it; the worker of the transceiver
  handles a second `START` while the first awaits; the media handler waits for its
  BTS to be named while it may be closed.
* **A shared session.** All requests of the service use one VTY connection,
  whose answers carry no identity and whose commands depend on the node the
  server is in.
* **Two things that arrive in either order.** RSL data and the stack's readiness
  for it, a websocket's close and the bind of its port, a worker's answer and
  its termination.
* **Failure in the middle.** A command is refused, a timer fires, a connection
  goes, a USB device is absent: what was done stays done.
* **Limits.** Ids and ports run out, and not together; ring buffers overwrite and
  caches throw when they are full; the channel ranges of the bands do not end on a
  channel.

What makes each part correct: the manager gives an owner one id and one port
that nobody else has, keeps them while they are in use and loses none; the
service never takes a BTS the BSC reports in use, never loses an assignment it
has answered with, and the BSC holds the configuration the manager has on
record; a UDP port is bound for the BTS it was leased to and given back; the
VTY client gives every caller its own answer and leaves nobody waiting;
concurrent configuration commands reach their own BTS; A-bis messages arrive
once and in order; every promise of the page is answered once; the form offers
one consistent channel, and a channel survives the way to a frequency and back.

`PROJECT.json` lists the hazards line by line, each with the properties that
would catch it.

## The modules

| Module | Models | Notes |
|---|---|---|
| `BtsLease` | abstract | what the manager promises: owners hold exclusive (id, port) pairs |
| `BtsManager` | BTS manager | one operator per method, from a state record to the next; one action per method |
| `BtsReuse` | BTS manager | with a history of the ids that were returned |
| `BtsService` | BTS controller, media bridge's calls, the BSC's table | turns composed of `BtsManager`'s operators |
| `MediaBridge` | media bridge and its UDP client | over `BtsManager` |
| `VtyClient` | VTY client, server, connection | |
| `BscSession` | `updateBts` of the BSC controller over one session | |
| `TrxManager` | transceiver manager and its worker's message handler | |
| `AbisBridge` | A-bis bridges, TCP client, websockets, BSC | |
| `TrxWorker` | the A-bis side of the browser's transceiver | composed with `AbisBridge` |
| `Radio` | channel arithmetic | tables and functions, no state |
| `BtsForm` | configuration form and its page | over `Radio` |
| `BtsManagerProofs` (with `BtsReuse`), `BtsServiceProofs`, `MediaBridgeProofs`, `VtyClientProofs`, `BscSessionProofs`, `TrxManagerProofs`, `TrxWorkerProofs` (with `AbisBridge`), `BtsFormProofs` (with `Radio`) | | lemmas and theorems about the module named |
| `MC...` | | instances for TLC |

State keeps the names the code gives it. How it corresponds, module by module:

* **`BtsManager`.** `mgr` is a record with the six fields of the class; a method
  does not await, so it is an operator on `mgr`, and another module can build a
  handler's turn of several calls, as the code does.
* **`BtsService`.** A `PUT` is a frame: `PutStart` (up to the first await),
  `ListRead` (the BSC is read), `PutListed` (the turn in which the list arrives),
  `BscWrites`, and `PutOk` or `PutFailed`. `live` in a frame says whether the
  record object the handler captured is still the one in the manager's map: a
  rollback writes into the captured object, which has no effect on the map when
  it is not.
* **`MediaBridge`.** A frame per websocket: the websocket, the BTS it named, the
  port, where `handle()` is, its UDP socket, and whether a packet waits. `Handle`
  sets the handlers, `Named`, `VoiceUp` and `OnClose` are the websocket's events,
  `Wake` the handler's timer of one second, `BindEnds`, `UdpError` and `VoiceDown`
  the UDP socket's, `Forward` the handler's loop. `ManagerCalled` is everything the rest
  of the service does to the manager meanwhile. `holding` is history.
* **`VtyClient`.** `Exec`, `OnLine`, `Timeout`, `Connect`, `Closed`, `ConnectError`
  and `UncaughtError` are the calls and callbacks of the class; `Drain` is `drainQueue`,
  a part of several of them. The socket's handler emits `error` again: during
  `connect()` somebody listens and the call rejects (`ConnectError`), at any other time
  Node throws and the process ends, with every promise it had (`UncaughtError`).
  `Respond` is the server.
* **`BscSession`.** A call of `updateBts` is a script of commands; each executes in
  the node the session is in. Which commands a node knows is not osmoweb's code:
  the model follows the comment in `osmobase.controller.ts` (51-53) for the view
  commands, and lets the BSC accept or refuse a configuration command of an
  enclosing node. The client takes the next answer for the pending command's,
  whoever's it is: a late answer begins with an echo, which counts as output. Only the
  lone prompt that is left when the timer fires in the middle of an answer is ignored
  by the next command, so `Timeout` may take it away.
* **`TrxManager`.** The page has `worker`, `promises` and the callers; each worker
  its globals `tw`, an inbox and an outbox, and in `running` the handlers that are
  awaiting, with the await they are at. `Call` is a method of the class, `Begin` a
  message's handler up to its first await, `Resume` from one await to the next,
  `Throws` the same when the awaited thing fails, `OnWorkerMessage` the page's
  handler. A promise is identified by the call it belongs to. `lost`, the requests
  nobody will answer any more, is history.
* **`AbisBridge`, `TrxWorker`.** A websocket is `<<link, n>>`, the n-th of OML or
  RSL, with a queue each way and, at the server, its TCP connection, the loop over
  `circularBuffer` and the data written before it is connected. The browser keeps
  which socket a link uses (`wses`), what the stack said and no packet has carried
  yet (`cache`), and the RSL messages that came before the stack connected
  (`held`). `held` and the bridge's `buffer` are rings of `RingSize` entries, in which a
  new entry overwrites the oldest of a full one (`Pushed`); a `cache` without room
  (`CacheSize`) makes `NetCache.push` throw, and the message is gone. `overrun`, which
  of them lost a message, is history. `OpenWs`/`OpenNext`/`OpenEnds` and `CloseWs`/`CloseNext` are the two
  async functions split at their awaits, and may overlap.
* **`Radio`, `BtsForm`.** The tables of the code, and its functions as operators on
  a band's record; a call that throws gives `Thrown`. In `BtsForm` an action is an
  event of the form with all the watchers it sets off.

### Abstractions

* Owner keys, configurations and requests are members of small sets. IPA unit
  ids, cell identities, addresses and creation times decide nothing and are left
  out.
* `lastSeen` is `idle`, the time since, which saturates just past the time to
  live, where the code stops telling instants apart.
* Lists of the BSC are functions from ids to states; they may leave rows out.
* In `BtsService` a write takes effect at once, and writes take effect and are
  answered in the order they began; `BscSession` is about their commands one by
  one.
* In `VtyClient` two requests have two texts, and lines are told apart by kind
  and request. `connect()` takes effect at once; that it may give up first matters to
  what an error does then, and `UncaughtError` allows for it.
* In `BscSession` the BSC echoes every command, and an answer comes in a chunk of its
  own. `band` stands for every command of the BTS node, `arfcn` for every one of the
  TRX and timeslot nodes.
* A `NetCache` has room for a number of messages, not of bytes.
* An input of `configureARFCN` without a band has `undefined`; the empty string, which
  the code takes for the same, is not used.
* A voice packet carries nothing: `MediaBridge` says whether one waits. An A-bis
  message is its number in its link and direction. The messages of one `NetCache`
  go out as one message, kept as its parts.
* Websockets and TCP deliver reliably and in order until they close or fail; what
  is on the way is lost then. UDP ports are bound once at a time.
* The page's log and meter messages carry no id and are left out; so is
  `channelBandwidth`, which is handed through.

## What the runs show

| Run | Instance | Shows |
|---|---|---|
| `manager` | 3 owners, 3 ids, 2 ports, 2 configurations, time to live 1 | `MapsInverse`, `PortsAccounted`, `IdsAccounted`, `TakesOnlyFreeIds`, `LiveAssignmentKept`, the refinement `ImplementsLease`, and `ReleasedIdKept`: only an allocation that finds no port takes a returned id out of reach |
| `reuse_few_ports` | 2 ports for 3 ids | **violated** `ReleasedIdReusable`: an allocation that fails for want of a port loses the id it took |
| `service` | 2 owners, 2 PUTs in flight, 2 configurations, ids and ports | no write into somebody else's record, no id the list reports in use, no confirmed assignment lost, and the lease still holds; the BSC has the owner and the configuration on record of everyone answered 200 whose later PUTs did not fail after the BSC executed them (`BscAgrees`) |
| `service_same_owner` | as above, both PUTs of one owner | **violated** `ConfirmedKept`: the rollback of one releases what the other was answered with |
| `media` | 2 owners, BTSs, ports and websockets | a bound port belongs to an open websocket (`NoPortLeak`) and to the BTS it named while that assignment lasts (`PortOfLease`); a websocket that named its BTS is not left waiting: it gets the port, or its socket is closed, because it closed, another still has the port, an error came or it talked too early (`NamedIsServed`) |
| `vty` | 3 requests of 0, 1 and 2 lines, 2 losses of the connection, errors with and without a listener | no request is left asleep in a connected client; one that was sent settles, and one in the queue does if the client keeps being connected (`EveryRequestSettles`); one sent on a quiet connection gets exactly its own output, echoed or not |
| `session` | 3 calls, 2 of them may be refused a command, 1 timer | while no timer fires, calls configure their own BTS, completely, and the session is back in the enable node when all is quiet, or still exactly where a call stopped that was refused a command (`SessionGivenBack`) |
| `session_timeout` | 4 calls, 2 timers | **violated** `WritesOwnBts`: two late answers shift all answers after them, the refusals that keep batches apart reach calls to which they mean nothing, and a call writes into another's BTS |
| `session_stuck` | 1 refusal | **violated** `FailsOnlyByItself`: the session stays in a configuration node and the next call fails |
| `trx_manager` | 3 calls of any method, 2 workers | a promise is kept exactly while its request is in one place, or lost (`PromisesAccounted`); a worker's transceiver is never replaced; whoever can be answered is (`CallersAnswered`) |
| `abis` | 2 sessions, overlapping or not, 2 messages, 1 failure or `closeWs`, rings and caches of 1 message | messages of a link arrive in order and once, and without gaps while nothing failed and no ring or cache was full (`UplinkConserved`, `DownlinkConserved`); RSL waits for the stack (`RslHeldBack`); nothing gets stuck (`MessagesArrive`) |
| `form` | every band, its edge channels and frequencies | the form always offers one consistent channel (`FormConsistent`) and shows a configuration it is given (`GivenShown`); a frequency is given the nearest channel of its band, which survives the way back |

The violated runs are disagreements between the code and what its comments,
tests or README say; `PROJECT.json` quotes the lines.

### Bounds

Three owners and ids are the least with which one owner's release makes a gap
below another's id while a third allocates; two ports fewer than ids make the
two pools run out separately. A list may name an id past the last valid one.
Time to live 1 has the three cases: fresh, within, past. The service needs two
owners and two frames for every pairwise race; a third adds no new kind of step. Two
configurations tell the one on record from the one the BSC has.
The same goes for two media websockets, which may name one BTS or two. The VTY
requests print nothing, one line and two, so that an empty, a whole and a
partial answer differ; two losses cover a reconnect that is itself lost. In
`session_timeout` it takes two late answers to bring two calls inside at once, and two
more calls to absorb the refusals: with one timer less or one call less `WritesOwnBts`
is not violated. Three
calls let two handlers of one worker await while a third message kills or closes
it; `trx_manager` has no `CLOSE_USB`, which takes the same steps as `CLOSE`. Two
sessions let a websocket be closed while its successor opens, and two messages
tell an order from its reverse. A ring or a cache of one message is full as soon as it
has anything, so the second message overruns it; how several wait in one is left to the
theorems, which hold for every size. In `form`, the user's own picks are among four
bands, two of which share channel numbers with different meaning, and four
channels. `MaxCloses`, `MaxRefused`, `MaxTimeouts`, `MaxWorkers`, `MaxOpens`,
`MaxMessages` and `MaxFaults` bound the environment, not the code.

### Fairness

* `VtySpec`: Node runs callbacks that are due (`OnLine`), the timer set by
  `drainQueue` fires unless cleared (`Timeout`). Nothing is assumed of the server, and
  nothing of callers: no code reconnects by itself, and a request in the queue has no
  timer before it is sent. So `EveryRequestSettles` says of a queued one only that it
  settles *if* the client is connected again and again.
* `MediaSpec`: a handler's timer fires and the operating system answers a bind
  (`Wake`, `BindEnds`). Nothing is assumed of browsers, owners or the gateway.
* `TrxManager`: the page's and the workers' event loops run (`OnWorkerMessage`,
  `Begin`), and an await ends somehow (`Resume` or `Throws`); the page need not
  call anything.
* `TrxWorker`: websockets, TCP and event loops deliver and the USB device streams
  (`Deliver`); nobody need open, close or say anything.

The other specifications assume none.

## What is proved

Every safety property of the passing runs, invariant or action property, and the
refinements, is a theorem for all values of the constants. The only assumptions
are the named ones on the constants (`BtsManagerAssumption`,
`BtsServiceAssumption`, `VtyClientAssumption`, `BscSessionAssumption`,
`TrxManagerAssumption`, `AbisBridgeAssumption`, `TrxWorkerAssumption`,
`FormAssumption`, `NoEmptyBand`; of the tables
`RadioTables`, `RadioRanges`, `RadioMarkers`), which TLC evaluates in the runs, and
`Overlapping = {}` in two theorems of the service, explained there.

**`BtsManagerProofs`**, for all owners, configurations, ids and ports:
`AlwaysConsistent`, that `Consistent(mgr)` is an invariant, the conjunction of
`IsState`, `InverseMaps`, `ExactPorts` and `ExactIds`. It is inductive as a whole
only: a release takes one id's port and key out of the books, which leaves the
others exact because no two assignments share a port (`ExactPorts`) and the key's
id is that id (`InverseMaps`); an allocation takes a fresh id because free ids
are not assigned and everything assigned or known is at most `highestKnownBtsId`
(`ExactIds`). Its parts (`TypeCorrect`, `MapsAlwaysInverse`,
`PortsAlwaysAccounted`, `IdsAlwaysAccounted`), the action properties
(`OnlyFreeIdsTaken`; `LiveAssignmentAlwaysKept`, by which no step that a list, a
clean-up, an allocation, a report or time explains ends a live assignment) and the refinement
(`ManagerImplementsLease`: every step drops leases, grants one that is free, or
leaves them alone) follow. The argument goes operator by operator, so its lemmas
serve the two modules that compose the operators. With the history of `BtsReuse`,
`ReleasedIdAlwaysKept`: `NoIdLost` says of one call that what stops being assigned
is free and what was free is free or assigned, unless every port is taken; the one
call that breaks it is an allocation that fails, and it fails with a free id only
for want of a port, because the lowest free id is always in range.

**`BtsServiceProofs`**: `ServiceAlwaysSound`, that the books stay consistent and
every frame knows what it has in hand (`Sound`). Books and frames need each other:
the rollback of a failed `PUT` keeps the books consistent only when the record it
writes into is still the one in the map, or not in it at all, and that is known of
a frame only as long as releases and allocations treat ids as `Consistent` says.
`LiveRecordAlwaysOwners` is that no handler writes into somebody else's record
across its await; `ServiceImplementsLease` is the refinement for turns that call
the manager several times; `NewIdNeverReportedInUse`, that the synchronisation with
the awaited list decides what the allocation of the same turn may take, however
stale the books were. `Booked` adds the queue of writes to `Sound` (every writing
frame is in it once) and gives `ServiceTypeCorrect`.

What the BSC holds is the subject of `Settled`, one statement per owner: it has at
most one `PUT` in flight (`Orderly`: while that waits for the list the owner has no
assignment; while it writes, the record in hand has the configuration being written
and older writes to the same BTS are before it in the queue; once written, the BSC
has it; while the owner is confirmed and the write not executed, the BSC has what a
rollback would put back on record), and a confirmed owner with none in flight has in
the BSC what is on record (`Settles`). Confirmed is who was answered 200 and has had no
`PUT` fail since after the BSC executed it: then the rollback puts the old
configuration on record, nothing writes it to the BSC, and the two do differ until the
next `PUT`. The older writes are the point: a write whose owner was released meanwhile still takes
effect on a BTS that is another's by then, and it is the order of the queue that
makes the new owner's write the last. `OwnersAlwaysSettled` proves it for every
owner whose requests do not overlap, whatever the others do. `BscAlwaysAgrees` and
`ConfirmedAlwaysKept` are about all owners and therefore assume
`Overlapping = {}`, as the `service` run does: with an owner whose requests overlap
`ConfirmedKept` is false, as `service_same_owner` shows.

**`MediaBridgeProofs`**: `MediaInv`, the manager's `Consistent` with
`FramesSound` (what a frame's fields can be together), `PortsApart` (no two bound
sockets share a port) and `LeasesHeld` (what `holding` says is so). Its
consequences are `MediaTypeCorrect`, `PortNeverLeaks` and `PortAlwaysOfLease`. The
last needs the manager's lemmas: an assignment that lasts keeps its port.

**`VtyClientProofs`**: `VtyInv` says that the unsettled promises are exactly the
pending request and the queue, in which no request is twice, and that a connected
client with a queue has something pending. From it `VtyTypeCorrect` and
`QueueNeverSleeps`. `CleanInv` says of a request sent on a quiet connection what is
still to come: its command is unread behind empty ones, or its answer is on its way
behind prompts, whole, with the echo or without, or it came and was only a prompt,
or its first lines were collected and exactly the others are on their way. The
connection is then up, so nothing else can be put there. From it
`AnswerAlwaysClean`: when the prompt arrives the lines collected are the output, and
the filter, which looks for the echo, takes nothing from it.

**`BscSessionProofs`**: `SessionSound`, for any number of calls. `Books` is what
holds even when timers fire: who is in the queue, at which command, and where the
server can be. While none has fired (`InTime`) at most one command or answer is in
flight and it is the pending call's (`OneInFlight`), so the client knows how far
the server is; at most one call is past its `configure terminal` (`OneInside`), the
server's node is the one that call's script has led it to (`NodeOfInsider`), and
nobody inside means the enable node or the one where a refused call stopped
(`NodeGivenBack`). Hence `AlwaysWritesOwnBtsInTime`, `DoneAlwaysComplete` and
`SessionAlwaysGivenBack`, besides `SessionTypeCorrect`. All three are about the time
before any timer fires, as the properties are: `session_timeout` shows what happens
after. What a refusal leaves behind is part of `SessionGivenBack`, and `session_stuck`
shows what that does to the next call.

**`TrxManagerProofs`**: `TrxInv`, that the ids in the inboxes, the handlers, the
outboxes and `lost` are disjoint, none twice, and together the promise table
(`Exact`, `NoneTwice`), and that nothing is asked of a worker not yet created
(`Unborn`) or for a call not yet made (`Unasked`). A step moves one id from one
spot to another, adds a new one, or takes an answered one away; a few lemmas on
`Exact` say so once. From it `TrxTypeCorrect`, `PromisesAlwaysAccounted`, and
`TransceiverAlwaysKept`, as the two `START`s that may await at once both look
before they create.

**`TrxWorkerProofs`**: `WorkerInv`, the shapes of the worker's and the bridges'
fields with `Numbered`: sockets are made in order, so the one `openWs` makes is
nobody's yet, in particular not the one an overlapping `closeWs` awaits. From it
`WorkerTypeCorrect`; `RslAlwaysHeldBack` goes step by step, with one lemma for the
steps that bring nothing up (`Quiet`) and one for the sends (`BuffersSent`).
`FlowInv` adds what the path end to end needs. `Uplink`, for each link: the lines of
its sockets from the page to the BSC are increasing, each before those of newer
sockets and before the cache, and nothing said is missing from them and the cache
unless a socket was disturbed or the cache had no room. `Newest`: a link uses the newest of its sockets, so
that what is sent goes behind everything. `Conduit`: what a socket can hold in each
of its states, and that one that closes is disturbed. `Downlink`: the numbers
increase from what the stack has over the websocket to the bridge's buffer, and count
on one by one unless a ring overwrote something; and `held` is
empty once RSL is connected, so that its messages are not overtaken. From it
`UplinkAlwaysConserved` and `DownlinkAlwaysConserved`, for any number of sockets,
messages, failures and overlapping openings, and rings and caches of any size.

**`BtsFormProofs`**, about the arithmetic with any table of bands:
`NearestChannelOf` (the channel given to a frequency is at most half a spacing
away), `UplinkRoundTrips`, `DownlinkRoundTrips`, and `LastChannelReached` (which
frequencies of a band have no channel). About the form with the repository's
tables, for any inputs, configurations and picks: `FormTypeCorrect`;
`FormAlwaysConsistent`; `GivenAlwaysShown`; `AlwaysNearestChannel`, which joins the
arithmetic to the search through the bands in their order; and
`ChannelAlwaysRoundTrips`, for which a downlink frequency must be no uplink frequency
of another channel of the band: in every table the two ranges are the same or apart
(`RadioRanges`).

Only model-checked: liveness (`NamedIsServed`, `EveryRequestSettles`,
`CallersAnswered`, `MessagesArrive`), which the prover cannot do, and the violated
runs, whose counterexamples are TLC's. Two conversions are written so that the
prover can follow them: the echo filter of the VTY client is a recursive function
over the lines, and the search for bands restricts the list of bands and takes the
first that is left, both as the code's `filter` and `[0]` do.

## Not modelled

* Of the transceiver worker the media and control websockets, USB streaming and
  the calls into WebAssembly; the combined `abis` websocket, which nothing opens.
* The control bridge, which is the A-bis loop once more and on which the browser
  sends nothing; the router, which has no state; `PortPool`, which has no caller.
* The control interface's codec and all parsing and formatting of VTY text:
  functions from text to text, whose unit tests enumerate the messages.
* The HLR, MSC, MGW and STP controllers: each operation is one command of
  `VtyClient`, the state is the servers'. Of the BSC controller its statistics, and
  the race of two callers in `ensureConnected`.
* Statistics, the other Vue components and the deployment files, which keep no
  state that a property is about.

Some things the models show are not what one would wish and contradict no line of
the repository. No property claims them: a late VTY answer goes to the next
request, and the greeting after a reconnect is taken for output; a request queued when
the connection goes waits, without a timer, until another caller connects; a VTY socket
error outside `connect()` ends the process; a refused command leaves the shared session
in its node; a `PUT` that fails after the BSC executed it leaves the record old and the
BSC new; a BTS whose row is missing from the list may be given out; a full ring or cache
of the A-bis path loses messages; a UDP error, or voice before the bind, leaves a media
websocket without a port for good; the promises of
`START` and `STOP` never resolve; a TCP connection that ends tells nobody, so its
websocket stays open; a media websocket that closes before it named a BTS leaves its
handler waking forever, and one that closes late marks the BTS's new owner
disconnected; a second `START` makes an `Osmo` that the transceiver does not use;
the form emits its own reactive object, so that after a submit an edit shows on
the page; the last channels of some NR bands and of B32 lie past the band's
frequencies.

## What is left

1. An abstract specification of the VTY client (each caller gets its own answer or
   an error, in the order of the calls) and of the A-bis path (two reliable channels
   per socket), with the present modules proved to implement them.
2. Two callers of `ensureConnected` on one client, and overlapping rounds of the
   statistics, over `VtyClient`'s queue.
3. The media websocket of the browser, composed with `MediaBridge`.
