# A TLA+ development of EthernetIpPython

This directory holds TLA+ models of the EtherNet/IP stack in `src/src/ethernetip`,
the TLC configurations that model-check them and proofs checked by TLAPS.
Everything runs on one asyncio event loop: code between two `await`s is atomic, and
every action of a model is such a stretch of code. (`add_tag` alone may run on another thread.)

## The system

| Component | State | Operations | Interacts with |
|---|---|---|---|
| **TCP adapter** (`protocol/eip_adapter.py`) | `_active_connections`; for each socket its task, `session_handles`, `session_handle`, `owned_connections`, `accum`, `frame_start` | accept or refuse a socket, read chunks, cut frames, dispatch, reply and drain, finally | session manager, CIP dispatcher, connection manager (reaps connections of a dropped socket) |
| **Session manager** (`protocol/session_manager.py`) | `_sessions`, `_next_handle` | register, unregister, is_valid | shared by all sockets |
| **Connection manager** (`connections/`) | `_connections`, `_next_connection_id`, callbacks | Forward_Open, Forward_Close, Unconnected_Send, timeout, remove | adapter (owner list through a context variable), device (callbacks) |
| **Virtual device** (`device/virtual_device.py`) | three dictionaries of tasks keyed by connection id | start tasks, produce, receive datagrams, watchdog, first-UDP timer, close | connection manager, UDP transport, adapter hook |
| **Safety device** (`safety/safety_device.py`, `supervisor_object.py`, `validator_object.py`) | configuration id and owner, TUNID, validator instances; for each connection time stamps, rollover counts, time correction | validate and configure an open, produce and consume safety frames, time coordination, Safety_Reset, Propose and Apply TUNID | overrides the virtual device |
| **Safety originator** (`safety/scanner_connection.py`) | a pair of connections, counters, production task | open the pair, produce, consume, close | scanner, UDP transport, a safety target |
| **TCP scanner** (`protocol/eip_scanner.py`, `connected_explicit.py`) | session handle, stream, lock | connect, one explicit request at a time, close | a target's adapter |
| **I/O scanner connection, UDP transport** (`protocol/scanner_connection.py`, `eip_udp_transport.py`) | sequence counters, callbacks | open, produce, receive, close | scanner |
| **CIP core** (`cip/`) | classes, instances, attributes; the depth of nested requests | dispatch, attribute services, encodings | everything |
| **Logix tag server** (`logix/logix_dispatcher.py`, `tag_services.py`, `tag_database.py`, `multi_service.py`, ...) | tags, symbol ids, dirty set | read and write (fragmented), Multiple_Service_Packet, browse, drain_dirty | adapter (yields between the parts of a packet) |
| **Logix client** (`logix/tag_client.py`, `walker.py`) | caches of symbols and templates | browse, read, write, batches | scanner |
| **Codecs** (`safety/crc.py`, `frame_codec.py`, `protocol/messages/`, `cip/*`), **persistence and code generation** | none | encode, decode | - |

### What is hard here

* *Interleaving at awaits.* Socket tasks share the session pool, the slot counter
  and the connection table; a dispatch that yields resumes after others have run;
  `VirtualDevice.close` suspends between cancellations.
* *Ends.* A socket task ends in many ways (end of stream, idle, budget, header that
  does not parse, error, error while draining) and must give back exactly what it took.
* *Timers against answers.* First-UDP timer, watchdog, idle timeout and assembly budget
  race with datagrams, chunks and closes.
* *Ordering.* Forward_Opens of several peers, closes by a peer that did not open,
  opens that fail halfway.
* *Sixteen-bit time* in the safety layer, where one side infers the other's rollover
  count from datagrams that may be lost or reordered.

`PROJECT.json` lists each hazard at its line.

## Modules

| Module | Models | Abstracts from |
|---|---|---|
| `EipAdapter` | the tasks of `_handle_client` and the session pool | bytes of a frame (see `FrameAssembly`), CIP requests, context, status codes |
| `FrameAssembly` | accumulator, idle timeout and frame budget of one socket, in ticks and units of bytes | what a frame says |
| `ConnectionTable` | abstract specification: a triad is leased to one connected peer | ids, tasks, timers, datagrams |
| `VirtualDevice` | connection manager, owners, the three tasks of each connection, datagrams, pinning, `close()` | assembly contents, RPIs (positive), connection-id values beyond their order |
| `SafetyStream` | one safety connection in either direction: stamps, rollover counts, pings, time coordination, the datagrams between the ends | safety data, CRC polynomials (a CRC holds exactly for the count it was made with), the Base format |
| `TagLayout` | layout of templates, walk from a tag's root to a place in its buffer | names, widths that are no size in bytes, arrays of BOOL |
| `TagServer` | tag database, Symbol and Template classes, tag services, Multiple_Service_Packet, browse | values of bytes (a byte is the set of its bits that are kept), status codes, path encodings |
| `TagStore` | abstract specification: accesses are applied once and answered to who asked | paths, fragments, packets, the stream |
| `TagClient` | `TagClient` with several tasks on one TCP connection to `TagServer` | the Class 3 connection, timeouts, cancellation |
| `SafetyTarget` | configuration, ownership, TUNID, validators and seeds of a safety device, its connection table | UDP, CRCs (equal seeds), the configuration lock, which nothing sets |
| `SafetyPair` | `SafetyScannerConnection` over a shared `EipScanner`, with `SafetyTarget` at the other end | contents of requests beyond what the target checks |
| `MC*` | instances for TLC | |
| `*_proofs` | theorems about the module of the same name | |
| `VirtualDeviceTable_proofs` | the refinement of `ConnectionTable` by `VirtualDevice` | |
| `TagClientStore_proofs` | the refinement of `TagStore` by `TagClient`, and what the buffers hold | |

### EipAdapter

One task for each socket. `pc` is the `await` a task is suspended in: `reading`
(`reader.read`), `dispatching` (a Multiple_Service_Packet between its parts),
`draining` (`writer.drain`) or `rejecting` (`wait_closed` of a refused socket).
`sessions` and `nextHandle` are the shared pool; `handles` and `current` the locals
`session_handles` and `session_handle`. `Register`, `Unregister`, `SendData` and
`AnswerOnly` each handle one frame up to the next await, with the guards in the
order of the code; `Finally` is the finally block, which has no await and so is one
step of whichever action ends the task. `peer` is the environment: a live peer
sends and acknowledges, a `hung` one does neither while its host keeps TCP up.
A refused socket keeps no state but its `pc`.

### FrameAssembly

`accum` counts bytes in units; `ReadChunk` is one return of `reader.read` up to the
budget check, `HandleFrame` one turn of the inner loop. `firstByte` is a history
variable, the moment the first byte of the head frame was read, that the code does
not have; `frameStart` is the code's approximation of it. `Handling` bounds how
long the frames of one chunk may take to dispatch.

### VirtualDevice

`conn` is the connection table, from ids to what the model keeps of an
`IoConnection`; `owned` the list each TCP task keeps; `task` and `store` the tasks
and the three dictionaries that point to them (a task may outlive its entry and an
entry its task). Forward_Opens come in four kinds: `io`, `routed` (inside
Unconnected_Send or on a connection: the reply hook that pins the peer does not
run), `class3`, and `half` (a callback raises after the connection is in the
table). `quiet` abstracts the clock: the connection timeout has passed since the last
datagram. `TearsDown` tells which `_on_connection_removed` runs: the virtual
device's, or the safety device's that overrides it.

`VirtualDevice` implements `ConnectionTable`: a lease is a pair of a socket and a
triad such that the socket owns a live connection with that triad. The refinement
fails if the table, its limit and the owner lists ever disagree.

### SafetyStream

The Extended Format puts a 16-bit time stamp into each frame but not the count of its
wraps: the count seeds the CRC, so a consumer that has lost count rejects every frame.
`start.producer` says which end produces. `OriginatorProduces` is
`_produce_server_frame` (a fixed stride for each frame); `TargetIdles` and `TargetProduces`
are the two halves of `produce_io_data`, the second with the slew of the correction, the
guard against going back, the rollover count and the ping. `FrameArrives` is the
consumer at either end: it guesses the count from the stamp (`Candidate`), keeps the guess
only if the CRC holds (`Accepts`), and answers a changed ping with a TCOO. A frame that is
rejected changes nothing, so it is no step. `OriginatorCoordinated` and
`TargetCoordinated` handle a TCOO, the second with the correction it asks for
(`Correct`). The network is `window`, the last `Depth` frames, any of which may arrive,
again and again or never, and `tcoos`. Time passes (`ClockTicks`) only while the target
produces; the originator's clock may gain on it. `behind` is a history variable.

Frames and TCOOs may be lost, the first TCOO too. The code sends no second one before the
stream runs, so a stream that loses it idles for good: `OneFirstTcoo` says so, and nothing is claimed
about a stream leaving idle. Two choices bound the environment. A TCOO is under way for at most `Travel` ticks. A wrap is reached only after the consumer has
accepted a running frame; a stream that starts near the end of a cycle and loses its
first frames is not survived.

### TagLayout, TagServer, TagStore, TagClient

`TagLayout` has the pure parts. `Layout` is the loop of `add_template` as a fold, with its
rounding by a bit mask (`RoundUp`), which aligns only to powers of two; `Walk` is
`walk` as a fold of `Into` over the segments behind the root.

`TagServer` is the controller. `ids` is `_tags_by_id`, `named` the tags that are in
`_tags_by_name` too, `pids` the tags of the one program, `inst` the `user_data` of the
instances of the Symbol class, `mem` the buffers. `add_tag` is two steps, `Publish` and
`Announce`: the tag is in `_tags_by_id` before its subscriber has made the Symbol
instance and before its name is known, and `add_tag` may run on a thread of its own. A path
with an id goes `ByInstance`, one without goes `ByName`; the two are kept as different as the
code has them. `ReadTag`, `ReadFragment`, `WriteTag`, `SetData`, `SetBit` and `Modified` are the tag
services on a place; those that take a walked place and those that take an element offset do
the same to it. `ServePart` is one service of a Multiple_Service_Packet, up to the
`await asyncio.sleep(0)` behind it, so other peers' writes (`Foreign`) come between.

`TagClient` adds the client's tasks. `queue` is `_lock`: its first element holds it, the rest
wait in order. A call (`Start`) builds its paths from the cache `atoms` before it
waits, as the code does; `Send` writes, `Receive` reads the reply and runs on to the next await:
the next request of a loop (`AfterFragment`, `AfterPage`, `AfterAttributes`,
`AfterDefinition`) or the end of the call. `due` and `cut` are history variables of a
browse: what was registered when it began, and whether a page was refused.

`TagClient` implements `TagStore`: the job of a task is the list of accesses its request stands
for, by name, and the answers the server has made so far, on the wire or in the stream.
The mapping looks up what a path *says* (`Extent`), not where the server lets it land, so a
reply that goes to the wrong task, a service that is applied twice, an index that is off or a
cached id that leads elsewhere is no step of `TagStore`.

### SafetyTarget, SafetyPair

`SafetyTarget` is the device's side: `conn`, `nextId` and `owned` are the connection table and
owner lists of `VirtualDevice` again, with the kind, configuration id, validator and socket of
each connection (the socket, `via`, is history); seeds keep the validator's id modulo `Word`; `scid` is the id opens are checked against, `mirror` attribute 6, `owner`
attribute 25, `tunid` and `proposed` the network ids. `Admit` is a Forward_Open that passes
`Refused`, with `Configure` for a safety open; `RemoveAll` is any removal, with the end of
the ownership when the last safety connection goes. Several connections that a dropped
socket owned are removed in one step, as the finally block does. `ResetOwnership`,
`ProposeTunid` and `ApplyTunid` are the supervisor's services. `before` is a history
variable: the connections that were open at the last reset. Identities and serial numbers
are what seeds are made of, so equality of seeds stands for a CRC that holds.

`SafetyPair` composes it with pairs of the originator. The `stage` of a pair is the await
it is suspended in; `queue` is the lock of each scanner, `wire` and `stream` the two
directions of its TCP connection. `Receive` covers a refusal: `open()` raises and leaves what it
has opened. `Drop` ends the TCP connection for the originator; the target works off
what was written to it, or not, until its task notices (`Notice`) and reaps what was opened over
the socket: both halves, and those whose reply was never read (`GivenBack`). `Connect` waits until
then, because a scanner stands for its socket; in the code the new socket may be there beside the
old one. `Raise` is the
exception of the lock's holder. Others open, reset and time out at the target all the
while (`Other`).

## Runs

| Run | Question | Bounds |
|---|---|---|
| `eip_adapter` | Are slots, sessions and handles accounted for through all interleavings? Are silent and refused peers let go? | 3 peers, 2 slots, 2 sessions a socket, 5 handles in all: the cap is reached with a third peer waiting, a socket holds several sessions, and a slot and handles are used again after a close |
| `frame_assembly` | Do budget and idle timeout bound every frame and every partial frame? | frames of 3 units, chunks up to 7 (the end of one, a whole one, the start of a third), 12 ticks: five times the budget |
| `virtual_device` | Do connections, owners, tasks and timers stay consistent? Is `ConnectionTable` implemented? | 2 peers at 2 addresses, 3 triads, limit 2, 3 ids: the limit is reached with a triad to spare, a triad is opened again after a close and a stale owner's entry meets a new connection |
| `virtual_device_live` | Is a silent originator's connection reclaimed? | 2 ids, no symmetry (liveness) |
| `device_pinned` (violation) | Is the originator of each I/O connection the one pinned? No | 2 ids: one unpinned connection and the next open |
| `safety_device_tasks` (violation) | Does a safety device tear its tasks down? No: its override replaces the callback | 2 ids |
| `safety_stream` | Does the consumer keep count of the wraps through loss, reordering and corrections? Does time on the wire go forward? Is the goal ahead of the correction? How many chances has a stream to start? | a cycle of 16 ticks; 2 frames under way, 2 lost; 11 ticks with a clock that gains one each tick, so that the stamp, the rollover count and the correction all wrap; strides of 5, more than the quarter cycle that separates an old frame from a wrap |
| `safety_start` (violation) | Do both ends agree from the first frame? Not with the default initial values | the same, starting at the last value of the cycle |
| `logix` | Are reads, writes and batches of tasks that share a client applied once, where they say, and answered to the right task? Do cached ids stay right while tags are added? Are browses without gaps, and templates and structures whole? Do writes of others stay within their places? Does every call return? | 2 tasks; an array of 2, a tag, a structure added later, a program with one tag; replies of 8 bytes and pages of 2 tags, so that a browse takes several pages and a template two pieces; packets of 2 services, one of 3 being refused; foreign writes by name and by id, at, across and past the end of their place; foreign Read_Modify_Writes of a whole tag, an element and a member |
| `logix_program` (violation) | Does a request land where its name says after a browse? Not with program tags and members | the same, with reads of a program's tag and of members |
| `logix_struct` (violation) | Is a structure whole when it takes two fragments? No | the same, replies of 6 bytes, so that a structure of 4 bytes takes two |
| `safety_pair` | Is the device held by one configuration at a time? Do the two ends agree on the seeds, and do no two connections share one? Is what was opened given back? | 2 pairs on one scanner, one with configuration `x` and one without; others with `y`, with the serial of a pair, without safety, and with a path that is always refused; 3 connections at a time, 5 ids, 2 serials, seeds that tell 3 validators apart: the limit is reached, a serial is met again, the validator's id wraps in the seeds, and the device is bound, unbound and bound by another |

`logix` is the run whose structure fits one reply: `StructWhole` and `ImplementsStore` hold there, and
`logix_struct` shows what happens when it does not. No call of `logix` names a tag of the
program or a member through a cached id, for the reason `logix_program` shows; other peers
also name members and elements, by name, and elements by id (`WritesWithin`). A path by id may say
more, but the server looks only at the last index of it (`symbol_object.py:62`), so what such a write
changes is not what the path names when a member stands behind the id; this is the line of
`logix_program`, and `NamesPlace` leaves it out. The two tasks have fixed roles (one reads
and browses, one writes and sends packets), which is enough for any order of the two at
the lock. `TemplateAssumption` of `MCTagClient` checks `LayoutSound`, the
soundness of `Layout`, for all lists of up to three members of sizes 1 to 8 and 12; those whose
alignment is 3, 5, 6 or 7 get room of their own, and are not aligned. One bit of each byte is
kept: no property tells the bits of a byte apart.

`WritesWithin` is about every tag service. What a Read_Modify_Write may change (`Room`) is
the beginning of its tag, as many bytes as it has masks, because the code drops the place that was
walked to (`logix_dispatcher.py:188`); for all others it is what the path names.

Symmetry is used only in `virtual_device`, whose properties are safety ones: triads
may be exchanged, and the two peers together with their addresses. Deadlock
checking is off where a bound stops the model (ids, clock) or the device is closed.
The ids and handles never run out in the code before 2^32, and no property depends on
how many are left.

A clock of one value in `safety_pair` makes the pairs' serials meet those of others as often as
possible; pairs are of different originators, so they do not meet one another's.

### Fairness

`EipAdapter`: the event loop runs every ready task and fires every timer, so a bounded
wait ends (`RejectDone`), a suspended dispatch resumes, a drain whose peer reads
completes and the idle timer of a peer that sends nothing fires. Nothing is assumed of
a peer: it may hang at any point, and connecting, sending and disconnecting are not fair.
`VirtualDevice`: watchdog and first-UDP timers fire and `close()` is resumed;
opens, closes, datagrams and drops are not fair, nor is `CloseBegin`.
`TagClient`: the two event loops go on while there is a request to serve, a lock to write under
or a reply to read (one weak fairness for all of it: the lock makes them take turns). Nothing
makes a task call, or an application register or write. `SafetyPair`: the target's task of a
socket reads the end of its stream (`Notice`). No call of a pair is made to end: the
code has no timeout on a reply.

## Proofs

Each proof module states an inductive invariant, proves that `Init` implies it and that every
action preserves it, and derives the properties. Before it was proved each invariant was checked by
TLC on the instances of the runs. The theorems hold for every number of sockets, pairs, tasks and
tags, every cap and every bound (the bounds of the model on ids, handles and time are arbitrary
naturals). Every safety property the passing runs check is proved, some under hypotheses that are
listed under *Assumptions*; what is left to TLC stands at the end of this section.

### EipAdapter_proofs

Type correctness, `SessionsOwned`, `CurrentOwned`, `InFlightValid` are one inductive invariant
(`SessionInv`): that a session in flight is valid needs the lists to be disjoint, and the
disjointness needs every handle to be at most `nextHandle`, which is in the type invariant.
`SlotAccounting` uses the cardinality of a finite set that gains or loses one socket.
`PoolBounded` needs no invariant of its own: `SessionsOwned` makes the pool a disjoint union of the
lists, so numbering the served sockets and the places of each list maps the pool one to one into
the pairs of a number up to one cap and a number up to the other.

### FrameAssembly_proofs

Type correctness (the accumulator never holds more than a frame less a unit and a chunk),
`DispatchedWithinBudget` and `HalfFrameBounded`. The strengthening relates the code's clock to the
history: `frameStart` is never later than `firstByte` whenever bytes are buffered, and the read that
is pending was issued within `Budget + Handling` of the first byte.

### VirtualDevice_proofs, VirtualDeviceTable_proofs

Type correctness, `LiveOwned`, `TasksMatchTable` (under `TearsDown`), `Supervised`,
`PinnedStreamsHome` and `HeardNotTimedOut`. The strengthening (`OwnInv`) says that ids above
`nextId` are unused everywhere and that each live connection is on one list of a served socket; for
the tasks it adds that a live connection has an entry for each of its armed tasks, and that the tasks
`close()` still has to cancel were in the dictionaries before it began. `PinnedStreamsHome` is
inductive beside the types: endpoint and originator are set together, and a datagram moves the
endpoint only from the originator's host. `HeardNotTimedOut` is proved of each step: the timers' steps
are not enabled for a connection that has been heard and is not quiet.

`TableImplemented` is the refinement of `ConnectionTable`. Besides `OwnInv` the mapping needs that
a triad names one live connection (`TriadsApart`), which is what `Duplicate` in the code is for, and
from it that leases and live connections correspond one to one, so that the limit of the one is the
limit of the other. `TableSteps` sorts the actions by what they do to the table; each kind is then
shown to be a step of the abstract one or a stutter.

### SafetyStream_proofs

* Type correctness and `GoalAhead`, for every cycle length divisible by four and every rate. The two
  are inductive together: the difference of two 16-bit numbers is only meaningful within 16 bits. A
  slew step is between one and the rest (`StepWithinRest`), so it does not pass the goal; a TCOO moves
  the goal only ahead of where it was (`CorrectKeepsGoalAhead`). Hence the defensive branch of
  `produce_io_data` (`safety_device.py:306-309`) is never taken.
* `WireForward`. A count and a stamp are two digits of a number modulo `Wrap * Wrap`;
  `WrapsKeepDistance` says that cutting ticks to these digits keeps their distance. `ForwardInv`
  relates the newest frame to the state of its producer, and the ticks sent to the clock: the target
  sends at least its clock, and not more than a cycle and a period beyond what it has sent. That this
  is less than half of what the digits can tell apart is `PeriodAssumption` (an RPI has 32 bits of
  microseconds).
* `NotStale`. A consumer that accepts by its candidate is within a quarter of a cycle by the
  arithmetic alone. A target also tries count zero for idle frames, so an idle frame that was
  delayed past the start of running is accepted at any time. `ServerInv` shows that this is harmless as
  long as the stamps cannot have passed a quarter of the cycle while an idle frame may still
  arrive. That is the hypothesis `EarlyStarts`; TLC finds the violation as soon as a start exceeds it
  by one tick.
* `OneFirstTcoo`. While a stream idles every frame has the ping count it began with, and a consumer
  that has accepted a frame has answered that count (`IdlePings`). Hence no frame is answered that
  arrives then, however late, and no TCOO is made.
* `SurvivesLoss` for server connections. `LossInv` counts, for the frame accepted last and for each
  that may still arrive, the strides to the newest frame. The hypothesis `ShortStrides` says that
  the strides of the frames that may be lost are less than three quarters of a cycle (with the code's
  390 ticks: 126 frames), and that a stream does not wrap while an idle frame may be the last one
  heard. Both parts are sharp as well.

### SafetyPair_proofs

`BoundByOne`, `UnownedWhenIdle`, `SeedsDistinct` and `ConfigurationKept`, for any number of pairs,
scanners, configurations and connections. They are properties of `SafetyTarget`; `TargetOfStep` shows
that every step of `SafetyPair` is a step of the target or leaves it alone, for which the messages
under way have to be typed (`Typed`), and the rest is proved of the target (`TargetStep`). The
invariant `IInv` adds to the properties that live connections have ids up to `nextId` and validators
up to `nextSv`, all different (`Fresh`), and that a triad names one connection (`Triads`): seeds of the
target differ because validators do, seeds of originators because triads do, and the two
because a device is no originator. A seed keeps 16 bits of a validator's id, and nothing bounds how
many safety opens a device sees: `SeedsDistinct` therefore speaks of connections that are fewer than
`Word` opens apart, before, across and after the wrap (`RemaindersDiffer`); two that are a whole cycle
apart may share a seed. `BoundByOne` needs
`UnownedWhenIdle` where the first open binds a device, and `before` where a reset has
unbound one in use.

`AlwaysEndGivesBack` is the safety half of `GivenBack`: the step by which the target notices the end
of a socket leaves no connection that was opened over it. It needs that a live connection stands on
the list of the socket it came by (`Held`). That the step comes is fairness, and left to TLC.

Of the originator's side it proves `TypeOK`, whose last line says who is in line for a lock, and `SeedsAgree`, in
three layers. `LineInv`: the queue of a scanner has its waiting pairs once each, and only the first
may have written. `ExchangeInv`: on a connected scanner there is the request of the first pair, or its
reply, once, or nothing; so a reply is never read by another pair than the one that asked.
`HalvesInv`: what `open()` has recorded of each half is what the target made, under an id that is not
given again; a half that has ended at the target meanwhile is no counterexample, since nothing else takes
its id.

### TagClient_proofs

`CachedIdsHold`, `BrowseHasNoGaps` and `TemplateWhole`, from one invariant, `Inv`.

* `IdsInv`, `InstInv`, `AtomsInv`: tags are registered once each; an instance at the id of a
  controller tag holds that tag (unless a program with more tags than the controller began with has
  been browsed, the exception of `CachedIdsHold`); a cached id has an instance.
* `LineInv`, `ExchangeInv`: as for the pairs, the lock makes one exchange at a time, and the reply
  *fits* the call that the holder is in (`Fits`).
* `CallsInv`: what a browse has got is the first tags of the controller, then the program's
  pseudo-tag, then the first tags of the program (`Listing`), and the next page begins behind them; what
  `read_template` has got is the beginning of the definition up to the place it asks for.

That `Fits` and `CallOK` survive what others do is one lemma about growing sequences (`CallKept`,
`FitsKept`): registration only appends, and instances are only added. The arithmetic of the pages is in
lemmas about `Before` and `From`: of entries in the order of their ids those before a start are a prefix.
The size `read_template` asks for is one more than the definition has, whatever its length,
because the definition is padded to four bytes (`DefinitionAssumption`).

The proof found that some `CASE` arms of the model overlapped (a refused request is also one of its
service), so that TLC's choice of the first was not what the definition said. They are nested
alternatives now.

### TagClientStore_proofs

`TagClient` implements `TagStore` (`StoreImplemented`), and the rest of its properties: `TypeOK`,
`WritesWithin`, `StructWhole`. The proof adds three layers to `Inv`.

* `DataInv` (`DataAlways`): the buffers keep their sizes and bytes, the requests of the calls are
  well formed, and a reply goes to the task that asked and has the parts its request asks for, one
  for a tag service, all or none for a packet. The services are bounded here: `ReadTagGives` and
  `ReadFragmentGives` say which bytes a read returns and how many of them, `SetDataAt`,
  `SetBitAt` and `WrittenBytes` what a write sets, and `ChangesWithin` that nothing reaches past the
  room of a request, which is `WritesWithin`: for every service any count, offset, payload and mask,
  by name for any path, by id for those of a tag or an element.
* `RouteInv` (`RouteAlways`): a request with an id in its path has the id of its root, and the
  instance with that id exists. It is stable because tags are only appended and instances only added
  (`Grows`), and it needs `AtomsInv` for what a call takes from the cache. Then the instance leads to
  the root (`InstInv`), and a request ends up at the place of its address by either way
  (`DirectLands`, and `DirectCallsLand` for `LandsWhereNamed`).
* `StructInv`: `read_struct` has asked for the whole structure once, and what comes back is the whole
  structure behind four bytes, or an error.

For the refinement, `PartsFor` says where the answers of a task are: with the request that the server
works on, in the one reply on the stream, or nowhere (`NothingFor`, from `ExchangeInv`). Start
is the abstract `Call`; each tag service and each part of a packet an `Apply` (`Served`: a refused
access leaves the buffers alone, a read gets the bytes of its access, a write puts all of them);
reading the reply ends the job, or rejects it when the packet was refused as a whole; the writes of
others are `Foreign`, and everything else is a stutter.

`PlaceSound` is the step of `LayoutSound`: a member is placed soundly behind members that are, for
any sizes and counts, and aligned when its alignment is a power of two (`RoundUpIs`: what the mask does
for each of the eight units). That the fold over the members makes that of all of them is left to TLC.

### Assumptions

The assumptions are those named in the modules (`CapAssumption`, `BoundAssumption`,
`ScopeAssumption`, ...): finite sets of peers and tags, naturals as bounds, names that differ. TLC evaluates
them in the runs. Some theorems have hypotheses besides. Those of `SafetyStream_proofs`, `EarlyStarts` and
`ShortStrides`, hold of the instance of `safety_stream`. Those of `TagClientStore_proofs` are about
the constants of `TagClient`, and `PlacesAssumption` of `MCTagClient` has TLC evaluate them for the
instances:

* `PlacesFound`: the walker finds what there is of an address where `Extent` says it lies. It is a
  fold over the segments of a path, out of the prover's reach; of an address without segments it only
  says that `Extent` is right.
* `DirectCalls`: the modelled tasks call for controller tags, whole or an element of them by one
  index, and write as many bytes as they count. Of members and program tags the refinement is false
  (`logix_program`).
* `FewProgramTags`: the program has no more tags than the controller had at first, the exception of
  `CachedIdsHold`.
* `StructsFit` (for `StructWhole`): the structures that are read fit one reply, which is what
  `logix_struct` shows to be needed.

### Only model-checked

* The liveness properties (`SilentReaderReleased`, `RejectedReleased`, `SilentReclaimed`,
  `EveryCallReturns`, `GivenBack`), which need fairness and `ENABLED`.
* `SurvivesLoss` for client connections: between two frames a correction may move the stamp by up to half
  a cycle, so how many losses are survived depends on the drift and on when TCOOs arrive.
* Where `Walk` leads, a fold over the segments of a path (`PlacesFound`), and that `Layout` is sound
  of every list of members (`LayoutSound`): what a fold computes for every list is an induction over data.

## Disagreements between the code and what is said of it

1. `OriginatorPinned`: the first connection without an endpoint is pinned, whoever opened it
   (`virtual_device.py:113`).
2. `TasksMatchTable` for a safety device: its `_on_connection_removed`
   (`safety_device.py:582`) replaces the base class's and does not call it.
3. `AgreeFromFirst`: the originator counts wraps from the value it advertises, 0xFFFF by
   default, the target of this package from 0 (`safety_device.py:189-191`); with the
   defaults a server connection never leaves idle.
4. `LandsWhereNamed`: a path that names a Symbol instance goes to the controller's instance
   (`cip/dispatcher.py:89`), whatever program stands in front of it and whatever member
   behind it (`symbol_object.py:62`), and the client's cache makes such paths.
5. `StructWhole` with fragments: the client takes two bytes off each later fragment
   (`tag_client.py:377`), the server puts four in front of it (`tag_services.py:216`).

Eight more are known without a run. Read_Modify_Write of an element or a member changes the first
bytes of its tag, because `_dispatch_walked` hands the service no place (`logix_dispatcher.py:188`);
`walker.py:3` says the walk is used "whenever a request path carries member or element segments past the
root", and `src/README.md:601` lists the service with no such limit. `WritesWithin` states it as the
code has it. The ping count changes only once the stream runs (`safety_device.py:341`), so the one
TCOO that answers the first idle frames may be lost and the connection then idles for good, while
`src/README.md:619` has it "stay in IDLE mode until the first TCOO arrives"; `OneFirstTcoo` shows that there is no
second. `await writer.drain()` (`eip_adapter.py:257`) has no
timeout, so `SilentReaderReleased` is about peers that read. `frame_start` is cleared only when
the accumulator is empty (`eip_adapter.py:196`): frames that arrive back to back inherit the
start of the first, and a client that is within the budget with each may be closed.
`CachedIdsHold` leaves out a program with more tags than the controller had at first: browsing
it makes Symbol instances for ids that the controller gives out later (`symbol_object.py:165`).
A page of a browse that ends just before the programs' pseudo-tags is continued at an id
that is no instance, which ends the browse without them (`cut` in `BrowseHasNoGaps`).
`add_template` ("Define a structure template with Logix alignment", `tag_database.py:154`) rounds with
a mask, so a member whose size is 3, 5, 6 or 7, which a nested template registered as it is may
have, is not aligned. After 65536 safety opens the validator's id wraps in the seeds
(`safety_device.py:214`), and a connection that has lasted that long shares its seed with a new one.

## Not modelled

* Encodings, codecs and CRC polynomials (pure functions with table tests), identity and other
  objects without behaviour, persistence and code generation, logging and tracing.
* Connection ids that wrap. An O->T RPI of zero, with which a connection gets no watchdog.
* `EipAdapter.close()`, which depends on the Python version (`wait_closed`).
* Cancellation of a request between its write and its read, at `EipScanner` and `TagClient`: the
  reply stays in the stream and every later reply goes to the wrong request, so that no property
  of the models would hold from then on.
* Connected explicit messaging and the Class 3 connection of `TagClient`; the I/O connections of
  `protocol/scanner_connection.py`, whose loops are those of the virtual device seen from the
  other side.
* Strings that are written short (`SHORT_STRING` in `handle_write_tag`), which may be shorter than their tag.
* A scanner that connects again before the target has noticed the end of its old socket.
* Arrays of BOOL in the walker, whose bits are addressed across bytes.
* Threads: `drain_dirty` (`tag_database.py:335`) copies and clears, and `atomic_set_bit`
  (`tag.py:94`) loads and stores, with nothing that keeps another thread out.
* The configuration lock of the safety supervisor, which nothing in the package sets; the cold
  start of a partner connection; the Base format.

## Plan

Done: `EipAdapter`, `FrameAssembly`, `VirtualDevice` with `ConnectionTable`, `SafetyStream`,
`TagClient` with `TagServer` and `TagStore`, `SafetyPair` with `SafetyTarget`, and the
proofs above.

Left, in this order:

1. Proofs: `SurvivesLoss` for client connections, from a bound on the drift.
2. `ProducedStream`: the I/O scanner connection with its sequence counters against
   `VirtualDevice`.
3. Cancelled requests, as a run that shows what they do to the requests after them.
4. The dirty set with a writer on another thread.
