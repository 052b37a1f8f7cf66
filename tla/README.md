# A TLA+ verification of go-RCP

go-RCP implements the OPEN Alliance TC18 Remote Control Protocol: a central
computer sends requests over IEEE 1722 frames to RC Servers, whose endpoints
(GPIO, ADC, CAN and so on) execute them. This directory holds TLA+ models of the
parts where state and concurrency make the code hard to test, the TLC instances
that check them, and TLAPS proofs of the main safety properties for every value
of the constants.

## The system and its parts

A request travels as follows.

1. `udp.Controller.Request` numbers it, registers itself in `pending`, sends a
   datagram and waits. The controller's read loop hands responses to waiting
   callers by transaction number.
2. `udp.Server` reads the datagram, and `udp.Router` finds the endpoint handler.
   A request that was split is put together by `fragment.Reassembler`, and
   `fragment.Gateway` submits the whole message.
3. `request.Dispatcher` holds conditional requests as tickets until a trigger,
   a time, a sequencer register or safe state lets them run, then calls the
   endpoint.
4. `e2e.Supervisor` watches the arrivals of each stream and decides whether it
   is in safe state; `watchdog.Keeper` purges the Dispatchers of such streams.
5. `server.Server` owns the register map, its lifecycle, who may write what, and
   the configuration claim.

Around this path stand the endpoints, the wrappers a client or a server puts
around a request, the registries they are found in, and the bridges to other
networks.

| Part | Source | Modules | Extent |
|---|---|---|---|
| Dispatcher, tickets, sequencer | `request/` | `Dispatcher`; envelopes in `AcfWire` | complete but for a Sequencer shared by several Dispatchers |
| RC Server, register map, access, claim | `server/` `regmap/` `lifecycle/` `discovery/` | `RCServer`, `Endpoint`; snapshot in `AcfWire` | every register write; `Revoke`, which the server never calls, is left out |
| Supervisor, Keeper | `e2e/watchdog.go` `watchdog/` | `Supervisor`, `Watchdog` | complete, composed with `Dispatcher` |
| Fragmentation and safe point | `fragment/` `e2e/crc.go` | `Reassembler` | complete, up to checksum collisions |
| UDP client and server | `udp/` | `Transport`; Router in `Handlers`, Registry in `Registries` | calls, read loop, Close, Route, EP0, error codes, dialling |
| Endpoints | `gpio/` `adc/` `pwm/` `uart/` `spi/` `i2c/` `lin/` `can/` `iseled/` `mdio/` `wakeup/` | `Endpoint` and one module each (`wakeup` in `PowerState`); bodies in `Bodies` | requests, Configure, driver side, events |
| Wake handshake | `powerstate/` | `PowerState` | complete |
| Client wrappers | `redundancy/` `ratelimit/` `prioqueue/` `zonegroup/` `firmware/` `deadline/` `loan/`, query of `mdns/` | `Clients` | complete |
| Registries | `federation/` `mock/` `tsn/` `capi/` `config/`, `udp.Registry` | `Registries` | complete but for parsing and formatting |
| Handlers | `proxy/` `authz/` `record/` `faultinject/` `sim/` `dyndata/`, `udp.Router` | `Handlers` | complete but for the latencies of `sim` |
| Gateways | the RELAY adapter of the root package, `observe/` `admin/` | `Gateways` | complete but for the formatting of reports |
| Bridges | `mqttbr/` `ddsbr/` `someip/` `doipbr/` `udsbr/` `shmem/` `grpcbridge/` `restbridge/` | `Bridges`; messages in `BridgeWire` | complete but for listeners and external libraries |
| Wire and file formats | `acf/` `avtp/` `request/` `regmap/` `record/` `linbr/` `l2/` `mdns/` `iseled/` | `AcfWire`, `BridgeWire`, `Bodies` | octet by octet |
| Trace checker | `formal/` | `Formal` | complete |
| Tooling | `cmd/` `codegen/` `certgap/` `iso21434/` `safety/` `examples/` `canbr/` | none | see the end |

`PROJECT.json` lists every part with the reason where it is left out, the source
lines of each definition, and the hazards the properties answer.

## Modules and how they correspond to the code

**Dispatcher.** `tickets`, `order`, `nextID`, `safeState`, `pumps` are the fields
of the struct. Every method holds `d.mu`, so each is one action, except `Pump`,
which is one action per ticket and per endpoint call: the lock is held
throughout (`pumping`), but the safe-state verdict and the trigger sources are
not under it and change in between. `PumpBegin` collects the ready tickets in
`batch`; `isFirst` picks by rank, then arrival; `ExecuteInner`,
`ExecuteCompound`, `ExecuteCompoundWait` and `ExecuteCancel` are the branches of
`execute`; `HandlerReturns` ends an endpoint call, possibly with an error.
A request is a record of the fields its kind uses and whether it decodes.

**RCServer.** One action per exported method that writes. `WriteEP0` replaces
the whole map, with maps a client composed and with the map it read back
(`WireMap`, which narrows addresses as the encoding does; `ReadBack`, only while
counts, lengths and pointers fit their 16 bits: beyond that the octets do not decode,
or as another map). `lease` is history: until when each client may believe it holds
the configuration claim.

**Supervisor** and **Watchdog.** Supervisor methods are atomic. Keeper's `Tick`
copies its list, asks the Supervisor and purges under three locks, hence
`TickBegin`, `TickCheck`, `TickPurge`, `TickEnd`. `Watchdog` instantiates
`Dispatcher` with the Supervisor's verdict as its safe-state check.

**Reassembler.** Senders protect and split messages; any segment may be added
any number of times in any order. `Add` is split by its outcomes. `Gateway.Submit`
is two critical sections, so each caller is told a key is complete (`told`) and
finishes it in a later step. The checksum is the tuple of what it covers: of the
key what the packed octets hold of it (`Covered`), the header, the length and the
body. It is free of collisions, but two keys that differ only above the low byte of
the address share it; padding and its recovery are modelled byte by
byte because a property depends on them.

**Transport.** `Request` is cut at every lock, channel and socket operation; the
read loop at read, lookup and send; Close at the socket and at the clearing of
`pending`. A write may fail at any time. A datagram once sent may be read any
number of times or never. A read error ends the loop although the controller is
open.

**Endpoint** is what the endpoint packages share. The functional block in the
register map is under the server's lock and the endpoint's copy under its own, so
`server.ApplyConfigRequest` is the steps `ApplyEncode`, `ApplyAdopt`,
`ApplyPersist` and `ApplyRollback`, and the root client's whole-map write may come
between any two. The package gives the operators: what a configuration is, how it
is encoded, what `Validate` says, what adopting it does to the rest of the state.
**Gpio, Adc, Pwm, Uart, Spi, I2c, Lin, Can, Iseled, Mdio** instantiate it and add
the requests, the driver side and the queue of events. **PowerState** holds the
wake-up endpoint and `powerstate.Driver`, whose `Pump` takes the queued triggers
and transmits them one by one and whose `Acknowledge` is two steps.

**Clients, Handlers, Gateways, Registries** and **Bridges** have one section per
package. They share the variables of **Calls**: `kind` says which package a
behaviour is about, `st` is the state of its object, `calls` says where its
goroutines are, and `seen` is a history for the properties. A call is cut where it
takes or releases a lock, uses a channel or an atomic, or calls another object.
What follows such a point and nobody else can see, because a lock is held or the
value is the call's own, belongs to its step. Requests to the object behind succeed
or fail as they like. The network under SOME/IP loses,
repeats and delays. Where two packages share a shape (the command goroutines of
`mqttbr` and `ddsbr`) they share the actions. Each module ends with its
specification (`ClientsSpec` and so on) and with the conjunction of what its
packages promise (`ClientsSafe` and so on).

In `Handlers`, `Route` of the UDP server is cut where it releases its lock:
`RouteBegin` or `RouteAtOnce`, `RouteLookup`, `RouteHandle`, while `Register` and
`Deregister` come between. `EP0Handler` and the table of error codes are operators.
In `Registries`, `Request` of the in-process client is the closed check, its two
counters and the call of the Router, and the registry's Close closes its clients one
by one under its lock. In `Bridges`, `Request` over SOME/IP takes its number,
registers and writes in three steps, and the write may fail. In `Gateways`,
`CloseWithDrain` finds no request in flight in one step and swaps the flag in
another, and `RecordRequest` of `admin` is called by the HTTP handler and by the
application, with any outcome.

**AcfWire, BridgeWire, Bodies** write encoders and decoders as operators over
sequences of octets, with numbers in their width; a 64-bit number is written as
its octets. A decoder returns `Refused` where the code returns an error.
**Formal** has the loops of the trace checker as recursive functions beside the
temporal formulas they stand for.

**MCComponents** puts the five together and gives them small constants.
**MCServices** adds the codecs (an item is encoded, then octets are changed or cut
off), **MCLive** fairness and the power-state driver, and **MCEndpoints** does the
same for the endpoint packages.

## What the runs check

Passing runs:

| Run | Instance | Shows |
|---|---|---|
| `dispatcher` | three tickets of the immediate kinds and cancellations from one stream, two of the kinds that wait for an event, a time or safe state from two | order and tickets agree; priority holds while a ticket executes; endpoint calls agree with the reported outcome; outcomes are final; safety requests run only in a Pump that saw safe state; every Pump returns |
| `rcserver` | a root client on addresses a byte holds and does not hold; two clients and a clock to 3 | plausible pin map and flushing queues once locked; locked registers never change; the configuration claim is exclusive; every step is one `formal.CheckLifecycle` accepts |
| `watchdog_purge` | 1 stream, 2 tickets, clock to 2 | the composed loop takes only steps of `Dispatcher`; safe state is left deliberately; pending requests of a stream that stays in safe state are resolved |
| `reassembler_pieces` | 4 messages of one key and one of a key with the same checksum, 5 segments delivered, 2 callers | finished messages are made of segments in place; nothing complete is lost or doubled; verified messages were protected |
| `transport_close` | 2 calls, 2 endpoints, 2 route changes | no send on a closed channel; a call gets its own answer; `pending` holds calls in flight; nobody waits forever |
| `endpoints` | ten packages (PWM as output and as capture), 2 requesters, root client, driver, event reader | below |
| `services` | thirty components or codecs, mostly 2 callers | below |
| `live` | power-state driver, shared memory, MQTT, DDS, SOME/IP, mDNS query | wakes are announced whatever transmissions fail, no repeat and no change lost; who waits on something that was closed or cancelled is released |

The three suites ask the same question of many components. Each property is a
conjunction with one named and commented property per component; the ones of the
components are in their own modules.

| Property | Question | Asked of |
|---|---|---|
| `ConfigSound` | is the configuration in use valid, and the one the register block holds after a change that ran alone | all endpoints |
| `ValuesFit` | do values stay where the configuration allows them | GPIO levels, PWM pulses |
| `EventsTell` | do the events tell every change that happened | GPIO edges, SPI chip selects, MDIO registers |
| `AnswersTellTheWire` | does an answer say what the wire, the bus or the FIFO did | PWM, UART, CAN, ISELED |
| `StepsFit` | does a step change only what it was asked for | ADC measurements, SPI channels |
| `ImplementsEndpoint` | is every step one of the shared configuration protocol, or a stutter | all but SPI, whose `SetChannelConfig` takes one more step |
| `ClientsSafe` | is what a client is told or granted so, however callers interleave | rate limit, failover and Close, loans, priority queue, groups, firmware, deadline monitor, mDNS query |
| `HandlersSafe` | are requests neither mixed up nor let through where they should be stopped | proxy, recorder and fault rules, authorization, pacer, typed payloads, Router |
| `GatewaysSafe` | do counters, events and subscriptions tell what happened, and end | RELAY adapter, metrics, administration server |
| `RegistriesSafe` | does a table goroutines share stay true to what it stands for | federation, mock, TSN, dialled sockets, handles, configuration |
| `BridgesSafe` | is what belongs to a request passed on, once and only while the bridge is open | MQTT, DDS, SOME/IP, DoIP, shared memory, telemetry |
| `ReadAsSent` | is what was encoded read as it was sent | every format |
| `DamageIsSeen` | are damaged or cut octets refused or understood in one way only | frames, requests, maps, logs, LIN, ISELED |
| `CheckerDecides` | do the trace checker's loops decide the formulas they are named for | `formal` |

Several of these have conditions that say how far the code keeps them: a DoIP
client gets its own answer until a Nack, the administration server meets a
missing Controller only if it was removed between its two lookups, the
configuration watcher has told the application the current file or is still
polling. A SOME/IP answer is to this very request until there are more requests than
session numbers. Of two configuration changes, PWM drives or SPI channel changes
that overlap, the properties say only that the result is valid: the code lets the
register map or the report tell of the other one, and "alone" or "clean" in the
comments marks what is promised. The comment above each says which.

Runs that find a disagreement between the code and what its comments say:

| Run | Code | Comment |
|---|---|---|
| `watchdog_gate` | the verdict is read when the batch is collected and used later | no safety ticket advances while the check reports false |
| `reassembler_safepoint` | only the last segment is searched for padding and checksum | stripped exactly as for a whole message |
| `reassembler_verbatim` | `EVT`, `HS`, `CS`, `MTV` are dropped | handed on exactly as received |
| `transport_number` | a 16-bit counter feeds an 8-bit field | the field is 16 bits wide |

### Bounds, and why they are enough

- Three tickets are the fewest with a cancellation, its target and a bystander.
  Two suffice where the race is between one ticket and the environment.
- A sequencer register has the values 0 to 2, and both ends are overrun.
- Addresses 2 and 3 stand for byte_bus_ids that one byte cannot hold.
- The sequence number wraps after 1, and the supervisor's clock passes the
  timeout once.
- With `MaxSegments` 3 a message of four segments overflows. Five deliveries
  reach that overflow with one left over, or complete the message of two
  segments with three left for repetitions and a second round. All messages but
  one share a key: `Add` and `Finish` touch only the sequence of their key. The one
  under another key has the checksum of a first one.
- Two calls suffice for a foreign answer. The counter does not wrap in the run;
  the properties are stated up to the wrap.
- The races in endpoints, wrappers and bridges are between two callers, or one
  and a goroutine of the object; a third caller is added where one must be
  displaced (federation). Channels and rings hold one or two elements and are
  overrun. Endpoint values have two or three bits, with configurations that
  widen and narrow them.
- A codec item has each optional part present and absent, and values at both ends
  of a field. One octet changes, two in a request, or any tail is cut off. Traces
  for the checker are all those up to length 4, 5 or 6.
- Bounds in guards are named `Max...`. Deadlock checking is off in the Transport
  runs, `services` and `live`, where all calls may have returned.
- `live` sends one SOME/IP body where `services` sends two: no wait depends on it.
- Callers of an endpoint are interchangeable, which `endpoints` uses as symmetry;
  it checks no liveness.

### Fairness

- `PumpStep`, weak: the goroutine that holds `d.mu` is scheduled, and endpoint
  calls return.
- Keeper steps, weak: the code leaves calling `Tick` to a caller, so the property
  assumes a caller that ticks again and again.
- `TickPurge`, strong: it waits for `d.mu`, which Pump takes repeatedly. Go
  mutexes hand over to a waiter after one millisecond.
- Callers of `Request`, the read loop after a read, and `Close`, weak: runnable
  goroutines run. The context's expiry, a read and a failing socket are not fair.
- Power-state driver: the application calls `Pump` again and again (weak), and a
  transmission that is retried succeeds eventually (strong). Nothing else about
  the driver is fair.
- Wrappers and bridges: a handler returns; a `select` does not pass over a ready
  case for ever; an upstream request ends because `Close` cancels its context; a
  read of a closed connection fails. Callers need not call, and nobody need close.

## Refinement

- `Watchdog` implements `Dispatcher` (`ImplementsDispatcher`, checked and proved):
  the composed loop, with the Supervisor's verdict for the safe-state check, takes
  only Dispatcher steps, so every safety property proved of `Dispatcher` holds in
  it.
- Every endpoint package but SPI implements `ConfigSpec` of `Endpoint`
  (`ImplementsEndpoint`, checked): what is proved of the configuration protocol
  holds for each package whose codec satisfies the hypothesis of the proof.

## What is proved

The proofs hold for every value of the constants that satisfies the named
assumptions (`DispatcherAssumption`, `ReassemblerAssumption`, and so on) and the
hypotheses a theorem states.

**DispatcherProofs.** `TypeCorrect` from `TypeInv` (types, and an empty batch
between Pumps). `OrderAgrees` uses that new identifiers exceed all earlier ones.
`CallsAgreeWithOutcome` needs `ExecInv`: the executing ticket is the one whose
Handler call is in progress, and is of a kind that makes one. `PriorityRespected`
needs `BatchInv`: during a Pump every unvisited ticket that waits for nothing is
still in the batch. `SafetyGated` is an action property from `GateInv`: a safety
ticket in the batch belongs to a stream whose gate was open when the Pump
collected it. `OutcomesFinal` follows from the shape of each step.

**ServerProofs.** Of `RCServer`: `PinMapStaysPlausible`, `QueuesStayValid`,
`LocksHold` and `ClaimIsExclusive`. The first rests on the fact that a write in a
locked state keeps the endpoints' generic part, which is all that plausibility
reads. `LifecycleIsLegal`: every step is one that `LegalStep` of `Formal` accepts,
so a trace of the server passes `formal.CheckLifecycle`. Of `Watchdog`:
`SafeStateIsLeftDeliberately`, no step of Keeper, Dispatcher or clock takes a
stream out of safe state, and `LoopImplementsDispatcher`, each step of the loop is
a step of `Dispatcher` or leaves its variables alone.

**ReassemblerProofs.** `SegmentsStayInPlace`: every *held* sequence is made of
pieces in place (`placed`), not only the finished ones. `NothingCompleteIsLost`
counts ready sequences before and after each step. `TypeCorrect` bounds their
length.

Of `Endpoint`, in **DispatcherProofs**: `EndpointConfigValid`,
adopting, storing and rolling back only ever write what `Validate` accepted, and
`EndpointAgrees`, a change that ran alone leaves copy and block in agreement. The
latter needs `CodecSound`, which the packages satisfy: encodings are not empty, and
a valid configuration decodes to itself. The invariant `AgreeInv` follows the one
call that runs alone through its steps.

Of `Transport`, in **RegistriesProofs**: `ReadLoopNeverPanics` from `CloseInv`,
channels are closed only after the loop has ended, and it ends only between
messages. `AnswersAreMine` and `PendingStaysInFlight` from `NumberInv`: until the
wrap, two calls never share a number, and datagrams, entries and deliveries carry
the number of the call they belong to.

**ClientsProofs**, **HandlersProofs**, **GatewaysProofs**, **RegistriesProofs**
and **BridgesProofs** prove `ClientsSafe`, `HandlersSafe`, `GatewaysSafe`,
`RegistriesSafe` and `BridgesSafe`. Each invariant is a conjunction over the
packages, says what a call knows at each of its steps, and adds to the promise
what keeps it:

| Theorem | Package | What the invariant adds |
|---|---|---|
| `ClientsAreSafe` | ratelimit | the tokens left and those given out are at most the burst and what the time since the first request brought |
| | redundancy | a swap follows a failure of the link it retires; until both links are shut, some Close still has them to close |
| | loan | slots point to distinct buffers, a pooled slot to none on loan (`LoansAreExclusive`, `LoansAreTracked`) |
| | prioqueue | nothing handed out should have waited for what is still queued |
| | zonegroup | the results stored are those of the members that are not left |
| | firmware | one update runs, and the endpoint has the image up to its offset |
| | deadline | what is known of a stream agrees with the history of its messages, and ages with the clock |
| | mdns query | until a query is broken by a foreign deadline, only the latest query has an interrupter waiting, and an expired deadline is its own |
| `HandlersAreSafe` | record, faultinject | the ring holds the last entries of the log; a rule has fired what its count lost |
| | udp.Router | which handlers were in the table during a Route, what it found, and why each answer was given (`HandlersAreRegistered`, `SilenceIsSpecified`) |
| | proxy | an upstream answer is held by one call, and was given to nobody |
| | authz, sim, dyndata | the promise with the types it needs; schemas, once registered, stay |
| `GatewaysAreSafe` | RELAY adapter | `inFlight` is the number of calls inside and the messages counted are the requests begun; an open channel is in the list, and once closed is set the list is empty or one call is about to end it |
| | admin | each server has a record of its own, whose requests, errors and misses are ahead of the history by the number of calls between two of their updates |
| | observe | the promise itself, with the reports a call has still to make |
| `RegistriesAreSafe` | capi | a handle is the number of its Controller, and a Controller is open just when it is in the table or in one call's hand |
| | tsn, udp.Registry | a socket is open only if its Controller is registered, or one call has it in hand |
| | config | the file in use passed the checks; what was told lags only behind a call that will tell |
| | mock | who was closed by anyone is shut, so a request begun later stops at its check |
| | federation | the promise itself |
| `BridgesAreSafe` | mqttbr | the entries of the slice are distinct and are the subscribed clients; a walk that no unsubscribe overlapped has yet to deliver to exactly the entries ahead of it |
| | ddsbr | the readers in a topic are open, and a Write under the lock has only such readers left to send to |
| | someip | a session number belongs to one request until they run out; entries, datagrams and answers carry the number of theirs |
| | doipbr | until a Nack, what is on the connection is the answer to the one message under way |
| | shmem | a bus whose pair was deregistered has ended, unless the registry's lock is still held |
| | telemetry | what a stream received, has on the way and has queued is in order, and lacks nothing since it joined but what a full queue dropped |

They hold for any set of goroutines; `GatewaysAreSafe` counts them and needs
`CallersAssumption`, that they are finitely many. In `Bridges` they are assumed to
include those that publish, and there is a session number at all. The other
assumptions say that rates, sizes and intervals are numbers of the range the
code's types have, that there are two links, that a ring has room, and that
schemas use the five kinds.

Only model-checked: the liveness properties (`PumpReturns`,
`SilentStreamIsPurged`, `NobodyWaitsForever`, `WakeAnnounced`, `ClosingEnds`),
which the prover does not reach; `ProtectedIsWhole` and the codec properties
(`ReadAsSent`, `DamageIsSeen`, `CheckerDecides`), which are about flattened or
recursively built sequences and would need induction; `DriverTellsAll`, and the
properties of the endpoint packages, `ConfigSound` in its general form for
`Endpoint` apart.

## Other observations

Noted while reading and not stated as properties.

Request path:

- `Pump` drains each source that a started triggered ticket waits for; the events
  beyond those its ready tickets use are lost, those a ticket behind a closed
  safety gate waits for included.
- `CancelSequencer` compares undecorated kinds and passes over safety variants.
- The `wraps` option of a stream has no effect, because 32-bit addition already
  wraps.
- A segment with another header destroys a sequence that is already complete;
  `ErrSequenceComplete`, on the other hand, does not abandon the sequence,
  although the documentation of `Add` says any error does.
- After a read error a Controller is still open, but nothing reads its socket, so
  no later `Request` can be answered.
- `Split` allows segment numbers up to 65535, and the encoder up to 4095.
- The EP0 encoding keeps 8 bits of an 11-bit address (`byte(g.Address)`,
  `regmap/registermap.go:278`), although `avtp/address.go:44` says not to narrow
  it; `WriteEP0` of a map read back thus changes a map with larger addresses.
- The Router executes a Scheduled timed request at once.
- `ApplyConfigRequest` says that its rollback cannot fail; a GPIO endpoint that
  was never configured has a zero configuration that `Validate` refuses.
- TSCF frames of length 2048 to 65535 decode and cannot be encoded.
- The comment of `Supervisor.Reset` calls leaving safe state always a deliberate
  decision of the caller (`e2e/watchdog.go:176`); a fresh arrival also ends one that
  only silence caused, as `formal/safestate.go:54` describes.
  `SafeStateLeftDeliberately` allows both.
- Two overlapping calls of `ApplyConfigRequest` may adopt in one order and persist
  in the other, after which endpoint and register map differ.

Wrappers and registries:

- `powerstate.Acknowledge` is two steps and may drop repeats of a wake that comes
  between them.
- RELAY `CloseWithDrain` does not keep new requests out while it drains.
- tsn: concurrent requests on one Controller mix their priorities; ranks 0 and 1
  share priority 6.
- admin: the Controller may be nil after a Deregister between two lookups;
  `ErrorCount` may be read above `RequestCount`; `handleMetrics` reads `healthy`
  without the lock; events of overlapping requests may come in another order than
  the health was written.
- config: `Watcher` misses a change between Load and its first Stat; `Reload` may
  replace a newer configuration and tell of changes out of order.
- The CRC of a record log does not cover the timestamp, and a log cut inside the
  header of an entry reads as the shorter log.
- mock: a request that passed the closed check is routed although its client was
  closed in between.

Bridges:

- mqttbr: a publish and an unsubscribe race on one slice.
- ddsbr: a second Close panics.
- someip: an empty Write becomes a read, addresses from 256 on alias, and the
  Length field is ignored.
- doipbr: the payload of a Nack is left on the connection; `Server.Close` waits as
  long as clients stay connected.
- grpcbridge: `Subscribe` may return before the server has joined the stream.
- mdns: the goroutine of a failed Query may set the deadline of the next one, and
  of two concurrent Queries one may never return; compression pointers inside
  record data are resolved against that data.
- linbr: `DecodeFrame` does not check the parity of the identifier.
- l2: `closed` is read without synchronisation, and Ethernet padding makes
  `acf.DecodeFrame` refuse a short frame.

## Not modelled

- `codegen`, `certgap`, `iso21434`, `cmd/go-rcp`: a code generator, reports over
  documents and the command line, which process text outside a running system.
- `safety`, `examples`: a latency test and an example program. `canbr`: a
  translation of one call without state. The latency figures of `sim` are
  arithmetic without state.
- The CRC polynomials, error texts, logging, and the formatting of reports.
- `e2e.Guard`, a Sequencer shared by several Dispatchers, `AccessControl.Revoke`,
  `Server.Close` of `udp`, and the encapsulation sequence number, which nobody
  reads.
- Sockets and listeners: accept and close of DoIP, the announcer's loop of
  `mdns`, the raw socket of `l2`.
- The gRPC, HTTP, YAML and JSON libraries, modelled from how they are used.

## Running

    tlc -config Dispatcher.cfg MCDispatcher
    tlapm DispatcherProofs.tla

The module and configuration of each run are in `PROJECT.json`. The longest run,
`endpoints`, takes about three minutes.
