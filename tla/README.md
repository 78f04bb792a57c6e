# TLA+ verification of Q2NS

Q2NS is a quantum-network module for ns-3: it simulates qubits that are created
on nodes, entangled, measured, sent over quantum channels and lost, with
interchangeable numerical backends, and brings applications for teleportation
and entanglement swapping, helpers that set networks up, and examples. This
directory holds TLA+ models of it, TLC configurations that check them on small
instances, and proofs checked by TLAPS.

    tlc -workers 2 -config MCSetup.cfg MCSetup.tla
    tlapm TeleportationProofs.tla

## The system

Q2NS runs inside ns-3's event loop. There is one thread; an event handler runs
to completion, so a handler is an atomic action. What is concurrent is the order
of events: the script, the deliveries scheduled by channels, timers and packets
of the applications.

| Component | State it keeps | Operations | What makes it correct |
|---|---|---|---|
| `QStateRegistry` | backend objects by state id, members of each state, location of each qubit, reverse index by node, next ids | create, merge, remove states; register, unregister, place qubits | handles, members and objects agree; no state leaks; the reverse index agrees with the locations |
| `Qubit` | state id, index in the state | location setters, through the registry | Lost is absorbing |
| `QProcessor` (one per node, behind `QNode`) | none of its own | create qubit or Bell pair, gate, measure, Bell measurement, adopt | operations reach the physical qubits they name; nobody else is entangled or disentangled |
| `QNetworker` | interfaces, host routes, receive callback | add interface or route, send, receive | single custody; the callback only gets usable qubits |
| `QNetDevice`, `QChannel` | ends, delay, jitter and map of each direction | connect, configure, send from an end, scheduled delivery | one delivery per accepted send, to the far end, at the time the map was drawn for |
| `QMap` family | probabilities, rates, weights | sample an instance at the send, run it at the receiver | loss ends a composition, nesting does not matter, a rate overrides a probability |
| `NetController` | nodes, channels by pair, stream counter | create nodes, link, chain, all pairs, assign streams | one channel per pair, routes over the right interface, disjoint streams |
| `QState` backends: ket, density matrix, stabilizer | amplitudes or affine space, generator of a backend | gate, measure, merge, partial trace | all three stay the same physical state |
| `QGate`, `analysis` | none | matrices; fidelity, purity, entropy | they agree with each other and with the state |
| `TeleportationApp` | sessions, sockets, two flags per session | start, receive bits, receive qubit, correct | corrected once, by the right bits, in either order |
| `SwapApp` | sessions, sockets by port and peer, pending sends, accumulated frame, message counter | start, swap, receive a header, receive a qubit, correct | a frame is resolved from every repeater's outcome; the ends share the pair |
| `TeleportationHelper`, `SwapHelper` | specification, address map, used ports | install | sources find sinks; all apps of a session take one plan |
| `ClassicalNetworkBuilder` | links, LANs, addresses, routes | build | addresses are unique, next hops do not loop |
| `CongestionHelper` | installed sinks | install flows | one sink per flow, kept window |
| examples | script state, counters | timed steps, arrivals | what they print is so |
| `q2nsviz` | none | trace output, viewer | output only |

A script calls `NetController` and `QNode`. A node's processor calls the registry,
which rebinds handles anywhere in the network. `QNode::Send` goes through the
networker to the device and the channel, which samples a map and schedules a
delivery; the delivery comes back through the far device to the networker of the
receiving node, which adopts the qubit, runs the map (through the processor) and
calls the application. The applications combine these arrivals with UDP or TCP
packets, which ns-3 delivers independently.

The hard behaviours: handles on other nodes or in flight are rebound by
operations that do not name them; operations read indices before or after a
merge that changes them; a qubit may be lost, or its partner measured, while its
delivery is pending; a send may be refused after the location was changed; the
order of map, adoption and callback matters; qubit and bits race; a node has one
receive callback for all its sessions; packets are lost, connections fail, reads
of a stream join headers; lists overlap and repeat. `PROJECT.json` lists every
hazard at its line with the properties that cover it.

## Modules

| Module | Models |
|---|---|
| `QStateRegistry` | the registry as a record value and its operations as functions from one registry to the next |
| `QProcessor` | one action per public call of the processor, and losing a qubit |
| `QNetwork` | composes processors with topology, routes, channels, sampled maps and deliveries |
| `QubitCustody` | abstract: where a qubit may be and how it may move; `QNetwork` implements it |
| `HandedStates` | `CreateQubit(state)` with an object of the caller that is handed in more than once |
| `QChannel` | one channel in time: delay, jitter, ends and the simulator's calendar |
| `QMaps`, `GateWeights` | what each kind of map samples, and what the instance does where the qubit arrives; how a random gate is picked by its weight |
| `Streams`, `SeedDerivation` | the stream counter, the generators, and the seeds made from streams, runs and salts |
| `NetController` | links, chains, all-pairs and edge lists over nodes that may be null or repeated |
| `QGate` | the built-in gates as operators on amplitudes and on Paulis |
| `QStateKet`, `QStateDM`, `QStateStab` | the operations of each backend, on the states the built-in gates reach |
| `QAnalysis` | fidelity, purity and entropy |
| `QStateBackends` | one state carried by the three backends side by side |
| `BellFrames`, `JoinedPairs` | a Bell pair as a Pauli frame; pairs made, rotated and joined in one stabilizer state, with the frame of each beside it |
| `Teleportation` | all sessions of `TeleportationApp` with their qubits and packets |
| `SwapChain` | all sessions of `SwapApp` with sockets, streams of headers and pending sends |
| `SessionService` | abstract: a session begins, then is done once; both applications implement it |
| `TeleportationHelper`, `SwapHelper`, `ClassicalNetworkBuilder`, `CongestionHelper` | each helper's `Install` or `Build`, entry by entry, and what runs afterwards |
| `ExampleDistribution`, `TeleportationExamples` | the scripted examples on the simulator's calendar |
| `Helpers`, `Examples` | compose the four helpers, and the two kinds of examples, each a part of its own |
| `QProcessorProofs` | theorems about the registry and the processor |
| `QNetworkProofs` | theorems about the network, its routes, and how handles, registry and objects agree |
| `QChannelProofs` | theorems about the channel, the streams, the seeds and the weights of random gates |
| `SetupProofs` | theorems about the controller and the helpers |
| `TeleportationProofs` | theorems about teleportation sessions and about the examples |
| `HandedStatesProofs`, `JoinedPairsProofs`, `SwapChainProofs` | theorems about the module each is named after |
| `MCQProcessor`, `MCQNetwork`, `MCQChannel`, `MCSeeds`, `MCBackends`, `MCTeleportation`, `MCSwapChain`, `MCSetup` | instances for TLC |

### Correspondence

**Registry, processor, network.** `reg` is the registry with what the handles
store. Its fields `states`, `members`, `location`, `atNode`, `nextStateId`,
`nextQubitId` are the members of the class; `stateOf` and `index` are
`Qubit::stateId_` and `indexInState_`. Amplitudes are left out; of a backend
object the model keeps which physical qubits it describes (`held`) and at which
tensor position (`slot`). The handle side and the object side are changed by
different code: `MergeStates` sorts handles and rebinds them, the backend's
`MergeDisjoint` concatenates; `QProcessor::Measure` renumbers, the backend's
`Measure` removes a factor. Their agreement is the invariant `HandleBinding`.

A call that the code rejects (a warning and `false`, `-1` or null) changes
nothing and is a disabled action. A call made of several others is one action
with all of their effects: `CreateBellPair` includes its two gates, `MeasureBell`
its merge and two measurements, `Deliver` the adoption, the map and the callback.
`lastOp` records what the last call was asked to touch and what the backend calls
inside it touched; it and `announced` (qubits given to callbacks) are history
variables that no guard reads.

In `QNetwork`, deliveries are a set from which any may be next: delays are per
link, direction and send, and every order is possible for some of them. `QChannel`
has the other view: one channel, with the clock, and only the flight time of a
map. A channel is named by the pair of nodes it was made for; interfaces count from 1.
`ends` are the two device pointers of a channel and `attached` is the channel pointer
of a device. They agree as long as only `InstallQuantumLink` sets them; the public
`QChannel::Connect` takes any two devices, null ones included, and updates the
pointers of what it is given, not of what was there before. `Connect` does the same
for the calls in `Rewirable`.

**Streams and seeds.** A generator is known by the seed it was given, and the seed
is what `DeriveSeed64` mixes of run number, stream and salt, bit by bit; that
SplitMix64 permutes is all that is used of it. Two generators with equal seeds give
equal numbers, whichever backend they belong to: `Streams` records each pair that
draws one number (`replayed`). A repeat by one backend or channel is excluded
while streams are assigned once; two backends may meet.

**Backends.** The built-in gates from computational states reach vectors whose
entries are 0 or, up to one common factor, a power of i; so a ket is a function
from basis states to `Zero` and the four powers, and a density matrix one from pairs
of basis states. The stabilizer backend delegates to `stab::AffineState`
(`third_party/stab`), which keeps a state as an affine space of bit strings with a
quadratic phase; the model has the stabilizer group such a state determines, as a
set of signed Paulis, and each of the class's operations by what it does to the group.
Normalisation and rounding are thereby left out, the T gate is not built
in. `QStateBackends` applies one call to all three.

**Applications.** A Bell pair made, corrected by Paulis and joined by Bell
measurements is always |Phi+> with a Pauli frame `<<x, z>>`; theorem `FramesAlways`
shows this of the stabilizers, and the applications use frames. A qubit to be
teleported is half of such a pair with a reference, so that its whole state
counts. The start events of a session are at one time, before anything they send
can arrive, and are one step. UDP loses packets, TCP does not lose but may fail
to connect; a TCP stream is a sequence of headers, and a read takes any prefix. That a
read ends between two headers needs `PacketsFit`: what a socket sends fits in one
segment. With a `payloadBytes` above that a packet may be cut, and
the app would take its second part for a header (`model/q2ns-swap-app.cc:279`).

**Helpers and examples.** One step handles one entry of one list in the code's order.
`ClassicalNetworkBuilder` attaches one device in a step, so that a node gets an address for
each place it has in a segment, and its breadth-first searches visit one neighbour in a
step; the first hop is found by climbing the parents, as in the code. The ids of segments,
which are taken to differ, order a node's neighbours and decide which of several segments a
route uses: that order is left open. A flow of `CongestionHelper` has its words as they are
spelled and in lower case. An unknown name makes `EntanglementSwapHelper` throw
(`helper/q2ns-swap-helper.cc:131`), so that such a call has no step
(`BuildQuantumForSwaps`); `TeleportationHelper` skips it. The examples are chains of nested
`Schedule` calls, each step with its gap after the one before; the calendar holds events
with time and number and runs the least, as ns-3 does. Times are in units of 10 ns: a
single-qubit gate of 10 ns is 1, a two-qubit gate 30, a datagram of 31 bytes at 100 Mbps
258.

### What is assumed of callers

Null pointers (except in `NetController` lists), labels that clash, and
user-written maps with effects other than gates, loss and a reset pointer are left
out. `CreateQubit(state)` gets an object of one qubit; the same object may be
handed in repeatedly. A session of `TeleportationApp` is installed on both ends. The
segments of a `ClassicalNetworkBuilder` have different ids, and the packets that a
`SwapApp` sends on one socket fit in a segment.

## Runs

Twelve runs, a few minutes together with two workers. Where a run has several
parts or settings, a behaviour belongs to one of them, chosen at the start; the
variables of the others keep their first value.

| Run | Instance | Question |
|---|---|---|
| `processor` | 1 node, 4 qubits, 8 state ids; or 2 caller's objects, 3 qubits, 7 ids | Does every sequence of creations, gates on any subset, measurements, Bell measurements and losses keep handles, members and objects in step? Whom does an object handed in twice harm? |
| `partners` | 2 nodes, 3 qubits, 7 state ids, 1 link, the instances gate, and gate then loss | The same with partners remote or in flight; does noise meet the qubit it was drawn for? |
| `transmission` | 3 nodes, a chain and a loop link, 2 qubits, 3 state ids, the instances none, gate, and loss then gate; a node without callback | Is custody single, never stranded, never revived? Do routes lead to their peer for every order of installing links? Does every departed qubit land; is `QubitCustody` implemented? |
| `rewired` | 3 nodes, chain, user routes, a channel whose ends are replaced: by null, its own devices, one of them twice, a device of the other link | Does single custody survive when the script rewires with deliveries pending? |
| `refused_send` | 2 nodes, a link that loses an end | Expected violation, below |
| `channel` | one channel, values -1..1, 2 sends, 2 units of time; 3 of 11 maps over 4 number sequences; up to 3 gates with weights 0..2; 2 links, 3 states of ket or dm, 2 draws, 2 assignments by hand from stream 3; 3 backends, 2 runs, 3 streams | Does a flight take the time its map was drawn for? Do maps compose, and are gates picked by their weights? Are streams and seeds separate? |
| `seeds_collide` | the salts of the code, 1 run, 16 streams | Expected violation, below |
| `backends` | all built-in gates and Z, X on 2 qubits; H, CNOT on 3; H, S and all bases on 1; 3 Bell pairs | Are the three backends one physical state; do the measures and the Pauli frames follow it? |
| `measured_y` | 1 qubit, H, S, all bases | Expected violation, below |
| `teleport` | 3 sessions over UDP and TCP, 2 to one destination, packets lost, ports that wrap at 65536 | Is a session repaired once, whatever comes first? |
| `swap` | 6 sessions in 3 groups: 2 paths that share nodes, one or two repeaters, with losses and without; 2 sessions on one path and port | Is a frame complete when it is applied? Does every session end when nothing fails? |
| `setup` | 8 parts: 3 nodes and 3 calls of the controller; up to 3 links and sessions; 3 swap sessions in 2 rounds; 4 hosts (IPv4 and IPv6), 3 links, 2 LANs; 2 calls with up to 2 flows; 3 distribution and 5 teleportation programs | Does what is installed fit together, do routes lead closer at every hop, and do the programs run in order, in time, and end as they say? |

### What the larger properties consist of

A property that a run checks may be the conjunction of named parts, one per
hazard; `PROJECT.json` has the hazard for each.

- `RegistryExact`: `MembershipExact`, `IndicesCompact`, `MeasuredIsAlone`;
  `BindingKept`: `HandleBinding`, `OperationsHitTargets`.
- `HandedInTwice`: `ActsOnOwnWire` (an operation that is not rejected acts on
  the qubit's own wire), `OnlySharedAreOrphaned`.
- `FlightsKept`: `ElapsedIsFlight`, `NeverInThePast`, `OnlyJitterOvertakes`,
  `NeverBackToSender`.
- `MapsSound`: `ComposeAssociative`, `NothingAfterLoss`, `RateOverrides`.
  `StreamsSound`: `StreamsDistinct`, `NothingReplayed`.
  `SeedsSeparate`: `StreamsSeparate`, `SaltsSeparate`, `ReplicationsSeparate`.
- `StatesAgree` and `AnalysisAgrees` compare the backends' states and reductions,
  their measurements (in Y only the stabilizer's, see below), and the measures
  computed from each.
- `SessionsSafe`: `TypeOK`, `CorrectionNeedsBoth`, `ParityDecidesFrame`,
  `TeleportedIntact`. `SwapSafe`: `TypeOK`, `SwappedIntact`, `ResolvedFromAll`.
- `LinksAsAsked`, `HelpersAgree`, `ClaimsHold`, `StepsInOrder`, `OnTime` and
  `EveryProgramEnds` of the run `setup` name their parts by module.

### Bounds

`MaxQubitId` and `MaxStateId` bound the ids handed out (`Room` in the guards: one
free id for a merge, two for a measurement). Four qubits make states of size up
to four, merges of two states of two, entanglement swapping, a measurement at the
first, a middle and the last index, and merged states in an id order that differs
from the leading-qubit order. Eight state ids let two pairs be created, merged by
a Bell measurement and split twice, with ids left. Two qubits suffice for the
transmission: its properties relate a qubit to its own deliveries, or to another
one on the same channel; three state ids allow two qubits and one measurement or
merge, and what states do under way is the question of `partners`. Three nodes in a
chain, with a second link between two of them, give a node with three interfaces.

Two sends are enough for one qubit to overtake another, and values from -1 to 1
include the jitter that exceeds its delay; the attributes add a delay of 2 at
construction. The numbers a map draws are six equal parts of the unit interval
(`Grid`), and its probabilities multiples of a sixth. Three maps make both
nestings. Two links and three states interleave with an assignment by hand, one
at time 0, and states made later. An assignment from stream 3 with two links gives
the first states the streams 7 and 8, where a ket and a density matrix have one seed;
two draws are enough for one to repeat the other.

Two-qubit states reach every two-qubit stabilizer state; the third and fourth
positions only matter to index arithmetic, for which H and CNOT suffice. Three
Bell pairs allow a pair to be joined twice, at any position in their state.

Of three sessions one has its own destination and two share one; two repeaters
are the least with a partial frame. `Rounds` 2, `Period` 2 and `Jitter` 1 let
rounds overlap. Four hosts in a ring have two equal shortest paths, with a LAN also a
LAN and a link between the same two. With two subnets (`Subnets`) three links make the
address wrap that the code has after 65536. The quantum
delays of the programs are 1, 10 and 50 units and the packet latencies 2 and 258,
either side of each other; the examples run at 0, 50 km and so far apart that a
round trip outlasts the simulation.

`CHECK_DEADLOCK FALSE` in every run: simulations end, calls and ids are bounded.

### Fairness

`Simulator::Run` executes every scheduled event in time order and nothing in the
module cancels one. So a scheduled delivery is run eventually (`transmission`), a
packet that is under way arrives or is dropped (`teleport`), pending events of a
swap are run (`swap`), and a program or an
`Install` is run to its end (`setup`). The fairness is weak: an event stays
pending until it runs. Nothing obliges a script to create, send or measure, and
liveness is only claimed of what cannot be lost (`Undisturbed` in `SwapChain`).

## Disagreements between documents and code

Three runs are expected to find a violation.

- `refused_send`: `QNetworker::Send` sets the location to the channel and then
  asks the device (`model/q2ns-qnetworker.cc:92`). If the channel refuses, `Send`
  returns false and the qubit stays on the channel for good, with no delivery. The
  header (`model/q2ns-qnetworker.h:90`) promises the change on acceptance.
  Connecting a channel with a null end, which `QChannel::Connect` accepts with a
  warning, reaches it, as does giving it devices of another link; theorem
  `NoneStranded` shows that without a call of `Connect` by the script nothing does.
- `measured_y`: after a measurement in Y the ket and the density matrix rotate
  the qubit into Z again instead of back (`model/q2ns-qstate-ket.cc:154`,
  `model/q2ns-qstate-dm.cc:191`), so that it is left as |+> or |->. The stabilizer
  backend returns the Y eigenstate, and the comment at `:144` promises it.
- `seeds_collide`: a seed is the ns-3 seed, the run number, the stream and the
  backend's salt combined by exclusive or and mixed by a permutation
  (`model/q2ns-qstate.h:185`). The salts of the ket and the density matrix differ only
  in their lowest four bits, so that stream 7 of one and stream 8 of the other, in one
  replication, have the same seed; `doc/design-notes/randomness.md:44` guarantees that
  different backends do not share sequences. Theorem `BackendsSeparateAlways` shows
  which salts would keep the guarantee.

Met while modelling, and modelled as the code has them:

| Place | What the code does |
|---|---|
| `model/q2ns-teleportation-app.cc:227` | each sink sets its node's one receive callback: with two sessions to one node, the later one takes the arrivals |
| `helper/q2ns-teleportation-helper.cc:247` | only chosen ports are compared; a chosen one may meet an allocated one, and two allocated ones meet if their ids differ by a multiple of 10000 |
| `model/q2ns-swap-app.cc:279` | several headers in one TCP read count as one |
| `model/q2ns-swap-app.cc:292` | a path without repeaters waits for headers nobody sends |
| `model/q2ns-swap-app.cc:164` | a session id of a later round is silently not added, so only one round runs |
| `helper/q2ns-classical-network-builder.cc:193` | in IPv4 every LAN has the same address base |
| `helper/q2ns-swap-helper.cc:195` | paths that visit a node twice and sessions of one id are installed without a check; an app keeps the first configuration it gets |
| `helper/q2ns-congestion-helper.cc:142` | a flow whose stop is before its start never stops |
| `model/q2ns-qchannel.cc:256` | connecting a device to a second channel leaves it an end of the first, whose deliveries it still receives |
| `helper/q2ns-congestion-helper.cc:126` | the warm-up is never used |
| `model/q2ns-qstate.h:233` | only the last stream of a backend is remembered: with two states a repeated `AssignStreams` reseeds and numbers come again, though `doc/design-notes/randomness.md:30` says that repeating the call has no effect |
| `model/q2ns-qstate.h:185` | stream and run number are combined by exclusive or: stream 2 of run 1 and stream 1 of run 2 have one seed (`ReplicationsSeparate` says which can) |
| `model/q2ns-qmap.cc:104` | the composite map reads the pointer a stage may have reset |
| `model/q2ns-qchannel.cc:38` | `Delay` and `Jitter` given at construction are overwritten by the defaults of the two directions |
| `model/q2ns-qprocessor.cc:227` | measuring one of two qubits that share an object leaves the other without a state |

The properties say what does hold, each with its exceptions in place: `TeleportedIntact`
is about sessions with a destination of their own, `AddressesUnique` leaves out addresses
on the LANs of an IPv4 network with several, `ConflictsKnown` names the collisions that
nobody warns about, `RolesAgree` is about ids and paths without repetition, and
`NothingReplayed` excepts two different backends.

## Proofs

The theorems hold for every value of the constants that satisfies the modules'
assumptions: any set of nodes, any bounds, links, user routes, sampled maps and
listening nodes for the network; any objects, handed in any number of times; any devices, delays and jitters for the channel;
any salts, weights and numbers of Bell pairs; any sessions, destinations, protocols and ports for teleportation; any number of
swap sessions on paths of any length, whichever end generates each link; any
number of nodes and any lists for the controller and the helpers; any delays for the examples.

| Theorem | States |
|---|---|
| `ProcTypeCorrect` | `ProcSpec => []TypeOK` |
| `NetTypeCorrect` | `Spec => []NetTypeOK` |
| `LocationIndexHolds` | `Spec => []LocationIndex` |
| `SingleDelivery` | `Spec => []OneDeliveryPerQubit` |
| `LostForever` | `Spec => LostIsForever` |
| `AnnouncedLocal` | `Spec => AnnouncedIsLocal` |
| `NoneStranded` | `Spec => []NoStrandedQubit` if `Rewirable = {}` |
| `ImplementsCustody` | `Spec => CustodySpec` if `Rewirable = {}`: the network implements `QubitCustody` |
| `RoutesAlwaysReachPeer` | `Spec => []RoutesReachPeer` if `Rewirable = {}` and `UserRoutes = {}` |
| `ProcHandleBinding`, `ProcRegistryExact`, `ProcOperationsHitTargets` | `ProcSpec => []HandleBinding`, `[]RegistryExact`, `[]OperationsHitTargets` |
| `ProcEntanglementIsLocal` | `ProcSpec => EntanglementIsLocal` |
| `NetBindingKept`, `NetRegistryExact` | `Spec => []BindingKept`, `[]RegistryExact` in the network |
| `NetEntanglementIsLocal`, `NoiseReaches` | `Spec => EntanglementIsLocal`, `Spec => NoiseReachesQubit` |
| `HandedInTwiceAlways` | `HandedSpec => []HandedInTwice` |
| `FlightsKeptAlways` | `Spec => []FlightsKept`, from one theorem for each part |
| `StreamsSoundAlways` | `StreamsSpec => []StreamsSound`, with the seeds of `DeriveSeed64` and any salts |
| `SaltsKeepApart` | the same, and `replayed = {}` while streams are assigned once, if the salts differ in the bits that no stream has |
| `SeedsSeparateAlways` | `SeedsSpec => []SeedsSeparate` |
| `BackendsSeparateAlways` | `SeedsSpec => []BackendsSeparate` if the salts differ in the bits that no stream has |
| `PickedByWeightAlways` | `GatesSpec => []PickedByWeight` |
| `FramesAlways` | `PairsSpec => []FramesAreTheState` |
| `TopologyLinksAsAsked`, `TopologyLinksStay` | `TopologySpec => []LinksAsAsked`; no call moves a linked pair to another channel or, but for edge lists, changes a delay |
| `HelpersAgreeAlways` | `HelpersSpec => []HelpersAgree`, for any lists |
| `SessionsFit`, `LinkAddressesUnique`, `RolesAgreeAlways`, `InterfacesUnique`, `LoadKept` | its parts, each of one helper |
| `HopsLeadAlways` | `HelpersSpec => HopsLead`, for any links and LANs |
| `SessionsSafeAlways` | `Spec => []SessionsSafe`, from one theorem for each part |
| `ImplementsSessionService` | `Spec => ServiceSpec`: teleportation implements the abstract service |
| `StepsInOrderAlways` | `ExamplesSpec => StepsInOrder`, for every delay and distance |
| `OnTimeAlways` | `ExamplesSpec => []OnTime` if `PacketsInTime` |
| `SwapIsSafe` | `Spec => []SwapSafe` if `PrevSpared` |
| `SwapResolvedFromAll` | `Spec => [](TypeOK /\ ResolvedFromAll)` |
| `SwapImplementsService` | `Spec => ServiceSpec`: swapping implements the abstract service |

`QProcessorProofs` begins with what each registry operation preserves:
`WellFormed`, that is the kinds of the fields, agreement of the reverse index,
and no location for an id not handed out; and that all but `SetLocation` leave
every qubit in place. `Rebind` needs the agreement of the index to be harmless,
because it writes back locations. It composes these lemmas to the
calls and shows that a call creates its new qubits at one node, loses one qubit, or
leaves all in place (`Moves`, and `PlacesStep` qubit by qubit). `QNetworkProofs` has the inductive invariant `NetInv`:
`OneDeliveryPerQubit` alone is not inductive, since a created qubit must not have
a delivery already (ids not handed out have no location). It needs nothing of the
wiring, so it holds whatever `Connect` is called with.
`NoneStranded` adds `Wired`, that every device is attached to the channel it was made
for and every interface has a far end; both are what rewiring breaks.

For the refinement `QNetworkProofs` has `CustodyInv`: `NetInv`, the wiring (the
two ends of a channel are on the two nodes that name it, a node's interfaces are its
own, every interface has a far end) and that a created qubit is somewhere. With it a
departure goes to a channel that leads to the node the delivery is for, and each step
maps to a step of `QubitCustody` or a stutter: losing a lost qubit and delivering one
lost on the way are stutters. A refused send has no counterpart, hence the assumption;
the run `refused_send` shows it.

A second part of `QNetworkProofs` has the invariant that makes handles and objects agree.
`HandleBinding` alone is not inductive: a merge concatenates the objects' factors but
sorts the handles of each side by index, so handle and object only stay together if,
in every state, the index of a member is the number of members with a smaller one.
That is `Ranked`, and `Bound` adds to it that `held` and `slot` of an object are what
the handles say, that members and handles name each other, and that ids are below the
counters. `MergedSlotIsIndex` and `SurvivorPlaces` show that concatenating two ranked
states and removing a member of one give ranked states; the rest of the proof follows
each call. The counting is about cardinalities of sets of qubits, never about
sequences, so that no induction is needed. The invariant was model-checked in the
settings of `processor` and `partners` before it was proved.

`HandedStatesProofs` has `HandedInv`, for `CreateQubit(state)` with an object of the
caller. An object that is handed in twice is in the registry under two ids and
remembers the last, so what `Bound` says does not hold: a measurement rebinds the
members of the *remembered* state, the other keeps a member that has gone, and a qubit
may be left with a state that was removed. What is left is that the members of a state
are right if its object remembers it or a qubit names it (`MembersBound`), that in every
state that is named the indices are ranks and lead to the wires (`AllInPlace`), and that
a qubit without a state shares its wire (`OrphansShare`). A handler takes qubits from
their states before it binds them, so the invariant has those as a parameter
(`Good(r, P)`), and there is one lemma for each part of a handler: `UnregisterGood`,
`CreateGood`, `BindGood`, `RemoveGood`. Two states are joined with ranked places
(`JoinedInPlace`), one is taken out (`RestFits`). `MeasureStale` is the case of interest:
a state its object does not remember has one qubit, so that the measurement hits its
wire, and those it leaves without a state share it. It was model-checked with two
objects and four qubits before it was proved.

`SwapChainProofs` has `SwapInv`. Whether a frame is right depends on which outcomes
were summed, and a sum over a set is recursive; instead the invariant says that there
*is* a function `F[s]` giving each set of repeaters a sum (`Sums`), and a set
`heard[s]`, such that the frame of the pair is `F[s]` of the repeaters that have
measured, the frame the sink accumulates is `F[s]` of those it has heard, `recv`
counts them, and a header under way is of one that measured and was not heard, at
most once, on the socket of its sender (`Kept`). A measurement extends `F[s]`
(`SumsGrow`), a header extends `heard[s]` (`HearBook`). When `recv` reaches the number
of repeaters, `heard[s]` is all of them, and the correction is the frame. `HalfInv`
keeps, for each repeater that measured, the two halves it measured.

`PrevSpared` says that a session whose channels may lose halves generates its first
link at the Prev endpoint. Without it a session may be done although the half sent to its Prev
endpoint was lost, because nothing in the code waits for that half; every plan of
`SwapHelper` satisfies it (`helper/q2ns-swap-helper.cc:197` and `:236` set `genNext`
alone). The other two theorems do not assume it.

`QChannelProofs` has `ChannelInv`: the four properties are about the last
delivery, so the invariant says of every scheduled one how it was made (`Made`),
that the calendar is not behind the clock, and that numbers are unique. Overtaking
needs the pairwise order of deliveries sent with one delay.

For the streams it has `StreamsInv`: the streams of channels and states increase with
their ids and lie below the counter (`Apart`, by counting the ids below an id), and
every number drawn came from a stream below the counter and, if that stream is still
in use, from a position that was passed (`Spent`). The first is kept however often
streams are assigned, the second only as long as they are assigned once: a later
assignment begins sequences again. A number drawn twice was then drawn by two backends
whose seeds `DeriveSeed64` makes equal (`Collides`): that two streams of *one* backend
have different seeds is a fact about words and their bits, below.

For the seeds, what has to be shown is that combining by exclusive or loses nothing.
A word is taken apart into the set of its bits by halving it, and `BitsDetermine` says
that two words with the same bits are equal; that needs induction over the halvings,
done with `Reach` (below). Two streams, or two salts, that are different then have different
seeds. For two backends with different streams this is not enough, and false with the
salts of the code: `BackendsSeparateAlways` asks that salts still differ when the bits
that streams have are taken away.

For the weights of random gates, `GatesInv` says that the total is the sum of the
weights, after an append to it as after a list that replaces them. A drawn number `d` picks gate `i` if
it is in the part of `i` (`PickedFrom`), and a part whose ends are multiples of
`Grid \div total` has as many numbers as its length.

`JoinedPairsProofs` has `PairsInv`. That each pair has its two stabilizers `XX` and `ZZ`
is not inductive: a Bell measurement leaves, of the group, what commutes with the two
readings, so the product of the stabilizers of the two pairs must already be an element;
with the next measurement the product of that product, and so on. The invariant therefore
(`Products`) says that for *every set* of pairs the product of their `XX`, with the parity of
their signs, is in the group, and so is the product of their `ZZ`. No product mixes the
two kinds, so that no phase need be computed. Lemmas `CnotOnX`, `HadamardOnZ` and the like say what a gate does to a
Pauli of one kind, `RemoveQubitIs` what the backend's swaps of the measured qubit to the
end come to, and `BellMeasured` composes them.

`SetupProofs` has `TopologyInv`: each channel joins one pair, a route's
interface is the one of the pair's channel, the pairs with a channel are those asked
for. A call walks its list with a recursive function, and what it returns for a list
of any length needs induction. The library's induction theorems cannot be
instantiated, but a lemma about a *set* can be: `Reach` says that a set that contains
0 and the successor of each of its elements below `n` contains all of `0..n` (a
missing index would have a least one). The set is that of the indices up to which
the walk is as claimed. That an all-to-all list of `n` nodes returns `n(n-1)/2`
different channels also needs that no row has a pair of an earlier one (`RowsApart`),
and the delay of a pair that the *last* of its edges counts (`EdgesWalkedStep`).

For the helpers it has one invariant per helper and `PartInv`, which says that the one of the
behaviour's part holds.

- `TeleportationHelper` (`InstallInv`, `AddressInv`): how far the three loops are
  (`PhaseInv`), that a source was told the address and port of the sink it was made
  with, that a session has one sink (`SinkInv`), and that of two sinks of one node and
  chosen port one was warned about; the other collisions follow from how ports are
  allocated (`ConflictsFollow`). The addresses given are below the links built so far,
  while those are no more than the subnets: the address wraps after the last.
- `SwapHelper` (`PlanInv`, `RoleInv`): the apps of a session that is `Plain` were all made
  from one plan (`SetUpAs`), and the plan gives each node of the path the role of its
  position. A session with another's id, or on a path that visits a node twice, only
  concerns its own id.
- `ClassicalNetworkBuilder` (`NetworkInv`, `SearchInv`, `RouteInv`, `PacketInv`): an address
  that was given is that of a device in place, and given twice only on one of several
  IPv4 LANs (`GivenInv`). A search has levels (`Tree`): parents are one level up, the queue
  is in the order of the levels and spans two at most, and the neighbours of what has left
  it are at most one level further. So the level is the least number of segments
  (`LevelsLeast`), and the first hop, found by climbing the parents, is one closer to
  what lies behind it (`SearchLeads`). Every route leads to a neighbour one step closer by the search of
  *its* node; since all searches measure the same distance, every hop is closer
  (`StepCloser`). That the search is breadth-first is needed: with a stack the tree has no such levels.
- `CongestionHelper` (`LoadInv`): the sinks installed are those of the flows seen so far,
  each once (`SinksInv`).

None of this assumes anything of the lists. What the code leaves to its callers is an
exception in the property it concerns.

`TeleportationProofs` has `TeleportInv`, the flags of a session against where its
qubit and its packet are, and the parity of its corrections against its frame.
`TeleportedIntact` is only true of a session whose destination is its own
(`Alone`); `OwnInv` says that such a session's qubit only goes to its own flag
and counts its corrections: none until both have arrived, then one. That invariant gives the
refinement: a step is a begin, a completion or a stutter of `SessionService`.

Its second part is about the example programs, for every delay and distance.
Nothing in these programs waits for anything: what comes first is decided by the times
at which events are due, and a step sees only the clock. So the invariant
(`ProgramInv`) says when each *pending* event is due: one time for each step of a script,
for the qubit, the bits, the end of a TCP handshake and the stop (`AgendaInv`). What
Bob waits for is to be sent, under way or with him, and he has it from its due time
(`ArrivalsInv`); a verdict is in exactly when all has come (`DoneInv`). A trial is left
unfinished only if the stop is taken before the bits, so their due time is not before
it, which only TCP's three trips allow. `PacketsInTime` is that the packets of the
other programs arrive before the end: their scripts take at most 4.1 us and their
simulations are stopped after 100 ms or more, with links of 1 ms at most or, for the
noisy trials over UDP, any delay short of 5 s. For the cluster program (`GraphInv`)
the step that sends puts three arrivals on the calendar, each due before the step
that measures, whatever the delay; the others have no step that measures.

Only model-checked:

- `StatesAgree`, `AnalysisAgrees`: the amplitudes of three
  backends, computed by recursive operators and sums over basis states;
- `MapsSound`: a map is a tree, and what it does is defined by recursion over it;
- `ClaimsHold`: what the examples say of the quantum state, scripts of gates over
  stabilizer groups of up to six qubits, which TLC runs through in every order the
  times allow;
- liveness (`CustodyFairSpec`, `EveryoneCorrected`, `EveryoneSwapped`, `ControlArrives`,
  `EveryProgramEnds`), which is beyond TLAPS here, as is `ENABLED`.

Induction over data needs a set to be spelled out each time, as `Reach` does, and was
done for the lists of the controller, the distances of the routes, the streams, the bits of
a word, the weights, the levels of a search and the swaps of a stabilizer state.

## Not modelled

- `q2nsviz`: writes JSON for a viewer, reads no state back.
- ns-3 itself: sockets, queues and the routing protocols that
  `ClassicalNetworkBuilder` can choose (global, RIPng); only static shortest
  paths, which the module computes, are modelled.
- The libraries under `third_party` (qpp, Eigen, stab) as such: what the backends call of
  them is modelled by its effect on a state, or on the generator (`MeasureDraws`).
- Floating point: custom unitaries, mixed-state fidelity, trace distance, the
  tolerance checks of `analysis`.
- Command lines, statistics and logging of the examples; the introductory
  demonstrations and the scaling benchmarks, which only call what is modelled.

## Possible extensions

The modules planned are written. What would add most is a composition of `Teleportation` with
`QNetwork`, so that the arrivals of the application are the deliveries of the network;
today `Teleportation` has its own flights, with the same guarantees as the theorems
`SingleDelivery` and `AnnouncedLocal` give. Next would be a proof for the examples'
`ClaimsHold`: `AgendaInv` and `GraphInv` have the pending events, and `JoinedPairs` what
gates do to a stabilizer group; each script's state would have to be joined to them.
