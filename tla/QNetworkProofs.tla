---------------------------- MODULE QNetworkProofs ----------------------------
(***************************************************************************)
(* Theorems about the network for every node set, topology script, set of  *)
(* sampled maps and bound on the ids.  NetInv is the inductive invariant:  *)
(* that a qubit is not sent twice needs the reverse index and the ids not  *)
(* yet handed out (WellFormed).  It holds however channels are connected   *)
(* again.  The refinement of QubitCustody follows, and last that handles,  *)
(* registry and objects agree, for the processor and for the network.      *)
(***************************************************************************)
EXTENDS QNetwork, QProcessorProofs

NetTables ==
  /\ ends \in [Channel -> Ends]
  /\ attached \in [Device -> Channel]
  /\ ifaces \in [Node -> Seq(Device)]
  /\ routes \in [Node -> [Node -> Nat]]

NetInv ==
  /\ ProcInv
  /\ NetTables
  /\ inFlight \subseteq Delivery
  /\ announced \in [Node -> SUBSET QubitId]
  /\ OneDeliveryPerQubit

-----------------------------------------------------------------------------
(* A qubit a node may operate on has been created.                         *)
LEMMA LocalIsCreated ==
  ASSUME NEW r, WellFormed(r), NEW q \in QubitId, NEW n \in Node, IsLocal(r, n, q)
  PROVE  q < r.nextQubitId
<1>1. r.nextQubitId \in Nat
  BY FieldTypes DEF WellFormed
<1> QED
  BY <1>1, PlacesDiffer DEF WellFormed, UnusedUnset, IsLocal, QubitId

LEMMA ScriptStep ==
  ASSUME NetInv, Script
  PROVE  NetInv'
<1>1. ProcInv' /\ PlacesStep(reg, reg')
  BY ProcStep DEF NetInv, Script
<1>2. UNCHANGED netVars
  BY DEF Script
<1>3. ASSUME NEW e \in inFlight
      PROVE  reg'.location[e.qubit] \in {OnChannel(e.chan), Lost}
  <2>1. e.qubit \in QubitId /\ reg.location[e.qubit] \in {OnChannel(e.chan), Lost}
    BY DEF NetInv, Delivery, OneDeliveryPerQubit
  <2>2. e.qubit < reg.nextQubitId \/ reg.nextQubitId <= e.qubit
    BY FieldTypes, <2>1 DEF NetInv, ProcInv, WellFormed, QubitId
  <2>3. ~(reg.nextQubitId <= e.qubit)
    BY <2>1, PlacesDiffer DEF NetInv, ProcInv, WellFormed, UnusedUnset
  <2> QED
    BY <1>1, <2>1, <2>3 DEF PlacesStep, PlaceStep
<1> QED
  BY <1>1, <1>2, <1>3 DEF NetInv, NetTables, OneDeliveryPerQubit, netVars

LEMMA InstallQuantumLinkStep ==
  ASSUME NetInv, NEW a \in Node, NEW b \in Node, InstallQuantumLink(a, b)
  PROVE  NetInv'
<1> DEFINE c == {a, b}
           devA == [chan |-> c, side |-> "A", node |-> a]
           devB == [chan |-> c, side |-> "B", node |-> b]
           withA == [ifaces EXCEPT ![a] = Append(@, devA)]
           withB == [withA EXCEPT ![b] = Append(@, devB)]
<1>1. c \in Channel /\ devA \in Device /\ devB \in Device
  BY DEF Channel, Device
<1>2. /\ ends' = [ends EXCEPT ![c] = [a |-> {devA}, b |-> {devB}]]
      /\ ifaces' = withB
      /\ routes' = [[routes EXCEPT ![a][b] = Len(withA[a])] EXCEPT ![b][a] = Len(withB[b])]
      /\ UNCHANGED <<reg, lastOp, attached, inFlight, announced>>
  BY DEF InstallQuantumLink
<1> HIDE DEF c, devA, devB
<1>4. withA \in [Node -> Seq(Device)]
  BY <1>1 DEF NetInv, NetTables
<1> HIDE DEF withA
<1>5. withB \in [Node -> Seq(Device)]
  BY <1>1, <1>4
<1> HIDE DEF withB
<1>6. Len(withA[a]) \in Nat /\ Len(withB[b]) \in Nat
  BY <1>4, <1>5
<1>7. routes' \in [Node -> [Node -> Nat]]
  BY <1>2, <1>6 DEF NetInv, NetTables
<1>8. ends' \in [Channel -> Ends]
  <2>1. [a |-> {devA}, b |-> {devB}] \in Ends
    BY <1>1 DEF Ends, NullOrDevice
  <2> QED
    BY <1>1, <1>2, <2>1 DEF NetInv, NetTables
<1> QED
  BY <1>2, <1>5, <1>7, <1>8 DEF NetInv, NetTables, ProcInv, OneDeliveryPerQubit

LEMMA AddRouteStep ==
  ASSUME NetInv, NEW n \in Node, NEW dst \in Node, NEW oif \in Nat, AddRoute(n, dst, oif)
  PROVE  NetInv'
BY DEF NetInv, NetTables, ProcInv, OneDeliveryPerQubit, AddRoute

LEMMA ConnectStep ==
  ASSUME NetInv, NEW w \in Rewirable, Connect(w.chan, w.a, w.b)
  PROVE  NetInv'
<1> DEFINE c == w.chan
<1>1. c \in Channel /\ [a |-> w.a, b |-> w.b] \in Ends
  BY ConfigAssumption DEF Ends
<1>2. /\ ends' = [ends EXCEPT ![c] = [a |-> w.a, b |-> w.b]]
      /\ attached' = [d \in Device |-> IF d \in w.a \cup w.b THEN c ELSE attached[d]]
      /\ UNCHANGED <<reg, lastOp, ifaces, routes, inFlight, announced>>
  BY DEF Connect
<1>3. ends' \in [Channel -> Ends] /\ attached' \in [Device -> Channel]
  BY <1>1, <1>2 DEF NetInv, NetTables
<1> QED
  BY <1>2, <1>3 DEF NetInv, NetTables, ProcInv, OneDeliveryPerQubit

-----------------------------------------------------------------------------
(* Moving a created qubit and recording an operation keeps the invariant.  *)
LEMMA MoveStep ==
  ASSUME ProcInv, NEW q \in QubitId, q < reg.nextQubitId, NEW loc \in Location,
         reg' = SetLocation(reg, q, loc),
         lastOp' \in [kind : OpKind, asked : SUBSET QubitId,
                      hit : [QubitId -> SUBSET QubitId]]
  PROVE  /\ ProcInv'
         /\ reg'.location = [p \in QubitId |-> IF p = q THEN loc ELSE reg.location[p]]
         /\ reg'.nextQubitId = reg.nextQubitId
<1>1. WellFormed(reg)
  BY DEF ProcInv
<1>2. /\ WellFormed(reg')
      /\ reg'.location = [p \in QubitId |-> IF p = q THEN loc ELSE reg.location[p]]
      /\ reg'.nextQubitId = reg.nextQubitId
      /\ reg'.nextStateId = reg.nextStateId
  BY <1>1, SetLocationEffect
<1> QED
  BY <1>2 DEF ProcInv, Fits, Room

(* The device a route resolves to is one of the node's own.                *)
LEMMA RouteDeviceType ==
  ASSUME NetTables, NEW n \in Node, NEW dst \in Node, HasRoute(n, dst)
  PROVE  RouteDevice(n, dst) \in Device
<1>1. ifaces[n] \in Seq(Device)
  BY DEF NetTables
<1> QED
  BY <1>1 DEF HasRoute, RouteDevice

(* What a device can reach is a device.                                    *)
LEMMA FarEndType ==
  ASSUME NetTables, NEW dev \in Device, NEW far \in FarEnds(dev)
  PROVE  far \in Device
<1>1. ends[attached[dev]] \in Ends
  BY DEF NetTables
<1> QED
  BY <1>1 DEF FarEnds, OtherEnd, Ends, NullOrDevice

(* A departure puts a local qubit on the channel of the device.            *)
LEMMA DepartStep ==
  ASSUME NetInv, NEW n \in Node, NEW q \in QubitId, NEW dev \in Device,
         IsLocal(reg, n, q), Depart(n, q, dev)
  PROVE  /\ ProcInv'
         /\ NetTables'
         /\ announced' \in [Node -> SUBSET QubitId]
         /\ reg'.location = [p \in QubitId |-> IF p = q THEN OnChannel(attached[dev])
                                               ELSE reg.location[p]]
         /\ \A e \in inFlight : e.qubit # q
         /\ reg'.nextQubitId = reg.nextQubitId
<1>1. WellFormed(reg)
  BY DEF NetInv, ProcInv
<1>2. q < reg.nextQubitId
  BY <1>1, LocalIsCreated
<1>3. OnChannel(attached[dev]) \in Location
  BY DEF NetInv, NetTables, Location
<1>4. /\ reg' = SetLocation(reg, q, OnChannel(attached[dev]))
      /\ lastOp' = NoOp
      /\ announced' = [announced EXCEPT ![n] = @ \ {q}]
      /\ UNCHANGED <<ends, attached, ifaces, routes>>
  BY DEF Depart, topology
<1>5. /\ ProcInv'
      /\ reg'.location = [p \in QubitId |-> IF p = q THEN OnChannel(attached[dev])
                                            ELSE reg.location[p]]
      /\ reg'.nextQubitId = reg.nextQubitId
  BY <1>2, <1>3, <1>4, NoOpType, MoveStep DEF NetInv
<1>6. \A e \in inFlight : e.qubit # q
  BY PlacesDiffer DEF NetInv, OneDeliveryPerQubit, IsLocal
<1>7. NetTables' /\ announced' \in [Node -> SUBSET QubitId]
  BY <1>4 DEF NetInv, NetTables
<1> QED
  BY <1>5, <1>6, <1>7

LEMMA SendStep ==
  ASSUME NetInv, NEW n \in Node, NEW q \in QubitId, NEW dst \in Node,
         NEW map \in Instances, Send(n, q, dst, map)
  PROVE  NetInv'
<1> DEFINE dev == RouteDevice(n, dst)
<1>1. IsLocal(reg, n, q) /\ dev \in Device /\ Depart(n, q, dev)
  BY RouteDeviceType DEF NetInv, Send, CanSend
<1> HIDE DEF dev
<1>2. /\ ProcInv'
      /\ NetTables'
      /\ announced' \in [Node -> SUBSET QubitId]
      /\ reg'.location = [p \in QubitId |-> IF p = q THEN OnChannel(attached[dev])
                                            ELSE reg.location[p]]
      /\ \A e \in inFlight : e.qubit # q
  BY <1>1, DepartStep
<1>3. PICK far \in FarEnds(dev) :
        inFlight' = inFlight \cup {[qubit |-> q, chan |-> attached[dev],
                                    to |-> far.node, map |-> map]}
  BY DEF Send, dev
<1>4. far \in Device /\ attached[dev] \in Channel
  BY <1>1, <1>3, FarEndType DEF NetInv, NetTables
<1> DEFINE new == [qubit |-> q, chan |-> attached[dev], to |-> far.node, map |-> map]
<1>5. /\ new \in Delivery
      /\ new.qubit = q
      /\ new.chan = attached[dev]
  BY <1>4 DEF Delivery, Device
<1>6. inFlight' = inFlight \cup {new}
  BY <1>3
<1> HIDE DEF new
<1>7. inFlight' \subseteq Delivery
  BY <1>5, <1>6 DEF NetInv
<1>8. OneDeliveryPerQubit'
  <2>1. ASSUME NEW e \in inFlight'
        PROVE  reg'.location[e.qubit] \in {OnChannel(e.chan), Lost}
    <3>1. CASE e = new
      BY <1>2, <1>5, <3>1
    <3>2. CASE e \in inFlight
      <4>1. e.qubit \in QubitId /\ e.qubit # q
        BY <1>2, <3>2 DEF NetInv, Delivery
      <4> QED
        BY <1>2, <3>2, <4>1 DEF NetInv, OneDeliveryPerQubit
    <3> QED
      BY <1>6, <3>1, <3>2
  <2>2. ASSUME NEW e \in inFlight', NEW f \in inFlight', e.qubit = f.qubit
        PROVE  e = f
    BY <1>2, <1>5, <1>6, <2>2 DEF NetInv, OneDeliveryPerQubit
  <2> QED
    BY <2>1, <2>2 DEF OneDeliveryPerQubit
<1> QED
  BY <1>2, <1>7, <1>8 DEF NetInv

LEMMA SendRefusedStep ==
  ASSUME NetInv, NEW n \in Node, NEW q \in QubitId, NEW dst \in Node, SendRefused(n, q, dst)
  PROVE  NetInv'
<1> DEFINE dev == RouteDevice(n, dst)
<1>1. IsLocal(reg, n, q) /\ dev \in Device /\ Depart(n, q, dev) /\ inFlight' = inFlight
  BY RouteDeviceType DEF NetInv, SendRefused, CanSend
<1> HIDE DEF dev
<1>2. /\ ProcInv'
      /\ NetTables'
      /\ announced' \in [Node -> SUBSET QubitId]
      /\ reg'.location = [p \in QubitId |-> IF p = q THEN OnChannel(attached[dev])
                                            ELSE reg.location[p]]
      /\ \A e \in inFlight : e.qubit # q
  BY <1>1, DepartStep
<1>3. OneDeliveryPerQubit'
  <2>1. ASSUME NEW e \in inFlight
        PROVE  reg'.location[e.qubit] \in {OnChannel(e.chan), Lost}
    <3>1. e.qubit \in QubitId /\ e.qubit # q
      BY <1>2 DEF NetInv, Delivery
    <3> QED
      BY <1>2, <3>1 DEF NetInv, OneDeliveryPerQubit
  <2> QED
    BY <1>1, <2>1 DEF NetInv, OneDeliveryPerQubit
<1> QED
  BY <1>1, <1>2, <1>3 DEF NetInv

-----------------------------------------------------------------------------
(* What a delivery does to places: the qubit is at the receiver, unless it *)
(* was lost before or the sampled map loses it, and no other qubit moves.  *)
LEMMA DeliverPlaces ==
  ASSUME NetInv, NEW e \in inFlight, Deliver(e)
  PROVE  /\ ProcInv'
         /\ reg'.location
              = [p \in QubitId |->
                   IF p = e.qubit
                   THEN IF reg.location[e.qubit] = Lost \/ Loses(e.map)
                        THEN Lost ELSE AtNode(e.to)
                   ELSE reg.location[p]]
         /\ reg'.nextQubitId = reg.nextQubitId
<1> DEFINE q == e.qubit
           adopted == AdoptQubit(reg, e.to, q)
           mapped == IF Loses(e.map) THEN SetLocation(adopted, q, Lost) ELSE adopted
           hit == [p \in {q} |-> WiresAt(adopted, q)]
<1>1. q \in QubitId /\ e.to \in Node
  BY DEF NetInv, Delivery
<1>2. WellFormed(reg) /\ reg.nextQubitId \in Nat /\ reg.location \in [QubitId -> Location]
  BY FieldTypes DEF NetInv, ProcInv, WellFormed
<1>3. q < reg.nextQubitId
  BY <1>1, <1>2, PlacesDiffer
     DEF NetInv, OneDeliveryPerQubit, WellFormed, UnusedUnset, QubitId
<1>4. Lost \in Location /\ AtNode(e.to) \in Location
  BY <1>1 DEF Location
<1>5. /\ WellFormed(adopted)
      /\ adopted.location
           = [p \in QubitId |-> IF p = q /\ reg.location[q] # Lost THEN AtNode(e.to)
                                                                  ELSE reg.location[p]]
      /\ adopted.nextQubitId = reg.nextQubitId
      /\ adopted.nextStateId = reg.nextStateId
  <2>1. CASE reg.location[q] = Lost
    <3>1. adopted = reg
      BY <2>1 DEF AdoptQubit
    <3> HIDE DEF adopted, q
    <3> QED
      BY <1>2, <2>1, <3>1
  <2>2. CASE reg.location[q] # Lost
    <3>1. adopted = SetLocation(reg, q, AtNode(e.to))
      BY <2>2 DEF AdoptQubit
    <3>2. /\ WellFormed(adopted)
          /\ adopted.location
               = [p \in QubitId |-> IF p = q THEN AtNode(e.to) ELSE reg.location[p]]
          /\ adopted.nextQubitId = reg.nextQubitId
          /\ adopted.nextStateId = reg.nextStateId
      BY <1>1, <1>2, <1>3, <1>4, <3>1, SetLocationEffect
    <3> HIDE DEF adopted, q
    <3> QED
      BY <2>2, <3>2
  <2> QED
    BY <2>1, <2>2
<1>6. /\ reg' = mapped
      /\ lastOp' \in {NoOp, Op("gate", {q}, hit)}
  BY DEF Deliver
<1>7. \A p \in {q} : hit[p] \in SUBSET QubitId
  BY DEF WiresAt
<1> HIDE DEF hit, adopted, q
<1>8. lastOp' \in [kind : OpKind, asked : SUBSET QubitId,
                   hit : [QubitId -> SUBSET QubitId]]
  <2>1. {q} \in SUBSET QubitId /\ "gate" \in OpKind
    BY <1>1 DEF OpKind
  <2>2. Op("gate", {q}, hit) \in [kind : OpKind, asked : SUBSET QubitId,
                                  hit : [QubitId -> SUBSET QubitId]]
    BY <1>7, <2>1, OpType
  <2> QED
    BY <1>6, <2>2, NoOpType
<1>9. /\ WellFormed(mapped)
      /\ mapped.location
           = [p \in QubitId |-> IF p = q
                                THEN IF reg.location[q] = Lost \/ Loses(e.map)
                                     THEN Lost ELSE AtNode(e.to)
                                ELSE reg.location[p]]
      /\ mapped.nextQubitId = reg.nextQubitId
      /\ mapped.nextStateId = reg.nextStateId
  <2>1. CASE Loses(e.map)
    <3>1. mapped = SetLocation(adopted, q, Lost)
      BY <2>1
    <3>2. q < adopted.nextQubitId
      BY <1>3, <1>5
    <3>3. /\ WellFormed(mapped)
          /\ mapped.location
               = [p \in QubitId |-> IF p = q THEN Lost ELSE adopted.location[p]]
          /\ mapped.nextQubitId = adopted.nextQubitId
          /\ mapped.nextStateId = adopted.nextStateId
      BY <1>1, <1>4, <1>5, <3>1, <3>2, SetLocationEffect
    <3> HIDE DEF mapped
    <3> QED
      BY <1>5, <2>1, <3>3
  <2>2. CASE ~Loses(e.map)
    <3>1. mapped = adopted
      BY <2>2
    <3> HIDE DEF mapped
    <3> QED
      BY <1>1, <1>5, <2>2, <3>1
  <2> QED
    BY <2>1, <2>2
<1> HIDE DEF mapped
<1>10. ProcInv'
  BY <1>6, <1>8, <1>9 DEF NetInv, ProcInv, Fits, Room
<1> QED
  BY <1>6, <1>9, <1>10 DEF q

LEMMA DeliverStep ==
  ASSUME NetInv, NEW e \in inFlight, Deliver(e)
  PROVE  NetInv'
<1>1. /\ ProcInv'
      /\ reg'.location
           = [p \in QubitId |->
                IF p = e.qubit
                THEN IF reg.location[e.qubit] = Lost \/ Loses(e.map)
                     THEN Lost ELSE AtNode(e.to)
                ELSE reg.location[p]]
  BY DeliverPlaces
<1>2. /\ inFlight' = inFlight \ {e}
      /\ \/ announced' = announced
         \/ announced' = [announced EXCEPT ![e.to] = @ \cup {e.qubit}]
      /\ UNCHANGED <<ends, attached, ifaces, routes>>
  BY DEF Deliver, topology
<1>3. e.qubit \in QubitId /\ e.to \in Node
  BY DEF NetInv, Delivery
<1>4. announced' \in [Node -> SUBSET QubitId]
  BY <1>2, <1>3 DEF NetInv
<1>5. OneDeliveryPerQubit'
  <2>1. ASSUME NEW f \in inFlight'
        PROVE  reg'.location[f.qubit] \in {OnChannel(f.chan), Lost}
    <3>1. f \in inFlight /\ f # e
      BY <1>2
    <3>2. f.qubit \in QubitId /\ f.qubit # e.qubit
      BY <3>1 DEF NetInv, Delivery, OneDeliveryPerQubit
    <3>3. reg.location[f.qubit] \in {OnChannel(f.chan), Lost}
      BY <3>1 DEF NetInv, OneDeliveryPerQubit
    <3> QED
      BY <1>1, <3>2, <3>3
  <2> QED
    BY <1>2, <2>1 DEF NetInv, OneDeliveryPerQubit
<1>6. NetTables' /\ inFlight' \subseteq Delivery
  BY <1>2 DEF NetInv, NetTables
<1> QED
  BY <1>1, <1>4, <1>5, <1>6 DEF NetInv

-----------------------------------------------------------------------------
LEMMA NetInitInv ==
  ASSUME Init
  PROVE  NetInv
<1>1. ProcInv
  BY ProcInitInv DEF Init
<1>2. NetTables
  <2>1. NoEnds \in Ends
    BY DEF NoEnds, Ends, NullOrDevice
  <2>2. \A d \in Device : d.chan \in Channel
    BY DEF Device
  <2> QED
    BY <2>1, <2>2 DEF Init, NetTables
<1>3. announced \in [Node -> SUBSET QubitId] /\ inFlight = {}
  BY DEF Init
<1> QED
  BY <1>1, <1>2, <1>3 DEF NetInv, OneDeliveryPerQubit

LEMMA NetStep ==
  ASSUME NetInv, [Next]_vars
  PROVE  NetInv'
<1>1. CASE Script
  BY <1>1, ScriptStep
<1>2. ASSUME NEW a \in Node, NEW b \in Node, InstallQuantumLink(a, b)
      PROVE  NetInv'
  BY <1>2, InstallQuantumLinkStep
<1>3. ASSUME NEW r \in UserRoutes, AddRoute(r.node, r.dst, r.oif)
      PROVE  NetInv'
  <2>1. r.node \in Node /\ r.dst \in Node /\ r.oif \in Nat
    BY ConfigAssumption
  <2> QED
    BY <1>3, <2>1, AddRouteStep
<1>4. ASSUME NEW w \in Rewirable, Connect(w.chan, w.a, w.b)
      PROVE  NetInv'
  BY <1>4, ConnectStep
<1>5. ASSUME NEW n \in Node, NEW dst \in Node, NEW q \in QubitId,
             NEW map \in Instances, Send(n, q, dst, map)
      PROVE  NetInv'
  BY <1>5, SendStep
<1>6. ASSUME NEW n \in Node, NEW dst \in Node, NEW q \in QubitId, SendRefused(n, q, dst)
      PROVE  NetInv'
  BY <1>6, SendRefusedStep
<1>7. ASSUME NEW e \in inFlight, Deliver(e)
      PROVE  NetInv'
  BY <1>7, DeliverStep
<1>8. CASE UNCHANGED vars
  BY <1>8 DEF vars, NetInv, NetTables, ProcInv, OneDeliveryPerQubit
<1> QED
  BY <1>1, <1>2, <1>3, <1>4, <1>5, <1>6, <1>7, <1>8 DEF Next, Topology, Transmission

LEMMA NetInvariant == Spec => []NetInv
<1>1. Init => NetInv
  BY NetInitInv
<1>2. NetInv /\ [Next]_vars => NetInv'
  BY NetStep
<1> QED
  BY <1>1, <1>2, PTL DEF Spec

-----------------------------------------------------------------------------
(* Type correctness of the whole network.                                  *)
THEOREM NetTypeCorrect == Spec => []NetTypeOK
<1>1. NetInv => NetTypeOK
  BY DEF NetInv, NetTables, ProcInv, WellFormed, NetTypeOK, TypeOK
<1> QED
  BY <1>1, NetInvariant, PTL

(* The per-node index that GetLocalQubits and GetQubit read never          *)
(* disagrees with the location table, through creations, merges, splits,   *)
(* sends, deliveries and losses in any order.                              *)
THEOREM LocationIndexHolds == Spec => []LocationIndex
<1>1. NetInv => LocationIndex
  BY DEF NetInv, ProcInv, WellFormed, IndexAgrees, LocationIndex
<1> QED
  BY <1>1, NetInvariant, PTL

(* No qubit is ever scheduled for two deliveries, and one that is scheduled*)
(* is on that channel or lost, whatever the script connects, sends again,  *)
(* measures or loses meanwhile.                                            *)
THEOREM SingleDelivery == Spec => []OneDeliveryPerQubit
<1>1. NetInv => OneDeliveryPerQubit
  BY DEF NetInv
<1> QED
  BY <1>1, NetInvariant, PTL

(* Lost is absorbing: no step of the network revives a lost qubit.         *)
THEOREM LostForever == Spec => LostIsForever
<1> DEFINE Kept == \A q \in QubitId : reg.location[q] = Lost => reg'.location[q] = Lost
<1>1. ASSUME NetInv, Next
      PROVE  Kept
  <2> SUFFICES ASSUME NEW q \in QubitId, reg.location[q] = Lost
               PROVE  reg'.location[q] = Lost
    OBVIOUS
  <2>1. CASE Script
    <3>1. ProcNext /\ ProcInv
      BY <1>1, <2>1 DEF NetInv, Script
    <3>2. PlaceStep(reg, reg', q)
      BY <3>1, ProcStep DEF PlacesStep
    <3>3. ~(reg.nextQubitId <= q)
      BY <3>1, PlacesDiffer DEF ProcInv, WellFormed, UnusedUnset
    <3> QED
      BY <3>2, <3>3 DEF PlaceStep
  <2>2. CASE Topology
    <3>1. reg' = reg
      BY <2>2 DEF Topology, InstallQuantumLink, AddRoute, Connect
    <3> QED
      BY <3>1
  <2>3. CASE Transmission
    <3>1. PICK n \in Node, dst \in Node, p \in QubitId :
            /\ CanSend(n, p, dst)
            /\ Depart(n, p, RouteDevice(n, dst))
      BY <2>3 DEF Transmission, Send, SendRefused
    <3>2. IsLocal(reg, n, p) /\ RouteDevice(n, dst) \in Device
      BY <1>1, <3>1, RouteDeviceType DEF CanSend, NetInv
    <3>3. reg'.location = [x \in QubitId |-> IF x = p
                                             THEN OnChannel(attached[RouteDevice(n, dst)])
                                             ELSE reg.location[x]]
      BY <1>1, <3>1, <3>2, DepartStep
    <3>4. p # q
      BY <3>2, PlacesDiffer DEF IsLocal
    <3> QED
      BY <3>3, <3>4
  <2>4. CASE \E e \in inFlight : Deliver(e)
    BY <1>1, <2>4, DeliverPlaces
  <2> QED
    BY <1>1, <2>1, <2>2, <2>3, <2>4 DEF Next
<1>2. NetInv /\ [Next]_vars => [Kept]_vars
  BY <1>1
<1> QED
  BY <1>2, NetInvariant, PTL DEF Spec, LostIsForever

(* A receive callback is only ever given a qubit its node can operate on,  *)
(* even when the sampled map or an earlier loss has taken it away.         *)
THEOREM AnnouncedLocal == Spec => AnnouncedIsLocal
<1> DEFINE Told == \A n \in Node : \A q \in announced'[n] \ announced[n] :
                     IsLocal(reg', n, q)
<1>1. ASSUME NetInv, Next
      PROVE  Told
  <2>1. CASE \E e \in inFlight : Deliver(e)
    <3>1. PICK e \in inFlight : Deliver(e)
      BY <2>1
    <3>2. e.qubit \in QubitId /\ e.to \in Node /\ announced \in [Node -> SUBSET QubitId]
      BY <1>1 DEF NetInv, Delivery
    <3>3. \/ announced' = announced
          \/ /\ announced' = [announced EXCEPT ![e.to] = @ \cup {e.qubit}]
             /\ reg'.location[e.qubit] # Lost
      BY <3>1 DEF Deliver
    <3>4. reg'.location[e.qubit] \in {Lost, AtNode(e.to)}
      BY <1>1, <3>1, <3>2, DeliverPlaces
    <3> QED
      BY <3>2, <3>3, <3>4 DEF IsLocal
  <2>2. CASE ~(\E e \in inFlight : Deliver(e))
    <3>1. \A n \in Node : announced'[n] \subseteq announced[n]
      BY <1>1, <2>2
         DEF Next, Script, netVars, Topology, InstallQuantumLink, AddRoute, Connect,
             Transmission, Send, SendRefused, Depart, NetInv
    <3> QED
      BY <3>1
  <2> QED
    BY <2>1, <2>2
<1>2. NetInv /\ [Next]_vars => [Told]_vars
  BY <1>1
<1> QED
  BY <1>2, NetInvariant, PTL DEF Spec, AnnouncedIsLocal

-----------------------------------------------------------------------------
(* Devices stay with the channel they were made for, and every interface   *)
(* has a device at the other end of its channel.                           *)
OwnChannels == \A d \in Device : attached[d] = d.chan
Connected == \A n \in Node : \A i \in DOMAIN ifaces[n] : FarEnds(ifaces[n][i]) # {}
Wired == OwnChannels /\ Connected

(* Appending to one sequence of a table adds that entry and no other.      *)
LEMMA AppendToTable ==
  ASSUME NEW D, NEW K, NEW t \in [K -> Seq(D)], NEW k \in K, NEW x \in D
  PROVE  LET u == [t EXCEPT ![k] = Append(@, x)]
         IN  /\ u \in [K -> Seq(D)]
             /\ \A n \in K : \A i \in DOMAIN u[n] :
                  u[n][i] = x \/ (i \in DOMAIN t[n] /\ u[n][i] = t[n][i])
<1> DEFINE u == [t EXCEPT ![k] = Append(@, x)]
<1>1. t[k] \in Seq(D) /\ Append(t[k], x) \in Seq(D)
  OBVIOUS
<1>2. u \in [K -> Seq(D)]
  BY <1>1
<1>3. ASSUME NEW n \in K, NEW i \in DOMAIN u[n]
      PROVE  u[n][i] = x \/ (i \in DOMAIN t[n] /\ u[n][i] = t[n][i])
  <2>1. CASE n = k
    <3>1. u[n] = Append(t[k], x)
      BY <2>1
    <3>2. i \in 1..(Len(t[k]) + 1)
      BY <1>1, <3>1
    <3> HIDE DEF u
    <3> QED
      BY <1>1, <2>1, <3>1, <3>2
  <2>2. CASE n # k
    <3>1. u[n] = t[n]
      BY <2>2
    <3> QED
      BY <3>1
  <2> QED
    BY <2>1, <2>2
<1> QED
  BY <1>2, <1>3

LEMMA InstallKeepsWired ==
  ASSUME NetInv, Wired, NEW a \in Node, NEW b \in Node, InstallQuantumLink(a, b)
  PROVE  Wired'
<1> DEFINE c == {a, b}
           devA == [chan |-> c, side |-> "A", node |-> a]
           devB == [chan |-> c, side |-> "B", node |-> b]
           withA == [ifaces EXCEPT ![a] = Append(@, devA)]
           withB == [withA EXCEPT ![b] = Append(@, devB)]
<1>1. c \in Channel /\ devA \in Device /\ devB \in Device
  BY DEF Channel, Device
<1>2. /\ ends' = [ends EXCEPT ![c] = [a |-> {devA}, b |-> {devB}]]
      /\ ifaces' = withB /\ attached' = attached
      /\ \A n \in Node : \A i \in DOMAIN ifaces[n] : ifaces[n][i].chan # c
  BY DEF InstallQuantumLink, Installed
<1>3. devA.chan = c /\ devB.chan = c /\ devA # devB
  OBVIOUS
<1> HIDE DEF c, devA, devB
<1>4. /\ ends \in [Channel -> Ends]
      /\ ifaces \in [Node -> Seq(Device)]
  BY DEF NetInv, NetTables
<1>5. /\ withA \in [Node -> Seq(Device)]
      /\ \A n \in Node : \A i \in DOMAIN withA[n] :
           withA[n][i] = devA \/ (i \in DOMAIN ifaces[n] /\ withA[n][i] = ifaces[n][i])
  BY <1>1, <1>4, AppendToTable
<1> HIDE DEF withA
<1>6. \A n \in Node : \A i \in DOMAIN withB[n] :
        withB[n][i] = devB \/ (i \in DOMAIN withA[n] /\ withB[n][i] = withA[n][i])
  BY <1>1, <1>5, AppendToTable
<1> HIDE DEF withB
<1> DEFINE e(d) == ends'[attached'[d]]
           Far(d) == OtherEnd(e(d), d)
<1>7. \A d \in {devA, devB} : Far(d) # {}
  <2>1. attached'[devA] = c /\ attached'[devB] = c
    BY <1>1, <1>2, <1>3 DEF Wired, OwnChannels
  <2>2. e(devA) = [a |-> {devA}, b |-> {devB}] /\ e(devB) = [a |-> {devA}, b |-> {devB}]
    BY <1>1, <1>2, <1>4, <2>1
  <2> QED
    BY <2>2 DEF OtherEnd
<1>8. ASSUME NEW n \in Node, NEW i \in DOMAIN ifaces[n]
      PROVE  Far(ifaces[n][i]) # {}
  <2> DEFINE dev == ifaces[n][i]
  <2>1. dev \in Device /\ dev.chan # c /\ FarEnds(dev) # {} /\ attached[dev] = dev.chan
    BY <1>2, <1>4 DEF Wired, OwnChannels, Connected
  <2>2. e(dev) = ends[attached[dev]]
    BY <1>1, <1>2, <1>4, <2>1 DEF Device
  <2> QED
    BY <2>1, <2>2 DEF FarEnds
<1> HIDE DEF Far
<1>9. ASSUME NEW n \in Node, NEW i \in DOMAIN ifaces'[n]
      PROVE  Far(ifaces'[n][i]) # {}
  <2>1. CASE ifaces'[n][i] \in {devA, devB}
    BY <1>7, <2>1
  <2>2. CASE i \in DOMAIN ifaces[n] /\ ifaces'[n][i] = ifaces[n][i]
    BY <1>8, <2>2
  <2> QED
    BY <1>2, <1>5, <1>6, <1>9, <2>1, <2>2
<1>10. OwnChannels'
  BY <1>2 DEF Wired, OwnChannels
<1> QED
  BY <1>9, <1>10 DEF Far, Wired, Connected, FarEnds

(* As long as no channel is connected again by hand, a qubit on a channel  *)
(* always has its delivery scheduled: the location that Send sets before   *)
(* the device accepts is then never left behind.                           *)
THEOREM NoneStranded ==
  ASSUME Rewirable = {}
  PROVE  Spec => []NoStrandedQubit
<1> DEFINE Inv == NetInv /\ Wired /\ NoStrandedQubit
<1>1. ASSUME Init
      PROVE  Inv
  <2>1. NetInv
    BY <1>1, NetInitInv
  <2>2. Wired /\ NoStrandedQubit
    BY <1>1, PlacesDiffer DEF Init, ProcInit, EmptyRegistry, Wired, OwnChannels, Connected,
                                         NoStrandedQubit
  <2> QED
    BY <2>1, <2>2
<1>2. ASSUME Inv, [Next]_vars
      PROVE  Inv'
  <2>1. NetInv'
    BY <1>2, NetStep
  <2>2. CASE Script
    <3>1. ProcNext /\ ProcInv /\ UNCHANGED netVars
      BY <1>2, <2>2 DEF NetInv, Script
    <3>2. \A q \in QubitId : PlaceStep(reg, reg', q)
      BY <3>1, ProcStep DEF PlacesStep
    <3>3. NoStrandedQubit'
      BY <1>2, <3>1, <3>2, PlacesDiffer DEF NoStrandedQubit, PlaceStep, netVars
    <3>4. Wired'
      BY <1>2, <3>1 DEF Wired, OwnChannels, Connected, FarEnds, netVars
    <3> QED
      BY <2>1, <3>3, <3>4
  <2>3. CASE Topology
    <3>1. reg' = reg /\ inFlight' = inFlight
      BY <2>3 DEF Topology, InstallQuantumLink, AddRoute, Connect
    <3>2. NoStrandedQubit'
      BY <1>2, <3>1 DEF NoStrandedQubit
    <3>3. ASSUME NEW a \in Node, NEW b \in Node, InstallQuantumLink(a, b)
          PROVE  Wired'
      BY <1>2, <3>3, InstallKeepsWired
    <3>4. ASSUME NEW r \in UserRoutes, AddRoute(r.node, r.dst, r.oif)
          PROVE  Wired'
      BY <1>2, <3>4 DEF AddRoute, Wired, OwnChannels, Connected, FarEnds
    <3> QED
      BY <2>1, <2>3, <3>2, <3>3, <3>4 DEF Topology
  <2>4. ASSUME NEW n \in Node, NEW dst \in Node, NEW p \in QubitId,
               CanSend(n, p, dst), Depart(n, p, RouteDevice(n, dst)),
               Transmission, \/ \E map \in Instances : Send(n, p, dst, map)
                             \/ SendRefused(n, p, dst)
        PROVE  Inv'
    <3> DEFINE dev == RouteDevice(n, dst)
    <3>1. IsLocal(reg, n, p) /\ dev \in Device /\ FarEnds(dev) # {}
      BY <1>2, <2>4, RouteDeviceType
         DEF CanSend, NetInv, HasRoute, RouteDevice, Wired, Connected
    <3>2. PICK map \in Instances : Send(n, p, dst, map)
      BY <2>4, <3>1 DEF SendRefused
    <3>3. PICK far \in FarEnds(dev) :
            inFlight' = inFlight \cup {[qubit |-> p, chan |-> attached[dev],
                                        to |-> far.node, map |-> map]}
      BY <3>2 DEF Send
    <3> HIDE DEF dev
    <3>4. reg'.location = [x \in QubitId |-> IF x = p THEN OnChannel(attached[dev])
                                             ELSE reg.location[x]]
      BY <1>2, <2>4, <3>1, DepartStep DEF dev
    <3>6. NoStrandedQubit'
      <4> SUFFICES ASSUME NEW q \in QubitId, NEW c \in Channel,
                          reg'.location[q] = OnChannel(c)
                   PROVE  \E e \in inFlight' : e.qubit = q /\ e.chan = c
        BY DEF NoStrandedQubit
      <4> DEFINE new == [qubit |-> p, chan |-> attached[dev], to |-> far.node, map |-> map]
      <4>1. new \in inFlight' /\ new.qubit = p /\ new.chan = attached[dev]
        BY <3>3
      <4> HIDE DEF new
      <4>2. CASE q = p
        BY <3>4, <4>1, <4>2, PlacesDiffer
      <4>3. CASE q # p
        <5>1. \E e \in inFlight : e.qubit = q /\ e.chan = c
          BY <1>2, <3>4, <4>3 DEF NoStrandedQubit
        <5> QED
          BY <3>3, <5>1
      <4> QED
        BY <4>2, <4>3
    <3>7. Wired'
      BY <1>2, <2>4 DEF Depart, topology, Wired, OwnChannels, Connected, FarEnds
    <3> QED
      BY <2>1, <3>6, <3>7
  <2>5. CASE \E e \in inFlight : Deliver(e)
    <3>1. PICK e \in inFlight : Deliver(e)
      BY <2>5
    <3>2. reg'.location
            = [p \in QubitId |->
                 IF p = e.qubit
                 THEN IF reg.location[e.qubit] = Lost \/ Loses(e.map)
                      THEN Lost ELSE AtNode(e.to)
                 ELSE reg.location[p]]
      BY <1>2, <3>1, DeliverPlaces
    <3>3. inFlight' = inFlight \ {e} /\ UNCHANGED <<ends, attached, ifaces>>
      BY <3>1 DEF Deliver, topology
    <3>4. ASSUME NEW q \in QubitId, NEW c \in Channel, reg'.location[q] = OnChannel(c)
          PROVE  \E f \in inFlight' : f.qubit = q /\ f.chan = c
      <4>1. q # e.qubit /\ reg.location[q] = OnChannel(c)
        BY <3>2, <3>4, PlacesDiffer
      <4>2. PICK f \in inFlight : f.qubit = q /\ f.chan = c
        BY <1>2, <4>1 DEF NoStrandedQubit
      <4> QED
        BY <3>3, <4>1, <4>2
    <3> QED
      BY <1>2, <2>1, <3>3, <3>4 DEF NoStrandedQubit, Wired, OwnChannels, Connected, FarEnds
  <2>6. CASE UNCHANGED vars
    BY <1>2, <2>1, <2>6 DEF vars, NoStrandedQubit, Wired, OwnChannels, Connected, FarEnds
  <2>7. CASE Transmission
    BY <2>4, <2>7 DEF Transmission, Send, SendRefused
  <2> QED
    BY <1>2, <2>2, <2>3, <2>5, <2>6, <2>7 DEF Next
<1>3. Inv => NoStrandedQubit
  OBVIOUS
<1> QED
  BY <1>1, <1>2, <1>3, PTL DEF Spec

-----------------------------------------------------------------------------
(* The network implements QubitCustody, and its routes lead where they     *)
(* say, for every node set, topology and set of sampled maps, as long as   *)
(* no channel is connected again by hand (Rewirable = {}): a send the      *)
(* channel refuses leaves a qubit on a channel with no one to take it off, *)
(* which the abstract specification does not have.                         *)
(*                                                                         *)
(* On top of NetInv the argument needs how the links are wired: the two    *)
(* ends of a channel are on the two nodes that name it, and a node's       *)
(* interfaces are its own.  A departure then leads to the node the         *)
(* delivery is scheduled for.                                              *)

EndAt(c, s, n) == [chan |-> c, side |-> s, node |-> n]
Pair(c, a, b) == [a |-> {EndAt(c, "A", a)}, b |-> {EndAt(c, "B", b)}]

(* A channel has the two devices of its link, or none yet.                 *)
EndsPaired ==
  \A c \in Channel :
    \/ ends[c] = NoEnds
    \/ \E a, b \in Node : c = {a, b} /\ ends[c] = Pair(c, a, b)

OwnTable(t) == \A n \in Node : \A i \in DOMAIN t[n] : t[n][i].node = n
OwnInterfaces == OwnTable(ifaces)

WiredInv == Wired /\ EndsPaired /\ OwnInterfaces

(* A qubit that was created is somewhere.                                  *)
CreatedPlaced == \A q \in QubitId : q < reg.nextQubitId => reg.location[q] # Unset

CustodyInv == NetInv /\ WiredInv /\ CreatedPlaced

-----------------------------------------------------------------------------
(* Wiring *)

(* Across a wired channel the far end is on the other node of its name.    *)
LEMMA FarEndIsOpposite ==
  ASSUME NetTables, EndsPaired, NEW dev \in Device, NEW far \in FarEnds(dev)
  PROVE  far \in Device /\ attached[dev] = {dev.node, far.node}
<1> DEFINE c == attached[dev]
<1>1. /\ c \in Channel
      /\ \/ dev \in ends[c].a /\ far \in ends[c].b
         \/ dev \in ends[c].b /\ far \in ends[c].a
  BY DEF FarEnds, OtherEnd, NetTables
<1>2. PICK a \in Node, b \in Node : c = {a, b} /\ ends[c] = Pair(c, a, b)
  <2>1. ends[c] # NoEnds
    BY <1>1 DEF NoEnds
  <2> QED
    BY <1>1, <2>1 DEF EndsPaired
<1>3. far \in Device
  BY FarEndType
<1>4. EndAt(c, "A", a).node = a /\ EndAt(c, "B", b).node = b
  BY DEF EndAt
<1>5. \/ dev = EndAt(c, "A", a) /\ far = EndAt(c, "B", b)
      \/ dev = EndAt(c, "B", b) /\ far = EndAt(c, "A", a)
  BY <1>1, <1>2 DEF Pair
<1> QED
  BY <1>2, <1>3, <1>4, <1>5

(* A device of the node itself added to its interfaces keeps them its own. *)
LEMMA AppendOwn ==
  ASSUME NEW t \in [Node -> Seq(Device)], OwnTable(t),
         NEW k \in Node, NEW x \in Device, x.node = k
  PROVE  LET u == [t EXCEPT ![k] = Append(@, x)]
         IN  u \in [Node -> Seq(Device)] /\ OwnTable(u)
<1> DEFINE u == [t EXCEPT ![k] = Append(@, x)]
<1>1. u \in [Node -> Seq(Device)]
  BY AppendToTable
<1>2. ASSUME NEW n \in Node, NEW i \in DOMAIN u[n]
      PROVE  u[n][i].node = n
  <2>1. CASE n = k
    <3>1. u[n] = Append(t[k], x) /\ t[k] \in Seq(Device)
      BY <2>1
    <3>2. i \in 1..(Len(t[k]) + 1)
      BY <3>1
    <3> HIDE DEF u
    <3>3. u[n][i] = x \/ (i \in DOMAIN t[k] /\ u[n][i] = t[k][i])
      BY <3>1, <3>2
    <3> QED
      BY <2>1, <3>3 DEF OwnTable
  <2>2. CASE n # k
    <3>1. u[n] = t[n]
      BY <2>2
    <3> QED
      BY <3>1 DEF OwnTable
  <2> QED
    BY <2>1, <2>2
<1> QED
  BY <1>1, <1>2 DEF OwnTable

LEMMA InstallKeepsWiring ==
  ASSUME NetInv, WiredInv, NEW a \in Node, NEW b \in Node, InstallQuantumLink(a, b)
  PROVE  WiredInv'
<1> DEFINE c == {a, b}
           devA == [chan |-> c, side |-> "A", node |-> a]
           devB == [chan |-> c, side |-> "B", node |-> b]
           withA == [ifaces EXCEPT ![a] = Append(@, devA)]
           withB == [withA EXCEPT ![b] = Append(@, devB)]
<1>1. c \in Channel /\ devA \in Device /\ devB \in Device
  BY DEF Channel, Device
<1>2. ends' = [ends EXCEPT ![c] = [a |-> {devA}, b |-> {devB}]] /\ ifaces' = withB
  BY DEF InstallQuantumLink
<1>3. /\ devA.node = a /\ devB.node = b
      /\ devA = EndAt(c, "A", a) /\ devB = EndAt(c, "B", b) /\ c = {a, b}
  BY DEF EndAt
<1> HIDE DEF c, devA, devB
<1>4. /\ ends \in [Channel -> Ends]
      /\ ifaces \in [Node -> Seq(Device)]
  BY DEF NetInv, NetTables
<1>5. EndsPaired'
  <2> SUFFICES ASSUME NEW d \in Channel
               PROVE  \/ ends'[d] = NoEnds
                      \/ \E x, y \in Node : d = {x, y} /\ ends'[d] = Pair(d, x, y)
    BY DEF EndsPaired
  <2>1. CASE d = c
    <3>1. ends'[c] = Pair(c, a, b)
      BY <1>1, <1>2, <1>3, <1>4 DEF Pair
    <3> QED
      BY <1>3, <2>1, <3>1
  <2>2. CASE d # c
    <3>1. ends'[d] = ends[d]
      BY <1>1, <1>2, <1>4, <2>2
    <3> QED
      BY <3>1 DEF WiredInv, EndsPaired
  <2> QED
    BY <2>1, <2>2
<1>6. OwnInterfaces'
  <2>1. OwnTable(ifaces)
    BY DEF WiredInv, OwnInterfaces
  <2>2. withA \in [Node -> Seq(Device)] /\ OwnTable(withA)
    BY <1>1, <1>3, <1>4, <2>1, AppendOwn
  <2> HIDE DEF withA
  <2>3. OwnTable(withB)
    BY <1>1, <1>3, <2>2, AppendOwn
  <2> QED
    BY <1>2, <2>3 DEF OwnInterfaces
<1>7. Wired'
  BY InstallKeepsWired DEF WiredInv
<1> QED
  BY <1>5, <1>6, <1>7 DEF WiredInv

(* No other step touches a channel, a device or a node's interfaces.       *)
LEMMA WiringStep ==
  ASSUME Rewirable = {}, NetInv, WiredInv, [Next]_vars
  PROVE  WiredInv'
<1>1. ASSUME NEW a \in Node, NEW b \in Node, InstallQuantumLink(a, b)
      PROVE  WiredInv'
  BY <1>1, InstallKeepsWiring
<1>2. CASE UNCHANGED <<ends, attached, ifaces>>
  <2>1. ends' = ends /\ attached' = attached /\ ifaces' = ifaces
    BY <1>2
  <2>2. OwnChannels' /\ EndsPaired' /\ OwnInterfaces'
    BY <2>1 DEF WiredInv, Wired, OwnChannels, EndsPaired, OwnInterfaces, OwnTable
  <2>3. Connected'
    BY <2>1 DEF WiredInv, Wired, Connected, FarEnds
  <2> QED
    BY <2>2, <2>3 DEF WiredInv, Wired
<1>3. \/ UNCHANGED <<ends, attached, ifaces>>
      \/ \E a, b \in Node : InstallQuantumLink(a, b)
  BY DEF Next, vars, Script, netVars, Topology, AddRoute, Transmission, Send, SendRefused,
         Depart, Deliver, topology
<1> QED
  BY <1>1, <1>2, <1>3

LEMMA InitWired == Init => WiredInv
BY DEF Init, WiredInv, Wired, OwnChannels, Connected, EndsPaired, OwnInterfaces, OwnTable

-----------------------------------------------------------------------------
(* Places *)

LEMMA CreatedStaysPlaced ==
  ASSUME CustodyInv, [Next]_vars
  PROVE  CreatedPlaced'
<1>1. WellFormed(reg) /\ reg.nextQubitId \in Nat /\ reg.location \in [QubitId -> Location]
  BY FieldTypes DEF CustodyInv, NetInv, ProcInv, WellFormed
<1>2. CASE Script
  <2>1. Moves(reg, reg')
    BY <1>2, ProcStep DEF CustodyInv, NetInv, Script
  <2> SUFFICES ASSUME NEW q \in QubitId, q < reg'.nextQubitId
               PROVE  reg'.location[q] # Unset
    BY DEF CreatedPlaced
  <2>2. CASE SamePlaces(reg, reg')
    BY <2>2 DEF SamePlaces, CustodyInv, CreatedPlaced
  <2>3. ASSUME NEW n \in Node,
               reg'.location = [p \in QubitId |-> IF p \in Born(reg, reg') THEN AtNode(n)
                                                                         ELSE reg.location[p]]
        PROVE  reg'.location[q] # Unset
    <3>1. q \in Born(reg, reg') \/ q < reg.nextQubitId
      BY <1>1 DEF Born, QubitId
    <3> QED
      BY <2>3, <3>1, PlacesDiffer DEF CustodyInv, CreatedPlaced
  <2>4. ASSUME NEW lost \in Created(reg), reg'.nextQubitId = reg.nextQubitId,
               reg'.location = [p \in QubitId |-> IF p = lost THEN Lost ELSE reg.location[p]]
        PROVE  reg'.location[q] # Unset
    BY <2>4, PlacesDiffer DEF CustodyInv, CreatedPlaced
  <2> QED
    BY <2>1, <2>2, <2>3, <2>4 DEF Moves
<1>3. CASE ~Script
  <2>1. \/ reg' = reg
        \/ \E n, dst \in Node, q \in QubitId :
             CanSend(n, q, dst) /\ Depart(n, q, RouteDevice(n, dst))
        \/ \E e \in inFlight : Deliver(e)
    BY <1>3 DEF Next, vars, Topology, InstallQuantumLink, AddRoute, Connect,
                Transmission, Send, SendRefused
  <2>2. CASE reg' = reg
    BY <2>2 DEF CustodyInv, CreatedPlaced
  <2>3. ASSUME NEW n \in Node, NEW dst \in Node, NEW q \in QubitId,
               CanSend(n, q, dst), Depart(n, q, RouteDevice(n, dst))
        PROVE  CreatedPlaced'
    <3> DEFINE dev == RouteDevice(n, dst)
    <3>1. IsLocal(reg, n, q) /\ dev \in Device
      BY <2>3, RouteDeviceType DEF CanSend, CustodyInv, NetInv
    <3> HIDE DEF dev
    <3>2. /\ reg'.location = [p \in QubitId |-> IF p = q THEN OnChannel(attached[dev])
                                                ELSE reg.location[p]]
          /\ reg'.nextQubitId = reg.nextQubitId
      BY <2>3, <3>1, DepartStep DEF CustodyInv, dev
    <3> QED
      BY <3>2, PlacesDiffer DEF CustodyInv, CreatedPlaced
  <2>4. ASSUME NEW e \in inFlight, Deliver(e)
        PROVE  CreatedPlaced'
    <3>1. /\ reg'.location
               = [p \in QubitId |->
                    IF p = e.qubit
                    THEN IF reg.location[e.qubit] = Lost \/ Loses(e.map)
                         THEN Lost ELSE AtNode(e.to)
                    ELSE reg.location[p]]
          /\ reg'.nextQubitId = reg.nextQubitId
      BY <2>4, DeliverPlaces DEF CustodyInv
    <3> QED
      BY <3>1, PlacesDiffer DEF CustodyInv, CreatedPlaced
  <2> QED
    BY <2>1, <2>2, <2>3, <2>4
<1> QED
  BY <1>2, <1>3

LEMMA CustodyInvariant ==
  ASSUME Rewirable = {}
  PROVE  /\ Init => CustodyInv
         /\ CustodyInv /\ [Next]_vars => CustodyInv'
<1>1. ASSUME Init PROVE CustodyInv
  <2>1. CreatedPlaced
    BY <1>1 DEF Init, ProcInit, EmptyRegistry, CreatedPlaced, QubitId
  <2> QED
    BY <1>1, <2>1, NetInitInv, InitWired DEF CustodyInv
<1>2. ASSUME CustodyInv, [Next]_vars PROVE CustodyInv'
  BY <1>2, NetStep, WiringStep, CreatedStaysPlaced DEF CustodyInv
<1> QED
  BY <1>1, <1>2

-----------------------------------------------------------------------------
(* The refinement *)

(* Where a qubit is heading is settled by its place and its deliveries.    *)
LEMMA HeadingKept ==
  ASSUME NEW p \in QubitId, reg'.location[p] = reg.location[p],
         \A e : e.qubit = p => (e \in inFlight' <=> e \in inFlight)
  PROVE  Heading'[p] = Heading[p]
BY DEF Heading

LEMMA HeadingNowhere ==
  ASSUME NEW p \in QubitId, \A c : reg.location[p] # OnChannel(c)
  PROVE  Heading[p] = {}
BY DEF Heading

(* A step moves the qubits of qs to loc if it moves no other qubit and     *)
(* changes no other qubit's deliveries.                                    *)
LEMMA MoveImplements ==
  ASSUME NEW qs \in SUBSET QubitId, NEW loc, NEW target,
         reg'.location = [p \in QubitId |-> IF p \in qs THEN loc ELSE reg.location[p]],
         \A e : e.qubit \in QubitId \ qs => (e \in inFlight' <=> e \in inFlight),
         \A p \in qs : Heading'[p] = target
  PROVE  Custody!Move(qs, loc, target)
<1>1. \A p \in QubitId \ qs : Heading'[p] = Heading[p]
  <2> SUFFICES ASSUME NEW p \in QubitId \ qs PROVE Heading'[p] = Heading[p]
    OBVIOUS
  <2>1. reg'.location[p] = reg.location[p]
    OBVIOUS
  <2> QED
    BY <2>1, HeadingKept
<1>2. Heading' = [p \in QubitId |-> Heading'[p]]
  BY DEF Heading
<1>3. Heading' = [p \in QubitId |-> IF p \in qs THEN target ELSE Heading[p]]
  BY <1>1, <1>2
<1> QED
  BY <1>3 DEF Custody!Move

(* Nothing moves and no delivery changes: the custody of no qubit changes. *)
LEMMA StayImplements ==
  ASSUME reg'.location = reg.location, inFlight' = inFlight
  PROVE  UNCHANGED Custody!custodyVars
BY DEF Custody!custodyVars, Heading

LEMMA ScriptImplements ==
  ASSUME CustodyInv, Script
  PROVE  [Custody!Next]_(Custody!custodyVars)
<1>1. Moves(reg, reg') /\ inFlight' = inFlight
  BY ProcStep DEF CustodyInv, NetInv, Script, netVars
<1>2. WellFormed(reg) /\ reg.location \in [QubitId -> Location]
  BY FieldTypes DEF CustodyInv, NetInv, ProcInv, WellFormed
<1>3. CASE SamePlaces(reg, reg')
  BY <1>1, <1>3, StayImplements DEF SamePlaces
<1>4. ASSUME NEW n \in Node, Born(reg, reg') # {},
             reg'.location = [q \in QubitId |-> IF q \in Born(reg, reg') THEN AtNode(n)
                                                                       ELSE reg.location[q]]
      PROVE  Custody!Next
  <2> DEFINE qs == Born(reg, reg')
  <2>1. qs \in SUBSET QubitId /\ \A q \in qs : reg.location[q] = Unset
    BY <1>2 DEF Born, WellFormed, UnusedUnset
  <2> HIDE DEF qs
  <2>2. \A q \in qs : Heading'[q] = {}
    <3> SUFFICES ASSUME NEW q \in qs PROVE Heading'[q] = {}
      OBVIOUS
    <3>1. reg'.location[q] = AtNode(n)
      BY <1>4, <2>1 DEF qs
    <3> QED
      BY <2>1, <3>1, PlacesDiffer DEF Heading
  <2>3. Custody!Move(qs, AtNode(n), {})
    BY <1>1, <1>4, <2>1, <2>2, MoveImplements DEF qs
  <2>4. Custody!Create(n, qs)
    BY <1>4, <2>1, <2>3 DEF Custody!Create, Custody!At, Custody!Nowhere, AtNode, Unset, qs
  <2> QED
    BY <2>1, <2>4 DEF Custody!Next
<1>5. ASSUME NEW q \in Created(reg),
             reg'.location = [p \in QubitId |-> IF p = q THEN Lost ELSE reg.location[p]]
      PROVE  [Custody!Next]_(Custody!custodyVars)
  <2>1. q \in QubitId /\ reg.location[q] # Unset
    BY DEF Created, CustodyInv, CreatedPlaced
  <2>2. CASE reg.location[q] = Lost
    <3>1. reg'.location = reg.location
      BY <1>2, <1>5, <2>2
    <3> QED
      BY <1>1, <3>1, StayImplements
  <2>3. CASE reg.location[q] # Lost
    <3>1. reg'.location[q] = Lost
      BY <1>5, <2>1
    <3>2. Heading'[q] = {}
      BY <2>1, <3>1, PlacesDiffer DEF Heading
    <3>3. Custody!Move({q}, Lost, {})
      BY <1>1, <1>5, <2>1, <3>2, MoveImplements
    <3>4. Custody!Lose(q)
      BY <2>1, <2>3, <3>3 DEF Custody!Lose, Custody!Gone, Custody!Nowhere, Lost, Unset
    <3> QED
      BY <2>1, <3>4 DEF Custody!Next
  <2> QED
    BY <2>2, <2>3
<1> QED
  BY <1>1, <1>3, <1>4, <1>5 DEF Moves

LEMMA SendImplements ==
  ASSUME CustodyInv, NEW n \in Node, NEW q \in QubitId, NEW dst \in Node,
         NEW map \in Instances, Send(n, q, dst, map)
  PROVE  Custody!Next
<1> DEFINE dev == RouteDevice(n, dst)
<1>1. IsLocal(reg, n, q) /\ dev \in Device /\ Depart(n, q, dev)
  BY RouteDeviceType DEF CustodyInv, NetInv, Send, CanSend
<1>2. dev.node = n
  BY DEF CustodyInv, WiredInv, OwnInterfaces, OwnTable, Send, CanSend, HasRoute, RouteDevice
<1>3. PICK far \in FarEnds(dev) :
        inFlight' = inFlight \cup {[qubit |-> q, chan |-> attached[dev],
                                    to |-> far.node, map |-> map]}
  BY DEF Send
<1> HIDE DEF dev
<1>4. far \in Device /\ attached[dev] = {n, far.node}
  BY <1>1, <1>2, <1>3, FarEndIsOpposite DEF CustodyInv, NetInv, WiredInv
<1>5. far.node \in Node
  BY <1>4 DEF Device
<1>6. /\ reg'.location = [p \in QubitId |-> IF p = q THEN OnChannel(attached[dev])
                                            ELSE reg.location[p]]
      /\ \A e \in inFlight : e.qubit # q
  BY <1>1, DepartStep DEF CustodyInv
<1> DEFINE new == [qubit |-> q, chan |-> attached[dev], to |-> far.node, map |-> map]
<1>7. new.qubit = q /\ new.chan = attached[dev] /\ new.to = far.node
  OBVIOUS
<1>8. inFlight' = inFlight \cup {new}
  BY <1>3
<1> HIDE DEF new
<1>9. Heading'[q] = {far.node}
  <2>1. reg'.location[q] = OnChannel(attached[dev])
    BY <1>6
  <2>2. \A e \in inFlight' : e.qubit = q => e = new
    BY <1>6, <1>8
  <2>3. \A m \in Node : (\E e \in inFlight' : /\ e.qubit = q /\ e.to = m
                                             /\ reg'.location[q] = OnChannel(e.chan))
                          <=> m = far.node
    BY <1>7, <1>8, <2>1, <2>2
  <2> QED
    BY <1>5, <2>3 DEF Heading
<1>10. Custody!Move({q}, OnChannel(attached[dev]), {far.node})
  BY <1>6, <1>7, <1>8, <1>9, MoveImplements
<1>11. Custody!Depart(q, n, far.node)
  BY <1>1, <1>4, <1>10 DEF Custody!Depart, Custody!At, Custody!On, IsLocal, AtNode, OnChannel
<1> QED
  BY <1>5, <1>11 DEF Custody!Next

(* With every interface wired the channel refuses no send.                 *)
LEMMA NoRefusal ==
  ASSUME CustodyInv, NEW n \in Node, NEW q \in QubitId, NEW dst \in Node
  PROVE  ~SendRefused(n, q, dst)
BY DEF CustodyInv, WiredInv, Wired, Connected, SendRefused, CanSend, HasRoute, RouteDevice

LEMMA DeliverImplements ==
  ASSUME CustodyInv, NEW e \in inFlight, Deliver(e)
  PROVE  [Custody!Next]_(Custody!custodyVars)
<1> DEFINE q == e.qubit
<1>1. q \in QubitId /\ e.to \in Node /\ e.chan \in Channel
  BY DEF CustodyInv, NetInv, Delivery
<1>2. /\ reg'.location
           = [p \in QubitId |-> IF p = q THEN IF reg.location[q] = Lost \/ Loses(e.map)
                                              THEN Lost ELSE AtNode(e.to)
                                ELSE reg.location[p]]
      /\ inFlight' = inFlight \ {e}
  BY DeliverPlaces DEF CustodyInv, Deliver
<1>3. /\ reg.location \in [QubitId -> Location]
      /\ reg.location[q] \in {OnChannel(e.chan), Lost}
  BY FieldTypes DEF CustodyInv, NetInv, ProcInv, WellFormed, OneDeliveryPerQubit
<1>4. \A f : f.qubit \in QubitId \ {q} => (f \in inFlight' <=> f \in inFlight)
  BY <1>2
<1> HIDE DEF q
<1>5. Heading'[q] = {}
  <2>1. reg'.location[q] \in {Lost, AtNode(e.to)}
    BY <1>1, <1>2
  <2> QED
    BY <1>1, <2>1, PlacesDiffer DEF Heading
<1>6. CASE reg.location[q] = Lost
  <2>1. reg'.location = reg.location
    BY <1>2, <1>3, <1>6
  <2>2. Heading[q] = {}
    BY <1>1, <1>6, PlacesDiffer DEF Heading
  <2>3. \A p \in QubitId : Heading'[p] = Heading[p]
    <3> SUFFICES ASSUME NEW p \in QubitId PROVE Heading'[p] = Heading[p]
      OBVIOUS
    <3>1. CASE p = q
      BY <1>5, <2>2, <3>1
    <3>2. CASE p # q
      BY <1>4, <2>1, <3>2, HeadingKept
    <3> QED
      BY <3>1, <3>2
  <2>4. Heading' = Heading
    BY <2>3 DEF Heading
  <2> QED
    BY <2>1, <2>4 DEF Custody!custodyVars
<1>7. CASE reg.location[q] # Lost /\ Loses(e.map)
  <2>1. Custody!Move({q}, Lost, {})
    BY <1>1, <1>2, <1>4, <1>5, <1>7, MoveImplements
  <2>2. reg.location[q] # Unset
    BY <1>3, PlacesDiffer
  <2>3. Custody!Lose(q)
    BY <1>7, <2>1, <2>2 DEF Custody!Lose, Custody!Gone, Custody!Nowhere, Lost, Unset
  <2> QED
    BY <1>1, <2>3 DEF Custody!Next
<1>8. CASE reg.location[q] # Lost /\ ~Loses(e.map)
  <2>1. Custody!Move({q}, AtNode(e.to), {})
    BY <1>1, <1>2, <1>4, <1>5, <1>8, MoveImplements
  <2>2. reg.location[q] = OnChannel(e.chan)
    BY <1>3, <1>8
  <2>3. e.to \in Heading[q]
    BY <1>1, <2>2 DEF Heading, q
  <2>4. \E c \in Custody!Channel : reg.location[q] = Custody!On(c)
    <3>1. e.chan \in Custody!Channel
      BY <1>1 DEF Custody!Channel, Channel
    <3>2. reg.location[q] = Custody!On(e.chan)
      BY <2>2 DEF Custody!On, OnChannel
    <3> QED
      BY <3>1, <3>2
  <2>5. Custody!Arrive(q, e.to)
    BY <2>1, <2>3, <2>4 DEF Custody!Arrive, Custody!At, AtNode
  <2> QED
    BY <1>1, <2>5 DEF Custody!Next
<1> QED
  BY <1>6, <1>7, <1>8

(* The code that merges, measures, sends, samples noise and schedules      *)
(* deliveries keeps to QubitCustody: a qubit is created once, at one node, *)
(* is at one place at a time, leaves a node only for a channel whose far   *)
(* end it is heading for, arrives there and nowhere else, and once lost it *)
(* is lost.                                                                *)
THEOREM ImplementsCustody ==
  ASSUME Rewirable = {}
  PROVE  Spec => CustodySpec
<1>1. Init => CustodyInv
  BY CustodyInvariant
<1>2. CustodyInv /\ [Next]_vars => CustodyInv'
  BY CustodyInvariant
<1>3. Init => Custody!Init
  BY DEF Init, ProcInit, EmptyRegistry, Heading, Unset, Custody!Init, Custody!Nowhere
<1>4. CustodyInv /\ [Next]_vars => [Custody!Next]_(Custody!custodyVars)
  <2> SUFFICES ASSUME CustodyInv, [Next]_vars
               PROVE  [Custody!Next]_(Custody!custodyVars)
    OBVIOUS
  <2>1. CASE Script
    BY <2>1, ScriptImplements
  <2>2. CASE Topology \/ UNCHANGED vars
    <3>1. reg' = reg /\ inFlight' = inFlight
      BY <2>2 DEF vars, Topology, InstallQuantumLink, AddRoute, Connect
    <3> QED
      BY <3>1, StayImplements
  <2>3. CASE Transmission
    BY <2>3, SendImplements, NoRefusal DEF Transmission
  <2>4. CASE \E e \in inFlight : Deliver(e)
    BY <2>4, DeliverImplements
  <2> QED
    BY <2>1, <2>2, <2>3, <2>4 DEF Next
<1> QED
  BY <1>1, <1>2, <1>3, <1>4, PTL DEF Spec, CustodySpec, Custody!Spec

-----------------------------------------------------------------------------
(* Routes *)

(* Adding devices at the end of the interfaces keeps those that are there. *)
LEMMA AppendKeeps ==
  ASSUME NEW t \in [Node -> Seq(Device)], NEW k \in Node, NEW x \in Device
  PROVE  LET u == [t EXCEPT ![k] = Append(@, x)]
         IN  /\ u \in [Node -> Seq(Device)]
             /\ \A n \in Node : \A i \in DOMAIN t[n] :
                  i \in DOMAIN u[n] /\ u[n][i] = t[n][i]
             /\ Len(u[k]) \in DOMAIN u[k] /\ u[k][Len(u[k])] = x /\ Len(u[k]) # 0
<1> DEFINE u == [t EXCEPT ![k] = Append(@, x)]
<1>1. t[k] \in Seq(Device) /\ u[k] = Append(t[k], x)
  OBVIOUS
<1>2. u \in [Node -> Seq(Device)]
  BY AppendToTable
<1>3. \A n \in Node : n # k => u[n] = t[n]
  OBVIOUS
<1> HIDE DEF u
<1>4. ASSUME NEW n \in Node, NEW i \in DOMAIN t[n]
      PROVE  i \in DOMAIN u[n] /\ u[n][i] = t[n][i]
  <2>1. CASE n = k
    BY <1>1, <2>1
  <2>2. CASE n # k
    BY <1>3, <2>2
  <2> QED
    BY <2>1, <2>2
<1>5. Len(u[k]) \in DOMAIN u[k] /\ u[k][Len(u[k])] = x /\ Len(u[k]) # 0
  BY <1>1
<1> QED
  BY <1>2, <1>4, <1>5 DEF u

LEMMA InstallKeepsRoutes ==
  ASSUME NetInv, OwnChannels, RoutesReachPeer,
         NEW a \in Node, NEW b \in Node, InstallQuantumLink(a, b)
  PROVE  RoutesReachPeer'
<1> DEFINE c == {a, b}
           devA == [chan |-> c, side |-> "A", node |-> a]
           devB == [chan |-> c, side |-> "B", node |-> b]
           withA == [ifaces EXCEPT ![a] = Append(@, devA)]
           withB == [withA EXCEPT ![b] = Append(@, devB)]
           iA == Len(withA[a])
           iB == Len(withB[b])
<1>1. c \in Channel /\ devA \in Device /\ devB \in Device
  BY DEF Channel, Device
<1>2. /\ ends' = [ends EXCEPT ![c] = [a |-> {devA}, b |-> {devB}]]
      /\ ifaces' = withB /\ attached' = attached
      /\ routes' = [[routes EXCEPT ![a][b] = iA] EXCEPT ![b][a] = iB]
      /\ \A n \in Node : \A i \in DOMAIN ifaces[n] : ifaces[n][i].chan # c
  BY DEF InstallQuantumLink, Installed
<1>3. /\ devA.chan = c /\ devA.node = a /\ devA.side = "A"
      /\ devB.chan = c /\ devB.node = b /\ devB.side = "B"
  OBVIOUS
<1> HIDE DEF c, devA, devB
<1>4. /\ ends \in [Channel -> Ends]
      /\ ifaces \in [Node -> Seq(Device)]
      /\ routes \in [Node -> [Node -> Nat]]
  BY DEF NetInv, NetTables
<1>5. /\ withA \in [Node -> Seq(Device)]
      /\ \A n \in Node : \A i \in DOMAIN ifaces[n] :
           i \in DOMAIN withA[n] /\ withA[n][i] = ifaces[n][i]
      /\ iA \in DOMAIN withA[a] /\ withA[a][iA] = devA
  BY <1>1, <1>4, AppendKeeps
<1> HIDE DEF withA, iA
<1>6. /\ \A n \in Node : \A i \in DOMAIN withA[n] :
           i \in DOMAIN withB[n] /\ withB[n][i] = withA[n][i]
      /\ iB \in DOMAIN withB[b] /\ withB[b][iB] = devB
  BY <1>1, <1>5, AppendKeeps
<1> HIDE DEF withB, iB
<1> DEFINE e(d) == ends'[attached'[d]]
           Far(d) == OtherEnd(e(d), d)
           Leads(n, dst, i) ==
             /\ i \in DOMAIN withB[n]
             /\ withB[n][i].node = n
             /\ {d.node : d \in Far(withB[n][i])} = {dst}
<1>7. Far(devA) = {devB} /\ Far(devB) = {devA}
  <2>1. attached'[devA] = c /\ attached'[devB] = c /\ devA # devB
    BY <1>1, <1>2, <1>3 DEF OwnChannels
  <2>2. e(devA) = [a |-> {devA}, b |-> {devB}] /\ e(devB) = [a |-> {devA}, b |-> {devB}]
    BY <1>1, <1>2, <1>4, <2>1
  <2> QED
    BY <2>1, <2>2 DEF OtherEnd
<1>8. Leads(a, b, iA) /\ Leads(b, a, iB)
  <2>1. /\ iA \in DOMAIN withB[a] /\ withB[a][iA] = devA
        /\ iB \in DOMAIN withB[b] /\ withB[b][iB] = devB
    BY <1>5, <1>6
  <2> HIDE DEF Far
  <2> QED
    BY <1>3, <1>7, <2>1
<1>9. ASSUME NEW n \in Node, NEW dst \in Node, routes[n][dst] # 0
      PROVE  Leads(n, dst, routes[n][dst])
  <2> DEFINE i == routes[n][dst]
             dev == ifaces[n][i]
  <2>1. /\ i \in DOMAIN ifaces[n] /\ dev.node = n
        /\ {d.node : d \in FarEnds(dev)} = {dst}
    BY <1>9 DEF RoutesReachPeer, HasRoute, RouteDevice
  <2>2. dev \in Device /\ dev.chan # c
    <3>1. ifaces[n] \in Seq(Device)
      BY <1>4
    <3> QED
      BY <1>2, <2>1, <3>1
  <2>3. e(dev) = ends[attached[dev]]
    BY <1>1, <1>2, <1>4, <2>2 DEF OwnChannels, Device
  <2>4. i \in DOMAIN withB[n] /\ withB[n][i] = dev
    BY <1>5, <1>6, <2>1
  <2>5. Far(dev) = FarEnds(dev)
    BY <2>3 DEF FarEnds
  <2> HIDE DEF i, dev, Far
  <2> QED
    BY <2>1, <2>4, <2>5 DEF i
<1>10. ASSUME NEW n \in Node, NEW dst \in Node, routes'[n][dst] # 0
       PROVE  Leads(n, dst, routes'[n][dst])
  <2> HIDE DEF Leads
  <2>1. CASE n = b /\ dst = a
    <3>1. routes'[n][dst] = iB
      BY <1>2, <1>4, <2>1
    <3> QED
      BY <1>8, <2>1, <3>1
  <2>2. CASE n = a /\ dst = b /\ ~(n = b /\ dst = a)
    <3>1. routes'[n][dst] = iA
      BY <1>2, <1>4, <2>2
    <3> QED
      BY <1>8, <2>2, <3>1
  <2>3. CASE ~(n = b /\ dst = a) /\ ~(n = a /\ dst = b)
    <3>1. routes'[n][dst] = routes[n][dst]
      BY <1>2, <1>4, <2>3
    <3> QED
      BY <1>9, <1>10, <3>1
  <2> QED
    BY <2>1, <2>2, <2>3
<1> QED
  <2> SUFFICES ASSUME NEW n \in Node, NEW dst \in Node, routes'[n][dst] # 0
               PROVE  /\ routes'[n][dst] \in DOMAIN ifaces'[n]
                      /\ ifaces'[n][routes'[n][dst]].node = n
                      /\ {d.node : d \in Far(ifaces'[n][routes'[n][dst]])} = {dst}
    BY ZenonT(60) DEF RoutesReachPeer, HasRoute, RouteDevice, FarEnds
  <2>1. ifaces' = withB /\ Leads(n, dst, routes'[n][dst])
    BY ZenonT(60), <1>2, <1>10
  <2> HIDE DEF Far
  <2> QED
    BY <2>1

(* However many links a node gets, in whatever order and to whichever      *)
(* nodes, itself included, the routes InstallQuantumLink writes resolve to *)
(* a device of the node whose far end is the node they name.               *)
THEOREM RoutesAlwaysReachPeer ==
  ASSUME Rewirable = {}, UserRoutes = {}
  PROVE  Spec => []RoutesReachPeer
<1> DEFINE Inv == NetInv /\ OwnChannels /\ RoutesReachPeer
<1>1. Init => Inv
  BY NetInitInv DEF Init, RoutesReachPeer, OwnChannels
<1>2. ASSUME Inv, [Next]_vars
      PROVE  Inv'
  <2>1. NetInv'
    BY <1>2, NetStep
  <2>2. CASE UNCHANGED topology
    <3>1. /\ ends' = ends /\ attached' = attached
          /\ ifaces' = ifaces /\ routes' = routes
      BY <2>2 DEF topology
    <3>2. OwnChannels'
      BY <1>2, <3>1 DEF OwnChannels
    <3>3. RoutesReachPeer'
      BY <1>2, <3>1 DEF RoutesReachPeer, HasRoute, RouteDevice, FarEnds
    <3> QED
      BY <2>1, <3>2, <3>3
  <2>3. ASSUME NEW a \in Node, NEW b \in Node, InstallQuantumLink(a, b)
        PROVE  Inv'
    BY <1>2, <2>1, <2>3, InstallKeepsRoutes DEF InstallQuantumLink, OwnChannels
  <2>4. \/ UNCHANGED topology
        \/ \E a, b \in Node : InstallQuantumLink(a, b)
    BY <1>2 DEF Next, vars, Script, netVars, Topology, Transmission, Send, SendRefused,
                Depart, Deliver, topology
  <2> QED
    BY <2>2, <2>3, <2>4
<1> QED
  BY <1>1, <1>2, PTL DEF Spec

-----------------------------------------------------------------------------
(***************************************************************************)
(* Every handle keeps pointing at its own physical qubit, for every set of *)
(* nodes and every bound on the ids: through any sequence of creations,    *)
(* merges, measurements, losses and, in the network, sends and deliveries. *)
(*                                                                         *)
(* The registry numbers the handles (MergeStates, Measure) and the backend *)
(* objects number their qubits (MergeDisjoint, the backend's Measure) by   *)
(* two different rules.  The invariant that makes them agree is Bound: in  *)
(* every state the index of a handle is its rank, the number of members    *)
(* with a smaller one.  A merge and a split both turn ranks into ranks,    *)
(* and a rank is the same number whichever side counts it.                 *)
(***************************************************************************)
(* The registry operations, field by field.                                *)

(* The fields of a registry; every operation keeps a record of them.       *)
Fields == {"states", "members", "location", "atNode", "stateOf", "index",
           "held", "slot", "nextStateId", "nextQubitId"}
HasFields(r) == DOMAIN r = Fields

LEMMA RegistryHasFields ==
  ASSUME NEW r \in Registry
  PROVE  HasFields(r)
BY DEF Registry, HasFields, Fields

(* CreateState: one more state without members, and a backend object for   *)
(* the qubits in DOMAIN pos.                                               *)
LEMMA AddStateFields ==
  ASSUME NEW r, HasFields(r), NEW pos
  PROVE  LET t == AddState(r, pos)
             sid == r.nextStateId
         IN  /\ HasFields(t)
             /\ t.states = r.states \cup {sid}
             /\ t.members = [s \in StateId |-> IF s = sid THEN {} ELSE r.members[s]]
             /\ t.location = r.location
             /\ t.stateOf = r.stateOf
             /\ t.index = r.index
             /\ t.held = [w \in QubitId |-> IF w \in DOMAIN pos THEN sid ELSE r.held[w]]
             /\ t.slot = [w \in QubitId |-> IF w \in DOMAIN pos THEN pos[w] ELSE r.slot[w]]
             /\ t.nextStateId = sid + 1
             /\ t.nextQubitId = r.nextQubitId
BY DEF AddState, HasFields, Fields

(* RemoveState: the ids and their member lists go, no handle is touched.   *)
LEMMA RemoveStatesFields ==
  ASSUME NEW r, HasFields(r), NEW sids
  PROVE  LET t == RemoveStates(r, sids)
         IN  /\ HasFields(t)
             /\ t.states = r.states \ sids
             /\ t.members = [s \in StateId |-> IF s \in sids THEN {} ELSE r.members[s]]
             /\ t.location = r.location
             /\ t.stateOf = r.stateOf
             /\ t.index = r.index
             /\ t.held = r.held
             /\ t.slot = r.slot
             /\ t.nextStateId = r.nextStateId
             /\ t.nextQubitId = r.nextQubitId
BY DEF RemoveStates, HasFields, Fields

(* UnregisterEverywhere: the handles leave every member list.              *)
LEMMA UnregisterFields ==
  ASSUME NEW r, HasFields(r), NEW qs
  PROVE  LET t == UnregisterEverywhere(r, qs)
         IN  /\ HasFields(t)
             /\ t.states = r.states
             /\ t.members = [s \in StateId |-> r.members[s] \ qs]
             /\ t.location = r.location
             /\ t.stateOf = r.stateOf
             /\ t.index = r.index
             /\ t.held = r.held
             /\ t.slot = r.slot
             /\ t.nextStateId = r.nextStateId
             /\ t.nextQubitId = r.nextQubitId
BY DEF UnregisterEverywhere, HasFields, Fields

(* SetLocation changes no binding.                                         *)
LEMMA SetLocationFields ==
  ASSUME NEW r, HasFields(r), NEW q, NEW loc
  PROVE  LET t == SetLocation(r, q, loc)
         IN  /\ HasFields(t)
             /\ t.states = r.states
             /\ t.members = r.members
             /\ t.stateOf = r.stateOf
             /\ t.index = r.index
             /\ t.held = r.held
             /\ t.slot = r.slot
             /\ t.nextStateId = r.nextStateId
             /\ t.nextQubitId = r.nextQubitId
BY DEF SetLocation, HasFields, Fields

(* The rebinding loops change the handle side only, never an object.       *)
LEMMA RebindFields ==
  ASSUME NEW r, HasFields(r), NEW qs, NEW sid, NEW idx
  PROVE  LET t == Rebind(r, qs, sid, idx)
         IN  /\ HasFields(t)
             /\ t.states = r.states
             /\ t.members = [s \in StateId |-> IF s = sid THEN r.members[s] \cup qs
                                                          ELSE r.members[s]]
             /\ t.location = r.location
             /\ t.stateOf = [q \in QubitId |-> IF q \in qs THEN sid ELSE r.stateOf[q]]
             /\ t.index = [q \in QubitId |-> IF q \in qs THEN idx[q] ELSE r.index[q]]
             /\ t.held = r.held
             /\ t.slot = r.slot
             /\ t.nextStateId = r.nextStateId
             /\ t.nextQubitId = r.nextQubitId
BY DEF Rebind, HasFields, Fields

(* A new handle takes the next id and is bound as its creator says.        *)
LEMMA NewHandleFields ==
  ASSUME NEW r, HasFields(r), NEW n, NEW sid, NEW i
  PROVE  LET t == NewHandle(r, n, sid, i)
             q == r.nextQubitId
         IN  /\ HasFields(t)
             /\ t.states = r.states
             /\ t.members = [s \in StateId |-> IF s = sid THEN r.members[s] \cup {q}
                                                          ELSE r.members[s]]
             /\ t.stateOf = [p \in QubitId |-> IF p = q THEN sid ELSE r.stateOf[p]]
             /\ t.index = [p \in QubitId |-> IF p = q THEN i ELSE r.index[p]]
             /\ t.held = r.held
             /\ t.slot = r.slot
             /\ t.nextStateId = r.nextStateId
             /\ t.nextQubitId = q + 1
<1> DEFINE q == r.nextQubitId
           next == q + 1
           u == [r EXCEPT !.nextQubitId = next]
           one == {q}
           idx == [p \in {q} |-> i]
           b == Rebind(u, one, sid, idx)
<1>1. /\ HasFields(u)
      /\ u.states = r.states /\ u.members = r.members
      /\ u.stateOf = r.stateOf /\ u.index = r.index
      /\ u.held = r.held /\ u.slot = r.slot
      /\ u.nextStateId = r.nextStateId /\ u.nextQubitId = next
  BY DEF HasFields, Fields
<1> HIDE DEF u
<1>2. idx[q] = i
  OBVIOUS
<1>3. NewHandle(r, n, sid, i) = SetLocation(b, q, AtNode(n))
  BY DEF NewHandle, u
<1> HIDE DEF one, idx
<1>4. /\ HasFields(b)
      /\ b.states = u.states
      /\ b.members = [s \in StateId |-> IF s = sid THEN u.members[s] \cup one
                                                   ELSE u.members[s]]
      /\ b.stateOf = [p \in QubitId |-> IF p \in one THEN sid ELSE u.stateOf[p]]
      /\ b.index = [p \in QubitId |-> IF p \in one THEN idx[p] ELSE u.index[p]]
      /\ b.held = u.held
      /\ b.slot = u.slot
      /\ b.nextStateId = u.nextStateId
      /\ b.nextQubitId = u.nextQubitId
  BY <1>1, RebindFields
<1> HIDE DEF b
<1>5. b.index = [p \in QubitId |-> IF p = q THEN i ELSE r.index[p]]
  BY <1>1, <1>2, <1>4 DEF one
<1>6. b.stateOf = [p \in QubitId |-> IF p = q THEN sid ELSE r.stateOf[p]]
  BY <1>1, <1>4 DEF one
<1> QED
  BY <1>1, <1>3, <1>4, <1>5, <1>6, SetLocationFields DEF one

-----------------------------------------------------------------------------
(* Ranks. *)

(* ix numbers the members of M by their rank: each one by how many of the  *)
(* others have a smaller number.                                           *)
Ranked(M, ix) ==
  /\ \A p, q \in M : ix[p] = ix[q] => p = q
  /\ \A q \in M : ix[q] = Cardinality({p \in M : ix[p] < ix[q]})

(* R, a set of pairs, orders S strictly and totally.                       *)
StrictOrder(S, R) ==
  /\ \A x \in S : <<x, x>> \notin R
  /\ \A x, y, z \in S : <<x, y>> \in R /\ <<y, z>> \in R => <<x, z>> \in R
  /\ \A x, y \in S : x = y \/ <<x, y>> \in R \/ <<y, x>> \in R

(* Sets of qubits are finite.                                              *)
LEMMA QubitsFinite ==
  ASSUME NEW S, S \subseteq QubitId
  PROVE  IsFiniteSet(S)
<1>1. IsFiniteSet(QubitId)
  BY FS_Interval, BoundsAssumption DEF QubitId
<1> QED
  BY <1>1, FS_Subset

(* A proper subset has fewer elements.                                     *)
LEMMA CountSmaller ==
  ASSUME NEW T, T \subseteq QubitId, NEW S, S \subseteq T, NEW x \in T, x \notin S
  PROVE  Cardinality(S) < Cardinality(T)
<1>1. IsFiniteSet(T) /\ Cardinality(T) \in Nat /\ Cardinality(S) \in Nat
  BY QubitsFinite, CountIsNat
<1>2. Cardinality(S) <= Cardinality(T) /\ (Cardinality(T) = Cardinality(S) => T = S)
  BY <1>1, FS_Subset
<1> QED
  BY <1>1, <1>2

(* Counting predecessors in a strict total order gives ranks: the numbers  *)
(* are in the same order as the elements.                                  *)
LEMMA RankOrder ==
  ASSUME NEW S, S \subseteq QubitId, NEW R, StrictOrder(S, R), NEW rank,
         \A x \in S : rank[x] = Cardinality({y \in S : <<y, x>> \in R})
  PROVE  /\ \A x \in S : rank[x] \in Nat
         /\ \A x, y \in S : rank[x] < rank[y] <=> <<x, y>> \in R
         /\ Ranked(S, rank)
<1> DEFINE Below(x) == {y \in S : <<y, x>> \in R}
<1>1. \A x \in S : Below(x) \subseteq QubitId /\ rank[x] = Cardinality(Below(x))
  OBVIOUS
<1>2. \A x \in S : rank[x] \in Nat
  <2> HIDE DEF Below
  <2> QED
    BY <1>1, CountIsNat
<1>3. ASSUME NEW x \in S, NEW y \in S, <<x, y>> \in R
      PROVE  rank[x] < rank[y]
  <2>1. Below(x) \subseteq Below(y) /\ x \in Below(y) /\ x \notin Below(x)
    BY <1>3 DEF StrictOrder
  <2> HIDE DEF Below
  <2> QED
    BY <1>1, <2>1, CountSmaller
<1>4. ASSUME NEW x \in S, NEW y \in S
      PROVE  /\ rank[x] < rank[y] <=> <<x, y>> \in R
             /\ rank[x] = rank[y] => x = y
  <2>1. rank[x] \in Nat /\ rank[y] \in Nat
    BY <1>2
  <2>2. x = y \/ <<x, y>> \in R \/ <<y, x>> \in R
    BY DEF StrictOrder
  <2>3. <<x, y>> \in R => rank[x] < rank[y]
    BY <1>3
  <2>4. <<y, x>> \in R => rank[y] < rank[x]
    BY <1>3
  <2>5. x = y => <<x, y>> \notin R
    BY DEF StrictOrder
  <2> QED
    BY <2>1, <2>2, <2>3, <2>4, <2>5
<1>5. \A x \in S : Below(x) = {y \in S : rank[y] < rank[x]}
  BY <1>4
<1> HIDE DEF Below
<1> QED
  BY <1>1, <1>2, <1>4, <1>5 DEF Ranked

(* Ranks are compact: n members carry the numbers 0 .. n-1, each one once. *)
LEMMA RankedCompact ==
  ASSUME NEW M, M \subseteq QubitId, M # {}, NEW ix, \A q \in M : ix[q] \in Nat,
         Ranked(M, ix)
  PROVE  {ix[q] : q \in M} = 0..(Cardinality(M) - 1)
<1> DEFINE n == Cardinality(M)
           T == 0..(n - 1)
           image == {ix[q] : q \in M}
           f == [q \in M |-> ix[q]]
<1>1. IsFiniteSet(M) /\ n \in Nat /\ n # 0
  BY QubitsFinite, CountIsNat, FS_EmptySet
<1>2. \A q \in M : ix[q] < n
  <2> SUFFICES ASSUME NEW q \in M
               PROVE  ix[q] < n
    OBVIOUS
  <2> DEFINE below == {p \in M : ix[p] < ix[q]}
  <2>1. below \subseteq M /\ q \notin below /\ ix[q] = Cardinality(below)
    BY DEF Ranked
  <2> HIDE DEF below
  <2> QED
    BY <2>1, CountSmaller
<1>3. f \in Injection(M, T)
  <2>1. f \in [M -> T]
    BY <1>1, <1>2
  <2>2. \A p, q \in M : f[p] = f[q] => p = q
    BY DEF Ranked
  <2> HIDE DEF f, T
  <2> QED
    BY <2>1, <2>2 DEF Injection, IsInjective
<1>4. IsFiniteSet(T) /\ Cardinality(T) = n
  BY <1>1, FS_Interval
<1> HIDE DEF n, T
<1>5. f \in Surjection(M, T)
  BY <1>3, <1>4, FS_Injection DEF n
<1>6. \A t \in T : \E q \in M : f[q] = t
  BY <1>5 DEF Surjection
<1>7. image = T
  <2>1. \A q \in M : ix[q] \in T
    BY <1>5 DEF Surjection
  <2> QED
    BY <1>6, <2>1
<1> QED
  BY <1>7 DEF n, T

(* Ranks only depend on the numbers of the members themselves.             *)
LEMMA RankedAgree ==
  ASSUME NEW M, NEW ix, NEW jx, Ranked(M, ix), \A p \in M : jx[p] = ix[p]
  PROVE  Ranked(M, jx)
<1>1. \A p \in M : {o \in M : jx[o] < jx[p]} = {o \in M : ix[o] < ix[p]}
  OBVIOUS
<1>2. \A p \in M : jx[p] = Cardinality({o \in M : jx[o] < jx[p]})
  <2> SUFFICES ASSUME NEW p \in M
               PROVE  jx[p] = Cardinality({o \in M : jx[o] < jx[p]})
    OBVIOUS
  <2>1. ix[p] = Cardinality({o \in M : ix[o] < ix[p]})
    BY DEF Ranked
  <2> QED
    BY <1>1, <2>1
<1> QED
  BY <1>2 DEF Ranked

(* One of the members of a nonempty state comes first.                     *)
LEMMA LowestRanked ==
  ASSUME NEW M, M \subseteq QubitId, M # {}, NEW ix, \A q \in M : ix[q] \in Nat,
         Ranked(M, ix)
  PROVE  \E q \in M : \A p \in M : ix[q] <= ix[p]
<1>1. Cardinality(M) \in Nat /\ Cardinality(M) # 0
  BY QubitsFinite, CountIsNat, FS_EmptySet
<1>2. 0 \in {ix[q] : q \in M}
  BY <1>1, RankedCompact
<1> QED
  BY <1>2

-----------------------------------------------------------------------------
(***************************************************************************)
(* The binding invariant.  Both sides name the same state and the same     *)
(* position for every qubit, created or not; the member lists, the         *)
(* registered states and the id counter say what the handles say; and in   *)
(* every state the indices are ranks.                                      *)
(***************************************************************************)
Bound(r) ==
  /\ r.held = r.stateOf
  /\ r.slot = r.index
  /\ \A q \in QubitId : r.stateOf[q] \in StateId <=> q \in Created(r)
  /\ \A q \in QubitId : r.stateOf[q] < r.nextStateId
  /\ r.members = [s \in StateId |-> {q \in QubitId : r.stateOf[q] = s}]
  /\ r.states = {r.stateOf[q] : q \in Created(r)}
  /\ \A s \in StateId : Ranked(r.members[s], r.index)

(* The position a handle points to holds its own qubit and no other.       *)
LEMMA WiresOfHandle ==
  ASSUME NEW r \in Registry, Bound(r), NEW q \in Created(r)
  PROVE  WiresAt(r, q) = {q}
<1>1. q \in QubitId /\ r.stateOf[q] \in StateId
  BY DEF Bound, Created
<1>2. \A w \in QubitId :
        w \in WiresAt(r, q) <=> r.stateOf[w] = r.stateOf[q] /\ r.index[w] = r.index[q]
  BY DEF WiresAt, Bound
<1>3. \A p, w \in r.members[r.stateOf[q]] : r.index[p] = r.index[w] => p = w
  BY <1>1 DEF Bound, Ranked
<1>4. \A w \in QubitId : r.stateOf[w] = r.stateOf[q] => w \in r.members[r.stateOf[q]]
  BY <1>1 DEF Bound
<1>5. \A w \in WiresAt(r, q) : w \in QubitId
  BY DEF WiresAt
<1> QED
  BY <1>1, <1>2, <1>3, <1>4, <1>5

(* The leading qubit id of a state, which the merge order compares, exists.*)
LEMMA LeadingIsNat ==
  ASSUME NEW r \in Registry, Bound(r), NEW s \in StateId
  PROVE  LeadingQubitId(r, s) \in Nat
<1> DEFINE M == r.members[s]
<1>1. M \subseteq QubitId /\ \A q \in M : r.index[q] \in Nat
  BY FieldTypes
<1>2. CASE M = {}
  BY <1>2 DEF LeadingQubitId
<1>3. CASE M # {}
  <2>1. Ranked(M, r.index)
    BY DEF Bound
  <2>2. \E q \in M : \A p \in M : r.index[q] <= r.index[p]
    BY <1>1, <1>3, <2>1, LowestRanked
  <2>3. LeadingQubitId(r, s) \in M
    BY <1>3, <2>2 DEF LeadingQubitId
  <2> QED
    BY <1>1, <2>3 DEF QubitId
<1> QED
  BY <1>2, <1>3

-----------------------------------------------------------------------------
(* MergeStates *)

(* The handles that name one of the states sids.                           *)
Sharers(r, sids) == {q \in QubitId : r.stateOf[q] \in sids}

(* t is r with the states sids, and the handles all, merged into a new one.*)
MergedTo(r, t, all, sids) ==
  LET sid == r.nextStateId
  IN  /\ t.states = (r.states \cup {sid}) \ sids
      /\ t.members = [s \in StateId |-> IF s = sid THEN all
                                        ELSE IF s \in sids THEN {} ELSE r.members[s]]
      /\ t.stateOf = [q \in QubitId |-> IF q \in all THEN sid ELSE r.stateOf[q]]
      /\ t.index = [q \in QubitId |-> IF q \in all THEN MergedIndex(r, all, q)
                                      ELSE r.index[q]]
      /\ t.held = [w \in QubitId |-> IF w \in all THEN sid ELSE r.held[w]]
      /\ t.slot = [w \in QubitId |-> IF w \in all THEN MergedSlot(r, sids, w)
                                     ELSE r.slot[w]]
      /\ t.nextStateId = sid + 1
      /\ t.nextQubitId = r.nextQubitId

(* The member lists and the backend objects agree on who they are.         *)
LEMMA SharersAre ==
  ASSUME NEW r \in Registry, Bound(r), NEW sids, sids \subseteq StateId
  PROVE  /\ MembersOf(r, sids) = Sharers(r, sids)
         /\ WiresOf(r, sids) = Sharers(r, sids)
BY DEF Bound, MembersOf, WiresOf, Sharers

(* MergeStates, field by field: all the states that are merged are emptied *)
(* and removed.                                                            *)
LEMMA MergeFields ==
  ASSUME NEW r \in Registry, Bound(r), r.nextStateId \in StateId, NEW qs \in SUBSET QubitId,
         \A q \in qs : r.stateOf[q] \in StateId,
         Cardinality(StatesOf(r, qs)) # 1
  PROVE  MergedTo(r, MergeStates(r, qs), Sharers(r, StatesOf(r, qs)), StatesOf(r, qs))
<1> DEFINE sid == r.nextStateId
           sids == StatesOf(r, qs)
           all == Sharers(r, sids)
           slots == [w \in all |-> MergedSlot(r, sids, w)]
           idx == [q \in all |-> MergedIndex(r, all, q)]
           cleared == UnregisterEverywhere(r, all)
           added == AddState(cleared, slots)
           bound == Rebind(added, all, sid, idx)
           emptied == {s \in sids : bound.members[s] = {}}
           t == RemoveStates(bound, emptied)
<1>1. sids \subseteq StateId /\ sid \notin sids
  BY FieldTypes DEF StatesOf, Bound, StateId
<1>2. MembersOf(r, sids) = all /\ WiresOf(r, sids) = all
  BY <1>1, SharersAre
<1>3. MergeStates(r, qs) = t
  BY <1>2 DEF MergeStates
<1>4. DOMAIN slots = all /\ \A w \in all : slots[w] = MergedSlot(r, sids, w)
  OBVIOUS
<1>5. \A q \in all : idx[q] = MergedIndex(r, all, q)
  OBVIOUS
<1> HIDE DEF slots, idx, all, sids
<1>6. /\ HasFields(cleared)
      /\ cleared.states = r.states
      /\ cleared.members = [s \in StateId |-> r.members[s] \ all]
      /\ cleared.stateOf = r.stateOf
      /\ cleared.index = r.index
      /\ cleared.held = r.held
      /\ cleared.slot = r.slot
      /\ cleared.nextStateId = sid
      /\ cleared.nextQubitId = r.nextQubitId
  BY RegistryHasFields, UnregisterFields
<1> HIDE DEF cleared, t
<1>7. /\ HasFields(added)
      /\ added.states = cleared.states \cup {cleared.nextStateId}
      /\ added.members = [s \in StateId |-> IF s = cleared.nextStateId THEN {}
                                             ELSE cleared.members[s]]
      /\ added.stateOf = cleared.stateOf
      /\ added.index = cleared.index
      /\ added.held = [w \in QubitId |-> IF w \in DOMAIN slots THEN cleared.nextStateId
                                          ELSE cleared.held[w]]
      /\ added.slot = [w \in QubitId |-> IF w \in DOMAIN slots THEN slots[w]
                                          ELSE cleared.slot[w]]
      /\ added.nextStateId = cleared.nextStateId + 1
      /\ added.nextQubitId = cleared.nextQubitId
  <2>1. HasFields(cleared)
    BY <1>6
  <2> QED
    BY <2>1, AddStateFields
<1> HIDE DEF added
<1>8. /\ HasFields(added)
      /\ added.states = r.states \cup {sid}
      /\ added.members = [s \in StateId |-> IF s = sid THEN {} ELSE cleared.members[s]]
      /\ added.stateOf = r.stateOf
      /\ added.index = r.index
      /\ added.held = [w \in QubitId |-> IF w \in all THEN sid ELSE r.held[w]]
      /\ added.slot = [w \in QubitId |-> IF w \in all THEN slots[w] ELSE r.slot[w]]
      /\ added.nextStateId = sid + 1
      /\ added.nextQubitId = r.nextQubitId
  BY <1>4, <1>6, <1>7
<1>9. /\ HasFields(bound)
      /\ bound.states = added.states
      /\ bound.members = [s \in StateId |-> IF s = sid THEN added.members[s] \cup all
                                                       ELSE added.members[s]]
      /\ bound.stateOf = [q \in QubitId |-> IF q \in all THEN sid ELSE r.stateOf[q]]
      /\ bound.index = [q \in QubitId |-> IF q \in all THEN idx[q] ELSE r.index[q]]
      /\ bound.held = added.held
      /\ bound.slot = added.slot
      /\ bound.nextStateId = sid + 1
      /\ bound.nextQubitId = r.nextQubitId
  BY <1>8, RebindFields
<1> HIDE DEF bound
<1>10. \A s \in StateId : r.members[s] \ all = IF s \in sids THEN {} ELSE r.members[s]
  BY DEF Bound, Sharers, all
<1>11. \A s \in StateId : bound.members[s] = IF s = sid THEN all
                                            ELSE IF s \in sids THEN {} ELSE r.members[s]
  <2> SUFFICES ASSUME NEW s \in StateId
               PROVE  bound.members[s] = IF s = sid THEN all
                                         ELSE IF s \in sids THEN {} ELSE r.members[s]
    OBVIOUS
  <2>1. cleared.members[s] = IF s \in sids THEN {} ELSE r.members[s]
    BY <1>6, <1>10
  <2>2. added.members[s] = IF s = sid THEN {} ELSE cleared.members[s]
    BY <1>8
  <2>3. bound.members[s] = IF s = sid THEN added.members[s] \cup all
                                      ELSE added.members[s]
    BY <1>9
  <2> HIDE DEF sid, emptied
  <2> QED
    BY <2>1, <2>2, <2>3
<1>12. emptied = sids
  BY <1>1, <1>11
<1> HIDE DEF emptied
<1>13. t = RemoveStates(bound, sids)
  BY <1>12 DEF t
<1>14. /\ t.states = bound.states \ sids
       /\ t.members = [s \in StateId |-> IF s \in sids THEN {} ELSE bound.members[s]]
       /\ t.stateOf = bound.stateOf
       /\ t.index = bound.index
       /\ t.held = bound.held
       /\ t.slot = bound.slot
       /\ t.nextStateId = bound.nextStateId
       /\ t.nextQubitId = bound.nextQubitId
  <2>1. HasFields(bound)
    BY <1>9
  <2> QED
    BY <1>13, <2>1, RemoveStatesFields
<1>15. t.members = [s \in StateId |-> IF s = sid THEN all
                                      ELSE IF s \in sids THEN {} ELSE r.members[s]]
  BY <1>1, <1>11, <1>14
<1>16. t.index = [q \in QubitId |-> IF q \in all THEN MergedIndex(r, all, q)
                                                 ELSE r.index[q]]
  BY <1>5, <1>9, <1>14
<1>17. t.slot = [w \in QubitId |-> IF w \in all THEN MergedSlot(r, sids, w)
                                                ELSE r.slot[w]]
  BY <1>4, <1>8, <1>9, <1>14
<1> HIDE DEF all, sids
<1>18. MergedTo(r, t, all, sids)
  BY <1>8, <1>9, <1>14, <1>15, <1>16, <1>17 DEF MergedTo
<1> QED
  BY <1>3, <1>18 DEF all, sids

(* The order in which MergeStates concatenates the members.                *)
HandleBefore(r, p, q) ==
  \/ MergesBefore(r, r.stateOf[p], r.stateOf[q])
  \/ r.stateOf[p] = r.stateOf[q] /\ r.index[p] < r.index[q]

MergeOrder(r, all) == {e \in all \X all : HandleBefore(r, e[1], e[2])}

(* The merge order of the states is strict and total: by leading qubit id, *)
(* ties broken by the state id.                                            *)
LEMMA MergesBeforeOrder ==
  ASSUME NEW r \in Registry, Bound(r)
  PROVE  /\ \A s \in StateId : ~MergesBefore(r, s, s)
         /\ \A s, t, u \in StateId :
              MergesBefore(r, s, t) /\ MergesBefore(r, t, u) => MergesBefore(r, s, u)
         /\ \A s, t \in StateId : s = t \/ MergesBefore(r, s, t) \/ MergesBefore(r, t, s)
<1>1. \A s \in StateId : LeadingQubitId(r, s) \in Nat /\ s \in Nat
  BY LeadingIsNat DEF StateId
<1> QED
  BY <1>1 DEF MergesBefore

(* And so is the order of the handles that it induces.                     *)
LEMMA MergeOrderStrict ==
  ASSUME NEW r \in Registry, Bound(r), NEW all, all \subseteq Created(r)
  PROVE  StrictOrder(all, MergeOrder(r, all))
<1>1. \A q \in all : q \in QubitId /\ r.stateOf[q] \in StateId /\ r.index[q] \in Nat
  BY FieldTypes DEF Bound, Created
<1>2. \A p, q \in all : <<p, q>> \in MergeOrder(r, all) <=> HandleBefore(r, p, q)
  BY DEF MergeOrder
<1>3. \A p, q \in all : r.stateOf[p] = r.stateOf[q] /\ r.index[p] = r.index[q] => p = q
  BY <1>1 DEF Bound, Ranked
<1>4. \A x \in all : ~HandleBefore(r, x, x)
  BY <1>1, MergesBeforeOrder DEF HandleBefore
<1>5. ASSUME NEW x \in all, NEW y \in all, NEW z \in all,
             HandleBefore(r, x, y), HandleBefore(r, y, z)
      PROVE  HandleBefore(r, x, z)
  BY <1>1, <1>5, MergesBeforeOrder DEF HandleBefore
<1>6. ASSUME NEW x \in all, NEW y \in all
      PROVE  x = y \/ HandleBefore(r, x, y) \/ HandleBefore(r, y, x)
  BY <1>1, <1>3, MergesBeforeOrder DEF HandleBefore
<1> QED
  BY <1>2, <1>4, <1>5, <1>6 DEF StrictOrder

(* The position a qubit has after MergeDisjoint, its old one behind all    *)
(* the qubits of the operands before it, is the place of its handle in the *)
(* concatenation of the sorted members.                                    *)
LEMMA MergedSlotIsIndex ==
  ASSUME NEW r \in Registry, Bound(r), NEW sids, sids \subseteq StateId,
         NEW w \in Sharers(r, sids)
  PROVE  MergedSlot(r, sids, w) = MergedIndex(r, Sharers(r, sids), w)
<1> DEFINE all == Sharers(r, sids)
           earlier == {v \in all : MergesBefore(r, r.stateOf[v], r.stateOf[w])}
           same == {p \in all : r.stateOf[p] = r.stateOf[w] /\ r.index[p] < r.index[w]}
<1>1. w \in QubitId /\ r.stateOf[w] \in sids /\ r.stateOf[w] \in StateId
  BY DEF Sharers
<1>2. earlier \subseteq QubitId /\ same \subseteq QubitId
  BY DEF Sharers
<1>3. earlier \cap same = {}
  BY <1>1, MergesBeforeOrder
<1>4. MergedIndex(r, all, w) = Cardinality(earlier \cup same)
  <2>1. earlier \cup same
          = {p \in all : \/ MergesBefore(r, r.stateOf[p], r.stateOf[w])
                         \/ /\ r.stateOf[p] = r.stateOf[w]
                            /\ r.index[p] < r.index[w]}
    OBVIOUS
  <2> HIDE DEF earlier, same, all
  <2> QED
    BY <2>1 DEF MergedIndex
<1>5. MergedSlot(r, sids, w) = r.index[w] + Cardinality(earlier)
  <2>1. earlier = {v \in QubitId : /\ r.held[v] \in sids
                                   /\ MergesBefore(r, r.held[v], r.held[w])}
    BY DEF Sharers, Bound
  <2>2. r.slot[w] = r.index[w]
    BY DEF Bound
  <2> HIDE DEF earlier
  <2> QED
    BY <2>1, <2>2 DEF MergedSlot
<1>6. Cardinality(same) = r.index[w]
  <2>1. same = {p \in r.members[r.stateOf[w]] : r.index[p] < r.index[w]}
    BY <1>1 DEF Bound, Sharers
  <2>2. Ranked(r.members[r.stateOf[w]], r.index) /\ w \in r.members[r.stateOf[w]]
    BY <1>1 DEF Bound
  <2> HIDE DEF same
  <2> QED
    BY <2>1, <2>2 DEF Ranked
<1> HIDE DEF earlier, same, all
<1>7. Cardinality(earlier \cup same) = Cardinality(earlier) + Cardinality(same)
  <2>1. IsFiniteSet(earlier) /\ IsFiniteSet(same)
    BY <1>2, QubitsFinite
  <2>2. Cardinality(earlier) \in Nat /\ Cardinality(same) \in Nat
    BY <1>2, CountIsNat
  <2>3. Cardinality(earlier \cap same) = 0
    BY <1>3, FS_EmptySet
  <2>4. Cardinality(earlier \cup same)
          = Cardinality(earlier) + Cardinality(same) - Cardinality(earlier \cap same)
    BY <2>1, FS_Union
  <2> QED
    BY <2>2, <2>3, <2>4
<1>8. Cardinality(earlier) \in Nat /\ Cardinality(same) \in Nat
  BY <1>2, CountIsNat
<1> QED
  BY <1>4, <1>5, <1>6, <1>7, <1>8 DEF all

(* Handles that come to share a state each shared one with a handle of     *)
(* asked before.                                                           *)
Joins(r, t, asked) ==
  \A p, q \in Created(r) :
    r.stateOf[p] # r.stateOf[q] /\ t.stateOf[p] = t.stateOf[q] =>
      \A x \in {p, q} : \E a \in asked : r.stateOf[x] = r.stateOf[a]

(* Handles stop sharing a state only if one of them is in measured.        *)
Parts(r, t, measured) ==
  \A p, q \in Created(r) :
    r.stateOf[p] = r.stateOf[q] /\ t.stateOf[p] # t.stateOf[q] =>
      {p, q} \cap measured # {}

(* A merge keeps the binding.                                              *)
LEMMA MergedBound ==
  ASSUME NEW r \in Registry, Bound(r), r.nextStateId \in StateId,
         NEW sids, sids \subseteq StateId, NEW t,
         MergedTo(r, t, Sharers(r, sids), sids), sids # {}, sids \subseteq r.states
  PROVE  Bound(t) /\ Created(t) = Created(r)
<1> DEFINE sid == r.nextStateId
           all == Sharers(r, sids)
<1>1. Created(t) = Created(r)
  BY DEF MergedTo, Created
<1>2. /\ \A q \in all : q \in Created(r)
      /\ all # {}
      /\ all \subseteq QubitId
  BY DEF Sharers, Bound, Created
<1>3. /\ sid \in StateId /\ sid \in Nat
      /\ sid \notin sids
      /\ \A q \in QubitId : r.stateOf[q] # sid /\ r.stateOf[q] \in Nat
  <2>1. sid \in Nat /\ \A q \in QubitId : r.stateOf[q] \in Nat
    BY FieldTypes DEF StateId, StateRef
  <2>2. \A q \in QubitId : r.stateOf[q] # sid
    BY <2>1 DEF Bound
  <2>3. sid \notin r.states
    BY <2>2 DEF Bound, Created
  <2> QED
    BY <2>1, <2>2, <2>3
<1>4. \A q \in all : MergedSlot(r, sids, q) = MergedIndex(r, all, q)
  BY MergedSlotIsIndex
<1>5. t.held = t.stateOf
  BY DEF MergedTo, Bound
<1>6. t.slot = t.index
  <2>1. r.slot = r.index
    BY DEF Bound
  <2> HIDE DEF all
  <2> QED
    BY <1>4, <2>1 DEF MergedTo, all
<1> HIDE DEF all
<1>7. \A q \in QubitId : t.stateOf[q] = IF q \in all THEN sid ELSE r.stateOf[q]
  BY DEF MergedTo, all
<1>8. \A q \in QubitId : t.stateOf[q] \in StateId <=> q \in Created(t)
  BY <1>1, <1>2, <1>3, <1>7 DEF Bound
<1>9. \A q \in QubitId : t.stateOf[q] < t.nextStateId
  <2>1. t.nextStateId = sid + 1
    BY DEF MergedTo
  <2>2. \A q \in QubitId : r.stateOf[q] < sid
    BY DEF Bound
  <2> QED
    BY <1>3, <1>7, <2>1, <2>2
<1>10. \A s \in StateId : t.members[s] = {q \in QubitId : t.stateOf[q] = s}
  <2> SUFFICES ASSUME NEW s \in StateId
               PROVE  t.members[s] = {q \in QubitId : t.stateOf[q] = s}
    OBVIOUS
  <2>1. t.members[s] = IF s = sid THEN all ELSE IF s \in sids THEN {} ELSE r.members[s]
    BY DEF MergedTo, all
  <2>2. r.members[s] = {q \in QubitId : r.stateOf[q] = s}
    BY DEF Bound
  <2>3. \A q \in QubitId : q \in all <=> r.stateOf[q] \in sids
    BY DEF all, Sharers
  <2> HIDE DEF sid
  <2> QED
    BY <1>2, <1>3, <1>7, <2>1, <2>2, <2>3
<1>11. t.members = [s \in StateId |-> {q \in QubitId : t.stateOf[q] = s}]
  BY <1>10 DEF MergedTo
<1>12. t.states = {t.stateOf[q] : q \in Created(t)}
  <2>1. t.states = (r.states \cup {sid}) \ sids
    BY DEF MergedTo
  <2>2. r.states = {r.stateOf[q] : q \in Created(r)}
    BY DEF Bound
  <2>3. \A q \in Created(r) : q \in QubitId
    BY DEF Created
  <2>4. \A q \in QubitId : q \in all <=> r.stateOf[q] \in sids
    BY DEF all, Sharers
  <2> HIDE DEF sid
  <2>5. \A q \in Created(r) : t.stateOf[q] \in t.states
    BY <1>3, <1>7, <2>1, <2>2, <2>3, <2>4
  <2>6. ASSUME NEW s \in t.states
        PROVE  \E q \in Created(r) : t.stateOf[q] = s
    <3>1. CASE s = sid
      BY <1>2, <1>7, <3>1
    <3>2. CASE s # sid
      BY <1>7, <2>1, <2>2, <2>3, <2>4, <3>2
    <3> QED
      BY <3>1, <3>2
  <2> QED
    BY <1>1, <2>5, <2>6
<1>13. \A s \in StateId : Ranked(t.members[s], t.index)
  <2>1. Ranked(all, t.index)
    <3> DEFINE R == MergeOrder(r, all)
    <3>1. StrictOrder(all, R)
      BY <1>2, MergeOrderStrict
    <3>2. \A q \in all : t.index[q] = Cardinality({p \in all : <<p, q>> \in R})
      <4> SUFFICES ASSUME NEW q \in all
                   PROVE  t.index[q] = Cardinality({p \in all : <<p, q>> \in R})
        OBVIOUS
      <4>1. t.index[q] = MergedIndex(r, all, q)
        BY <1>2 DEF MergedTo, all
      <4>2. {p \in all : <<p, q>> \in R}
              = {p \in all : \/ MergesBefore(r, r.stateOf[p], r.stateOf[q])
                             \/ /\ r.stateOf[p] = r.stateOf[q]
                                /\ r.index[p] < r.index[q]}
        BY DEF MergeOrder, HandleBefore
      <4> QED
        BY <4>1, <4>2 DEF MergedIndex
    <3> HIDE DEF R
    <3> QED
      BY <1>2, <3>1, <3>2, RankOrder
  <2>2. ASSUME NEW s \in StateId, s # sid, s \notin sids
        PROVE  Ranked(t.members[s], t.index)
    <3>1. t.members[s] = r.members[s]
      BY <2>2 DEF MergedTo
    <3>2. \A q \in r.members[s] : q \in QubitId /\ q \notin all
      BY <2>2 DEF Bound, all, Sharers
    <3>3. \A q \in r.members[s] : t.index[q] = r.index[q]
      BY <3>2 DEF MergedTo, all
    <3>4. Ranked(r.members[s], r.index)
      BY DEF Bound
    <3> QED
      BY <3>1, <3>3, <3>4, RankedAgree
  <2>3. \A s \in sids : s \in StateId /\ s # sid /\ t.members[s] = {}
    BY <1>3 DEF MergedTo
  <2>4. t.members[sid] = all
    BY <1>3 DEF MergedTo, all
  <2>5. \A ix : Ranked({}, ix)
    BY DEF Ranked
  <2> QED
    BY <2>1, <2>2, <2>3, <2>4, <2>5
<1> QED
  BY <1>1, <1>5, <1>6, <1>8, <1>9, <1>11, <1>12, <1>13 DEF Bound

(* MergeStates keeps the binding, entangles the states it is asked for and *)
(* no others, and parts nobody.                                            *)
LEMMA MergeBinding ==
  ASSUME NEW r \in Registry, Bound(r), r.nextStateId \in StateId,
         NEW qs, qs \subseteq Created(r), qs # {}
  PROVE  LET t == MergeStates(r, qs)
         IN  /\ Bound(t)
             /\ Created(t) = Created(r)
             /\ Joins(r, t, qs)
             /\ Parts(r, t, {})
<1> DEFINE t == MergeStates(r, qs)
           sids == StatesOf(r, qs)
<1>1. qs \in SUBSET QubitId /\ \A q \in qs : r.stateOf[q] \in StateId
  BY DEF Bound, Created
<1>2. CASE Cardinality(sids) = 1
  <2>1. t = r
    BY <1>2 DEF MergeStates
  <2> HIDE DEF t
  <2> QED
    BY <2>1 DEF Joins, Parts, t
<1>3. CASE Cardinality(sids) # 1
  <2>1. sids \subseteq StateId /\ sids # {} /\ sids \subseteq r.states
    BY <1>1 DEF StatesOf, Bound
  <2>2. MergedTo(r, t, Sharers(r, sids), sids)
    BY <1>1, <1>3, MergeFields
  <2>3. \A x \in sids : \E a \in qs : x = r.stateOf[a]
    BY DEF StatesOf
  <2> HIDE DEF t, sids
  <2>4. Bound(t) /\ Created(t) = Created(r)
    BY <2>1, <2>2, MergedBound
  <2>5. \A p \in Created(r) :
          t.stateOf[p] = IF r.stateOf[p] \in sids THEN r.nextStateId ELSE r.stateOf[p]
    BY <2>2 DEF MergedTo, Sharers, Created
  <2>6. \A p \in Created(r) : r.stateOf[p] # r.nextStateId
    <3>1. \A p \in QubitId : r.stateOf[p] \in Nat
      BY FieldTypes DEF StateRef, StateId
    <3> QED
      BY <3>1 DEF Bound, Created
  <2>7. Joins(r, t, qs)
    BY <2>3, <2>5, <2>6 DEF Joins
  <2>8. Parts(r, t, {})
    BY <2>5 DEF Parts
  <2> QED
    BY <2>4, <2>7, <2>8 DEF t
<1> QED
  BY <1>2, <1>3

-----------------------------------------------------------------------------
(* Measure *)

(* The co-members of a handle, the survivors of its measurement.           *)
Others(r, q) == r.members[r.stateOf[q]] \ {q}

(* t is r with q in a state of its own and its co-members, if any, in      *)
(* another one.                                                            *)
SplitOff(r, t, q) ==
  LET s == r.stateOf[q]
      sid == r.nextStateId
      rest == sid + 1
      others == Others(r, q)
  IN  /\ t.states = (r.states \cup {sid} \cup (IF others = {} THEN {} ELSE {rest})) \ {s}
      /\ \A x \in StateId :
           t.members[x] = IF x = sid THEN {q}
                          ELSE IF x = rest THEN others
                          ELSE IF x = s THEN {} ELSE r.members[x]
      /\ \A p \in QubitId :
           /\ t.stateOf[p] = IF p = q THEN sid
                             ELSE IF p \in others THEN rest ELSE r.stateOf[p]
           /\ t.index[p] = IF p = q THEN 0
                           ELSE IF p \in others THEN SortedPlaces(r, others)[p]
                           ELSE r.index[p]
           /\ t.held[p] = IF p = q THEN sid
                          ELSE IF p \in others THEN rest ELSE r.held[p]
           /\ t.slot[p] = IF p = q THEN 0
                          ELSE IF p \in others
                          THEN IF r.slot[p] > r.index[q] THEN r.slot[p] - 1 ELSE r.slot[p]
                          ELSE r.slot[p]
      /\ t.nextStateId = IF others = {} THEN rest ELSE rest + 1
      /\ t.nextQubitId = r.nextQubitId

(* Measure, field by field: the measured state is emptied and removed.     *)
LEMMA SplitFields ==
  ASSUME NEW r \in Registry, Bound(r), Room(r, 2), NEW q \in Created(r)
  PROVE  SplitOff(r, Split(r, q), q)
<1> DEFINE s == r.stateOf[q]
           k == r.index[q]
           sid == r.nextStateId
           rest == sid + 1
           others == Others(r, q)
           places == SortedPlaces(r, others)
           left == {w \in QubitId : r.held[w] = s /\ r.slot[w] # k}
           cleared == UnregisterEverywhere(r, r.members[s])
           posM == [w \in WiresAt(r, q) |-> 0]
           addedM == AddState(cleared, posM)
           one == {q}
           idxM == [p \in {q} |-> 0]
           measured == Rebind(addedM, one, sid, idxM)
           posS == [w \in left |-> IF r.slot[w] > k THEN r.slot[w] - 1 ELSE r.slot[w]]
           addedS == AddState(measured, posS)
           survivors == Rebind(addedS, others, measured.nextStateId, places)
           rebound == IF left = {} THEN measured ELSE survivors
           t == IF rebound.members[s] = {} THEN RemoveStates(rebound, {s}) ELSE rebound
<1>1. Split(r, q) = t
  BY DEF Split, SplitWith, Others
<1>2. q \in QubitId /\ s \in StateId
  BY DEF Bound, Created
<1>3. /\ sid \in StateId /\ rest \in StateId /\ sid # rest
      /\ s # sid /\ s # rest
      /\ \A p \in QubitId : r.stateOf[p] # sid /\ r.stateOf[p] # rest
  <2>1. sid \in StateId /\ rest \in StateId
    BY RoomMeans
  <2>2. sid \in Nat /\ \A p \in QubitId : r.stateOf[p] \in Nat
    BY FieldTypes DEF StateRef, StateId
  <2>3. \A p \in QubitId : r.stateOf[p] < sid
    BY DEF Bound
  <2> QED
    BY <1>2, <2>1, <2>2, <2>3
<1>4. WiresAt(r, q) = {q}
  BY WiresOfHandle
<1>5. left = others
  <2>1. r.members[s] = {w \in QubitId : r.stateOf[w] = s}
    BY <1>2 DEF Bound
  <2>2. \A w \in r.members[s] : r.index[w] = k => w = q
    BY <1>2, <2>1 DEF Bound, Ranked
  <2>3. \A w \in QubitId : r.held[w] = r.stateOf[w] /\ r.slot[w] = r.index[w]
    BY DEF Bound
  <2> QED
    BY <2>1, <2>2, <2>3 DEF Others
<1>6. \A p \in DOMAIN posM : posM[p] = 0
  OBVIOUS
<1>7. DOMAIN posM = one /\ idxM[q] = 0
  BY <1>4
<1>8. /\ DOMAIN posS = left
      /\ \A w \in left : posS[w] = IF r.slot[w] > k THEN r.slot[w] - 1 ELSE r.slot[w]
  OBVIOUS
<1>9. \A x \in StateId : r.members[x] \ r.members[s] = IF x = s THEN {} ELSE r.members[x]
  BY <1>2 DEF Bound
<1>10. \A p \in one : p = q
  OBVIOUS
<1>11. q \in one /\ q \notin others /\ others \subseteq r.members[s]
  BY DEF Others
<1> HIDE DEF posM, idxM, posS, places, left, others, t, rebound, survivors, addedS,
             measured, addedM, one
<1>12. /\ HasFields(cleared)
       /\ cleared.states = r.states
       /\ cleared.members = [x \in StateId |-> r.members[x] \ r.members[s]]
       /\ cleared.stateOf = r.stateOf
       /\ cleared.index = r.index
       /\ cleared.held = r.held
       /\ cleared.slot = r.slot
       /\ cleared.nextStateId = r.nextStateId
       /\ cleared.nextQubitId = r.nextQubitId
  BY RegistryHasFields, UnregisterFields
<1> HIDE DEF cleared
<1>13. /\ HasFields(addedM)
       /\ addedM.states = cleared.states \cup {cleared.nextStateId}
       /\ addedM.members = [x \in StateId |-> IF x = cleared.nextStateId THEN {}
                                              ELSE cleared.members[x]]
       /\ addedM.stateOf = cleared.stateOf
       /\ addedM.index = cleared.index
       /\ addedM.held = [w \in QubitId |-> IF w \in DOMAIN posM THEN cleared.nextStateId
                                           ELSE cleared.held[w]]
       /\ addedM.slot = [w \in QubitId |-> IF w \in DOMAIN posM THEN posM[w]
                                           ELSE cleared.slot[w]]
       /\ addedM.nextStateId = cleared.nextStateId + 1
       /\ addedM.nextQubitId = cleared.nextQubitId
  <2>1. HasFields(cleared)
    BY <1>12
  <2> QED
    BY <2>1, AddStateFields DEF addedM
<1>14. /\ HasFields(measured)
       /\ measured.states = addedM.states
       /\ measured.members = [x \in StateId |-> IF x = sid THEN addedM.members[x] \cup one
                                                ELSE addedM.members[x]]
       /\ measured.stateOf = [p \in QubitId |-> IF p \in one THEN sid ELSE addedM.stateOf[p]]
       /\ measured.index = [p \in QubitId |-> IF p \in one THEN idxM[p] ELSE addedM.index[p]]
       /\ measured.held = addedM.held
       /\ measured.slot = addedM.slot
       /\ measured.nextStateId = addedM.nextStateId
       /\ measured.nextQubitId = addedM.nextQubitId
  <2>1. HasFields(addedM)
    BY <1>13
  <2> QED
    BY <2>1, RebindFields DEF measured
<1> DEFINE MeasuredFields ==
       /\ measured.states = r.states \cup {sid}
       /\ \A x \in StateId :
            measured.members[x] = IF x = sid THEN {q}
                                  ELSE IF x = s THEN {} ELSE r.members[x]
       /\ \A p \in QubitId :
            /\ measured.stateOf[p] = IF p = q THEN sid ELSE r.stateOf[p]
            /\ measured.index[p] = IF p = q THEN 0 ELSE r.index[p]
            /\ measured.held[p] = IF p = q THEN sid ELSE r.held[p]
            /\ measured.slot[p] = IF p = q THEN 0 ELSE r.slot[p]
       /\ measured.nextStateId = rest
       /\ measured.nextQubitId = r.nextQubitId
<1>15. MeasuredFields
  <2>1. \A x \in StateId : measured.members[x] = IF x = sid THEN {q}
                                ELSE IF x = s THEN {} ELSE r.members[x]
    <3> SUFFICES ASSUME NEW x \in StateId
                 PROVE  measured.members[x] = IF x = sid THEN {q}
                                ELSE IF x = s THEN {} ELSE r.members[x]
      OBVIOUS
    <3>1. cleared.members[x] = IF x = s THEN {} ELSE r.members[x]
      BY <1>9, <1>12
    <3>2. addedM.members[x] = IF x = sid THEN {} ELSE cleared.members[x]
      BY <1>12, <1>13
    <3>3. measured.members[x] = IF x = sid THEN addedM.members[x] \cup {q}
                                           ELSE addedM.members[x]
      BY <1>14 DEF one
    <3> QED
      BY <1>3, <3>1, <3>2, <3>3
  <2>2. \A p \in QubitId :
            /\ measured.stateOf[p] = IF p = q THEN sid ELSE r.stateOf[p]
            /\ measured.index[p] = IF p = q THEN 0 ELSE r.index[p]
    BY <1>7, <1>10, <1>11, <1>12, <1>13, <1>14
  <2>3. \A p \in QubitId :
            /\ measured.held[p] = IF p = q THEN sid ELSE r.held[p]
            /\ measured.slot[p] = IF p = q THEN 0 ELSE r.slot[p]
    BY <1>6, <1>7, <1>10, <1>11, <1>12, <1>13, <1>14
  <2> QED
    BY <1>12, <1>13, <1>14, <2>1, <2>2, <2>3
<1> HIDE DEF cleared, addedM, measured
<1>16. /\ HasFields(addedS)
       /\ addedS.states = measured.states \cup {measured.nextStateId}
       /\ addedS.members = [x \in StateId |-> IF x = measured.nextStateId THEN {}
                                              ELSE measured.members[x]]
       /\ addedS.stateOf = measured.stateOf
       /\ addedS.index = measured.index
       /\ addedS.held = [w \in QubitId |-> IF w \in DOMAIN posS THEN measured.nextStateId
                                           ELSE measured.held[w]]
       /\ addedS.slot = [w \in QubitId |-> IF w \in DOMAIN posS THEN posS[w]
                                           ELSE measured.slot[w]]
       /\ addedS.nextStateId = measured.nextStateId + 1
       /\ addedS.nextQubitId = measured.nextQubitId
  <2>1. HasFields(measured)
    BY <1>14
  <2> QED
    BY <2>1, AddStateFields DEF addedS
<1>17. /\ HasFields(survivors)
       /\ survivors.states = addedS.states
       /\ survivors.members
            = [x \in StateId |-> IF x = measured.nextStateId THEN addedS.members[x] \cup others
                                 ELSE addedS.members[x]]
       /\ survivors.stateOf = [p \in QubitId |-> IF p \in others THEN measured.nextStateId
                                                 ELSE addedS.stateOf[p]]
       /\ survivors.index = [p \in QubitId |-> IF p \in others THEN places[p]
                                               ELSE addedS.index[p]]
       /\ survivors.held = addedS.held
       /\ survivors.slot = addedS.slot
       /\ survivors.nextStateId = addedS.nextStateId
       /\ survivors.nextQubitId = addedS.nextQubitId
  <2>1. HasFields(addedS)
    BY <1>16
  <2> QED
    BY <2>1, RebindFields DEF survivors
<1> HIDE DEF MeasuredFields
<1> DEFINE Whole(u) ==
       /\ \A x \in StateId :
            u.members[x] = IF x = sid THEN {q}
                           ELSE IF x = rest THEN others
                           ELSE IF x = s THEN {} ELSE r.members[x]
       /\ \A p \in QubitId :
            /\ u.stateOf[p] = IF p = q THEN sid
                              ELSE IF p \in others THEN rest ELSE r.stateOf[p]
            /\ u.index[p] = IF p = q THEN 0
                            ELSE IF p \in others THEN places[p] ELSE r.index[p]
            /\ u.held[p] = IF p = q THEN sid
                           ELSE IF p \in others THEN rest ELSE r.held[p]
            /\ u.slot[p] = IF p = q THEN 0
                           ELSE IF p \in others
                                THEN IF r.slot[p] > k THEN r.slot[p] - 1 ELSE r.slot[p]
                                ELSE r.slot[p]
       /\ u.nextStateId = IF others = {} THEN rest ELSE rest + 1
       /\ u.nextQubitId = r.nextQubitId
       /\ u.states = r.states \cup {sid} \cup (IF others = {} THEN {} ELSE {rest})
       /\ HasFields(u)
<1>18. Whole(rebound)
  <2>1. CASE left = {}
    <3>1. rebound = measured /\ others = {}
      BY <1>5, <2>1 DEF rebound
    <3>2. r.members[rest] = {}
      BY <1>3 DEF Bound
    <3>3. \A x \in StateId : measured.members[x] = IF x = sid THEN {q}
                           ELSE IF x = rest THEN others
                           ELSE IF x = s THEN {} ELSE r.members[x]
      <4>1. \A x \in StateId : measured.members[x] = IF x = sid THEN {q}
                                ELSE IF x = s THEN {} ELSE r.members[x]
        BY <1>15 DEF MeasuredFields
      <4> HIDE DEF rest, sid, s
      <4> QED
        BY <1>3, <3>1, <3>2, <4>1
    <3>4. \A p \in QubitId : p \notin others
      BY <3>1
    <3>5. \A p \in QubitId :
            /\ measured.stateOf[p] = IF p = q THEN sid ELSE r.stateOf[p]
            /\ measured.index[p] = IF p = q THEN 0 ELSE r.index[p]
            /\ measured.held[p] = IF p = q THEN sid ELSE r.held[p]
            /\ measured.slot[p] = IF p = q THEN 0 ELSE r.slot[p]
      BY <1>15 DEF MeasuredFields
    <3>6. /\ measured.states = r.states \cup {sid}
          /\ measured.nextStateId = rest
          /\ measured.nextQubitId = r.nextQubitId
          /\ HasFields(measured)
      BY <1>14, <1>15 DEF MeasuredFields
    <3> HIDE DEF rest, sid, s, k, MeasuredFields
    <3>7. Whole(measured)
      BY <3>1, <3>3, <3>4, <3>5, <3>6
    <3> HIDE DEF Whole
    <3> QED
      BY <3>1, <3>7
  <2>2. CASE left # {}
    <3>1. rebound = survivors /\ others # {}
      BY <1>5, <2>2 DEF rebound
    <3>2. measured.nextStateId = rest /\ measured.nextQubitId = r.nextQubitId
          /\ measured.states = r.states \cup {sid}
      BY <1>15 DEF MeasuredFields
    <3>3. \A x \in StateId :
            survivors.members[x] = IF x = sid THEN {q}
                           ELSE IF x = rest THEN others
                           ELSE IF x = s THEN {} ELSE r.members[x]
      <4> SUFFICES ASSUME NEW x \in StateId
                   PROVE  survivors.members[x] = IF x = sid THEN {q}
                           ELSE IF x = rest THEN others
                           ELSE IF x = s THEN {} ELSE r.members[x]
        OBVIOUS
      <4>1. measured.members[x] = IF x = sid THEN {q}
                                  ELSE IF x = s THEN {} ELSE r.members[x]
        BY <1>15 DEF MeasuredFields
      <4>2. addedS.members[x] = IF x = rest THEN {} ELSE measured.members[x]
        BY <1>16, <3>2
      <4>3. survivors.members[x] = IF x = rest THEN addedS.members[x] \cup others
                                               ELSE addedS.members[x]
        BY <1>17, <3>2
      <4> HIDE DEF rest, sid, s
      <4> QED
        BY <1>3, <4>1, <4>2, <4>3
    <3>4. \A p \in QubitId :
            /\ survivors.stateOf[p] = IF p = q THEN sid
                              ELSE IF p \in others THEN rest ELSE r.stateOf[p]
            /\ survivors.index[p] = IF p = q THEN 0
                            ELSE IF p \in others THEN places[p] ELSE r.index[p]
      <4> SUFFICES ASSUME NEW p \in QubitId
                   PROVE
            /\ survivors.stateOf[p] = IF p = q THEN sid
                              ELSE IF p \in others THEN rest ELSE r.stateOf[p]
            /\ survivors.index[p] = IF p = q THEN 0
                            ELSE IF p \in others THEN places[p] ELSE r.index[p]
        OBVIOUS
      <4>1. measured.stateOf[p] = IF p = q THEN sid ELSE r.stateOf[p]
        BY <1>15 DEF MeasuredFields
      <4>2. measured.index[p] = IF p = q THEN 0 ELSE r.index[p]
        BY <1>15 DEF MeasuredFields
      <4> HIDE DEF rest, sid, s
      <4> QED
        BY <1>11, <1>16, <1>17, <3>2, <4>1, <4>2
    <3>5. \A p \in QubitId :
            /\ survivors.held[p] = IF p = q THEN sid
                           ELSE IF p \in others THEN rest ELSE r.held[p]
            /\ survivors.slot[p] = IF p = q THEN 0
                           ELSE IF p \in others
                                THEN IF r.slot[p] > k THEN r.slot[p] - 1 ELSE r.slot[p]
                                ELSE r.slot[p]
      <4> SUFFICES ASSUME NEW p \in QubitId
                   PROVE
            /\ survivors.held[p] = IF p = q THEN sid
                           ELSE IF p \in others THEN rest ELSE r.held[p]
            /\ survivors.slot[p] = IF p = q THEN 0
                           ELSE IF p \in others
                                THEN IF r.slot[p] > k THEN r.slot[p] - 1 ELSE r.slot[p]
                                ELSE r.slot[p]
        OBVIOUS
      <4>1. measured.held[p] = IF p = q THEN sid ELSE r.held[p]
        BY <1>15 DEF MeasuredFields
      <4>2. measured.slot[p] = IF p = q THEN 0 ELSE r.slot[p]
        BY <1>15 DEF MeasuredFields
      <4>3. addedS.held[p] = IF p \in others THEN rest ELSE measured.held[p]
        BY <1>5, <1>8, <1>16, <3>2
      <4>4. addedS.slot[p] = IF p \in others
                             THEN IF r.slot[p] > k THEN r.slot[p] - 1 ELSE r.slot[p]
                             ELSE measured.slot[p]
        BY <1>5, <1>8, <1>16
      <4> HIDE DEF rest, sid, s, k
      <4> QED
        BY <1>11, <1>17, <4>1, <4>2, <4>3, <4>4
    <3>6. /\ survivors.nextStateId = rest + 1
          /\ survivors.nextQubitId = r.nextQubitId
          /\ survivors.states = r.states \cup {sid} \cup {rest}
          /\ HasFields(survivors)
      BY <1>16, <1>17, <3>2
    <3> QED
      BY <3>1, <3>3, <3>4, <3>5, <3>6
  <2> QED
    BY <2>1, <2>2
<1> HIDE DEF Whole
<1>19. rebound.members[s] = {}
  BY <1>2, <1>3, <1>18 DEF Whole
<1>20. t = RemoveStates(rebound, {s})
  BY <1>19 DEF t
<1>21. /\ t.states = rebound.states \ {s}
       /\ t.members = [x \in StateId |-> IF x \in {s} THEN {} ELSE rebound.members[x]]
       /\ t.stateOf = rebound.stateOf
       /\ t.index = rebound.index
       /\ t.held = rebound.held
       /\ t.slot = rebound.slot
       /\ t.nextStateId = rebound.nextStateId
       /\ t.nextQubitId = rebound.nextQubitId
  <2>1. HasFields(rebound)
    BY <1>18 DEF Whole
  <2> QED
    BY <1>20, <2>1, RemoveStatesFields
<1> HIDE DEF t
<1>22. \A x \in StateId : t.members[x] = IF x = s THEN {} ELSE rebound.members[x]
  BY <1>21
<1>23. \A x \in StateId : t.members[x] = IF x = sid THEN {q}
                                         ELSE IF x = rest THEN others
                                         ELSE IF x = s THEN {} ELSE r.members[x]
  <2>1. \A x \in StateId : rebound.members[x] = IF x = sid THEN {q}
                                                 ELSE IF x = rest THEN others
                                                 ELSE IF x = s THEN {} ELSE r.members[x]
    BY <1>18 DEF Whole
  <2> HIDE DEF s, sid, rest
  <2> QED
    BY <1>3, <1>22, <2>1
<1>24. SplitOff(r, t, q)
  BY <1>18, <1>21, <1>23 DEF Whole, SplitOff, others, places
<1> QED
  BY <1>1, <1>24

(* Numbering the sorted survivors again is what closing the gap behind the *)
(* measured qubit does.                                                    *)
LEMMA SurvivorPlaces ==
  ASSUME NEW r \in Registry, Bound(r), NEW q \in Created(r)
  PROVE  LET others == Others(r, q)
             places == SortedPlaces(r, others)
         IN  /\ Ranked(others, places)
             /\ \A p \in others :
                  places[p] = IF r.index[p] > r.index[q] THEN r.index[p] - 1
                                                         ELSE r.index[p]
<1> DEFINE M == r.members[r.stateOf[q]]
           others == Others(r, q)
           places == SortedPlaces(r, others)
           R == {e \in others \X others : r.index[e[1]] < r.index[e[2]]}
<1>1. q \in QubitId /\ r.stateOf[q] \in StateId
  BY DEF Bound, Created
<1>2. /\ q \in M /\ M \subseteq QubitId /\ Ranked(M, r.index)
      /\ \A p \in M : r.index[p] \in Nat
  BY <1>1, FieldTypes DEF Bound
<1>3. others = M \ {q}
  BY DEF Others
<1>4. \A p \in others : places[p] = Cardinality({o \in others : r.index[o] < r.index[p]})
  BY DEF SortedPlaces
<1> HIDE DEF M, others, places
<1>5. StrictOrder(others, R)
  <2>1. \A x, y \in others : <<x, y>> \in R <=> r.index[x] < r.index[y]
    OBVIOUS
  <2>2. \A x, y \in others : r.index[x] = r.index[y] => x = y
    BY <1>2, <1>3 DEF Ranked
  <2>3. \A x \in others : r.index[x] \in Nat
    BY <1>2, <1>3
  <2> HIDE DEF R
  <2> QED
    BY <2>1, <2>2, <2>3 DEF StrictOrder
<1>6. Ranked(others, places)
  <2>1. \A p \in others : {o \in others : r.index[o] < r.index[p]}
                            = {o \in others : <<o, p>> \in R}
    OBVIOUS
  <2> HIDE DEF R
  <2>2. \A p \in others : places[p] = Cardinality({o \in others : <<o, p>> \in R})
    BY <1>4, <2>1
  <2>3. others \subseteq QubitId
    BY <1>2, <1>3
  <2> QED
    BY <1>5, <2>2, <2>3, RankOrder
<1>7. ASSUME NEW p \in others
      PROVE  places[p] = IF r.index[p] > r.index[q] THEN r.index[p] - 1 ELSE r.index[p]
  <2> DEFINE below == {o \in M : r.index[o] < r.index[p]}
  <2>1. r.index[p] = Cardinality(below) /\ below \subseteq QubitId
    BY <1>2, <1>3 DEF Ranked
  <2>2. {o \in others : r.index[o] < r.index[p]} = below \ {q}
    BY <1>3
  <2>3. q \in below <=> r.index[p] > r.index[q]
    BY <1>2, <1>3
  <2> HIDE DEF below
  <2>4. Cardinality(below \ {q}) = IF q \in below THEN Cardinality(below) - 1
                                                  ELSE Cardinality(below)
    BY <2>1, QubitsFinite, FS_RemoveElement
  <2> QED
    BY <1>4, <2>1, <2>2, <2>3, <2>4
<1> QED
  BY <1>6, <1>7 DEF others, places

(* Measure keeps the binding, parts the measured qubit from the others and *)
(* joins nobody.                                                           *)
LEMMA SplitBinding ==
  ASSUME NEW r, WellFormed(r), Bound(r), Room(r, 2), NEW q \in Created(r)
  PROVE  LET t == Split(r, q)
         IN  /\ Bound(t)
             /\ Created(t) = Created(r)
             /\ Joins(r, t, {})
             /\ Parts(r, t, {q})
             /\ t.members[t.stateOf[q]] = {q}
             /\ \A p \in Created(r) :
                  r.stateOf[p] # r.stateOf[q] =>
                    t.stateOf[p] = r.stateOf[p]
                      /\ t.members[t.stateOf[p]] = r.members[r.stateOf[p]]
<1> DEFINE t == Split(r, q)
           s == r.stateOf[q]
           sid == r.nextStateId
           rest == sid + 1
           others == Others(r, q)
           places == SortedPlaces(r, others)
<1>1. r \in Registry /\ q \in QubitId /\ s \in StateId
  BY DEF WellFormed, Bound, Created
<1>2. /\ sid \in StateId /\ rest \in StateId /\ sid \in Nat
      /\ \A p \in QubitId : r.stateOf[p] \in Nat /\ r.stateOf[p] < sid
  <2>1. sid \in StateId /\ rest \in StateId
    BY <1>1, RoomMeans
  <2>2. sid \in Nat /\ \A p \in QubitId : r.stateOf[p] \in Nat
    BY <1>1, FieldTypes DEF StateRef, StateId
  <2> QED
    BY <2>1, <2>2 DEF Bound
<1>3. t \in Registry
  BY <1>1, SplitEffect DEF WellFormed
<1>4. SplitOff(r, t, q)
  BY <1>1, SplitFields
<1>5. Created(t) = Created(r)
  BY <1>4 DEF SplitOff, Created
<1>6. /\ Ranked(others, places)
      /\ \A p \in others : places[p] = IF r.index[p] > r.index[q] THEN r.index[p] - 1
                                                                  ELSE r.index[p]
  BY <1>1, SurvivorPlaces
<1>7. others \subseteq QubitId /\ q \notin others
      /\ \A p \in QubitId : p \in others <=> p # q /\ r.stateOf[p] = s
  BY <1>1 DEF Others, Bound
<1> HIDE DEF t, others
<1>8. \A p \in QubitId : t.stateOf[p] = IF p = q THEN sid
                                        ELSE IF p \in others THEN rest ELSE r.stateOf[p]
  BY <1>4 DEF SplitOff, others
<1>9. \A x \in StateId : t.members[x] = IF x = sid THEN {q}
                                        ELSE IF x = rest THEN others
                                        ELSE IF x = s THEN {} ELSE r.members[x]
  BY <1>4 DEF SplitOff, others
<1>10. \A p \in QubitId : t.index[p] = IF p = q THEN 0
                                       ELSE IF p \in others THEN places[p] ELSE r.index[p]
  BY <1>4 DEF SplitOff, others
<1> HIDE DEF s, sid, rest, places
<1>11. t.held = t.stateOf
  <2>1. \A p \in QubitId : t.held[p] = t.stateOf[p]
    BY <1>4 DEF SplitOff, Bound
  <2> QED
    BY <1>3, <2>1, FieldTypes
<1>12. t.slot = t.index
  <2>1. \A p \in QubitId : t.slot[p] = t.index[p]
    <3>1. \A p \in QubitId : t.slot[p] = IF p = q THEN 0
                               ELSE IF p \in others
                               THEN IF r.slot[p] > r.index[q] THEN r.slot[p] - 1 ELSE r.slot[p]
                               ELSE r.slot[p]
      BY <1>4 DEF SplitOff, others
    <3>2. r.slot = r.index
      BY DEF Bound
    <3> QED
      BY <1>6, <1>10, <3>1, <3>2
  <2> QED
    BY <1>3, <2>1, FieldTypes
<1>13. sid # rest /\ s # sid /\ s # rest /\ rest \in Nat
  BY <1>1, <1>2 DEF rest, s
<1>14. \A p \in QubitId : r.stateOf[p] # sid /\ r.stateOf[p] # rest /\ r.stateOf[p] < rest
  BY <1>2 DEF rest
<1>15. \A p \in QubitId : t.stateOf[p] \in StateId <=> p \in Created(t)
  BY <1>1, <1>2, <1>5, <1>7, <1>8 DEF Bound
<1>16. \A p \in QubitId : t.stateOf[p] < t.nextStateId
  <2>1. t.nextStateId = IF others = {} THEN rest ELSE rest + 1
    BY <1>4 DEF SplitOff, others, rest, sid
  <2>2. sid < rest /\ rest < rest + 1 /\ sid < rest + 1
    BY <1>2 DEF rest
  <2>3. ASSUME NEW p \in QubitId
        PROVE  t.stateOf[p] < t.nextStateId
    <3>1. CASE p = q
      BY <1>8, <2>1, <2>2, <3>1
    <3>2. CASE p # q /\ p \in others
      BY <1>8, <2>1, <2>2, <3>2
    <3>3. CASE p # q /\ p \notin others
      BY <1>2, <1>8, <1>13, <1>14, <2>1, <2>2, <3>3
    <3> QED
      BY <3>1, <3>2, <3>3
  <2> QED
    BY <2>3
<1>17. t.members = [x \in StateId |-> {p \in QubitId : t.stateOf[p] = x}]
  <2>1. ASSUME NEW x \in StateId
        PROVE  t.members[x] = {p \in QubitId : t.stateOf[p] = x}
    <3>1. r.members[x] = {p \in QubitId : r.stateOf[p] = x}
      BY DEF Bound
    <3>2. t.members[x] = IF x = sid THEN {q}
                         ELSE IF x = rest THEN others
                         ELSE IF x = s THEN {} ELSE r.members[x]
      BY <1>9
    <3>3. CASE x = sid
      BY <1>1, <1>8, <1>13, <1>14, <3>2, <3>3
    <3>4. CASE x = rest
      BY <1>7, <1>8, <1>13, <1>14, <3>2, <3>4
    <3>5. CASE x = s
      BY <1>7, <1>8, <1>13, <3>2, <3>5
    <3>6. CASE x \notin {sid, rest, s}
      BY <1>7, <1>8, <3>1, <3>2, <3>6 DEF s
    <3> QED
      BY <3>3, <3>4, <3>5, <3>6
  <2> QED
    BY <1>3, <2>1, FieldTypes
<1>18. t.states = {t.stateOf[p] : p \in Created(t)}
  <2>1. t.states = (r.states \cup {sid} \cup (IF others = {} THEN {} ELSE {rest})) \ {s}
    BY <1>4 DEF SplitOff, others, rest, sid, s
  <2>2. r.states = {r.stateOf[p] : p \in Created(r)}
    BY DEF Bound
  <2>3. \A p \in Created(r) : p \in QubitId
    BY DEF Created
  <2>4. \A p \in Created(r) : t.stateOf[p] \in t.states
    BY <1>7, <1>8, <1>13, <2>1, <2>2, <2>3
  <2>5. ASSUME NEW x \in t.states
        PROVE  \E p \in Created(r) : t.stateOf[p] = x
    <3>1. CASE x = sid
      BY <1>8, <2>3, <3>1
    <3>2. CASE x = rest /\ others # {}
      <4>1. PICK p \in others : TRUE
        BY <3>2
      <4>2. p \in Created(r)
        BY <1>1, <1>7 DEF Bound
      <4> QED
        BY <1>7, <1>8, <2>3, <3>2, <4>1, <4>2
    <3>3. CASE x \in r.states /\ x # s
      BY <1>7, <1>8, <2>2, <2>3, <3>3 DEF s
    <3> QED
      BY <2>1, <3>1, <3>2, <3>3
  <2> QED
    BY <1>5, <2>4, <2>5
<1>19. \A x \in StateId : Ranked(t.members[x], t.index)
  <2>1. Ranked({q}, t.index)
    <3>1. t.index[q] = 0
      BY <1>1, <1>10
    <3>2. {p \in {q} : t.index[p] < t.index[q]} = {}
      BY <3>1
    <3> QED
      BY <3>1, <3>2, FS_EmptySet DEF Ranked
  <2>2. Ranked(others, t.index)
    <3>1. \A p \in others : t.index[p] = places[p]
      BY <1>7, <1>10
    <3> QED
      BY <1>6, <3>1, RankedAgree
  <2>3. ASSUME NEW x \in StateId, x # s
        PROVE  Ranked(r.members[x], t.index)
    <3>1. \A p \in r.members[x] : p \in QubitId /\ p # q /\ p \notin others
      BY <1>7, <2>3 DEF Bound, s
    <3>2. \A p \in r.members[x] : t.index[p] = r.index[p]
      BY <1>10, <3>1
    <3>3. Ranked(r.members[x], r.index)
      BY DEF Bound
    <3> QED
      BY <3>2, <3>3, RankedAgree
  <2>4. \A ix : Ranked({}, ix)
    BY DEF Ranked
  <2> QED
    BY <1>9, <2>1, <2>2, <2>3, <2>4
<1>20. Bound(t)
  BY <1>11, <1>12, <1>15, <1>16, <1>17, <1>18, <1>19 DEF Bound
<1>21. \A p \in Created(r) : p \in QubitId /\ r.stateOf[p] \in StateId
  BY DEF Created, Bound
<1>22. Joins(r, t, {})
  BY <1>7, <1>8, <1>13, <1>14, <1>21 DEF Joins, s
<1>23. Parts(r, t, {q})
  BY <1>7, <1>8, <1>13, <1>14, <1>21 DEF Parts, s
<1>24. t.members[t.stateOf[q]] = {q}
  BY <1>1, <1>2, <1>8, <1>9
<1>25. ASSUME NEW p \in Created(r), r.stateOf[p] # r.stateOf[q]
       PROVE  t.stateOf[p] = r.stateOf[p] /\ t.members[t.stateOf[p]] = r.members[r.stateOf[p]]
  <2>1. p # q /\ p \notin others /\ r.stateOf[p] # s
    BY <1>7, <1>21, <1>25 DEF s
  <2>2. t.stateOf[p] = r.stateOf[p]
    BY <1>8, <1>21, <2>1
  <2> QED
    BY <1>9, <1>14, <1>21, <2>1, <2>2
<1> QED
  BY <1>5, <1>20, <1>22, <1>23, <1>24, <1>25 DEF t

-----------------------------------------------------------------------------
(* Every call of the processor. *)

(* New handles on a new state of their own keep the binding.               *)
LEMMA BornBound ==
  ASSUME NEW r \in Registry, Bound(r), r.nextStateId \in StateId,
         NEW new, new \subseteq QubitId, new # {}, new \cap Created(r) = {},
         NEW t \in Registry, Created(t) = Created(r) \cup new,
         t.states = r.states \cup {r.nextStateId},
         \A s \in StateId : t.members[s] = IF s = r.nextStateId THEN new ELSE r.members[s],
         \A p \in QubitId :
           /\ t.stateOf[p] = IF p \in new THEN r.nextStateId ELSE r.stateOf[p]
           /\ p \notin new => t.index[p] = r.index[p]
           /\ t.held[p] = t.stateOf[p]
           /\ t.slot[p] = t.index[p],
         t.nextStateId = r.nextStateId + 1,
         Ranked(new, t.index)
  PROVE  /\ Bound(t)
         /\ \A p \in Created(r) : t.stateOf[p] = r.stateOf[p]
<1> DEFINE sid == r.nextStateId
<1>1. sid \in Nat /\ \A p \in QubitId : r.stateOf[p] \in Nat /\ r.stateOf[p] < sid
  BY FieldTypes DEF StateRef, StateId, Bound
<1>2. t.held = t.stateOf /\ t.slot = t.index
  BY FieldTypes
<1>3. \A p \in QubitId : t.stateOf[p] \in StateId <=> p \in Created(t)
  BY DEF Bound
<1>4. \A p \in QubitId : t.stateOf[p] < t.nextStateId
  BY <1>1
<1>5. \A p \in QubitId : r.stateOf[p] # sid
  BY <1>1
<1>6. \A p \in Created(r) : p \in QubitId /\ p \notin new
  BY DEF Created
<1>7. \A p \in new : r.stateOf[p] \notin StateId
  BY DEF Bound
<1>8. ASSUME NEW s \in StateId
      PROVE  t.members[s] = {p \in QubitId : t.stateOf[p] = s}
  <2>1. r.members[s] = {p \in QubitId : r.stateOf[p] = s}
    BY DEF Bound
  <2>2. CASE s = sid
    BY <1>5, <2>2
  <2>3. CASE s # sid
    BY <1>7, <2>1, <2>3
  <2> QED
    BY <2>2, <2>3
<1>9. t.members = [s \in StateId |-> {p \in QubitId : t.stateOf[p] = s}]
  BY ZenonT(60), <1>8, FieldTypes
<1>10. t.states = {t.stateOf[p] : p \in Created(t)}
  <2>1. r.states = {r.stateOf[p] : p \in Created(r)}
    BY DEF Bound
  <2>2. \A p \in Created(t) : t.stateOf[p] \in t.states
    BY <1>6, <2>1
  <2>3. \A x \in t.states : \E p \in Created(t) : t.stateOf[p] = x
    BY <1>6, <2>1
  <2> QED
    BY <2>2, <2>3
<1>11. \A s \in StateId : Ranked(t.members[s], t.index)
  <2>1. ASSUME NEW s \in StateId, s # sid
        PROVE  Ranked(r.members[s], t.index)
    <3>1. \A p \in r.members[s] : p \in QubitId /\ p \notin new
      BY <1>7 DEF Bound
    <3>2. \A p \in r.members[s] : t.index[p] = r.index[p]
      BY <3>1
    <3>3. Ranked(r.members[s], r.index)
      BY DEF Bound
    <3> QED
      BY <3>2, <3>3, RankedAgree
  <2> QED
    BY <2>1
<1> QED
  BY <1>2, <1>3, <1>4, <1>6, <1>9, <1>10, <1>11 DEF Bound

(* The inductive invariant of the processor.                               *)
BoundInv == ProcInv /\ Bound(reg) /\ OperationsHitTargets /\ MeasuredIsAlone

(* What a step may do to who shares a state with whom, given its record.   *)
Entangles(r, t, op) ==
  /\ Created(r) \subseteq Created(t)
  /\ Joins(r, t, op.asked)
  /\ Parts(r, t, IF op.kind = "measure" THEN op.asked ELSE {})

(* The record of an operation, field by field.                             *)
LEMMA OpFields ==
  ASSUME NEW kind, NEW asked \in SUBSET QubitId, NEW hit
  PROVE  LET o == Op(kind, asked, hit)
         IN  /\ o.kind = kind
             /\ o.asked = asked
             /\ \A q \in asked : o.hit[q] = hit[q]
BY DEF Op

(* Each call keeps the invariant.                                          *)
LEMMA CreateQubitBound ==
  ASSUME BoundInv, NEW n \in Node, CreateQubit(n)
  PROVE  BoundInv' /\ Entangles(reg, reg', lastOp')
<1> DEFINE q == reg.nextQubitId
           sid == reg.nextStateId
           new == {q}
           pos == [w \in new |-> 0]
           created == AddState(reg, pos)
<1>1. ProcInv' /\ reg \in Registry /\ reg' \in Registry
  BY CreateQubitStep DEF BoundInv, ProcInv, WellFormed
<1>2. /\ q \in QubitId /\ sid \in StateId
      /\ reg' = NewHandle(created, n, sid, 0)
      /\ lastOp' = NoOp
  BY <1>1, RoomMeans, FieldTypes, BoundsAssumption DEF CreateQubit, QubitId
<1>3. DOMAIN pos = new /\ pos[q] = 0 /\ \A p : p \in new <=> p = q
  OBVIOUS
<1> HIDE DEF new, pos
<1>4. /\ HasFields(created)
      /\ created.states = reg.states \cup {sid}
      /\ created.members = [s \in StateId |-> IF s = sid THEN {} ELSE reg.members[s]]
      /\ created.stateOf = reg.stateOf
      /\ created.index = reg.index
      /\ created.held = [w \in QubitId |-> IF w \in DOMAIN pos THEN sid ELSE reg.held[w]]
      /\ created.slot = [w \in QubitId |-> IF w \in DOMAIN pos THEN pos[w] ELSE reg.slot[w]]
      /\ created.nextStateId = sid + 1
      /\ created.nextQubitId = q
  BY <1>1, RegistryHasFields, AddStateFields
<1> HIDE DEF created
<1>5. /\ reg'.states = created.states
      /\ reg'.members = [s \in StateId |-> IF s = sid
                                           THEN created.members[s] \cup {created.nextQubitId}
                                           ELSE created.members[s]]
      /\ reg'.stateOf = [p \in QubitId |-> IF p = created.nextQubitId THEN sid
                                           ELSE created.stateOf[p]]
      /\ reg'.index = [p \in QubitId |-> IF p = created.nextQubitId THEN 0
                                         ELSE created.index[p]]
      /\ reg'.held = created.held
      /\ reg'.slot = created.slot
      /\ reg'.nextStateId = created.nextStateId
      /\ reg'.nextQubitId = created.nextQubitId + 1
  <2>1. HasFields(created)
    BY <1>4
  <2> HIDE DEF sid, q
  <2> QED
    BY <1>2, <2>1, NewHandleFields
<1>6. /\ Created(reg') = Created(reg) \cup new
      /\ new \cap Created(reg) = {}
      /\ new \subseteq QubitId /\ new # {}
  BY <1>1, <1>2, <1>3, <1>4, <1>5, FieldTypes DEF Created, QubitId
<1>7. \A s \in StateId : reg'.members[s] = IF s = sid THEN new ELSE reg.members[s]
  <2>1. \A s \in StateId : created.members[s] = IF s = sid THEN {} ELSE reg.members[s]
    BY <1>4
  <2>2. \A s \in StateId : reg'.members[s] = IF s = sid THEN created.members[s] \cup new
                                             ELSE created.members[s]
    BY <1>4, <1>5 DEF new
  <2> HIDE DEF sid
  <2> QED
    BY <2>1, <2>2
<1>8. reg.held = reg.stateOf /\ reg.slot = reg.index
  BY DEF BoundInv, Bound
<1> HIDE DEF q, sid
<1>9. \A p \in QubitId :
        /\ reg'.stateOf[p] = IF p \in new THEN sid ELSE reg.stateOf[p]
        /\ p \notin new => reg'.index[p] = reg.index[p]
        /\ reg'.held[p] = reg'.stateOf[p]
        /\ reg'.slot[p] = reg'.index[p]
  BY <1>3, <1>4, <1>5, <1>8
<1>10. Ranked(new, reg'.index)
  <2>1. \A p \in new : {o \in new : reg'.index[o] < reg'.index[p]} = {} /\ reg'.index[p] = 0
    BY <1>2, <1>3, <1>4, <1>5
  <2> QED
    BY <1>3, <2>1, FS_EmptySet DEF Ranked
<1>11. Bound(reg') /\ \A p \in Created(reg) : reg'.stateOf[p] = reg.stateOf[p]
  <2>1. reg'.nextStateId = reg.nextStateId + 1 /\ reg'.states = reg.states \cup {reg.nextStateId}
    BY <1>4, <1>5 DEF sid
  <2>2. Bound(reg)
    BY DEF BoundInv
  <2> QED
    BY <1>1, <1>2, <1>6, <1>7, <1>9, <1>10, <2>1, <2>2, BornBound DEF sid
<1>12. NoOp.asked = {} /\ NoOp.kind = "none"
  BY DEF NoOp, Op
<1>13. Entangles(reg, reg', lastOp')
  BY <1>6, <1>11 DEF Entangles, Joins, Parts
<1> QED
  BY <1>1, <1>2, <1>11, <1>12, <1>13 DEF BoundInv, OperationsHitTargets, MeasuredIsAlone

LEMMA CreateBellPairBound ==
  ASSUME BoundInv, NEW n \in Node, CreateBellPair(n)
  PROVE  BoundInv' /\ Entangles(reg, reg', lastOp')
<1> DEFINE q0 == reg.nextQubitId
           q1 == q0 + 1
           sid == reg.nextStateId
           both == {q0, q1}
           pos == [w \in both |-> w - q0]
           created == AddState(reg, pos)
           one == NewHandle(created, n, sid, 0)
           pair == NewHandle(one, n, sid, 1)
           hit == [q \in both |-> WiresAt(pair, q)]
<1>1. ProcInv' /\ reg \in Registry /\ reg' \in Registry
  BY CreateBellPairStep DEF BoundInv, ProcInv, WellFormed
<1>2. /\ q0 \in QubitId /\ q1 \in QubitId /\ sid \in StateId /\ q0 < q1
      /\ reg' = MergeStates(pair, both)
      /\ lastOp' = Op("gate", both, hit)
  BY <1>1, RoomMeans, FieldTypes, BoundsAssumption DEF CreateBellPair, QubitId
<1>3. /\ DOMAIN pos = both /\ pos[q0] = 0 /\ pos[q1] = 1
      /\ \A p : p \in both <=> p = q0 \/ p = q1
  BY <1>2 DEF QubitId
<1>4. \A q \in both : hit[q] = WiresAt(pair, q)
  OBVIOUS
<1> HIDE DEF both, pos, hit
<1>5. /\ HasFields(created)
      /\ created.states = reg.states \cup {sid}
      /\ created.members = [s \in StateId |-> IF s = sid THEN {} ELSE reg.members[s]]
      /\ created.stateOf = reg.stateOf
      /\ created.index = reg.index
      /\ created.held = [w \in QubitId |-> IF w \in DOMAIN pos THEN sid ELSE reg.held[w]]
      /\ created.slot = [w \in QubitId |-> IF w \in DOMAIN pos THEN pos[w] ELSE reg.slot[w]]
      /\ created.nextStateId = sid + 1
      /\ created.nextQubitId = q0
  BY <1>1, RegistryHasFields, AddStateFields
<1> HIDE DEF created
<1>6. /\ HasFields(one)
      /\ one.states = created.states
      /\ one.members = [s \in StateId |-> IF s = sid
                                          THEN created.members[s] \cup {created.nextQubitId}
                                          ELSE created.members[s]]
      /\ one.stateOf = [p \in QubitId |-> IF p = created.nextQubitId THEN sid
                                          ELSE created.stateOf[p]]
      /\ one.index = [p \in QubitId |-> IF p = created.nextQubitId THEN 0
                                        ELSE created.index[p]]
      /\ one.held = created.held
      /\ one.slot = created.slot
      /\ one.nextStateId = created.nextStateId
      /\ one.nextQubitId = created.nextQubitId + 1
  <2>1. HasFields(created)
    BY <1>5
  <2> HIDE DEF sid, q0
  <2> QED
    BY <2>1, NewHandleFields
<1> HIDE DEF one
<1>7. /\ pair.states = one.states
      /\ pair.members = [s \in StateId |-> IF s = sid
                                           THEN one.members[s] \cup {one.nextQubitId}
                                           ELSE one.members[s]]
      /\ pair.stateOf = [p \in QubitId |-> IF p = one.nextQubitId THEN sid
                                           ELSE one.stateOf[p]]
      /\ pair.index = [p \in QubitId |-> IF p = one.nextQubitId THEN 1
                                         ELSE one.index[p]]
      /\ pair.held = one.held
      /\ pair.slot = one.slot
      /\ pair.nextStateId = one.nextStateId
      /\ pair.nextQubitId = one.nextQubitId + 1
  <2>1. HasFields(one)
    BY <1>6
  <2> HIDE DEF sid, q0
  <2> QED
    BY <2>1, NewHandleFields
<1> HIDE DEF pair
<1>8. created.nextQubitId = q0 /\ one.nextQubitId = q1
  BY <1>5, <1>6
<1>9. \A p \in QubitId :
        /\ pair.stateOf[p] = IF p = q1 THEN sid ELSE IF p = q0 THEN sid ELSE reg.stateOf[p]
        /\ pair.index[p] = IF p = q1 THEN 1 ELSE IF p = q0 THEN 0 ELSE reg.index[p]
  <2> HIDE DEF q0, q1, sid
  <2> QED
    BY <1>5, <1>6, <1>7, <1>8
<1>10. MergeStates(pair, both) = pair
  <2>1. StatesOf(pair, both) = {sid}
    BY <1>2, <1>3, <1>9 DEF StatesOf
  <2>2. Cardinality({sid}) = 1
    BY FS_Singleton
  <2> QED
    BY <2>1, <2>2 DEF MergeStates
<1>11. reg' = pair
  BY <1>2, <1>10
<1>12. /\ Created(pair) = Created(reg) \cup both
       /\ both \cap Created(reg) = {}
       /\ both \subseteq QubitId /\ both # {}
  <2>1. pair.nextQubitId = q0 + 2 /\ q0 \in Nat
    BY <1>1, <1>7, <1>8, FieldTypes
  <2>2. \A p \in QubitId : p < q0 + 2 <=> p < q0 \/ p = q0 \/ p = q0 + 1
    BY <2>1 DEF QubitId
  <2>3. \A p \in both : ~(p < q0)
    BY <1>3, <2>1
  <2>4. both \subseteq QubitId /\ both # {}
    BY <1>2, <1>3
  <2>5. Created(pair) = Created(reg) \cup both
    BY <1>3, <2>1, <2>2, <2>4 DEF Created
  <2>6. both \cap Created(reg) = {}
    BY <2>3 DEF Created
  <2> QED
    BY <2>4, <2>5, <2>6
<1>13. \A s \in StateId : pair.members[s] = IF s = sid THEN both ELSE reg.members[s]
  <2> SUFFICES ASSUME NEW s \in StateId
               PROVE  pair.members[s] = IF s = sid THEN both ELSE reg.members[s]
    OBVIOUS
  <2>1. created.members[s] = IF s = sid THEN {} ELSE reg.members[s]
    BY <1>5
  <2>2. one.members[s] = IF s = sid THEN created.members[s] \cup {q0} ELSE created.members[s]
    BY <1>6, <1>8
  <2>3. pair.members[s] = IF s = sid THEN one.members[s] \cup {q1} ELSE one.members[s]
    BY <1>7, <1>8
  <2> HIDE DEF sid
  <2> QED
    BY <2>1, <2>2, <2>3 DEF both
<1>14. \A p \in QubitId : reg.held[p] = reg.stateOf[p] /\ reg.slot[p] = reg.index[p]
  BY DEF BoundInv, Bound
<1>15. \A p \in QubitId :
         /\ pair.held[p] = IF p = q1 THEN sid ELSE IF p = q0 THEN sid ELSE reg.held[p]
         /\ pair.slot[p] = IF p = q1 THEN 1 ELSE IF p = q0 THEN 0 ELSE reg.slot[p]
  <2>1. pair.held = created.held /\ pair.slot = created.slot
    BY <1>6, <1>7
  <2> HIDE DEF q0, q1, sid
  <2> QED
    BY <1>3, <1>5, <2>1
<1>16. \A p \in QubitId :
         /\ pair.stateOf[p] = IF p \in both THEN sid ELSE reg.stateOf[p]
         /\ p \notin both => pair.index[p] = reg.index[p]
         /\ pair.held[p] = pair.stateOf[p]
         /\ pair.slot[p] = pair.index[p]
  <2> HIDE DEF q0, q1, sid
  <2> QED
    BY <1>3, <1>9, <1>14, <1>15
<1>17. Ranked(both, pair.index)
  <2>1. pair.index[q0] = 0 /\ pair.index[q1] = 1
    <3>1. q0 # q1
      BY <1>1, FieldTypes
    <3> HIDE DEF q0, q1, sid
    <3> QED
      BY <1>2, <1>9, <3>1
  <2>2. {o \in both : pair.index[o] < pair.index[q0]} = {}
    BY <1>3, <2>1
  <2>3. {o \in both : pair.index[o] < pair.index[q1]} = {q0}
    BY <1>3, <2>1
  <2>4. Cardinality({}) = 0 /\ Cardinality({q0}) = 1
    BY FS_EmptySet, FS_Singleton
  <2>5. \A p \in both : pair.index[p] = Cardinality({o \in both : pair.index[o] < pair.index[p]})
    BY <1>3, <2>1, <2>2, <2>3, <2>4
  <2> QED
    BY <1>3, <2>1, <2>5 DEF Ranked
<1>18. Bound(pair) /\ \A p \in Created(reg) : pair.stateOf[p] = reg.stateOf[p]
  <2>1. pair.nextStateId = reg.nextStateId + 1 /\ pair.states = reg.states \cup {reg.nextStateId}
    BY <1>5, <1>6, <1>7
  <2>2. Bound(reg)
    BY DEF BoundInv
  <2>3. pair \in Registry
    BY <1>1, <1>11
  <2> QED
    BY <1>1, <1>2, <1>12, <1>13, <1>16, <1>17, <2>1, <2>2, <2>3, BornBound
<1>19. /\ lastOp'.kind = "gate"
       /\ lastOp'.asked = both
       /\ \A q \in both : lastOp'.hit[q] = {q}
  <2>1. \A q \in both : hit[q] = {q}
    BY <1>1, <1>4, <1>11, <1>12, <1>18, WiresOfHandle
  <2> QED
    BY <1>2, <1>12, <2>1, OpFields
<1>20. Entangles(reg, reg', lastOp')
  BY <1>11, <1>12, <1>18 DEF Entangles, Joins, Parts
<1> QED
  BY <1>1, <1>11, <1>18, <1>19, <1>20 DEF BoundInv, OperationsHitTargets, MeasuredIsAlone

LEMMA ApplyBound ==
  ASSUME BoundInv, NEW n \in Node, NEW qs \in SUBSET QubitId, Apply(n, qs)
  PROVE  BoundInv' /\ Entangles(reg, reg', lastOp')
<1> DEFINE merged == MergeStates(reg, qs)
           hit == [q \in qs |-> WiresAt(merged, q)]
<1>1. ProcInv' /\ reg \in Registry /\ reg' \in Registry /\ Bound(reg)
  BY ApplyStep DEF BoundInv, ProcInv, WellFormed
<1>2. /\ qs # {}
      /\ reg.nextStateId \in StateId
      /\ reg' = merged
      /\ lastOp' = Op("gate", qs, hit)
  BY <1>1, RoomMeans DEF Apply
<1>3. qs \subseteq Created(reg)
  BY <1>1, FieldTypes DEF Apply, StatesOf, Bound
<1>4. \A q \in qs : hit[q] = WiresAt(merged, q)
  OBVIOUS
<1> HIDE DEF merged, hit
<1>5. /\ Bound(merged)
      /\ Created(merged) = Created(reg)
      /\ Joins(reg, merged, qs)
      /\ Parts(reg, merged, {})
  BY <1>1, <1>2, <1>3, MergeBinding DEF merged
<1>6. \A q \in qs : hit[q] = {q}
  BY <1>1, <1>2, <1>3, <1>4, <1>5, WiresOfHandle
<1>7. /\ lastOp'.kind = "gate"
      /\ lastOp'.asked = qs
      /\ \A q \in qs : lastOp'.hit[q] = {q}
  BY <1>2, <1>6, OpFields
<1>8. Entangles(reg, reg', lastOp')
  BY <1>2, <1>5, <1>7 DEF Entangles
<1> QED
  BY <1>1, <1>2, <1>5, <1>7, <1>8 DEF BoundInv, OperationsHitTargets, MeasuredIsAlone

LEMMA MeasureBound ==
  ASSUME BoundInv, NEW n \in Node, NEW q \in QubitId, Measure(n, q)
  PROVE  BoundInv' /\ Entangles(reg, reg', lastOp')
<1> DEFINE split == Split(reg, q)
           asked == {q}
           hit == [p \in {q} |-> WiresAt(reg, q)]
<1>1. ProcInv' /\ WellFormed(reg) /\ reg \in Registry /\ Bound(reg)
  BY MeasureStep DEF BoundInv, ProcInv, WellFormed
<1>2. /\ Room(reg, 2)
      /\ reg' = split
      /\ lastOp' = Op("measure", asked, hit)
  BY DEF Measure
<1>3. q \in Created(reg)
  BY <1>1, FieldTypes DEF Measure, Bound
<1>4. hit[q] = {q}
  BY <1>1, <1>3, WiresOfHandle
<1>5. asked \in SUBSET QubitId /\ \A p : p \in asked <=> p = q
  OBVIOUS
<1> HIDE DEF split, hit, asked
<1>6. /\ Bound(split)
      /\ Created(split) = Created(reg)
      /\ Joins(reg, split, {})
      /\ Parts(reg, split, {q})
      /\ split.members[split.stateOf[q]] = {q}
  BY <1>1, <1>2, <1>3, SplitBinding DEF split
<1>7. /\ lastOp'.kind = "measure"
      /\ lastOp'.asked = asked
      /\ \A p \in asked : lastOp'.hit[p] = {p}
  BY <1>2, <1>4, <1>5, OpFields
<1>8. Entangles(reg, reg', lastOp')
  BY <1>2, <1>6, <1>7 DEF Entangles, Joins, asked
<1> QED
  BY <1>1, <1>2, <1>5, <1>6, <1>7, <1>8 DEF BoundInv, OperationsHitTargets, MeasuredIsAlone

LEMMA MeasureBellBound ==
  ASSUME BoundInv, NEW n \in Node, NEW a \in QubitId, NEW b \in QubitId,
         MeasureBell(n, a, b)
  PROVE  BoundInv' /\ Entangles(reg, reg', lastOp')
<1> DEFINE asked == {a, b}
           joined == MergeStates(reg, asked)
           first == Split(joined, a)
           second == Split(first, b)
           hit == [q \in {a, b} |-> IF q = a THEN WiresAt(joined, a)
                                    ELSE WiresAt(joined, b) \cup WiresAt(first, b)]
<1>1. ProcInv' /\ WellFormed(reg) /\ reg \in Registry /\ Bound(reg)
  BY MeasureBellStep DEF BoundInv, ProcInv, WellFormed
<1>2. /\ a # b
      /\ reg.nextStateId \in StateId
      /\ Room(joined, 2) /\ Room(first, 2)
      /\ reg' = second
      /\ lastOp' = Op("measure", asked, hit)
  BY <1>1, RoomMeans DEF MeasureBell
<1>3. /\ asked \subseteq Created(reg) /\ asked # {} /\ asked \in SUBSET QubitId
      /\ \A q \in asked : reg.stateOf[q] \in StateId
      /\ \A q : q \in asked <=> q = a \/ q = b
  BY <1>1, FieldTypes DEF MeasureBell, StatesOf, Bound
<1>4. hit[a] = WiresAt(joined, a) /\ hit[b] = WiresAt(joined, b) \cup WiresAt(first, b)
  BY <1>2
<1> HIDE DEF asked, hit, second
<1>5. WellFormed(joined) /\ joined \in Registry
  BY <1>1, <1>2, <1>3, MergeStatesEffect DEF WellFormed
<1>6. /\ Bound(joined)
      /\ Created(joined) = Created(reg)
      /\ Joins(reg, joined, asked)
      /\ Parts(reg, joined, {})
  BY <1>1, <1>2, <1>3, MergeBinding
<1> HIDE DEF joined
<1>7. a \in Created(joined) /\ b \in Created(joined) /\ joined.stateOf[a] \in StateId
  BY <1>3, <1>6 DEF Bound
<1>8. WellFormed(first) /\ first \in Registry
  BY <1>2, <1>5, <1>7, SplitEffect DEF WellFormed
<1>9. /\ Bound(first)
      /\ Created(first) = Created(joined)
      /\ Joins(joined, first, {})
      /\ Parts(joined, first, {a})
      /\ first.members[first.stateOf[a]] = {a}
  BY <1>2, <1>5, <1>6, <1>7, SplitBinding
<1> HIDE DEF first
<1>10. a \in Created(first) /\ b \in Created(first) /\ first.stateOf[b] # first.stateOf[a]
  BY <1>2, <1>7, <1>9 DEF Bound
<1>11. /\ Bound(second)
       /\ Created(second) = Created(first)
       /\ Joins(first, second, {})
       /\ Parts(first, second, {b})
       /\ second.members[second.stateOf[b]] = {b}
       /\ second.members[second.stateOf[a]] = first.members[first.stateOf[a]]
  <2>1. /\ Bound(second)
        /\ Created(second) = Created(first)
        /\ Joins(first, second, {})
        /\ Parts(first, second, {b})
        /\ second.members[second.stateOf[b]] = {b}
        /\ \A p \in Created(first) :
             first.stateOf[p] # first.stateOf[b] =>
               second.stateOf[p] = first.stateOf[p]
                 /\ second.members[second.stateOf[p]] = first.members[first.stateOf[p]]
    BY SMTT(60), <1>2, <1>8, <1>9, <1>10, SplitBinding DEF second
  <2>2. second.members[second.stateOf[a]] = first.members[first.stateOf[a]]
    BY <1>10, <2>1
  <2> QED
    BY <2>1, <2>2
<1>12. \A q \in asked : hit[q] = {q}
  BY <1>3, <1>4, <1>5, <1>6, <1>7, <1>8, <1>9, <1>10, WiresOfHandle
<1>13. /\ lastOp'.kind = "measure"
       /\ lastOp'.asked = asked
       /\ \A p \in asked : lastOp'.hit[p] = {p}
  BY <1>2, <1>3, <1>12, OpFields
<1>14. Created(reg') = Created(reg)
  BY <1>2, <1>6, <1>9, <1>11
<1>15. Joins(reg, reg', asked)
  BY <1>2, <1>6, <1>9, <1>11 DEF Joins
<1>16. Parts(reg, reg', asked)
  BY <1>2, <1>3, <1>6, <1>9, <1>11 DEF Parts
<1>17. Entangles(reg, reg', lastOp')
  BY <1>13, <1>14, <1>15, <1>16 DEF Entangles
<1>18. \A q \in asked : reg'.members[reg'.stateOf[q]] = {q}
  BY <1>2, <1>3, <1>9, <1>11
<1> QED
  BY <1>1, <1>2, <1>11, <1>13, <1>17, <1>18
     DEF BoundInv, OperationsHitTargets, MeasuredIsAlone

(* s differs from r in the places of the qubits only.                      *)
SameBinding(r, s) ==
  /\ s.states = r.states /\ s.members = r.members
  /\ s.stateOf = r.stateOf /\ s.index = r.index
  /\ s.held = r.held /\ s.slot = r.slot
  /\ s.nextStateId = r.nextStateId /\ s.nextQubitId = r.nextQubitId

LEMMA MoveBound ==
  ASSUME NEW r, NEW s, SameBinding(r, s), Bound(r)
  PROVE  Bound(s) /\ Created(s) = Created(r) /\ (\A A, M : Joins(r, s, A) /\ Parts(r, s, M))
<1>1. Created(s) = Created(r)
  BY DEF SameBinding, Created
<1> QED
  BY <1>1 DEF SameBinding, Bound, Joins, Parts

LEMMA SetLocationBinding ==
  ASSUME NEW r \in Registry, NEW q, NEW loc
  PROVE  SameBinding(r, SetLocation(r, q, loc))
<1>1. HasFields(r)
  BY RegistryHasFields
<1> QED
  BY <1>1, SetLocationFields DEF SameBinding

(* A step that only moves qubits and records no operation.                 *)
LEMMA IdleBound ==
  ASSUME BoundInv, ProcInv', SameBinding(reg, reg'), lastOp' = NoOp
  PROVE  BoundInv' /\ Entangles(reg, reg', lastOp')
<1>1. NoOp.asked = {} /\ NoOp.kind = "none"
  BY DEF NoOp, Op
<1>2. /\ Bound(reg') /\ Created(reg') = Created(reg)
      /\ Joins(reg, reg', {}) /\ Parts(reg, reg', {})
  BY MoveBound DEF BoundInv
<1> QED
  BY <1>1, <1>2 DEF BoundInv, OperationsHitTargets, MeasuredIsAlone, Entangles

LEMMA LoseQubitBound ==
  ASSUME BoundInv, NEW q \in QubitId, LoseQubit(q)
  PROVE  BoundInv' /\ Entangles(reg, reg', lastOp')
<1>1. ProcInv'
  BY LoseQubitStep DEF BoundInv
<1>2. SameBinding(reg, reg') /\ lastOp' = NoOp
  BY SetLocationBinding DEF LoseQubit, BoundInv, ProcInv, WellFormed
<1> QED
  BY <1>1, <1>2, IdleBound

(* Every step of the processor keeps the invariant.                        *)
LEMMA ProcBound ==
  ASSUME BoundInv, ProcNext
  PROVE  BoundInv' /\ Entangles(reg, reg', lastOp')
<1>1. ASSUME NEW n \in Node, CreateQubit(n)
      PROVE  BoundInv' /\ Entangles(reg, reg', lastOp')
  BY <1>1, CreateQubitBound
<1>2. ASSUME NEW n \in Node, CreateBellPair(n)
      PROVE  BoundInv' /\ Entangles(reg, reg', lastOp')
  BY <1>2, CreateBellPairBound
<1>3. ASSUME NEW n \in Node, NEW qs \in SUBSET QubitId, Apply(n, qs)
      PROVE  BoundInv' /\ Entangles(reg, reg', lastOp')
  BY <1>3, ApplyBound
<1>4. ASSUME NEW n \in Node, NEW q \in QubitId, Measure(n, q)
      PROVE  BoundInv' /\ Entangles(reg, reg', lastOp')
  BY <1>4, MeasureBound
<1>5. ASSUME NEW n \in Node, NEW a \in QubitId, NEW b \in QubitId, MeasureBell(n, a, b)
      PROVE  BoundInv' /\ Entangles(reg, reg', lastOp')
  BY <1>5, MeasureBellBound
<1>6. ASSUME NEW q \in QubitId, LoseQubit(q)
      PROVE  BoundInv' /\ Entangles(reg, reg', lastOp')
  BY <1>6, LoseQubitBound
<1> QED
  BY <1>1, <1>2, <1>3, <1>4, <1>5, <1>6 DEF ProcNext

LEMMA BoundInit ==
  ASSUME ProcInit
  PROVE  BoundInv
<1>1. reg = EmptyRegistry /\ lastOp = NoOp
  BY DEF ProcInit
<1>2. ProcInv
  BY ProcInitInv
<1>3. Created(EmptyRegistry) = {}
  BY DEF Created, EmptyRegistry, QubitId
<1>4. Bound(EmptyRegistry)
  <2>1. \A s \in StateId : {q \in QubitId : EmptyRegistry.stateOf[q] = s} = {}
    BY DEF EmptyRegistry, StateId
  <2>2. \A ix : Ranked({}, ix)
    BY DEF Ranked
  <2>3. \A s \in StateId : EmptyRegistry.members[s] = {}
    BY DEF EmptyRegistry
  <2>4. 0 \notin StateId
    BY DEF StateId
  <2>5. EmptyRegistry.members = [s \in StateId |-> {q \in QubitId : EmptyRegistry.stateOf[q] = s}]
    BY <2>1 DEF EmptyRegistry
  <2>6. \A q \in QubitId : EmptyRegistry.stateOf[q] = 0
    BY DEF EmptyRegistry
  <2>7. /\ EmptyRegistry.held = EmptyRegistry.stateOf
        /\ EmptyRegistry.slot = EmptyRegistry.index
        /\ EmptyRegistry.nextStateId = 1
        /\ EmptyRegistry.states = {}
    BY DEF EmptyRegistry
  <2> QED
    BY <1>3, <2>2, <2>3, <2>4, <2>5, <2>6, <2>7 DEF Bound
<1>5. NoOp.asked = {} /\ NoOp.kind = "none"
  BY DEF NoOp, Op
<1> QED
  BY <1>1, <1>2, <1>4, <1>5 DEF BoundInv, OperationsHitTargets, MeasuredIsAlone

LEMMA ProcBoundInvariant == ProcSpec => []BoundInv
<1>1. ProcInit => BoundInv
  BY BoundInit
<1>2. BoundInv /\ [ProcNext]_procVars => BoundInv'
  <2>1. ASSUME BoundInv, UNCHANGED procVars
        PROVE  BoundInv'
    BY <2>1 DEF BoundInv, ProcInv, procVars, OperationsHitTargets, MeasuredIsAlone
  <2> QED
    BY <2>1, ProcBound
<1> QED
  BY <1>1, <1>2, PTL DEF ProcSpec

(* What follows from the invariant.                                        *)
LEMMA BoundHandles ==
  ASSUME Bound(reg)
  PROVE  HandleBinding
BY DEF Bound, HandleBinding, Created

LEMMA BoundExact ==
  ASSUME reg \in Registry, Bound(reg), MeasuredIsAlone
  PROVE  RegistryExact
<1>1. \A s \in StateId : reg.members[s] = {q \in Created(reg) : reg.stateOf[q] = s}
  BY DEF Bound, Created
<1>2. reg.states = {reg.stateOf[q] : q \in Created(reg)}
  BY DEF Bound
<1>3. \A s \in reg.states : s \in StateId /\ 0 < s /\ s < reg.nextStateId
  BY FieldTypes DEF Bound, Created, StateId
<1>4. MembershipExact
  BY <1>1, <1>2, <1>3 DEF MembershipExact
<1>5. IndicesCompact
  <2> SUFFICES ASSUME NEW s \in reg.states
               PROVE  {reg.index[q] : q \in reg.members[s]}
                        = 0..(Cardinality(reg.members[s]) - 1)
    BY DEF IndicesCompact
  <2>1. reg.members[s] \subseteq QubitId /\ \A q \in reg.members[s] : reg.index[q] \in Nat
    BY <1>3, FieldTypes
  <2>2. reg.members[s] # {} /\ Ranked(reg.members[s], reg.index)
    BY <1>1, <1>2, <1>3 DEF Bound
  <2> QED
    BY <2>1, <2>2, RankedCompact
<1> QED
  BY <1>4, <1>5 DEF RegistryExact

LEMMA EntanglesLocally ==
  ASSUME Entangles(reg, reg', lastOp')
  PROVE  \A p, q \in Created(reg) :
           /\ SameState(reg, p, q) /\ ~SameState(reg', p, q)
                => lastOp'.kind = "measure" /\ {p, q} \cap lastOp'.asked # {}
           /\ ~SameState(reg, p, q) /\ SameState(reg', p, q)
                => \A x \in {p, q} :
                     \E t \in lastOp'.asked : SameState(reg, x, t)
BY DEF Entangles, Joins, Parts, SameState

-----------------------------------------------------------------------------
(* Every handle points at its own physical qubit, whatever merges and      *)
(* measurements renumber its state, on its node or from another one        *)
(* (QStateRegistry::MergeStates, QProcessor::Measure).                     *)
THEOREM ProcHandleBinding == ProcSpec => []HandleBinding
<1>1. BoundInv => HandleBinding
  BY BoundHandles DEF BoundInv
<1> QED
  BY <1>1, ProcBoundInvariant, PTL

(* No state is leaked or removed with members, the indices of each state   *)
(* are 0 .. n-1, and a measured qubit is alone in its state.               *)
THEOREM ProcRegistryExact == ProcSpec => []RegistryExact
<1>1. BoundInv => RegistryExact
  BY BoundExact DEF BoundInv, ProcInv, WellFormed
<1> QED
  BY <1>1, ProcBoundInvariant, PTL

(* Gates and measurements touch the physical qubits they were asked for,   *)
(* though Apply, Measure and MeasureBell merge and split states between    *)
(* taking the handles and calling the backend.                             *)
THEOREM ProcOperationsHitTargets == ProcSpec => []OperationsHitTargets
<1>1. BoundInv => OperationsHitTargets
  BY DEF BoundInv
<1> QED
  BY <1>1, ProcBoundInvariant, PTL

(* No call entangles or parts qubits it was not asked to act on.           *)
THEOREM ProcEntanglementIsLocal == ProcSpec => EntanglementIsLocal
<1> DEFINE Local ==
      \A p, q \in Created(reg) :
        /\ SameState(reg, p, q) /\ ~SameState(reg', p, q)
             => lastOp'.kind = "measure" /\ {p, q} \cap lastOp'.asked # {}
        /\ ~SameState(reg, p, q) /\ SameState(reg', p, q)
             => \A x \in {p, q} :
                  \E t \in lastOp'.asked : SameState(reg, x, t)
<1>1. BoundInv /\ [ProcNext]_procVars => [Local]_procVars
  BY ProcBound, EntanglesLocally
<1> QED
  BY <1>1, ProcBoundInvariant, PTL DEF ProcSpec, EntanglementIsLocal

-----------------------------------------------------------------------------
(* The network: a departure moves a qubit, a delivery moves it and may run *)
(* a gate of the sampled map on it; neither touches a binding.             *)
LEMMA DepartBound ==
  ASSUME NetInv, BoundInv, NetInv', NEW n, NEW q, NEW dev, Depart(n, q, dev)
  PROVE  BoundInv' /\ Entangles(reg, reg', lastOp')
<1>1. reg \in Registry /\ ProcInv'
  BY DEF NetInv, ProcInv, WellFormed
<1>2. SameBinding(reg, reg') /\ lastOp' = NoOp
  BY <1>1, SetLocationBinding DEF Depart
<1> QED
  BY <1>1, <1>2, IdleBound

(* The gate of a delivery acts on the qubit that was sent.                 *)
LEMMA DeliverBound ==
  ASSUME NetInv, BoundInv, NetInv', NEW e \in inFlight, Deliver(e)
  PROVE  /\ BoundInv' /\ Entangles(reg, reg', lastOp')
         /\ ActsWithGate(e.map) /\ reg.location[e.qubit] # Lost =>
              lastOp'.asked = {e.qubit} /\ lastOp'.hit[e.qubit] = {e.qubit}
<1> DEFINE q == e.qubit
           adopted == AdoptQubit(reg, e.to, q)
           mapped == IF Loses(e.map) THEN SetLocation(adopted, q, Lost) ELSE adopted
           asked == {q}
           hit == [p \in {q} |-> WiresAt(adopted, q)]
           gate == Op("gate", asked, hit)
<1>1. /\ q \in QubitId /\ e.to \in Node
      /\ WellFormed(reg) /\ reg \in Registry /\ Bound(reg)
      /\ ProcInv'
  BY DEF NetInv, BoundInv, ProcInv, WellFormed, Delivery
<1>2. q \in Created(reg)
  BY <1>1, FieldTypes, PlacesDiffer
     DEF NetInv, OneDeliveryPerQubit, WellFormed, UnusedUnset, QubitId, Created
<1>3. SameBinding(reg, adopted)
  BY <1>1, SetLocationBinding DEF AdoptQubit, SameBinding
<1>4. adopted \in Registry
  <2>1. AtNode(e.to) \in Location /\ q < reg.nextQubitId
    BY <1>1, <1>2 DEF Location, Created
  <2>2. WellFormed(SetLocation(reg, q, AtNode(e.to)))
    BY <1>1, <2>1, SetLocationEffect
  <2> QED
    BY <1>1, <2>2 DEF AdoptQubit, WellFormed
<1>5. WiresAt(adopted, q) = {q}
  <2>1. WiresAt(adopted, q) = WiresAt(reg, q)
    BY <1>3 DEF WiresAt, SameBinding
  <2> QED
    BY <1>1, <1>2, <2>1, WiresOfHandle
<1>6. hit[q] = {q}
  BY <1>5
<1>7. /\ reg' = mapped
      /\ lastOp' = IF ActsWithGate(e.map) /\ IsLocal(adopted, e.to, q) THEN gate ELSE NoOp
  BY DEF Deliver
<1>8. reg.location[q] # Lost => IsLocal(adopted, e.to, q)
  <2>1. ASSUME reg.location[q] # Lost
        PROVE  IsLocal(adopted, e.to, q)
    <3>1. adopted = SetLocation(reg, q, AtNode(e.to))
      BY <2>1 DEF AdoptQubit
    <3>2. AtNode(e.to) \in Location /\ q < reg.nextQubitId
      BY <1>1, <1>2 DEF Location, Created
    <3>3. SetLocation(reg, q, AtNode(e.to)).location
            = [p \in QubitId |-> IF p = q THEN AtNode(e.to) ELSE reg.location[p]]
      BY <1>1, <3>2, SetLocationEffect
    <3> HIDE DEF adopted, q
    <3> QED
      BY <1>1, <3>1, <3>3 DEF IsLocal
  <2> QED
    BY <2>1
<1>9. asked \in SUBSET QubitId /\ \A p : p \in asked <=> p = q
  BY <1>1
<1> HIDE DEF asked, hit, adopted
<1>10. SameBinding(reg, reg')
  BY <1>3, <1>4, <1>7, SetLocationBinding DEF SameBinding
<1>11. gate.kind = "gate" /\ gate.asked = asked /\ \A p \in asked : gate.hit[p] = hit[p]
  BY <1>9, OpFields
<1> HIDE DEF gate
<1>12. CASE lastOp' = NoOp
  <2>1. BoundInv' /\ Entangles(reg, reg', lastOp')
    BY <1>1, <1>10, <1>12, IdleBound
  <2>2. NoOp.kind # gate.kind
    BY <1>11 DEF NoOp, Op
  <2> QED
    BY <1>7, <1>8, <1>12, <2>1, <2>2
<1>13. CASE lastOp' = gate
  <2>1. \A A, M : Bound(reg') /\ Created(reg') = Created(reg)
                    /\ Joins(reg, reg', A) /\ Parts(reg, reg', M)
    BY <1>1, <1>10, MoveBound
  <2>2. Entangles(reg, reg', lastOp')
    BY <2>1 DEF Entangles
  <2>3. \A p \in asked : gate.hit[p] = {p}
    BY <1>6, <1>9, <1>11
  <2>4. BoundInv'
    BY <1>1, <1>11, <1>13, <2>1, <2>3 DEF BoundInv, OperationsHitTargets, MeasuredIsAlone
  <2> QED
    BY <1>9, <1>11, <1>13, <2>2, <2>3, <2>4 DEF asked
<1> QED
  BY <1>7, <1>12, <1>13

(* The inductive invariant of the network.                                 *)
NetBoundInv == NetInv /\ BoundInv

LEMMA NetBoundStep ==
  ASSUME NetBoundInv, Next
  PROVE  NetBoundInv' /\ (Entangles(reg, reg', lastOp') \/ UNCHANGED procVars)
<1>1. NetInv /\ BoundInv /\ NetInv'
  BY NetStep DEF NetBoundInv
<1>2. CASE Script
  BY <1>1, <1>2, ProcBound DEF Script, NetBoundInv
<1>3. CASE Topology
  <2>1. UNCHANGED procVars
    BY <1>3 DEF Topology, InstallQuantumLink, AddRoute, Connect, procVars
  <2>2. BoundInv'
    BY <1>1, <2>1 DEF BoundInv, ProcInv, procVars, OperationsHitTargets, MeasuredIsAlone
  <2> QED
    BY <1>1, <2>1, <2>2 DEF NetBoundInv
<1>4. CASE Transmission
  <2>1. PICK n \in Node, dst \in Node, q \in QubitId : Depart(n, q, RouteDevice(n, dst))
    BY <1>4 DEF Transmission, Send, SendRefused
  <2> QED
    BY <1>1, <2>1, DepartBound DEF NetBoundInv
<1>5. CASE \E e \in inFlight : Deliver(e)
  BY <1>1, <1>5, DeliverBound DEF NetBoundInv
<1> QED
  BY <1>2, <1>3, <1>4, <1>5 DEF Next

LEMMA NetBoundInvariant == Spec => []NetBoundInv
<1>1. Init => NetBoundInv
  BY NetInitInv, BoundInit DEF NetBoundInv, Init
<1>2. NetBoundInv /\ [Next]_vars => NetBoundInv'
  <2>1. ASSUME NetBoundInv, UNCHANGED vars
        PROVE  NetBoundInv'
    <3>1. NetInv'
      BY <2>1, NetStep DEF NetBoundInv
    <3>2. BoundInv'
      BY <2>1 DEF NetBoundInv, BoundInv, ProcInv, vars, OperationsHitTargets, MeasuredIsAlone
    <3> QED
      BY <3>1, <3>2 DEF NetBoundInv
  <2> QED
    BY <2>1, NetBoundStep
<1> QED
  BY <1>1, <1>2, PTL DEF Spec

(* Handles stay bound and operations hit their targets in the whole        *)
(* network, while qubits travel and while their partners are merged and    *)
(* measured on other nodes.                                                *)
THEOREM NetBindingKept == Spec => []BindingKept
<1>1. NetBoundInv => BindingKept
  BY BoundHandles DEF NetBoundInv, BoundInv, BindingKept
<1> QED
  BY <1>1, NetBoundInvariant, PTL

(* The registry stays exact in the whole network.                          *)
THEOREM NetRegistryExact == Spec => []RegistryExact
<1>1. NetBoundInv => RegistryExact
  BY BoundExact DEF NetBoundInv, BoundInv, ProcInv, WellFormed
<1> QED
  BY <1>1, NetBoundInvariant, PTL

(* Neither a departure nor a delivery, with or without a gate, entangles   *)
(* or parts anyone.                                                        *)
THEOREM NetEntanglementIsLocal == Spec => EntanglementIsLocal
<1> DEFINE Local ==
      \A p, q \in Created(reg) :
        /\ SameState(reg, p, q) /\ ~SameState(reg', p, q)
             => lastOp'.kind = "measure" /\ {p, q} \cap lastOp'.asked # {}
        /\ ~SameState(reg, p, q) /\ SameState(reg', p, q)
             => \A x \in {p, q} :
                  \E t \in lastOp'.asked : SameState(reg, x, t)
<1>1. NetBoundInv /\ [Next]_vars => [Local]_procVars
  <2>1. ASSUME NetBoundInv, Next
        PROVE  Local \/ UNCHANGED procVars
    BY <2>1, NetBoundStep, EntanglesLocally
  <2>2. UNCHANGED vars => UNCHANGED procVars
    BY DEF vars, procVars
  <2> HIDE DEF Local
  <2> QED
    BY <2>1, <2>2
<1> QED
  BY <1>1, NetBoundInvariant, PTL DEF Spec, EntanglementIsLocal

(* The gate sampled for a transmission reaches the very qubit that was     *)
(* sent.                                                                   *)
THEOREM NoiseReaches == Spec => NoiseReachesQubit
<1> DEFINE Reaches ==
      \A e \in inFlight \ inFlight' :
        ActsWithGate(e.map) /\ reg.location[e.qubit] # Lost =>
          lastOp'.asked = {e.qubit} /\ lastOp'.hit[e.qubit] = {e.qubit}
<1>1. ASSUME NetBoundInv, Next
      PROVE  Reaches
  <2>1. CASE \E e \in inFlight : Deliver(e)
    <3>1. PICK e \in inFlight : Deliver(e)
      BY <2>1
    <3>2. inFlight \ inFlight' = {e}
      BY <3>1 DEF Deliver
    <3>3. NetInv /\ BoundInv /\ NetInv'
      BY <1>1, NetStep DEF NetBoundInv
    <3> QED
      BY <3>1, <3>2, <3>3, DeliverBound
  <2>2. CASE ~(\E e \in inFlight : Deliver(e))
    <3>1. inFlight \subseteq inFlight'
      BY <1>1, <2>2 DEF Next, Script, netVars, Topology, InstallQuantumLink, AddRoute,
         Connect, Transmission, Send, SendRefused
    <3> QED
      BY <3>1
  <2> QED
    BY <2>1, <2>2
<1>2. NetBoundInv /\ [Next]_vars => [Reaches]_vars
  BY <1>1
<1> QED
  BY <1>2, NetBoundInvariant, PTL DEF Spec, NoiseReachesQubit

=============================================================================
