------------------------------ MODULE QNetwork ------------------------------
(***************************************************************************)
(* The quantum network of Q2NS: the processors of QProcessor composed with *)
(* the path a qubit takes between nodes.                                   *)
(*                                                                         *)
(*   NetController   InstallQuantumLink builds a channel, a device at each *)
(*                   end, an interface and a host route on each node       *)
(*   QNetworker      Send and ReceiveFromDevice                            *)
(*   QNetDevice      hands qubits to its channel and back                  *)
(*   QChannel        samples delay and QMap, schedules the delivery        *)
(*   QMap            the sampled instance, run at the receiver             *)
(*                                                                         *)
(* ns-3 runs one event at a time, so a handler is one action.  The         *)
(* deliveries scheduled and not yet run may be run in any order: per-link  *)
(* delays, jitter and differing links make every order possible.           *)
(***************************************************************************)
EXTENDS QProcessor, Sequences

CONSTANTS
  Linkable,    \* the pairs of nodes the script may link
  UserRoutes,  \* the routes it may add itself, [node, dst, oif]
  Rewirable,   \* the calls of Connect it may make, [chan, a, b]
  Instances,   \* the QMap instances a channel can sample
  Listening    \* the nodes with a receive callback

(***************************************************************************)
(* A sampled instance is the sequence of the stages a CompositeQMap runs   *)
(* (one for a plain map, none for no map).  All draws are made when the    *)
(* qubit is sent, so a stage is what it will do: apply a one-qubit gate    *)
(* (dephasing, depolarizing, random gate or unitary), lose the qubit, or   *)
(* leave it alone.                                                         *)
(***************************************************************************)
Stage == {"pass", "gate", "loss"}

(* A device is known by the channel it was made for, its end and its node. *)
Device == [chan : Channel, side : {"A", "B"}, node : Node]
NullOrDevice == {{}} \cup {{d} : d \in Device}
Ends == [a : NullOrDevice, b : NullOrDevice]

ASSUME ConfigAssumption ==
  /\ Linkable \subseteq Channel
  /\ UserRoutes \subseteq [node : Node, dst : Node, oif : Nat]
  /\ Rewirable \subseteq [chan : Channel, a : NullOrDevice, b : NullOrDevice]
  /\ Instances \subseteq Seq(Stage)
  /\ Listening \subseteq Node

VARIABLES
  ends,      \* QChannel::aDev_ and bDev_ of each channel, a device or none each
  attached,  \* QNetDevice::channel_ of every device
  ifaces,    \* QNetworker::m_ifaces of every node
  routes,    \* QNetworker::m_hostRoutes: destination to interface, 0 for none
  inFlight,  \* the deliveries scheduled and not yet run
  announced  \* the qubits handed to each node's callback, most recent hop

netVars == <<ends, attached, ifaces, routes, inFlight, announced>>
topology == <<ends, attached, ifaces, routes>>
vars == <<reg, lastOp, ends, attached, ifaces, routes, inFlight, announced>>

NoEnds == [a |-> {}, b |-> {}]
Delivery == [qubit : QubitId, chan : Channel, to : Node, map : Instances]

Init ==
  /\ ProcInit
  /\ ends = [c \in Channel |-> NoEnds]
  /\ attached = [d \in Device |-> d.chan]
  /\ ifaces = [n \in Node |-> <<>>]
  /\ routes = [n \in Node |-> [d \in Node |-> 0]]
  /\ inFlight = {}
  /\ announced = [n \in Node |-> {}]

-----------------------------------------------------------------------------
(* Topology *)

Installed(c) == \E n \in Node : \E i \in DOMAIN ifaces[n] : ifaces[n][i].chan = c
Devices == {d \in Device : \E i \in DOMAIN ifaces[d.node] : ifaces[d.node][i] = d}

\* Mutant: the two interface indices are swapped in the routes.
Mutant_RoutesSwapped(a, b) ==
  LET c == {a, b}
      devA == [chan |-> c, side |-> "A", node |-> a]
      devB == [chan |-> c, side |-> "B", node |-> b]
      withA == [ifaces EXCEPT ![a] = Append(@, devA)]
      withB == [withA EXCEPT ![b] = Append(@, devB)]
  IN  /\ c \in Linkable /\ ~Installed(c)
      /\ ends' = [ends EXCEPT ![c] = [a |-> {devA}, b |-> {devB}]]
      /\ ifaces' = withB
      /\ routes' = [[routes EXCEPT ![a][b] = Len(withB[b])]
                            EXCEPT ![b][a] = Len(withA[a])]
      /\ UNCHANGED <<reg, lastOp, attached, inFlight, announced>>

(* A pair that has a channel keeps it.  Interfaces count from 1 here, from *)
(* 0 in the code.  A node linked to itself gets both devices.              *)
InstallQuantumLink(a, b) ==
  LET c == {a, b}
      devA == [chan |-> c, side |-> "A", node |-> a]
      devB == [chan |-> c, side |-> "B", node |-> b]
      withA == [ifaces EXCEPT ![a] = Append(@, devA)]
      withB == [withA EXCEPT ![b] = Append(@, devB)]
  IN  /\ c \in Linkable /\ ~Installed(c)
      /\ ends' = [ends EXCEPT ![c] = [a |-> {devA}, b |-> {devB}]]
      /\ ifaces' = withB
      /\ routes' = [[routes EXCEPT ![a][b] = Len(withA[a])]
                            EXCEPT ![b][a] = Len(withB[b])]
      /\ UNCHANGED <<reg, lastOp, attached, inFlight, announced>>

AddRoute(n, dst, oif) ==
  /\ [node |-> n, dst |-> dst, oif |-> oif] \in UserRoutes
  /\ routes' = [routes EXCEPT ![n][dst] = oif]
  /\ UNCHANGED <<reg, lastOp, ends, attached, ifaces, inFlight, announced>>

(* QChannel::Connect is public and takes any devices, also of other links, *)
(* null ends and one device for both, with no more than a warning.  The    *)
(* devices it had keep pointing at the channel, and the channels those it  *)
(* gets had before keep them as ends.                                      *)
Connect(c, a, b) ==
  /\ [chan |-> c, a |-> a, b |-> b] \in Rewirable
  /\ Installed(c) /\ a \cup b \subseteq Devices
  /\ ends' = [ends EXCEPT ![c] = [a |-> a, b |-> b]]
  /\ attached' = [d \in Device |-> IF d \in a \cup b THEN c ELSE attached[d]]
  /\ UNCHANGED <<reg, lastOp, ifaces, routes, inFlight, announced>>

-----------------------------------------------------------------------------
(* Transmission *)

(* The device the route of n to dst resolves to, if it resolves.           *)
HasRoute(n, dst) == routes[n][dst] \in DOMAIN ifaces[n]
RouteDevice(n, dst) == ifaces[n][routes[n][dst]]

\* Mutant: the end of the sender itself is taken for the destination.
Mutant_OtherEndIsOwn(e, dev) == IF dev \in e.a THEN e.a ELSE IF dev \in e.b THEN e.b ELSE {}

(* The far end QChannel::SendFrom finds: none if dev is not connected.     *)
OtherEnd(e, dev) == IF dev \in e.a THEN e.b ELSE IF dev \in e.b THEN e.a ELSE {}
FarEnds(dev) == OtherEnd(ends[attached[dev]], dev)

\* Mutant: any qubit that is not lost may be sent.
Mutant_SendFromAnywhere(n, q, dst) ==
  /\ q \in Created(reg) /\ reg.location[q] # Lost /\ HasRoute(n, dst)

\* Mutant: the test for lost qubits is left to the channel, too late.
CanSend(n, q, dst) == IsLocal(reg, n, q) /\ HasRoute(n, dst)

Depart(n, q, dev) ==
  /\ reg' = SetLocation(reg, q, OnChannel(attached[dev]))
  /\ announced' = [announced EXCEPT ![n] = @ \ {q}]
  /\ lastOp' = NoOp
  /\ UNCHANGED topology

(* The location is set before the device is asked, the channel samples the *)
(* map and schedules the delivery.                                         *)
Send(n, q, dst, map) ==
  /\ CanSend(n, q, dst)
  /\ \E far \in FarEnds(RouteDevice(n, dst)) :
       inFlight' = inFlight \cup {[qubit |-> q, chan |-> attached[RouteDevice(n, dst)],
                                   to |-> far.node, map |-> map]}
  /\ Depart(n, q, RouteDevice(n, dst))

(* The channel refuses; the location stays as Send has set it.             *)
SendRefused(n, q, dst) ==
  /\ CanSend(n, q, dst)
  /\ FarEnds(RouteDevice(n, dst)) = {}
  /\ Depart(n, q, RouteDevice(n, dst))
  /\ UNCHANGED inFlight

\* Mutant: the receiver does not take the qubit over.
Mutant_NoAdoption(r, n, q) == r

\* Mutant: a lost qubit is adopted as well.
Mutant_AdoptLost(r, n, q) == SetLocation(r, q, AtNode(n))

(* QNode::AdoptQubit *)
AdoptQubit(r, n, q) == IF r.location[q] = Lost THEN r ELSE SetLocation(r, q, AtNode(n))

Loses(map) == \E i \in DOMAIN map : map[i] = "loss"

(* A gate stage acts if no earlier stage has lost the qubit.               *)
ActsWithGate(map) ==
  \E i \in DOMAIN map : map[i] = "gate" /\ \A j \in DOMAIN map : j < i => map[j] # "loss"

\* Mutant: the callback is told whatever has become of the qubit.
Mutant_CallbackForLost(e) ==
  LET q == e.qubit
      adopted == AdoptQubit(reg, e.to, q)
      mapped == IF Loses(e.map) THEN SetLocation(adopted, q, Lost) ELSE adopted
  IN  /\ e \in inFlight
      /\ inFlight' = inFlight \ {e}
      /\ reg' = mapped
      /\ lastOp' = NoOp
      /\ announced' = IF e.to \in Listening THEN [announced EXCEPT ![e.to] = @ \cup {q}]
                      ELSE announced
      /\ UNCHANGED topology

\* Mutant: the map is run before the adoption, so its gates are refused.
Mutant_MapBeforeAdoption(e) ==
  /\ e \in inFlight
  /\ inFlight' = inFlight \ {e}
  /\ reg' = IF Loses(e.map) THEN SetLocation(reg, e.qubit, Lost)
            ELSE AdoptQubit(reg, e.to, e.qubit)
  /\ lastOp' = NoOp
  /\ UNCHANGED <<announced, topology>>

\* Mutant: an arrival waits until the node has a callback.
Mutant_ArrivalNeedsCallback(e) ==
  /\ e \in inFlight /\ e.to \in Listening
  /\ inFlight' = inFlight \ {e}
  /\ reg' = IF Loses(e.map) THEN SetLocation(reg, e.qubit, Lost)
            ELSE AdoptQubit(reg, e.to, e.qubit)
  /\ announced' = [announced EXCEPT ![e.to] = @ \cup {e.qubit}]
  /\ lastOp' = NoOp
  /\ UNCHANGED topology

(***************************************************************************)
(* The scheduled event: the receiving node adopts the qubit, the sampled   *)
(* map is run there (a gate through QNode::Apply, which refuses a qubit    *)
(* that is not local), and the callback is told unless the qubit is lost.  *)
(***************************************************************************)
Deliver(e) ==
  LET q == e.qubit
      adopted == AdoptQubit(reg, e.to, q)
      mapped == IF Loses(e.map) THEN SetLocation(adopted, q, Lost) ELSE adopted
      acts == ActsWithGate(e.map) /\ IsLocal(adopted, e.to, q)
      heard == e.to \in Listening /\ mapped.location[q] # Lost
  IN  /\ e \in inFlight
      /\ inFlight' = inFlight \ {e}
      /\ reg' = mapped
      /\ lastOp' = IF acts THEN Op("gate", {q}, [p \in {q} |-> WiresAt(adopted, q)])
                   ELSE NoOp
      /\ announced' = IF heard THEN [announced EXCEPT ![e.to] = @ \cup {q}]
                      ELSE announced
      /\ UNCHANGED topology

-----------------------------------------------------------------------------
Script == ProcNext /\ UNCHANGED netVars

Topology ==
  \/ \E a, b \in Node : InstallQuantumLink(a, b)
  \/ \E r \in UserRoutes : AddRoute(r.node, r.dst, r.oif)
  \/ \E w \in Rewirable : Connect(w.chan, w.a, w.b)

Transmission ==
  \/ \E n, dst \in Node, q \in QubitId, map \in Instances : Send(n, q, dst, map)
  \/ \E n, dst \in Node, q \in QubitId : SendRefused(n, q, dst)

Next == Script \/ Topology \/ Transmission \/ \E e \in inFlight : Deliver(e)

(* Simulator::Run executes every scheduled event; nothing obliges the      *)
(* script to make any call.                                                *)
Fairness == \A q \in QubitId : WF_vars(\E e \in inFlight : e.qubit = q /\ Deliver(e))

Spec == Init /\ [][Next]_vars
FairSpec == Spec /\ Fairness

-----------------------------------------------------------------------------
(* Properties *)

(* The tables, the pending deliveries and the record of callbacks hold     *)
(* values of the declared kinds, on top of the processor's TypeOK.         *)
NetTypeOK ==
  /\ TypeOK
  /\ ends \in [Channel -> Ends]
  /\ attached \in [Device -> Channel]
  /\ ifaces \in [Node -> Seq(Device)]
  /\ routes \in [Node -> [Node -> Nat]]
  /\ inFlight \subseteq Delivery
  /\ announced \in [Node -> SUBSET QubitId]

(* A scheduled delivery is for a qubit that is on the delivery's channel,  *)
(* or was lost meanwhile, and a qubit has at most one: nothing a script    *)
(* can call duplicates a qubit, takes it off the channel or sends it twice.*)
OneDeliveryPerQubit ==
  /\ \A e \in inFlight : reg.location[e.qubit] \in {OnChannel(e.chan), Lost}
  /\ \A e, f \in inFlight : e.qubit = f.qubit => e = f

(* A qubit that is on a channel has a delivery scheduled on that channel:  *)
(* QNetworker::Send moves it there only if the device accepts it           *)
(* ("on successful acceptance", q2ns-qnetworker.h:90).                     *)
NoStrandedQubit ==
  \A q \in QubitId, c \in Channel :
    reg.location[q] = OnChannel(c) =>
      \E e \in inFlight : e.qubit = q /\ e.chan = c

(* A host route installed with a link leads to the node it names: the far  *)
(* end of the device it resolves to is on that node, however the links of  *)
(* a node are added.  (User routes may name any interface.)                *)
RoutesReachPeer ==
  \A n, dst \in Node :
    routes[n][dst] # 0 =>
      /\ HasRoute(n, dst)
      /\ RouteDevice(n, dst).node = n
      /\ {d.node : d \in FarEnds(RouteDevice(n, dst))} = {dst}

(* A lost qubit stays lost: no creation, send, late delivery, adoption or  *)
(* rebinding through a merge or a measurement of a partner revives it.     *)
LostIsForever ==
  [][\A q \in QubitId : reg.location[q] = Lost => reg'.location[q] = Lost]_vars

(* A callback is given only a qubit that its node can operate on.          *)
AnnouncedIsLocal ==
  [][\A n \in Node : \A q \in announced'[n] \ announced[n] :
       IsLocal(reg', n, q)]_vars

(* The noise drawn when a qubit was sent acts on that very qubit when it   *)
(* arrives, whatever merges and measurements of its partners rebound its   *)
(* handle while it was on the channel; unless it was lost on the way.      *)
NoiseReachesQubit ==
  [][\A e \in inFlight \ inFlight' :
       ActsWithGate(e.map) /\ reg.location[e.qubit] # Lost =>
         lastOp'.asked = {e.qubit} /\ lastOp'.hit[e.qubit] = {e.qubit}]_vars

-----------------------------------------------------------------------------
(* What the network promises about custody of qubits (QubitCustody): the   *)
(* place is the registry's location and the heading that of the delivery   *)
(* scheduled for a qubit that is on a channel.                             *)
Heading ==
  [q \in QubitId |->
     {n \in Node : \E e \in inFlight : /\ e.qubit = q /\ e.to = n
                                      /\ reg.location[q] = OnChannel(e.chan)}]

Custody == INSTANCE QubitCustody
             WITH place <- reg.location, toward <- Heading, Qubit <- QubitId

CustodySpec == Custody!Spec
CustodyFairSpec == Custody!FairSpec

=============================================================================
