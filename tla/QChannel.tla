------------------------------ MODULE QChannel ------------------------------
(***************************************************************************)
(* One channel in time (model/q2ns-qchannel.cc): its two ends, the delay   *)
(* and jitter of each direction, which a script may set at any moment, and *)
(* the deliveries in the simulator's calendar.  QNetwork lets deliveries   *)
(* run in any order, with any map; here their order is that of the clock,  *)
(* and of a map only the flight time it is sampled for is kept.            *)
(***************************************************************************)
EXTENDS Integers, FiniteSets

CONSTANTS
  Devices,  \* the devices a script may connect
  NoDev,    \* a null device
  Wirings,  \* the pairs of ends a script may Connect
  Values,   \* delays and jitters a script asks for, negative ones too
  Attributes,  \* what a channel may be created with, [Delay, Jitter]
  MaxTime,  \* bound on the clock
  MaxSends  \* bound on the transmissions

ASSUME ChannelAssumption ==
  /\ NoDev \notin Devices /\ Wirings \subseteq (Devices \cup {NoDev}) \X (Devices \cup {NoDev})
  /\ Values \subseteq Int /\ Attributes \subseteq [Delay : Int, Jitter : Int]
  /\ MaxTime \in Nat /\ MaxSends \in Nat

VARIABLES
  aDev, bDev,  \* the ends
  attached,    \* the devices whose channel_ is this channel
  delay, jitter,  \* by direction
  given,       \* the attributes it was created with, until it is configured
  now,         \* the clock of the simulator
  calendar,    \* the deliveries scheduled
  sent,        \* transmissions accepted so far
  heard        \* the delivery that ran last

vars == <<aDev, bDev, attached, delay, jitter, given, now, calendar, sent, heard>>
config == <<delay, jitter, given>>
wiring == <<aDev, bDev, attached>>
flights == <<calendar, sent, heard>>

Directions == {"AB", "BA"}
Defaults == [Delay |-> 0, Jitter |-> 0]
Configured == [Delay |-> -1, Jitter |-> -1]
Quiet == [id |-> 0]

-----------------------------------------------------------------------------
(* Configuration *)

\* A setter rejects a negative value and leaves the old one.
Accept(table, directions, v) ==
  IF v < 0 THEN table ELSE [d \in Directions |-> IF d \in directions THEN v ELSE table[d]]

(* The object system sets every attribute of a new channel in the order of *)
(* their registration, to the value given or else to its default.          *)
ConstructSelf(table, symmetric, oneWay) ==
  Accept(Accept(Accept(table, Directions, symmetric), {"AB"}, oneWay), {"BA"}, oneWay)

Init ==
  /\ given \in Attributes
  /\ LET zero == [d \in Directions |-> 0]
     IN  /\ delay = ConstructSelf(zero, given.Delay, 0)
         /\ jitter = ConstructSelf(zero, given.Jitter, 0)
  /\ aDev = NoDev /\ bDev = NoDev /\ attached = {}
  /\ now = 0 /\ calendar = {} /\ sent = 0 /\ heard = Quiet

SetDelay(directions, v) ==
  /\ delay' = Accept(delay, directions, v)
  /\ UNCHANGED jitter

SetJitter(directions, v) ==
  /\ jitter' = Accept(jitter, directions, v)
  /\ UNCHANGED delay

Configure ==
  /\ \E directions \in {{"AB"}, {"BA"}, Directions} :
       \E v \in Values : SetDelay(directions, v) \/ SetJitter(directions, v)
  /\ given' = Configured
  /\ UNCHANGED <<wiring, flights, now>>

(* Null or equal ends are connected with a warning.                        *)
Connect(a, b) ==
  /\ aDev' = a /\ bDev' = b
  /\ attached' = attached \cup ({a, b} \ {NoDev})
  /\ UNCHANGED <<config, flights, now>>

-----------------------------------------------------------------------------
(* Transmission *)

\* An end connected to itself sends as A.
DirectionOf(src) == IF src = aDev THEN "AB" ELSE IF src = bDev THEN "BA" ELSE "none"

Peer(src) == IF DirectionOf(src) = "AB" THEN bDev ELSE aDev

Mutant_JitterOfAB(d) ==
  {IF delay[d] + j < 0 THEN 0 ELSE delay[d] + j : j \in -jitter["AB"]..jitter["AB"]}
\* What delay and jitter can give, no less than 0.
FlightTimes(d) == {IF delay[d] + j < 0 THEN 0 ELSE delay[d] + j : j \in -jitter[d]..jitter[d]}

\* The elapsedTime a map is sampled for.
Elapsed(d, flight) == flight

(* QNetDevice::Send asks the channel the device was last attached to;      *)
(* SendFrom refuses a device that is no end, or whose peer is null.        *)
SendFrom(src) ==
  LET d == DirectionOf(src)
  IN  /\ sent < MaxSends
      /\ src \in attached /\ d # "none" /\ Peer(src) # NoDev
      /\ sent' = sent + 1
      /\ \E flight \in FlightTimes(d) :
           calendar' = calendar \cup
             {[id |-> sent + 1, src |-> src, dst |-> Peer(src), dir |-> d, sentAt |-> now,
               due |-> now + flight, elapsed |-> Elapsed(d, flight),
               loop |-> aDev = bDev, steady |-> jitter[d] = 0,
               base |-> delay[d]]}
      /\ UNCHANGED <<config, wiring, now, heard>>

(* The calendar runs the earliest event, of equal times the one scheduled  *)
(* first.                                                                  *)
First(e) == \A f \in calendar : e.due < f.due \/ (e.due = f.due /\ e.id <= f.id)

ReceiveFromChannel(e) ==
  /\ First(e) /\ e.due = now
  /\ calendar' = calendar \ {e}
  /\ heard' = e
  /\ UNCHANGED <<config, wiring, now, sent>>

Tick ==
  /\ now < MaxTime /\ \A e \in calendar : e.due > now
  /\ now' = now + 1
  /\ UNCHANGED <<config, wiring, flights>>

Next ==
  \/ Configure
  \/ \E w \in Wirings : Connect(w[1], w[2])
  \/ \E src \in Devices : SendFrom(src)
  \/ \E e \in calendar : ReceiveFromChannel(e)
  \/ Tick

Spec == Init /\ [][Next]_vars

-----------------------------------------------------------------------------
(* The map is told the time the qubit really spends on the channel, jitter *)
(* and clamping included, however the channel is set and connected         *)
(* meanwhile (model/q2ns-qchannel.cc:333).                                 *)
ElapsedIsFlight ==
  heard # Quiet => heard.elapsed = heard.due - heard.sentAt

(* No jitter takes a delivery back before its sending: the calendar would  *)
(* stop the simulation (model/q2ns-qchannel.cc:324).                       *)
NeverInThePast == \A e \in calendar : e.due >= now

(* On a direction without jitter qubits do not overtake: one that is heard *)
(* before another sent earlier found a lower delay, or one of them jitter  *)
(* (model/q2ns-qchannel.cc:303).                                           *)
OnlyJitterOvertakes ==
  heard # Quiet =>
    \A e \in calendar :
      e.id < heard.id /\ e.dir = heard.dir /\ e.steady /\ heard.steady => heard.base < e.base

(* A qubit does not come back to the device that sent it, unless both ends *)
(* were that device, also if the channel is connected anew while it is on  *)
(* its way (model/q2ns-qchannel.cc:338).                                   *)
NeverBackToSender ==
  heard # Quiet => (heard.dst = heard.src => heard.loop)

(* However the channel is set and connected meanwhile, a delivery goes     *)
(* where it was sent, is not in the past, is overtaken only through jitter *)
(* or a lowered delay, and its map knows the time it took                  *)
(* (model/q2ns-qchannel.cc:303).                                           *)
FlightsKept == ElapsedIsFlight /\ NeverInThePast /\ OnlyJitterOvertakes /\ NeverBackToSender

=============================================================================
