------------------------------- MODULE QMaps --------------------------------
(***************************************************************************)
(* The maps of the library (model/q2ns-qmap.h, .cc): what a map samples    *)
(* when a qubit is sent, and what the sampled instance does to the qubit   *)
(* where it arrives.  QNetwork takes instances for sequences of stages;    *)
(* here they are made.  The gates of the RandomGateQMap are GateWeights'.  *)
(*                                                                         *)
(* Numbers drawn are the parts of GateWeights, and probabilities multiples *)
(* of 1/Grid.                                                              *)
(***************************************************************************)
EXTENDS GateWeights

CONSTANTS
  Maps,      \* maps to compose, [kind, p, rate, arg]
  Streams,   \* what the channel's mapRv_ yields, as functions on positions
  Flights    \* flight times, the elapsedTime of QMapContext

QMapsAssumption == GatesAssumption /\ Grid % 3 = 0 /\ Flights \subseteq Nat

VARIABLES
  maps,     \* the three maps that are composed
  stream,   \* the numbers mapRv_ yields
  elapsed,  \* elapsedTime of the transmission
  pos,      \* numbers drawn so far
  inst,     \* the sampled instance, once the qubit is sent
  qubit     \* what the instance has done, [lost, null, crashed, ops, pos]

vars == <<gateVars, maps, stream, elapsed, pos, inst, qubit>>

Fresh == [lost |-> FALSE, null |-> FALSE, crashed |-> FALSE, ops |-> <<>>, pos |-> 0]
NotSent == [kind |-> "notSent"]

-----------------------------------------------------------------------------
(* Sampling *)

\* A rate gives a probability below 1 that is 0 for a flight without delay.
RateToProb(rate, t) == IF rate * t < Grid THEN rate * t ELSE Grid - 1

GetProb(m, t) == IF m.rate > 0 THEN RateToProb(m.rate, t) ELSE m.p

\* Whether the map applies, and how many numbers that took.
Bernoulli(m, t, at) ==
  LET p == GetProb(m, t)
  IN  IF p <= 0 THEN [yes |-> FALSE, used |-> 0]
      ELSE IF p >= Grid THEN [yes |-> TRUE, used |-> 0]
      ELSE [yes |-> stream[at] < p, used |-> 1]

Stage(does) == [kind |-> "stage", does |-> does]
Identity == [kind |-> "none"]

\* The result of sampling: the instance, and the position after the numbers
\* it took.
SampleDephasing(m, at) ==
  LET b == Bernoulli(m, elapsed, at)
  IN  [inst |-> Stage(IF b.yes THEN "Z" ELSE "pass"), at |-> at + b.used]

SampleLoss(m, at) ==
  LET b == Bernoulli(m, elapsed, at)
  IN  [inst |-> Stage(IF b.yes THEN "loss" ELSE "pass"), at |-> at + b.used]

\* The three maps below take further numbers when they apply.
WhenApplied(m, at, draws, Act(_)) ==
  LET b == Bernoulli(m, elapsed, at)
      next == at + b.used
  IN  IF b.yes THEN [inst |-> Stage(Act(next)), at |-> next + draws]
      ELSE [inst |-> Stage("pass"), at |-> next]

SampleDepolarizing(m, at) ==
  LET pauli(i) == <<"X", "Y", "Z">>[1 + (stream[i] * 3) \div Grid]
  IN  WhenApplied(m, at, 1, pauli)

SampleRandomGate(m, at) ==
  LET gate(i) == <<"G", PickIndex(weights, total, stream[i])>>
  IN  WhenApplied(m, at, 1, gate)

\* A unitary of SU(2) for three numbers.
SampleHaarSU2(i) == <<"U", stream[i], stream[i + 1], stream[i + 2]>>
SampleRandomUnitary(m, at) == WhenApplied(m, at, 3, SampleHaarSU2)

\* A lambda is its own instance; one that was never set is empty.
SampleLambda(m, at) ==
  [inst |-> CASE m.arg = "" -> Identity
              [] m.arg = "advanced" -> [kind |-> "draws"]
              [] OTHER -> Stage(m.arg),
   at |-> at]

RECURSIVE Sample(_, _), SampleAll(_, _)

\* The wrapped map is sampled whether or not it will be run.
SampleConditional(m, at) ==
  LET inner == Sample(m.arg.map, at)
  IN  [inst |-> [kind |-> "conditional", pred |-> m.arg.pred, inst |-> inner.inst],
       at |-> inner.at]

SampleAll(ms, at) ==
  IF ms = <<>> THEN [insts |-> <<>>, at |-> at]
  ELSE LET first == Sample(Head(ms), at)
           others == SampleAll(Tail(ms), first.at)
       IN  [insts |-> <<first.inst>> \o others.insts, at |-> others.at]

SampleComposite(m, at) ==
  LET all == SampleAll(m.arg, at)
  IN  [inst |-> [kind |-> "composite", insts |-> all.insts], at |-> all.at]

Sample(m, at) ==
  CASE m.kind = "null" -> [inst |-> Identity, at |-> at]
    [] m.kind = "lambda" -> SampleLambda(m, at)
    [] m.kind = "conditional" -> SampleConditional(m, at)
    [] m.kind = "dephasing" -> SampleDephasing(m, at)
    [] m.kind = "loss" -> SampleLoss(m, at)
    [] m.kind = "depolarizing" -> SampleDepolarizing(m, at)
    [] m.kind = "randomGate" -> SampleRandomGate(m, at)
    [] m.kind = "randomUnitary" -> SampleRandomUnitary(m, at)
    [] m.kind = "composite" -> SampleComposite(m, at)

Compose(ms) == [kind |-> "composite", p |-> 0, rate |-> 0, arg |-> ms]

-----------------------------------------------------------------------------
(* The instance at the receiver *)

\* Apply of a lost qubit is refused by the node; a lambda may reset the
\* pointer to the qubit it is given.
Does(q, does) ==
  IF does = "loss" THEN [q EXCEPT !.lost = TRUE]
  ELSE IF does = "reset" THEN [q EXCEPT !.null = TRUE]
  ELSE IF does = "pass" \/ q.lost THEN q
  ELSE [q EXCEPT !.ops = Append(@, does)]

\* Predicates of ConditionalQMap: none, on the flight, on what arrived so far.
Holds(pred, q) ==
  CASE pred = "none" -> TRUE
    [] pred = "longFlight" -> elapsed > 1
    [] pred = "untouched" -> q.ops = <<>>

RECURSIVE Run(_, _), RunStages(_, _), Mutant_StopAtEmpty(_, _)

Mutant_StopAtEmpty(insts, q) ==
  IF insts = <<>> \/ Head(insts) = Identity THEN q
  ELSE LET r == Run(Head(insts), q) IN IF r.lost THEN r ELSE Mutant_StopAtEmpty(Tail(insts), r)
\* A CompositeQMap skips an empty stage, reads the location of the qubit
\* after each, and stops when one lost the qubit.
RunStages(insts, q) ==
  IF insts = <<>> THEN q
  ELSE LET r == Run(Head(insts), q)
       IN  IF r.null THEN [r EXCEPT !.crashed = TRUE]
           ELSE IF r.lost THEN r ELSE RunStages(Tail(insts), r)

\* An advanced lambda draws when it is run.
Run(i, q) ==
  CASE i.kind = "none" -> q
    [] i.kind = "stage" -> Does(q, i.does)
    [] i.kind = "draws" ->
         [Does(q, <<"L", stream[q.pos]>>) EXCEPT !.pos = @ + 1]
    [] i.kind = "conditional" -> IF Holds(i.pred, q) THEN Run(i.inst, q) ELSE q
    [] i.kind = "composite" -> RunStages(i.insts, q)

-----------------------------------------------------------------------------
Init ==
  /\ maps \in Maps \X Maps \X Maps
  /\ stream \in Streams
  /\ elapsed \in Flights
  /\ GatesInit
  /\ pos = 1
  /\ inst = NotSent
  /\ qubit = Fresh

UsesRandomGate == \E i \in 1..3 : maps[i].kind = "randomGate"

Configure ==
  /\ UsesRandomGate /\ inst = NotSent
  /\ GatesNext
  /\ UNCHANGED <<maps, stream, elapsed, pos, inst, qubit>>

\* A transmission samples the composed map; sampling a RandomGateQMap that
\* applies and has no weight would abort.
Send ==
  /\ inst = NotSent
  /\ UsesRandomGate => total > 0
  /\ LET s == Sample(Compose(maps), pos) IN inst' = s.inst /\ pos' = s.at
  /\ UNCHANGED <<gateVars, maps, stream, elapsed, qubit>>

Arrive ==
  /\ inst # NotSent /\ qubit.pos = 0
  /\ qubit' = Run(inst, [Fresh EXCEPT !.pos = pos])
  /\ UNCHANGED <<gateVars, maps, stream, elapsed, pos, inst>>

Next == Configure \/ Send \/ Arrive

Spec == Init /\ [][Next]_vars

-----------------------------------------------------------------------------
Arrived == qubit.pos # 0

Result(m) ==
  LET s == Sample(m, 1) IN Run(s.inst, [Fresh EXCEPT !.pos = s.at])

(* Composition is associative, in what it does to the qubit and in the     *)
(* numbers it takes: a loss, a condition or a draw at the receiver inside  *)
(* a composed map acts as if the map were flat (model/q2ns-qmap.cc:132).   *)
ComposeAssociative ==
  Arrived =>
    /\ qubit = Result(Compose(<<Compose(<<maps[1], maps[2]>>), maps[3]>>))
    /\ qubit = Result(Compose(<<maps[1], Compose(<<maps[2], maps[3]>>)>>))

(* Nothing is done to a qubit, and nothing is drawn for it, after it was   *)
(* lost: what a prefix of the maps has lost, the maps after it leave alone *)
(* (model/q2ns-qmap.cc:103).                                               *)
NothingAfterLoss ==
  Arrived =>
    \A k \in 1..2 :
      LET prefix == Compose(SubSeq(maps, 1, k))
          head == Result(prefix)
      IN  head.lost =>
            /\ qubit.lost /\ Len(qubit.ops) = Len(head.ops)
            /\ qubit.pos - pos = head.pos - Sample(prefix, 1).at

(* A rate takes the place of the probability: a map with a rate does       *)
(* nothing on a flight that takes no time, whatever its probability        *)
(* (model/q2ns-qmap.h:59).                                                 *)
RateOverrides ==
  Arrived /\ elapsed = 0 /\ (\A i \in 1..3 : maps[i].rate > 0) =>
    qubit = [Fresh EXCEPT !.pos = 1]

(* What a composed map does to a qubit does not depend on how it was       *)
(* nested, ends with a loss, and follows the rates                         *)
(* (model/q2ns-qmap.cc:103, 132).                                          *)
MapsSound == ComposeAssociative /\ NothingAfterLoss /\ RateOverrides

=============================================================================
