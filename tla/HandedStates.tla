---------------------------- MODULE HandedStates ----------------------------
(***************************************************************************)
(* CreateQubit(state) registers an object the caller made, and keeps it a  *)
(* shared pointer: the caller may hand the same object in again.  States_  *)
(* then has it under two ids, while the object itself knows the last one.  *)
(*                                                                         *)
(* Here an object is more than its registry entry: it has an identity, the *)
(* id it was last told, and the wires it describes, in order.  A one-qubit *)
(* object, as CreateQubit asks for, describes a wire of its own.           *)
(***************************************************************************)
EXTENDS Integers, Sequences, FiniteSets

CONSTANTS
  Given,       \* the objects the caller makes, 1, 2, ...
  MaxQubits,   \* bound on the qubits created
  MaxStates    \* bound on the states registered

HandedStatesAssumption ==
  Given \subseteq Nat /\ MaxQubits \in Nat /\ MaxStates \in Nat

VARIABLES
  states,   \* states_: state id -> object
  stateId,  \* object -> its stateId_
  wires,    \* object -> the wires it describes, in tensor order
  members,  \* members_: state id -> the qubits registered; every reader sorts them
  qubits,   \* the qubits created, in order, [state, index, wire]
  next,     \* nextStateId_
  last      \* the wires the last gate or measurement was asked for and hit

handedVars == <<states, stateId, wires, members, qubits, next, last>>

\* Objects are told apart by identity: the caller's, and those of the registry.
GivenObject(o) == <<"given", o>>
MadeObject(sid) == <<"made", sid>>
Untouched == [asked |-> <<>>, hit |-> <<>>]

HandedInit ==
  /\ states = << >> /\ members = << >>
  /\ stateId = << >>
  /\ wires = [o \in {GivenObject(g) : g \in Given} |-> <<o[2]>>]
  /\ qubits = << >> /\ next = 1 /\ last = Untouched

-----------------------------------------------------------------------------
With(f, x, v) == [y \in DOMAIN f \cup {x} |-> IF y = x THEN v ELSE f[y]]
Without(f, xs) == [y \in DOMAIN f \ xs |-> f[y]]

\* The registry and the handles as one value, the state of a handler.
Value == [states |-> states, stateId |-> stateId, wires |-> wires,
          members |-> members, qubits |-> qubits, next |-> next]
Becomes(r) ==
  /\ states' = r.states /\ stateId' = r.stateId /\ wires' = r.wires
  /\ members' = r.members /\ qubits' = r.qubits /\ next' = r.next

CreateStateFromExisting(r, object) ==
  [r EXCEPT !.states = With(r.states, r.next, object),
            !.stateId = With(r.stateId, object, r.next),
            !.members = With(r.members, r.next, {}),
            !.next = r.next + 1]

\* A new object for the wires, registered.
Make(r, ws) ==
  CreateStateFromExisting(
    [r EXCEPT !.wires = With(r.wires, MadeObject(r.next), ws)], MadeObject(r.next))

QubitsOf(r, sid) == IF sid \in DOMAIN r.members THEN r.members[sid] ELSE {}

\* Where a member stands when the members are sorted by index.
Position(r, qs, q) == Cardinality({p \in qs : r.qubits[p].index < r.qubits[q].index})

Unregistered(r, qs) ==
  [r EXCEPT !.members = [sid \in DOMAIN r.members |-> r.members[sid] \ qs]]

Registered(r, place) ==
  LET sid == r.next - 1
  IN  [r EXCEPT !.members = [r.members EXCEPT ![sid] = @ \cup DOMAIN place],
                !.qubits = [q \in DOMAIN r.qubits |->
                   IF q \in DOMAIN place
                   THEN [r.qubits[q] EXCEPT !.state = sid, !.index = place[q]]
                   ELSE r.qubits[q]]]

\* Mutant: the indices are given out from the end.
Mutant_BindFromEnd(r, place) ==
  Registered(r, [q \in DOMAIN place |-> Cardinality(DOMAIN place) - 1 - place[q]])
\* Binds each qubit to its place in the last state registered.
Bind(r, place) == Registered(r, place)

RemoveIfEmpty(r, sids) ==
  LET empty == {sid \in sids : QubitsOf(r, sid) = {}}
  IN  [r EXCEPT !.states = Without(r.states, empty), !.members = Without(r.members, empty)]

Known(r, q) == r.qubits[q].state \in DOMAIN r.states
ObjectOf(r, q) == r.states[r.qubits[q].state]
WireAt(r, q) == r.wires[ObjectOf(r, q)][r.qubits[q].index + 1]

LeadingQubit(r, sid) ==
  IF QubitsOf(r, sid) = {} THEN 0
  ELSE CHOOSE p \in QubitsOf(r, sid) :
         \A q \in QubitsOf(r, sid) : r.qubits[p].index <= r.qubits[q].index

\* Two known states; the one with the older leading qubit comes first.
MergeInOrder(r, s, t) ==
  LET a == QubitsOf(r, s)
      b == QubitsOf(r, t)
      place == [q \in a \cup b |->
                  IF q \in a THEN Position(r, a, q) ELSE Cardinality(a) + Position(r, b, q)]
      merged == Make(r, r.wires[r.states[s]] \o r.wires[r.states[t]])
  IN  RemoveIfEmpty(Bind(Unregistered(merged, a \cup b), place), {s, t})

MergeObjects(r, s, t) ==
  IF \/ LeadingQubit(r, s) < LeadingQubit(r, t)
     \/ LeadingQubit(r, s) = LeadingQubit(r, t) /\ s < t
  THEN MergeInOrder(r, s, t)
  ELSE MergeInOrder(r, t, s)

-----------------------------------------------------------------------------
CreateQubitFrom(o) ==
  LET q == Len(qubits) + 1
      new == [state |-> 0, index |-> 0, wire |-> o]
      created == [Value EXCEPT !.qubits = Append(qubits, new)]
  IN
  /\ q <= MaxQubits /\ next <= MaxStates
  /\ Becomes(Bind(CreateStateFromExisting(created, GivenObject(o)), [x \in {q} |-> 0]))
  /\ last' = Untouched

Rejected == UNCHANGED <<states, stateId, wires, members, qubits, next>> /\ last' = Untouched

Apply1(q) ==
  IF ~Known(Value, q) THEN Rejected
  ELSE /\ UNCHANGED <<states, stateId, wires, members, qubits, next>>
       /\ last' = [asked |-> <<qubits[q].wire>>, hit |-> <<WireAt(Value, q)>>]

Apply2(p, q) ==
  IF ~Known(Value, p) \/ ~Known(Value, q) THEN Rejected
  ELSE /\ next <= MaxStates
       /\ LET r == IF qubits[p].state = qubits[q].state THEN Value
                   ELSE MergeObjects(Value, qubits[p].state, qubits[q].state)
          IN  /\ Becomes(r)
              /\ last' = [asked |-> <<qubits[p].wire, qubits[q].wire>>,
                          hit |-> <<WireAt(r, p), WireAt(r, q)>>]

\* The wires but the k-th.
Drop(ws, k) == [i \in 1..(Len(ws) - 1) |-> IF i < k THEN ws[i] ELSE ws[i + 1]]

\* The measured qubit and the rest, each bound to a new state of its own.
SplitObject(r, q, ws, k, rest) ==
  LET measured == Bind(Make(r, <<ws[k]>>), [x \in {q} |-> 0])
      place == [x \in rest |-> Position(r, rest, x)]
  IN  IF Len(ws) = 1 THEN measured ELSE Bind(Make(measured, Drop(ws, k)), place)

\* Who is rebound is looked up by the id the object was last told.
MeasureObject(q) ==
  IF ~Known(Value, q) THEN Rejected
  ELSE
  LET object == states[qubits[q].state]
      sid == stateId[object]
      related == QubitsOf(Value, sid)
      k == qubits[q].index + 1
      cut == Unregistered(Value, related)
  IN
  /\ next + 1 <= MaxStates
  /\ Becomes(RemoveIfEmpty(SplitObject(cut, q, wires[object], k, related \ {q}), {sid}))
  /\ last' = [asked |-> <<qubits[q].wire>>, hit |-> <<wires[object][k]>>]

HandedNext ==
  \/ \E o \in Given : CreateQubitFrom(o)
  \/ \E q \in DOMAIN qubits : Apply1(q) \/ MeasureObject(q)
  \/ \E p, q \in DOMAIN qubits : p # q /\ Apply2(p, q)

HandedSpec == HandedInit /\ [][HandedNext]_handedVars

-----------------------------------------------------------------------------
\* However often an object was handed in, a gate or a measurement that is not
\* rejected acts on the wire its qubit was created for.
ActsOnOwnWire == last.hit = last.asked

\* Only a qubit that shares its object with another can lose its state and have
\* every later operation rejected.
OnlySharedAreOrphaned ==
  \A q \in DOMAIN qubits :
    ~Known(Value, q) => \E p \in DOMAIN qubits \ {q} : qubits[p].wire = qubits[q].wire

(* However often an object was handed in, an operation that is not         *)
(* rejected acts on the wire its qubit was created for, and only a qubit   *)
(* that shares its object can lose its state and have every later          *)
(* operation rejected (model/q2ns-qprocessor.cc:72, 227).                  *)
HandedInTwice == ActsOnOwnWire /\ OnlySharedAreOrphaned

=============================================================================
