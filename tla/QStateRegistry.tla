--------------------------- MODULE QStateRegistry ---------------------------
(***************************************************************************)
(* The state registry of Q2NS (model/q2ns-qstate-registry.cc): the central *)
(* record of which backend state every qubit handle is bound to, of the    *)
(* members of every state and of the place of every qubit.                 *)
(*                                                                         *)
(* A handler of the simulator calls several registry operations in one     *)
(* event, so the operations are written as functions from one registry     *)
(* value to the next, which the actions of QProcessor and QNetwork compose.*)
(*                                                                         *)
(* Amplitudes are left out.  What is kept of a backend object (a QState)   *)
(* is which physical qubits it describes and in which tensor position:     *)
(* every physical qubit is named by the id of the handle created for it,   *)
(* held[q] is the state whose object describes it and slot[q] its position *)
(* there.  The handle side (stateOf, index) is computed by the registry    *)
(* and the processor, the backend side by MergeDisjoint and Measure; that  *)
(* the two agree is a property, never an assumption.                       *)
(***************************************************************************)
EXTENDS Naturals, FiniteSets

CONSTANTS
  Node,        \* node ids
  MaxQubitId,  \* bound on the qubits ever created
  MaxStateId   \* bound on the backend states ever registered

ASSUME BoundsAssumption == MaxQubitId \in Nat /\ MaxStateId \in Nat

VARIABLE reg   \* the registry and the handles bound through it, a Registry

(* Ids start at 1; a state id of 0 is the "no state" of CreateStateResult. *)
QubitId == 1..MaxQubitId
StateId == 1..MaxStateId
StateRef == {0} \cup StateId

(* NetController keeps one quantum channel per unordered pair of nodes.    *)
Channel == {{a, b} : a \in Node, b \in Node}

AtNode(n)    == [type |-> "Node", ownerId |-> n]
OnChannel(c) == [type |-> "Channel", ownerId |-> c]
Lost         == [type |-> "Lost", ownerId |-> {}]
Unset        == [type |-> "Unset", ownerId |-> {}]

Location == {AtNode(n) : n \in Node} \cup {OnChannel(c) : c \in Channel}
              \cup {Lost, Unset}

(***************************************************************************)
(*   states    keys of states_, the ids with a backend object              *)
(*   members   members_, read as sets: every reader sorts by index         *)
(*   location, atNode   location_ and its reverse index qubitsAtNode_      *)
(*   stateOf, index     what the handle says (Qubit::stateId_, ...)        *)
(*   held, slot         what the backend objects are (see above)           *)
(***************************************************************************)
Registry ==
  [states : SUBSET StateId,
   members : [StateId -> SUBSET QubitId],
   location : [QubitId -> Location],
   atNode : [Node -> SUBSET QubitId],
   stateOf : [QubitId -> StateRef],
   index : [QubitId -> Nat],
   held : [QubitId -> StateRef],
   slot : [QubitId -> Nat],
   nextStateId : Nat \ {0},
   nextQubitId : Nat \ {0}]

EmptyRegistry ==
  [states |-> {},
   members |-> [s \in StateId |-> {}],
   location |-> [q \in QubitId |-> Unset],
   atNode |-> [n \in Node |-> {}],
   stateOf |-> [q \in QubitId |-> 0],
   index |-> [q \in QubitId |-> 0],
   held |-> [q \in QubitId |-> 0],
   slot |-> [q \in QubitId |-> 0],
   nextStateId |-> 1,
   nextQubitId |-> 1]

(* The bounds: a handler that might exhaust the ids is not explored.       *)
Room(r, k) == r.nextStateId + k <= MaxStateId + 1
Fits(r) == Room(r, 0) /\ r.nextQubitId <= MaxQubitId + 1

Created(r) == {q \in QubitId : q < r.nextQubitId}
IsLocal(r, n, q) == r.location[q] = AtNode(n)

(* The physical qubit(s) at the position a handle points to.               *)
WiresAt(r, q) ==
  {w \in QubitId : r.held[w] = r.stateOf[q] /\ r.slot[w] = r.index[q]}

-----------------------------------------------------------------------------
(* Operations of the registry, each one as the value it leaves behind.     *)

(***************************************************************************)
(* CreateState / CreateStateFromExisting: the next state id, registered    *)
(* with no members yet, for a backend object that describes the physical   *)
(* qubits in DOMAIN pos at the positions pos.                              *)
(***************************************************************************)
AddState(r, pos) ==
  LET sid == r.nextStateId
  IN  [r EXCEPT
        !.states = @ \cup {sid},
        !.members = [s \in StateId |-> IF s = sid THEN {} ELSE r.members[s]],
        !.held = [w \in QubitId |-> IF w \in DOMAIN pos THEN sid ELSE r.held[w]],
        !.slot = [w \in QubitId |-> IF w \in DOMAIN pos THEN pos[w] ELSE r.slot[w]],
        !.nextStateId = sid + 1]

\* Mutant: the member list goes, the backend object stays registered.
Mutant_RemoveMembersOnly(r, sids) ==
  [r EXCEPT !.members = [s \in StateId |-> IF s \in sids THEN {} ELSE r.members[s]]]

RemoveStates(r, sids) ==
  [r EXCEPT !.states = @ \ sids,
            !.members = [s \in StateId |-> IF s \in sids THEN {} ELSE r.members[s]]]

UnregisterEverywhere(r, qs) ==
  [r EXCEPT !.members = [s \in StateId |-> r.members[s] \ qs]]

\* Mutant: the id is not taken from the set of the node it leaves.
Mutant_IndexKeepsOldNode(r, q, loc) ==
  [r EXCEPT
    !.location = [p \in QubitId |-> IF p = q THEN loc ELSE r.location[p]],
    !.atNode = [n \in Node |->
                  r.atNode[n] \cup (IF loc = AtNode(n) THEN {q} ELSE {})]]

(* SetLocation moves the id between the per-node sets of the reverse index.*)
SetLocation(r, q, loc) ==
  [r EXCEPT
    !.location = [p \in QubitId |-> IF p = q THEN loc ELSE r.location[p]],
    !.atNode = [n \in Node |->
                  (IF r.location[q] = AtNode(n) THEN r.atNode[n] \ {q} ELSE r.atNode[n])
                    \cup (IF loc = AtNode(n) THEN {q} ELSE {})]]

(***************************************************************************)
(* The rebinding loops: SetStateId, SetIndexInState, Register and          *)
(* SetLocation to the location read before, for every handle of qs.        *)
(***************************************************************************)
Rebind(r, qs, sid, idx) ==
  [r EXCEPT
    !.stateOf = [q \in QubitId |-> IF q \in qs THEN sid ELSE r.stateOf[q]],
    !.index = [q \in QubitId |-> IF q \in qs THEN idx[q] ELSE r.index[q]],
    !.members = [s \in StateId |-> IF s = sid THEN r.members[s] \cup qs
                                              ELSE r.members[s]],
    !.atNode = [n \in Node |-> r.atNode[n] \cup {q \in qs : r.location[q] = AtNode(n)}]]

(* A new handle: constructed, registered, and then placed on its node.     *)
NewHandle(r, n, sid, i) ==
  LET q == r.nextQubitId
      bound == Rebind([r EXCEPT !.nextQubitId = q + 1], {q}, sid, [p \in {q} |-> i])
  IN  SetLocation(bound, q, AtNode(n))

-----------------------------------------------------------------------------
(* MergeStates *)

(* The id of the first handle of a state in index order, 0 if it has none. *)
LeadingQubitId(r, s) ==
  IF r.members[s] = {} THEN 0
  ELSE CHOOSE q \in r.members[s] : \A p \in r.members[s] : r.index[q] <= r.index[p]

(* The cross-state merge order: by leading qubit id, then by state id.     *)
MergesBefore(r, s, t) ==
  \/ LeadingQubitId(r, s) < LeadingQubitId(r, t)
  \/ LeadingQubitId(r, s) = LeadingQubitId(r, t) /\ s < t

\* Mutant: the handles follow the order of the state ids alone.
Mutant_HandlesByStateId(r, all, q) ==
  Cardinality({p \in all : \/ r.stateOf[p] < r.stateOf[q]
                           \/ /\ r.stateOf[p] = r.stateOf[q]
                              /\ r.index[p] < r.index[q]})

(* The position of a handle in the concatenation of the sorted members.    *)
MergedIndex(r, all, q) ==
  Cardinality({p \in all : \/ MergesBefore(r, r.stateOf[p], r.stateOf[q])
                           \/ /\ r.stateOf[p] = r.stateOf[q]
                              /\ r.index[p] < r.index[q]})

\* Mutant: the offset of the later operands is one too small.
Mutant_OffsetShort(r, sids, w) ==
  r.slot[w]
    + Cardinality({v \in QubitId : /\ r.held[v] \in sids
                                   /\ MergesBefore(r, r.held[v], r.held[w])}) - 1

(***************************************************************************)
(* What repeated MergeDisjoint does to the objects, merged left to right   *)
(* in that order: each operand keeps its order and is appended after the   *)
(* qubits of the operands before it.                                       *)
(***************************************************************************)
MergedSlot(r, sids, w) ==
  r.slot[w]
    + Cardinality({v \in QubitId : /\ r.held[v] \in sids
                                   /\ MergesBefore(r, r.held[v], r.held[w])})

StatesOf(r, qs) == {r.stateOf[q] : q \in qs}
MembersOf(r, sids) == UNION {r.members[s] : s \in sids}
WiresOf(r, sids) == {w \in QubitId : r.held[w] \in sids}

(* Handles of one state share it already; the others are merged and every  *)
(* member of the merged states is rebound, wherever it is.                 *)
MergeStates(r, qs) ==
  LET sids == StatesOf(r, qs)
      all == MembersOf(r, sids)
      added == AddState(UnregisterEverywhere(r, all),
                        [w \in WiresOf(r, sids) |-> MergedSlot(r, sids, w)])
      bound == Rebind(added, all, r.nextStateId, [q \in all |-> MergedIndex(r, all, q)])
  IN  IF Cardinality(sids) = 1 THEN r
      ELSE RemoveStates(bound, {s \in sids : bound.members[s] = {}})

=============================================================================
