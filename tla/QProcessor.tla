----------------------------- MODULE QProcessor -----------------------------
(***************************************************************************)
(* The per-node quantum processor (model/q2ns-qprocessor.cc), reached      *)
(* through QNode: creation of qubits, gates, measurements and Bell         *)
(* measurements on the qubits that are local to the node.                  *)
(*                                                                         *)
(* Every call runs to completion inside one simulator event, so every      *)
(* public call is one action.  A rejected call changes nothing and returns *)
(* false, -1 or a null pointer; its conditions are the action's guard.     *)
(***************************************************************************)
EXTENDS QStateRegistry

(***************************************************************************)
(* What the last processor call did to the backends: the kind of operation,*)
(* the handles it was asked to act on, and for each of them the physical   *)
(* qubits the backend operations touched.                                  *)
(***************************************************************************)
VARIABLE lastOp

procVars == <<reg, lastOp>>

OpKind == {"none", "gate", "measure"}
Op(kind, asked, hit) ==
  [kind |-> kind, asked |-> asked,
   hit |-> [q \in QubitId |-> IF q \in asked THEN hit[q] ELSE {}]]
NoOp == Op("none", {}, <<>>)

ProcInit == reg = EmptyRegistry /\ lastOp = NoOp

-----------------------------------------------------------------------------
(* A fresh one-qubit state, or an existing one handed in by the caller.    *)
CreateQubit(n) ==
  LET q == reg.nextQubitId
      created == AddState(reg, [w \in {q} |-> 0])
  IN  /\ q <= MaxQubitId
      /\ Room(reg, 1)
      /\ reg' = NewHandle(created, n, reg.nextStateId, 0)
      /\ lastOp' = NoOp

(* Two handles on one two-qubit state, then H and CNOT through Apply.      *)
CreateBellPair(n) ==
  LET q0 == reg.nextQubitId
      q1 == q0 + 1
      sid == reg.nextStateId
      created == AddState(reg, [w \in {q0, q1} |-> w - q0])
      pair == NewHandle(NewHandle(created, n, sid, 0), n, sid, 1)
  IN  /\ q1 <= MaxQubitId
      /\ Room(reg, 1)
      /\ reg' = MergeStates(pair, {q0, q1})
      /\ lastOp' = Op("gate", {q0, q1}, [q \in {q0, q1} |-> WiresAt(pair, q)])

\* Mutant: the gate goes to the indices read before the merge.
Mutant_ApplyStaleIndices(n, qs) ==
  LET merged == MergeStates(reg, qs)
  IN  /\ qs # {}
      /\ \A q \in qs : IsLocal(reg, n, q)
      /\ StatesOf(reg, qs) \subseteq reg.states
      /\ Room(reg, 1)
      /\ reg' = merged
      /\ lastOp' = Op("gate", qs,
                      [q \in qs |-> {w \in QubitId : /\ merged.held[w] = merged.stateOf[q]
                                                    /\ merged.slot[w] = reg.index[q]}])

(* The targets are merged into one state, then the gate goes to the        *)
(* positions their handles have after the merge.                           *)
Apply(n, qs) ==
  LET merged == MergeStates(reg, qs)
  IN  /\ qs # {}
      /\ \A q \in qs : IsLocal(reg, n, q)
      /\ StatesOf(reg, qs) \subseteq reg.states
      /\ Room(reg, 1)
      /\ reg' = merged
      /\ lastOp' = Op("gate", qs, [q \in qs |-> WiresAt(merged, q)])

(***************************************************************************)
(* Measuring position k of a state: the qubit(s) at k leave for a state of *)
(* their own, the survivors close the gap and get another one.  The handle *)
(* side is a parameter: which handles go to the survivor state and the     *)
(* index each of them is given there.                                      *)
(***************************************************************************)
SplitWith(r, q, others, idx) ==
  LET s == r.stateOf[q]
      k == r.index[q]
      left == {w \in QubitId : r.held[w] = s /\ r.slot[w] # k}
      measured == Rebind(AddState(UnregisterEverywhere(r, r.members[s]),
                                  [w \in WiresAt(r, q) |-> 0]),
                         {q}, r.nextStateId, [p \in {q} |-> 0])
      survivors ==
        Rebind(AddState(measured,
                        [w \in left |-> IF r.slot[w] > k THEN r.slot[w] - 1
                                                        ELSE r.slot[w]]),
               others, measured.nextStateId, idx)
      rebound == IF left = {} THEN measured ELSE survivors
  IN  IF rebound.members[s] = {} THEN RemoveStates(rebound, {s}) ELSE rebound

(* The place of every handle of qs when they are sorted by index.          *)
SortedPlaces(r, qs) ==
  [p \in qs |-> Cardinality({o \in qs : r.index[o] < r.index[p]})]

\* Mutant: every survivor moves down by one, those before the gap as well.
Mutant_SplitShiftsAll(r, q) ==
  LET others == r.members[r.stateOf[q]] \ {q}
  IN  SplitWith(r, q, others, [p \in others |-> r.index[p] - 1])

\* Mutant: handles away from the measuring node are not renumbered.
Mutant_SplitRenumbersLocal(r, q) ==
  LET others == r.members[r.stateOf[q]] \ {q}
  IN  SplitWith(r, q, others,
                [p \in others |-> IF r.location[p] = r.location[q]
                                  THEN SortedPlaces(r, others)[p] ELSE r.index[p]])

\* Mutant: handles away from the measuring node are left out of the rebinding.
Mutant_SplitRebindsLocal(r, q) ==
  LET others == {p \in r.members[r.stateOf[q]] \ {q} : r.location[p] = r.location[q]}
  IN  SplitWith(r, q, others, SortedPlaces(r, others))

(* The members read before are sorted by index and numbered again without q.*)
Split(r, q) ==
  LET others == r.members[r.stateOf[q]] \ {q}
  IN  SplitWith(r, q, others, SortedPlaces(r, others))

Measure(n, q) ==
  /\ IsLocal(reg, n, q)
  /\ reg.stateOf[q] \in reg.states
  /\ Room(reg, 2)
  /\ reg' = Split(reg, q)
  /\ lastOp' = Op("measure", {q}, [p \in {q} |-> WiresAt(reg, q)])

(* CNOT on both and H on a through Apply, then a and b are measured.       *)
MeasureBell(n, a, b) ==
  LET joined == MergeStates(reg, {a, b})
      first == Split(joined, a)
  IN  /\ a # b
      /\ IsLocal(reg, n, a) /\ IsLocal(reg, n, b)
      /\ StatesOf(reg, {a, b}) \subseteq reg.states
      /\ Room(reg, 1) /\ Room(joined, 2) /\ Room(first, 2)
      /\ reg' = Split(first, b)
      /\ lastOp' = Op("measure", {a, b},
                      [q \in {a, b} |-> IF q = a THEN WiresAt(joined, a)
                                        ELSE WiresAt(joined, b) \cup WiresAt(first, b)])

(* Qubit::SetLocationLost, which a caller may invoke on any qubit.         *)
LoseQubit(q) ==
  /\ q \in Created(reg)
  /\ reg' = SetLocation(reg, q, Lost)
  /\ lastOp' = NoOp

ProcNext ==
  \/ \E n \in Node : CreateQubit(n) \/ CreateBellPair(n)
  \/ \E n \in Node, qs \in SUBSET QubitId : Apply(n, qs)
  \/ \E n \in Node, q \in QubitId : Measure(n, q)
  \/ \E n \in Node, a, b \in QubitId : MeasureBell(n, a, b)
  \/ \E q \in QubitId : LoseQubit(q)

ProcSpec == ProcInit /\ [][ProcNext]_procVars

-----------------------------------------------------------------------------
(* Properties *)

(* The registry, the handles and the record of the last operation hold     *)
(* values of the declared kinds, and no id counter is past its bound.      *)
TypeOK ==
  /\ reg \in Registry
  /\ Fits(reg)
  /\ lastOp \in [kind : OpKind, asked : SUBSET QubitId,
                 hit : [QubitId -> SUBSET QubitId]]

(* Every handle points at its own physical qubit: the backend object of    *)
(* the state it names describes that qubit at the index it carries.  The   *)
(* handles are renumbered by MergeStates and Measure, the objects by       *)
(* MergeDisjoint and the backend's Measure, including those of qubits that *)
(* are on another node, on a channel or lost.                              *)
HandleBinding ==
  \A q \in Created(reg) :
    reg.held[q] = reg.stateOf[q] /\ reg.slot[q] = reg.index[q]

(* Every qubit is a member of exactly the state its handle names, the      *)
(* registered states are exactly those with members (no orphan, no leak),  *)
(* and no id is in use before it is handed out.                            *)
MembershipExact ==
  /\ \A s \in StateId : reg.members[s] = {q \in Created(reg) : reg.stateOf[q] = s}
  /\ reg.states = {reg.stateOf[q] : q \in Created(reg)}
  /\ \A s \in reg.states : 0 < s /\ s < reg.nextStateId

(* The members of a state carry the indices 0 .. n-1, each one once.       *)
IndicesCompact ==
  \A s \in reg.states :
    {reg.index[q] : q \in reg.members[s]} = 0..(Cardinality(reg.members[s]) - 1)

(* The reverse index behind GetLocalQubits and GetQubit lists a qubit at a *)
(* node exactly when the location table places it there.                   *)
LocationIndex ==
  \A n \in Node : reg.atNode[n] = {q \in QubitId : reg.location[q] = AtNode(n)}

(* A gate or measurement reaches the physical qubits of the handles it was *)
(* asked for and no others, though the call merges and splits states       *)
(* between taking the handles and touching the backend.                    *)
OperationsHitTargets ==
  \A q \in lastOp.asked : lastOp.hit[q] = {q}

SameState(r, p, q) == r.stateOf[p] = r.stateOf[q]

(* Two qubits come to share a state only through a gate that was asked to  *)
(* act on both of their states, and part only when one of them was         *)
(* measured: bystanders, remote partners included, are never entangled or  *)
(* disentangled by the renumbering.                                        *)
EntanglementIsLocal ==
  [][\A p, q \in Created(reg) :
       /\ SameState(reg, p, q) /\ ~SameState(reg', p, q)
            => lastOp'.kind = "measure" /\ {p, q} \cap lastOp'.asked # {}
       /\ ~SameState(reg, p, q) /\ SameState(reg', p, q)
            => \A x \in {p, q} :
                 \E t \in lastOp'.asked : SameState(reg, x, t)]_procVars

(* After a measurement every measured qubit is alone in its state, and so  *)
(* measuring again needs no other qubit.                                   *)
MeasuredIsAlone ==
  lastOp.kind = "measure" =>
    \A q \in lastOp.asked : reg.members[reg.stateOf[q]] = {q}

(* No state is leaked or removed while it has members, the members of each *)
(* have the indices from 0 on, and a measured qubit is alone               *)
(* (model/q2ns-qstate-registry.cc:206, model/q2ns-qprocessor.cc:262).      *)
RegistryExact == MembershipExact /\ IndicesCompact /\ MeasuredIsAlone

(* Handles point at their own physical qubits, and operations touch those  *)
(* (model/q2ns-qstate-registry.cc:169, model/q2ns-qprocessor.cc:325).      *)
BindingKept == HandleBinding /\ OperationsHitTargets

=============================================================================
