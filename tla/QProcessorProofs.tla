--------------------------- MODULE QProcessorProofs ---------------------------
(***************************************************************************)
(* Theorems about the processor for every node set and every bound on the  *)
(* ids: what a call does to the places of the qubits, that the registry    *)
(* stays well formed, and with it TypeOK and LocationIndex.                *)
(***************************************************************************)
EXTENDS QProcessor, FiniteSetTheorems, TLAPS

-----------------------------------------------------------------------------
(* The registry: every operation preserves the kinds of the fields, the    *)
(* agreement of the reverse index with the location table and, for all but *)
(* SetLocation, the place of every qubit.                                  *)

(* The reverse index agrees with the location table.                       *)
IndexAgrees(r) ==
  \A n \in Node : r.atNode[n] = {q \in QubitId : r.location[q] = AtNode(n)}

(* An id that has not been handed out has no location.                     *)
UnusedUnset(r) ==
  \A q \in QubitId : r.nextQubitId <= q => r.location[q] = Unset

(* The well-formed registries, closed under every operation.               *)
WellFormed(r) == r \in Registry /\ IndexAgrees(r) /\ UnusedUnset(r)

(* s has the same qubits in the same places as r.                          *)
SamePlaces(r, s) == s.location = r.location /\ s.nextQubitId = r.nextQubitId

-----------------------------------------------------------------------------
(* The fields of a registry, one by one.                                   *)
LEMMA FieldTypes ==
  ASSUME NEW r \in Registry
  PROVE  /\ r.states \in SUBSET StateId
         /\ r.members \in [StateId -> SUBSET QubitId]
         /\ r.location \in [QubitId -> Location]
         /\ r.atNode \in [Node -> SUBSET QubitId]
         /\ r.stateOf \in [QubitId -> StateRef]
         /\ r.index \in [QubitId -> Nat]
         /\ r.held \in [QubitId -> StateRef]
         /\ r.slot \in [QubitId -> Nat]
         /\ r.nextStateId \in Nat \ {0}
         /\ r.nextQubitId \in Nat \ {0}
BY DEF Registry

(* Counting a set of handles gives a natural number: the indices that      *)
(* MergeStates and Measure hand out (std::size_t in the code) are typed.   *)
LEMMA CountIsNat ==
  ASSUME NEW S, S \subseteq QubitId
  PROVE  Cardinality(S) \in Nat
<1>1. IsFiniteSet(QubitId)
  BY FS_Interval, BoundsAssumption DEF QubitId
<1>2. IsFiniteSet(S)
  BY <1>1, FS_Subset
<1> QED
  BY <1>2, FS_CardinalityType

(* The four kinds of place are told apart by their type, and a node or a   *)
(* channel by its id.                                                      *)
LEMMA PlacesDiffer ==
  /\ Lost # Unset
  /\ \A n : AtNode(n) # Lost /\ AtNode(n) # Unset
  /\ \A c : OnChannel(c) # Lost /\ OnChannel(c) # Unset
  /\ \A n, c : AtNode(n) # OnChannel(c)
  /\ \A m, n : AtNode(m) = AtNode(n) => m = n
  /\ \A c, d : OnChannel(c) = OnChannel(d) => c = d
BY DEF Lost, Unset, AtNode, OnChannel

-----------------------------------------------------------------------------
(* AddState (CreateState, CreateStateFromExisting) registers one more state*)
(* and moves no qubit.                                                     *)
LEMMA AddStateEffect ==
  ASSUME NEW r, WellFormed(r), r.nextStateId \in StateId, NEW pos,
         \A w \in DOMAIN pos : pos[w] \in Nat
  PROVE  /\ WellFormed(AddState(r, pos))
         /\ SamePlaces(r, AddState(r, pos))
         /\ AddState(r, pos).nextStateId = r.nextStateId + 1
         /\ AddState(r, pos).stateOf = r.stateOf
         /\ AddState(r, pos).index = r.index
<1> DEFINE sid == r.nextStateId
           st == r.states \cup {sid}
           mb == [s \in StateId |-> IF s = sid THEN {} ELSE r.members[s]]
           hd == [w \in QubitId |-> IF w \in DOMAIN pos THEN sid ELSE r.held[w]]
           sl == [w \in QubitId |-> IF w \in DOMAIN pos THEN pos[w] ELSE r.slot[w]]
           nx == sid + 1
           t == AddState(r, pos)
<1>1. r \in Registry
  BY DEF WellFormed
<1>2. /\ st \in SUBSET StateId
      /\ mb \in [StateId -> SUBSET QubitId]
      /\ hd \in [QubitId -> StateRef]
      /\ sl \in [QubitId -> Nat]
      /\ nx \in Nat \ {0}
  BY <1>1, FieldTypes DEF StateRef
<1>3. t = [r EXCEPT !.states = st, !.members = mb, !.held = hd, !.slot = sl,
                    !.nextStateId = nx]
  BY DEF AddState
<1> HIDE DEF st, mb, hd, sl, nx, t
<1>4. t \in Registry
  BY <1>1, <1>2, <1>3, ZenonT(60) DEF Registry
<1>5. /\ t.location = r.location
      /\ t.atNode = r.atNode
      /\ t.nextQubitId = r.nextQubitId
      /\ t.nextStateId = nx
      /\ t.stateOf = r.stateOf
      /\ t.index = r.index
  BY <1>1, <1>3 DEF Registry
<1> QED
  BY <1>4, <1>5 DEF WellFormed, IndexAgrees, UnusedUnset, SamePlaces, t, nx

(* RemoveState drops states and their member lists only.                   *)
LEMMA RemoveStatesEffect ==
  ASSUME NEW r, WellFormed(r), NEW sids
  PROVE  /\ WellFormed(RemoveStates(r, sids))
         /\ SamePlaces(r, RemoveStates(r, sids))
         /\ RemoveStates(r, sids).nextStateId = r.nextStateId
         /\ RemoveStates(r, sids).stateOf = r.stateOf
<1> DEFINE st == r.states \ sids
           mb == [s \in StateId |-> IF s \in sids THEN {} ELSE r.members[s]]
           t == RemoveStates(r, sids)
<1>1. r \in Registry
  BY DEF WellFormed
<1>2. st \in SUBSET StateId /\ mb \in [StateId -> SUBSET QubitId]
  BY <1>1, FieldTypes
<1>3. t = [r EXCEPT !.states = st, !.members = mb]
  BY DEF RemoveStates
<1> HIDE DEF st, mb, t
<1>4. t \in Registry
  BY <1>1, <1>2, <1>3, ZenonT(60) DEF Registry
<1>5. /\ t.location = r.location
      /\ t.atNode = r.atNode
      /\ t.nextQubitId = r.nextQubitId
      /\ t.nextStateId = r.nextStateId
      /\ t.stateOf = r.stateOf
  BY <1>1, <1>3 DEF Registry
<1> QED
  BY <1>4, <1>5 DEF WellFormed, IndexAgrees, UnusedUnset, SamePlaces, t

(* UnregisterEverywhere changes the member lists only.                     *)
LEMMA UnregisterEffect ==
  ASSUME NEW r, WellFormed(r), NEW qs
  PROVE  /\ WellFormed(UnregisterEverywhere(r, qs))
         /\ SamePlaces(r, UnregisterEverywhere(r, qs))
         /\ UnregisterEverywhere(r, qs).nextStateId = r.nextStateId
         /\ UnregisterEverywhere(r, qs).stateOf = r.stateOf
<1> DEFINE mb == [s \in StateId |-> r.members[s] \ qs]
           t == UnregisterEverywhere(r, qs)
<1>1. r \in Registry
  BY DEF WellFormed
<1>2. mb \in [StateId -> SUBSET QubitId]
  BY <1>1, FieldTypes
<1>3. t = [r EXCEPT !.members = mb]
  BY DEF UnregisterEverywhere
<1> HIDE DEF mb, t
<1>4. t \in Registry
  BY <1>1, <1>2, <1>3, ZenonT(60) DEF Registry
<1>5. /\ t.location = r.location
      /\ t.atNode = r.atNode
      /\ t.nextQubitId = r.nextQubitId
      /\ t.nextStateId = r.nextStateId
      /\ t.stateOf = r.stateOf
  BY <1>1, <1>3 DEF Registry
<1> QED
  BY <1>4, <1>5 DEF WellFormed, IndexAgrees, UnusedUnset, SamePlaces, t

(* The rebinding loops leave every qubit where it is: SetLocation with the *)
(* location read before is harmless as long as the reverse index agrees.   *)
LEMMA RebindEffect ==
  ASSUME NEW r, WellFormed(r), NEW qs \in SUBSET QubitId, NEW sid \in StateId, NEW idx,
         \A q \in qs : idx[q] \in Nat
  PROVE  /\ WellFormed(Rebind(r, qs, sid, idx))
         /\ SamePlaces(r, Rebind(r, qs, sid, idx))
         /\ Rebind(r, qs, sid, idx).nextStateId = r.nextStateId
         /\ Rebind(r, qs, sid, idx).stateOf
              = [q \in QubitId |-> IF q \in qs THEN sid ELSE r.stateOf[q]]
<1> DEFINE so == [q \in QubitId |-> IF q \in qs THEN sid ELSE r.stateOf[q]]
           ix == [q \in QubitId |-> IF q \in qs THEN idx[q] ELSE r.index[q]]
           mb == [s \in StateId |-> IF s = sid THEN r.members[s] \cup qs
                                               ELSE r.members[s]]
           an == [n \in Node |-> r.atNode[n] \cup {q \in qs : r.location[q] = AtNode(n)}]
           t == Rebind(r, qs, sid, idx)
<1>1. r \in Registry
  BY DEF WellFormed
<1>2. /\ so \in [QubitId -> StateRef]
      /\ ix \in [QubitId -> Nat]
      /\ mb \in [StateId -> SUBSET QubitId]
      /\ an \in [Node -> SUBSET QubitId]
  BY <1>1, FieldTypes DEF StateRef
<1>3. t = [r EXCEPT !.stateOf = so, !.index = ix, !.members = mb, !.atNode = an]
  BY DEF Rebind
<1>4. \A n \in Node : an[n] = r.atNode[n]
  BY DEF WellFormed, IndexAgrees
<1> HIDE DEF so, ix, mb, an, t
<1>6. t \in Registry
  BY <1>1, <1>2, <1>3, ZenonT(60) DEF Registry
<1>7. /\ t.location = r.location
      /\ t.atNode = an
      /\ t.nextQubitId = r.nextQubitId
      /\ t.nextStateId = r.nextStateId
      /\ t.stateOf = so
  BY <1>1, <1>3 DEF Registry
<1> QED
  BY <1>4, <1>6, <1>7 DEF WellFormed, IndexAgrees, UnusedUnset, SamePlaces, t, so

(* SetLocation moves one created qubit and keeps the index in agreement.   *)
LEMMA SetLocationEffect ==
  ASSUME NEW r, WellFormed(r), NEW q \in QubitId, NEW loc \in Location,
         q < r.nextQubitId
  PROVE  /\ WellFormed(SetLocation(r, q, loc))
         /\ SetLocation(r, q, loc).location
              = [p \in QubitId |-> IF p = q THEN loc ELSE r.location[p]]
         /\ SetLocation(r, q, loc).nextQubitId = r.nextQubitId
         /\ SetLocation(r, q, loc).nextStateId = r.nextStateId
         /\ SetLocation(r, q, loc).stateOf = r.stateOf
<1> DEFINE lc == [p \in QubitId |-> IF p = q THEN loc ELSE r.location[p]]
           an == [n \in Node |->
                    (IF r.location[q] = AtNode(n) THEN r.atNode[n] \ {q} ELSE r.atNode[n])
                      \cup (IF loc = AtNode(n) THEN {q} ELSE {})]
           t == SetLocation(r, q, loc)
<1>1. r \in Registry /\ IndexAgrees(r) /\ UnusedUnset(r)
  BY DEF WellFormed
<1>2. lc \in [QubitId -> Location] /\ an \in [Node -> SUBSET QubitId]
  BY <1>1, FieldTypes
<1>3. t = [r EXCEPT !.location = lc, !.atNode = an]
  BY DEF SetLocation
<1>4. \A n \in Node : an[n] = {p \in QubitId : lc[p] = AtNode(n)}
  BY <1>1 DEF IndexAgrees
<1>5. \A p \in QubitId : r.nextQubitId <= p => lc[p] = Unset
  BY <1>1, FieldTypes DEF UnusedUnset, QubitId
<1> HIDE DEF lc, an, t
<1>6. t \in Registry
  BY <1>1, <1>2, <1>3, ZenonT(60) DEF Registry
<1>7. /\ t.location = lc
      /\ t.atNode = an
      /\ t.nextQubitId = r.nextQubitId
      /\ t.nextStateId = r.nextStateId
      /\ t.stateOf = r.stateOf
  BY <1>1, <1>3 DEF Registry
<1>8. WellFormed(t)
  BY <1>4, <1>5, <1>6, <1>7 DEF WellFormed, IndexAgrees, UnusedUnset
<1> QED
  BY <1>7, <1>8 DEF t, lc

-----------------------------------------------------------------------------
(* A new handle takes the next id and is placed on the node of its creator;*)
(* nothing else moves.                                                     *)
LEMMA NewHandleEffect ==
  ASSUME NEW r, WellFormed(r), r.nextQubitId \in QubitId,
         NEW n \in Node, NEW sid \in StateId, NEW i \in Nat
  PROVE  /\ WellFormed(NewHandle(r, n, sid, i))
         /\ NewHandle(r, n, sid, i).location
              = [p \in QubitId |-> IF p = r.nextQubitId THEN AtNode(n) ELSE r.location[p]]
         /\ NewHandle(r, n, sid, i).nextQubitId = r.nextQubitId + 1
         /\ NewHandle(r, n, sid, i).nextStateId = r.nextStateId
         /\ NewHandle(r, n, sid, i).stateOf
              = [p \in QubitId |-> IF p = r.nextQubitId THEN sid ELSE r.stateOf[p]]
<1> DEFINE q == r.nextQubitId
           u == [r EXCEPT !.nextQubitId = q + 1]
           b == Rebind(u, {q}, sid, [p \in {q} |-> i])
<1>1. r \in Registry /\ IndexAgrees(r) /\ UnusedUnset(r)
  BY DEF WellFormed
<1>2. q \in Nat \ {0} /\ q + 1 \in Nat \ {0}
  BY <1>1, FieldTypes
<1>3. u \in Registry
  <2> DEFINE k == q + 1
  <2>1. u = [r EXCEPT !.nextQubitId = k] /\ k \in Nat \ {0}
    BY <1>2
  <2> HIDE DEF k, u
  <2> QED
    BY <1>1, <2>1, ZenonT(60) DEF Registry
<1>4. /\ u.location = r.location
      /\ u.atNode = r.atNode
      /\ u.nextQubitId = q + 1
      /\ u.nextStateId = r.nextStateId
      /\ u.stateOf = r.stateOf
  BY <1>1 DEF Registry
<1> HIDE DEF u
<1>5. WellFormed(u)
  BY <1>1, <1>2, <1>3, <1>4 DEF WellFormed, IndexAgrees, UnusedUnset, QubitId
<1>6. /\ WellFormed(b)
      /\ SamePlaces(u, b)
      /\ b.nextStateId = u.nextStateId
      /\ b.stateOf = [p \in QubitId |-> IF p \in {q} THEN sid ELSE u.stateOf[p]]
  <2> DEFINE qs == {q}
             idx == [p \in {q} |-> i]
  <2>1. qs \in SUBSET QubitId /\ \A p \in qs : idx[p] \in Nat
    OBVIOUS
  <2> HIDE DEF idx
  <2> QED
    BY <1>5, <2>1, RebindEffect
<1>7. NewHandle(r, n, sid, i) = SetLocation(b, q, AtNode(n))
  BY DEF NewHandle, u, b
<1>8. AtNode(n) \in Location
  BY DEF Location
<1> HIDE DEF b, q
<1>9. q < b.nextQubitId /\ q \in QubitId
  BY <1>2, <1>4, <1>6 DEF SamePlaces, q
<1> QED
  BY <1>4, <1>6, <1>7, <1>8, <1>9, SetLocationEffect DEF SamePlaces, q

(* MergeStates renumbers and rebinds, wherever the members are, and moves  *)
(* no qubit; a handle that named a state still names one.                  *)
LEMMA MergeStatesEffect ==
  ASSUME NEW r, WellFormed(r), r.nextStateId \in StateId, NEW qs \in SUBSET QubitId,
         \A q \in qs : r.stateOf[q] \in StateId
  PROVE  /\ WellFormed(MergeStates(r, qs))
         /\ SamePlaces(r, MergeStates(r, qs))
         /\ MergeStates(r, qs).nextStateId \in {r.nextStateId, r.nextStateId + 1}
         /\ \A q \in QubitId : r.stateOf[q] \in StateId
                                 => MergeStates(r, qs).stateOf[q] \in StateId
<1> DEFINE sids == StatesOf(r, qs)
           all == MembersOf(r, sids)
           slots == [w \in WiresOf(r, sids) |-> MergedSlot(r, sids, w)]
           idx == [q \in all |-> MergedIndex(r, all, q)]
           cleared == UnregisterEverywhere(r, all)
           added == AddState(cleared, slots)
           bound == Rebind(added, all, r.nextStateId, idx)
           emptied == {s \in sids : bound.members[s] = {}}
           merged == RemoveStates(bound, emptied)
<1>1. CASE Cardinality(sids) = 1
  <2>1. MergeStates(r, qs) = r
    BY <1>1 DEF MergeStates
  <2> QED
    BY <2>1 DEF SamePlaces
<1>2. CASE Cardinality(sids) # 1
  <2>1. MergeStates(r, qs) = merged
    BY <1>2 DEF MergeStates
  <2>2. r \in Registry
    BY DEF WellFormed
  <2>3. sids \subseteq StateId /\ all \in SUBSET QubitId
    BY <2>2, FieldTypes DEF StatesOf, MembersOf
  <2>4. \A w \in DOMAIN slots : slots[w] \in Nat
    <3>1. ASSUME NEW w \in WiresOf(r, sids)
          PROVE  MergedSlot(r, sids, w) \in Nat
      <4> DEFINE before == {v \in QubitId : /\ r.held[v] \in sids
                                            /\ MergesBefore(r, r.held[v], r.held[w])}
      <4>1. Cardinality(before) \in Nat
        BY CountIsNat
      <4>2. r.slot[w] \in Nat
        BY <2>2, FieldTypes DEF WiresOf
      <4>3. MergedSlot(r, sids, w) = r.slot[w] + Cardinality(before)
        BY DEF MergedSlot
      <4> HIDE DEF before
      <4> QED
        BY <4>1, <4>2, <4>3
    <3> QED
      BY <3>1
  <2>5. \A q \in all : idx[q] \in Nat
    <3>1. ASSUME NEW q \in all
          PROVE  MergedIndex(r, all, q) \in Nat
      <4> DEFINE before == {p \in all : \/ MergesBefore(r, r.stateOf[p], r.stateOf[q])
                                        \/ /\ r.stateOf[p] = r.stateOf[q]
                                           /\ r.index[p] < r.index[q]}
      <4>1. before \subseteq QubitId /\ MergedIndex(r, all, q) = Cardinality(before)
        BY <2>3 DEF MergedIndex
      <4> QED
        BY <4>1, CountIsNat
    <3> QED
      BY <3>1
  <2> HIDE DEF sids, all, slots, idx
  <2>6. /\ WellFormed(cleared)
        /\ SamePlaces(r, cleared)
        /\ cleared.nextStateId = r.nextStateId
        /\ cleared.stateOf = r.stateOf
    BY UnregisterEffect
  <2> HIDE DEF cleared
  <2>7. /\ WellFormed(added)
        /\ SamePlaces(cleared, added)
        /\ added.nextStateId = r.nextStateId + 1
        /\ added.stateOf = r.stateOf
    BY <2>4, <2>6, AddStateEffect
  <2> HIDE DEF added
  <2>8. /\ WellFormed(bound)
        /\ SamePlaces(added, bound)
        /\ bound.nextStateId = r.nextStateId + 1
        /\ bound.stateOf
             = [q \in QubitId |-> IF q \in all THEN r.nextStateId ELSE r.stateOf[q]]
    BY <2>3, <2>5, <2>7, RebindEffect
  <2> HIDE DEF bound
  <2>9. /\ WellFormed(merged)
        /\ SamePlaces(bound, merged)
        /\ merged.nextStateId = r.nextStateId + 1
        /\ merged.stateOf = bound.stateOf
    BY <2>8, RemoveStatesEffect
  <2> HIDE DEF merged
  <2> QED
    BY <2>1, <2>6, <2>7, <2>8, <2>9 DEF SamePlaces
<1> QED
  BY <1>1, <1>2

-----------------------------------------------------------------------------
(* The processor                                                           *)

(***************************************************************************)
(* How a processor call may move qubits: it leaves a qubit where it is,    *)
(* creates it at a node, or loses it.                                      *)
(***************************************************************************)
PlaceStep(r, s, q) ==
  \/ s.location[q] = r.location[q]
  \/ r.nextQubitId <= q /\ \E n \in Node : s.location[q] = AtNode(n)
  \/ q < r.nextQubitId /\ s.location[q] = Lost

PlacesStep(r, s) == \A q \in QubitId : PlaceStep(r, s, q)

(* The same, call by call: one call moves nothing, creates its new qubits  *)
(* all at one node, or loses one.                                          *)
Born(r, s) == {q \in QubitId : r.nextQubitId <= q /\ q < s.nextQubitId}

Moves(r, s) ==
  \/ SamePlaces(r, s)
  \/ \E n \in Node :
       /\ Born(r, s) # {}
       /\ s.location = [q \in QubitId |-> IF q \in Born(r, s) THEN AtNode(n)
                                                              ELSE r.location[q]]
  \/ \E q \in Created(r) :
       /\ s.nextQubitId = r.nextQubitId
       /\ s.location = [p \in QubitId |-> IF p = q THEN Lost ELSE r.location[p]]

ProcInv == WellFormed(reg) /\ Fits(reg)
             /\ lastOp \in [kind : OpKind, asked : SUBSET QubitId,
                            hit : [QubitId -> SUBSET QubitId]]

-----------------------------------------------------------------------------
(* The record of an operation is of its kind.                              *)
LEMMA OpType ==
  ASSUME NEW k \in OpKind, NEW asked \in SUBSET QubitId, NEW hit,
         \A q \in asked : hit[q] \in SUBSET QubitId
  PROVE  Op(k, asked, hit) \in [kind : OpKind, asked : SUBSET QubitId,
                                hit : [QubitId -> SUBSET QubitId]]
BY DEF Op

LEMMA NoOpType ==
  NoOp \in [kind : OpKind, asked : SUBSET QubitId, hit : [QubitId -> SUBSET QubitId]]
BY OpType DEF NoOp, OpKind

(* Room for k more states is room for the next k ids.                      *)
LEMMA RoomMeans ==
  ASSUME NEW r \in Registry
  PROVE  /\ Room(r, 1) => r.nextStateId \in StateId
         /\ Room(r, 2) => r.nextStateId \in StateId /\ r.nextStateId + 1 \in StateId
BY FieldTypes, BoundsAssumption DEF Room, StateId

(* Measure rebinds the measured handle and the survivors, wherever they    *)
(* are, and moves no qubit.                                                *)
LEMMA SplitEffect ==
  ASSUME NEW r, WellFormed(r), Room(r, 2),
         NEW q \in QubitId, r.stateOf[q] \in StateId
  PROVE  /\ WellFormed(Split(r, q))
         /\ SamePlaces(r, Split(r, q))
         /\ Split(r, q).nextStateId \in {r.nextStateId + 1, r.nextStateId + 2}
         /\ \A p \in QubitId : r.stateOf[p] \in StateId
                                 => Split(r, q).stateOf[p] \in StateId
<1> DEFINE s == r.stateOf[q]
           k == r.index[q]
           others == r.members[s] \ {q}
           places == SortedPlaces(r, others)
           left == {w \in QubitId : r.held[w] = s /\ r.slot[w] # k}
           cleared == UnregisterEverywhere(r, r.members[s])
           posM == [w \in WiresAt(r, q) |-> 0]
           addedM == AddState(cleared, posM)
           ones == {q}
           idxM == [p \in {q} |-> 0]
           measured == Rebind(addedM, ones, r.nextStateId, idxM)
           posS == [w \in left |-> IF r.slot[w] > k THEN r.slot[w] - 1 ELSE r.slot[w]]
           addedS == AddState(measured, posS)
           survivors == Rebind(addedS, others, measured.nextStateId, places)
           rebound == IF left = {} THEN measured ELSE survivors
           t == IF rebound.members[s] = {} THEN RemoveStates(rebound, {s}) ELSE rebound
<1>1. Split(r, q) = t
  BY DEF Split, SplitWith
<1>2. r \in Registry
  BY DEF WellFormed
<1>3. r.nextStateId \in StateId /\ r.nextStateId + 1 \in StateId /\ r.nextStateId \in Nat
  BY <1>2, RoomMeans, FieldTypes
<1>4. others \in SUBSET QubitId /\ ones \in SUBSET QubitId
  BY <1>2, FieldTypes
<1>5. /\ \A w \in DOMAIN posM : posM[w] \in Nat
      /\ \A p \in ones : idxM[p] \in Nat
  OBVIOUS
<1>6. \A w \in DOMAIN posS : posS[w] \in Nat
  <2>1. \A w \in left : r.slot[w] \in Nat /\ k \in Nat
    BY <1>2, FieldTypes
  <2> HIDE DEF left, k
  <2> QED
    BY <2>1
<1>7. \A p \in others : places[p] \in Nat
  <2>1. ASSUME NEW p \in others
        PROVE  Cardinality({o \in others : r.index[o] < r.index[p]}) \in Nat
    BY <1>4, CountIsNat
  <2> HIDE DEF others
  <2> QED
    BY <2>1 DEF SortedPlaces
<1> HIDE DEF s, k, others, places, left, posM, idxM, posS, ones
<1>8. /\ WellFormed(cleared)
      /\ SamePlaces(r, cleared)
      /\ cleared.nextStateId = r.nextStateId
      /\ cleared.stateOf = r.stateOf
  BY UnregisterEffect
<1> HIDE DEF cleared
<1>9. /\ WellFormed(addedM)
      /\ SamePlaces(cleared, addedM)
      /\ addedM.nextStateId = r.nextStateId + 1
      /\ addedM.stateOf = r.stateOf
  BY <1>3, <1>5, <1>8, AddStateEffect
<1> HIDE DEF addedM
<1>10. /\ WellFormed(measured)
       /\ SamePlaces(addedM, measured)
       /\ measured.nextStateId = r.nextStateId + 1
       /\ measured.stateOf
            = [p \in QubitId |-> IF p \in ones THEN r.nextStateId ELSE r.stateOf[p]]
  BY <1>3, <1>4, <1>5, <1>9, RebindEffect
<1> HIDE DEF measured
<1>11. /\ WellFormed(addedS)
       /\ SamePlaces(measured, addedS)
       /\ addedS.nextStateId = measured.nextStateId + 1
       /\ addedS.stateOf = measured.stateOf
  BY <1>3, <1>6, <1>10, AddStateEffect
<1> HIDE DEF addedS
<1>12. /\ WellFormed(survivors)
       /\ SamePlaces(addedS, survivors)
       /\ survivors.nextStateId = measured.nextStateId + 1
       /\ survivors.stateOf
            = [p \in QubitId |-> IF p \in others THEN measured.nextStateId
                                                 ELSE measured.stateOf[p]]
  <2>1. measured.nextStateId \in StateId
    BY <1>3, <1>10
  <2> QED
    BY <2>1, <1>4, <1>7, <1>11, RebindEffect
<1> HIDE DEF survivors
<1>13. /\ WellFormed(rebound)
       /\ SamePlaces(r, rebound)
       /\ rebound.nextStateId \in {r.nextStateId + 1, r.nextStateId + 2}
       /\ \A p \in QubitId : r.stateOf[p] \in StateId => rebound.stateOf[p] \in StateId
  <2>1. CASE left = {}
    BY <2>1, <1>3, <1>8, <1>9, <1>10 DEF SamePlaces
  <2>2. CASE left # {}
    <3>1. rebound = survivors
      BY <2>2
    <3>2. /\ WellFormed(survivors)
          /\ SamePlaces(r, survivors)
          /\ survivors.nextStateId = r.nextStateId + 2
      BY <1>3, <1>8, <1>9, <1>10, <1>11, <1>12 DEF SamePlaces
    <3>3. \A p \in QubitId : r.stateOf[p] \in StateId => survivors.stateOf[p] \in StateId
      BY <1>3, <1>10, <1>12
    <3> HIDE DEF rebound
    <3> QED
      BY <3>1, <3>2, <3>3
  <2> QED
    BY <2>1, <2>2
<1> HIDE DEF rebound
<1>14. /\ WellFormed(RemoveStates(rebound, {s}))
       /\ SamePlaces(rebound, RemoveStates(rebound, {s}))
       /\ RemoveStates(rebound, {s}).nextStateId = rebound.nextStateId
       /\ RemoveStates(rebound, {s}).stateOf = rebound.stateOf
  BY <1>13, RemoveStatesEffect
<1>15. CASE rebound.members[s] = {}
  BY <1>1, <1>13, <1>14, <1>15 DEF SamePlaces
<1>16. CASE rebound.members[s] # {}
  BY <1>1, <1>13, <1>16
<1> QED
  BY <1>15, <1>16

-----------------------------------------------------------------------------
(* Each call keeps the invariant and moves qubits only as Moves says.      *)
LEMMA CreateQubitStep ==
  ASSUME ProcInv, NEW n \in Node, CreateQubit(n)
  PROVE  ProcInv' /\ Moves(reg, reg')
<1> DEFINE q == reg.nextQubitId
           pos == [w \in {q} |-> 0]
           created == AddState(reg, pos)
<1>1. WellFormed(reg) /\ reg \in Registry /\ reg.nextStateId \in StateId /\ q \in QubitId
  BY RoomMeans, FieldTypes, BoundsAssumption
     DEF ProcInv, WellFormed, CreateQubit, QubitId
<1>2. \A w \in DOMAIN pos : pos[w] \in Nat
  OBVIOUS
<1>3. reg' = NewHandle(created, n, reg.nextStateId, 0) /\ lastOp' = NoOp
  BY DEF CreateQubit
<1>4. q <= MaxQubitId /\ reg.nextStateId + 1 <= MaxStateId + 1
  BY DEF CreateQubit, Room
<1> HIDE DEF pos
<1>5. /\ WellFormed(created)
      /\ SamePlaces(reg, created)
      /\ created.nextStateId = reg.nextStateId + 1
  BY <1>1, <1>2, AddStateEffect
<1> HIDE DEF created
<1>6. /\ WellFormed(reg')
      /\ reg'.location = [p \in QubitId |-> IF p = q THEN AtNode(n) ELSE reg.location[p]]
      /\ reg'.nextQubitId = q + 1
      /\ reg'.nextStateId = reg.nextStateId + 1
  <2> DEFINE sid == reg.nextStateId
             t == NewHandle(created, n, sid, 0)
  <2>1. created.nextQubitId = q /\ created.location = reg.location
    BY <1>5 DEF SamePlaces
  <2>2. created.nextQubitId \in QubitId /\ 0 \in Nat /\ sid \in StateId
    BY <1>1, <2>1
  <2> HIDE DEF sid
  <2>3. /\ WellFormed(t)
        /\ t.location = [p \in QubitId |-> IF p = created.nextQubitId THEN AtNode(n)
                                            ELSE created.location[p]]
        /\ t.nextQubitId = created.nextQubitId + 1
        /\ t.nextStateId = created.nextStateId
        /\ t.stateOf = [p \in QubitId |-> IF p = created.nextQubitId THEN sid
                                           ELSE created.stateOf[p]]
    BY <1>5, <2>2, NewHandleEffect
  <2> HIDE DEF q, t
  <2> QED
    BY <1>3, <1>5, <2>1, <2>3 DEF t, sid
<1>7. Fits(reg')
  BY <1>1, <1>4, <1>6, FieldTypes, BoundsAssumption DEF Fits, Room, QubitId, StateId
<1>8. ProcInv'
  BY <1>3, <1>6, <1>7, NoOpType DEF ProcInv
<1>9. Moves(reg, reg')
  <2>1. Born(reg, reg') = {q}
    BY <1>1, <1>6 DEF Born, QubitId
  <2> HIDE DEF q
  <2> QED
    BY <1>6, <2>1 DEF Moves
<1> QED
  BY <1>8, <1>9

LEMMA CreateBellPairStep ==
  ASSUME ProcInv, NEW n \in Node, CreateBellPair(n)
  PROVE  ProcInv' /\ Moves(reg, reg')
<1> DEFINE q0 == reg.nextQubitId
           q1 == q0 + 1
           both == {q0, q1}
           sid == reg.nextStateId
           pos == [w \in both |-> w - q0]
           created == AddState(reg, pos)
           one == NewHandle(created, n, sid, 0)
           pair == NewHandle(one, n, sid, 1)
           hit == [q \in both |-> WiresAt(pair, q)]
<1>1. WellFormed(reg) /\ reg \in Registry /\ sid \in StateId
  BY RoomMeans DEF ProcInv, WellFormed, CreateBellPair
<1>2. /\ q0 \in QubitId
      /\ q1 \in QubitId
      /\ q0 # q1
      /\ sid + 1 <= MaxStateId + 1
      /\ q1 <= MaxQubitId
  BY <1>1, FieldTypes, BoundsAssumption DEF CreateBellPair, Room, QubitId
<1>3. reg' = MergeStates(pair, both) /\ lastOp' = Op("gate", both, hit)
  BY DEF CreateBellPair
<1>4. \A w \in DOMAIN pos : pos[w] \in Nat
  BY <1>2 DEF QubitId
<1>5. \A q \in both : hit[q] \in SUBSET QubitId
  BY DEF WiresAt
<1> HIDE DEF pos, hit
<1>6. /\ WellFormed(created)
      /\ created.location = reg.location
      /\ created.nextQubitId = q0
      /\ created.nextStateId = sid + 1
      /\ created.stateOf = reg.stateOf
  BY <1>1, <1>4, AddStateEffect DEF SamePlaces
<1> HIDE DEF created
<1>7. /\ WellFormed(one)
      /\ one.location = [p \in QubitId |-> IF p = q0 THEN AtNode(n) ELSE reg.location[p]]
      /\ one.nextQubitId = q1
      /\ one.nextStateId = sid + 1
      /\ one.stateOf = [p \in QubitId |-> IF p = q0 THEN sid ELSE reg.stateOf[p]]
  <2>1. created.nextQubitId \in QubitId /\ 0 \in Nat
    BY <1>2, <1>6
  <2>2. /\ WellFormed(one)
        /\ one.location = [p \in QubitId |-> IF p = created.nextQubitId THEN AtNode(n)
                                              ELSE created.location[p]]
        /\ one.nextQubitId = created.nextQubitId + 1
        /\ one.nextStateId = created.nextStateId
        /\ one.stateOf = [p \in QubitId |-> IF p = created.nextQubitId THEN sid
                                             ELSE created.stateOf[p]]
    BY <1>1, <1>6, <2>1, NewHandleEffect
  <2> HIDE DEF q0, sid, one
  <2> QED
    BY <1>6, <2>2
<1> HIDE DEF one
<1>8. /\ WellFormed(pair)
      /\ pair.location = [p \in QubitId |-> IF p = q1 THEN AtNode(n) ELSE one.location[p]]
      /\ pair.nextQubitId = q1 + 1
      /\ pair.nextStateId = sid + 1
      /\ pair.stateOf = [p \in QubitId |-> IF p = q1 THEN sid ELSE one.stateOf[p]]
  <2> HIDE DEF q0, q1, sid
  <2> QED
    BY <1>1, <1>2, <1>7, NewHandleEffect
<1> HIDE DEF pair
<1>9. pair.stateOf[q0] = sid /\ pair.stateOf[q1] = sid
  BY <1>2, <1>7, <1>8
<1>10. MergeStates(pair, both) = pair
  <2>1. StatesOf(pair, both) = {sid}
    BY <1>9 DEF StatesOf
  <2>2. Cardinality({sid}) = 1
    BY FS_Singleton
  <2> QED
    BY <2>1, <2>2 DEF MergeStates
<1>11. Fits(reg')
  <2>1. reg'.nextStateId = sid + 1 /\ reg'.nextQubitId = q1 + 1
    BY <1>3, <1>8, <1>10
  <2> QED
    BY <1>1, <1>2, <2>1, FieldTypes, BoundsAssumption DEF Fits, Room, QubitId
<1>12. lastOp' \in [kind : OpKind, asked : SUBSET QubitId,
                    hit : [QubitId -> SUBSET QubitId]]
  <2>1. both \in SUBSET QubitId /\ "gate" \in OpKind
    BY <1>2 DEF OpKind
  <2> HIDE DEF both
  <2>2. Op("gate", both, hit) \in [kind : OpKind, asked : SUBSET QubitId,
                                  hit : [QubitId -> SUBSET QubitId]]
    BY <1>5, <2>1, OpType
  <2> QED
    BY <1>3, <2>2
<1>13. ProcInv'
  BY <1>3, <1>8, <1>10, <1>11, <1>12 DEF ProcInv
<1>14. Moves(reg, reg')
  <2>1. Born(reg, reg') = both
    BY <1>2, <1>3, <1>8, <1>10 DEF Born, QubitId
  <2>2. reg'.location = [p \in QubitId |-> IF p \in both THEN AtNode(n)
                                            ELSE reg.location[p]]
    BY <1>3, <1>7, <1>8, <1>10
  <2>3. both # {}
    OBVIOUS
  <2> HIDE DEF both
  <2> QED
    BY <2>1, <2>2, <2>3 DEF Moves
<1> QED
  BY <1>13, <1>14

LEMMA ApplyStep ==
  ASSUME ProcInv, NEW n \in Node, NEW qs \in SUBSET QubitId, Apply(n, qs)
  PROVE  ProcInv' /\ Moves(reg, reg')
<1> DEFINE merged == MergeStates(reg, qs)
           hit == [q \in qs |-> WiresAt(merged, q)]
<1>1. WellFormed(reg) /\ reg \in Registry /\ reg.nextStateId \in StateId
  BY RoomMeans DEF ProcInv, WellFormed, Apply
<1>2. \A q \in qs : reg.stateOf[q] \in StateId
  BY <1>1, FieldTypes DEF Apply, StatesOf
<1>3. reg' = merged /\ lastOp' = Op("gate", qs, hit)
  BY DEF Apply
<1>4. \A q \in qs : hit[q] \in SUBSET QubitId
  BY DEF WiresAt
<1> HIDE DEF hit
<1>5. /\ WellFormed(merged)
      /\ SamePlaces(reg, merged)
      /\ merged.nextStateId \in {reg.nextStateId, reg.nextStateId + 1}
  BY <1>1, <1>2, MergeStatesEffect
<1> HIDE DEF merged
<1>6. Fits(reg')
  BY <1>1, <1>3, <1>5, BoundsAssumption DEF ProcInv, Fits, Room, SamePlaces, StateId
<1>7. lastOp' \in [kind : OpKind, asked : SUBSET QubitId,
                   hit : [QubitId -> SUBSET QubitId]]
  BY <1>3, <1>4, OpType DEF OpKind
<1> QED
  BY <1>3, <1>5, <1>6, <1>7 DEF ProcInv, Moves

LEMMA MeasureStep ==
  ASSUME ProcInv, NEW n \in Node, NEW q \in QubitId, Measure(n, q)
  PROVE  ProcInv' /\ Moves(reg, reg')
<1> DEFINE split == Split(reg, q)
           asked == {q}
           hit == [p \in {q} |-> WiresAt(reg, q)]
<1>1. WellFormed(reg) /\ reg \in Registry /\ Room(reg, 2)
  BY DEF ProcInv, WellFormed, Measure
<1>2. reg.stateOf[q] \in StateId
  BY <1>1, FieldTypes DEF Measure
<1>3. reg' = split /\ lastOp' = Op("measure", asked, hit)
  BY DEF Measure
<1>4. asked \in SUBSET QubitId /\ \A p \in asked : hit[p] \in SUBSET QubitId
  BY DEF WiresAt
<1> HIDE DEF hit, asked
<1>5. /\ WellFormed(split)
      /\ SamePlaces(reg, split)
      /\ split.nextStateId \in {reg.nextStateId + 1, reg.nextStateId + 2}
  BY <1>1, <1>2, SplitEffect
<1> HIDE DEF split
<1>6. Fits(reg')
  BY <1>1, <1>3, <1>5, FieldTypes, BoundsAssumption DEF ProcInv, Fits, Room, SamePlaces
<1>7. lastOp' \in [kind : OpKind, asked : SUBSET QubitId,
                   hit : [QubitId -> SUBSET QubitId]]
  BY <1>3, <1>4, OpType DEF OpKind
<1> QED
  BY <1>3, <1>5, <1>6, <1>7 DEF ProcInv, Moves

LEMMA MeasureBellStep ==
  ASSUME ProcInv, NEW n \in Node, NEW a \in QubitId, NEW b \in QubitId,
         MeasureBell(n, a, b)
  PROVE  ProcInv' /\ Moves(reg, reg')
<1> DEFINE asked == {a, b}
           joined == MergeStates(reg, asked)
           first == Split(joined, a)
           second == Split(first, b)
           hit == [q \in {a, b} |-> IF q = a THEN WiresAt(joined, a)
                                    ELSE WiresAt(joined, b) \cup WiresAt(first, b)]
<1>1. WellFormed(reg) /\ reg \in Registry /\ reg.nextStateId \in StateId
  BY RoomMeans DEF ProcInv, WellFormed, MeasureBell
<1>2. Room(joined, 2) /\ Room(first, 2)
  BY DEF MeasureBell
<1>3. reg' = second /\ lastOp' = Op("measure", asked, hit)
  BY DEF MeasureBell
<1>4. /\ asked \in SUBSET QubitId
      /\ \A q \in asked : hit[q] \in SUBSET QubitId
      /\ a \in asked
      /\ b \in asked
  BY DEF WiresAt
<1>5. \A q \in asked : reg.stateOf[q] \in StateId
  BY <1>1, FieldTypes DEF MeasureBell, StatesOf
<1> HIDE DEF hit, asked
<1>6. /\ WellFormed(joined)
      /\ SamePlaces(reg, joined)
      /\ joined.stateOf[a] \in StateId
      /\ joined.stateOf[b] \in StateId
  BY <1>1, <1>4, <1>5, MergeStatesEffect
<1> HIDE DEF joined
<1>7. /\ WellFormed(first)
      /\ SamePlaces(joined, first)
      /\ first.stateOf[b] \in StateId
  BY <1>2, <1>6, SplitEffect
<1> HIDE DEF first
<1>8. /\ WellFormed(second)
      /\ SamePlaces(first, second)
      /\ second.nextStateId \in {first.nextStateId + 1, first.nextStateId + 2}
  BY <1>2, <1>7, SplitEffect
<1> HIDE DEF second
<1>9. SamePlaces(reg, reg')
  BY <1>3, <1>6, <1>7, <1>8 DEF SamePlaces
<1>10. Fits(reg')
  <2>1. first.nextStateId \in Nat
    BY <1>7, FieldTypes DEF WellFormed
  <2> QED
    BY <1>2, <1>3, <1>8, <1>9, <2>1, BoundsAssumption DEF ProcInv, Fits, Room, SamePlaces
<1>11. lastOp' \in [kind : OpKind, asked : SUBSET QubitId,
                    hit : [QubitId -> SUBSET QubitId]]
  BY <1>3, <1>4, OpType DEF OpKind
<1> QED
  BY <1>3, <1>8, <1>9, <1>10, <1>11 DEF ProcInv, Moves

LEMMA LoseQubitStep ==
  ASSUME ProcInv, NEW q \in QubitId, LoseQubit(q)
  PROVE  ProcInv' /\ Moves(reg, reg')
<1>1. WellFormed(reg) /\ q < reg.nextQubitId /\ Lost \in Location
  BY DEF ProcInv, LoseQubit, Created, Location
<1>2. reg' = SetLocation(reg, q, Lost) /\ lastOp' = NoOp
  BY DEF LoseQubit
<1>3. /\ WellFormed(reg')
      /\ reg'.location = [p \in QubitId |-> IF p = q THEN Lost ELSE reg.location[p]]
      /\ reg'.nextQubitId = reg.nextQubitId
      /\ reg'.nextStateId = reg.nextStateId
  BY <1>1, <1>2, SetLocationEffect
<1> QED
  BY <1>1, <1>2, <1>3, NoOpType DEF ProcInv, Fits, Room, Moves, Created

LEMMA MovesPlaces ==
  ASSUME NEW r, NEW s, Moves(r, s)
  PROVE  PlacesStep(r, s)
BY DEF Moves, Born, SamePlaces, Created, PlacesStep, PlaceStep

(* Every call of the processor keeps the invariant.                        *)
LEMMA ProcStep ==
  ASSUME ProcInv, ProcNext
  PROVE  ProcInv' /\ Moves(reg, reg') /\ PlacesStep(reg, reg')
<1>1. ASSUME NEW n \in Node, CreateQubit(n)
      PROVE  ProcInv' /\ Moves(reg, reg')
  BY <1>1, CreateQubitStep
<1>2. ASSUME NEW n \in Node, CreateBellPair(n)
      PROVE  ProcInv' /\ Moves(reg, reg')
  BY <1>2, CreateBellPairStep
<1>3. ASSUME NEW n \in Node, NEW qs \in SUBSET QubitId, Apply(n, qs)
      PROVE  ProcInv' /\ Moves(reg, reg')
  BY <1>3, ApplyStep
<1>4. ASSUME NEW n \in Node, NEW q \in QubitId, Measure(n, q)
      PROVE  ProcInv' /\ Moves(reg, reg')
  BY <1>4, MeasureStep
<1>5. ASSUME NEW n \in Node, NEW a \in QubitId, NEW b \in QubitId, MeasureBell(n, a, b)
      PROVE  ProcInv' /\ Moves(reg, reg')
  BY <1>5, MeasureBellStep
<1>6. ASSUME NEW q \in QubitId, LoseQubit(q)
      PROVE  ProcInv' /\ Moves(reg, reg')
  BY <1>6, LoseQubitStep
<1>7. ProcInv' /\ Moves(reg, reg')
  BY <1>1, <1>2, <1>3, <1>4, <1>5, <1>6 DEF ProcNext
<1> QED
  BY <1>7, MovesPlaces

(* The empty registry is well formed and within the bounds.                *)
LEMMA ProcInitInv ==
  ASSUME ProcInit
  PROVE  ProcInv
<1>1. reg = EmptyRegistry /\ lastOp = NoOp
  BY DEF ProcInit
<1>2. EmptyRegistry \in Registry
  BY DEF EmptyRegistry, Registry, StateRef, Location
<1>3. IndexAgrees(EmptyRegistry) /\ UnusedUnset(EmptyRegistry)
  BY PlacesDiffer DEF IndexAgrees, UnusedUnset, EmptyRegistry
<1>4. Fits(EmptyRegistry)
  BY BoundsAssumption DEF Fits, Room, EmptyRegistry
<1> QED
  BY <1>1, <1>2, <1>3, <1>4, NoOpType DEF ProcInv, WellFormed

-----------------------------------------------------------------------------
(* Every run of the processor stays well formed and within the bounds.     *)
LEMMA ProcInvariant == ProcSpec => []ProcInv
<1>1. ProcInit => ProcInv
  BY ProcInitInv
<1>2. ProcInv /\ [ProcNext]_procVars => ProcInv'
  <2>1. ASSUME ProcInv, UNCHANGED procVars
        PROVE  ProcInv'
    BY <2>1 DEF ProcInv, procVars
  <2> QED
    BY <2>1, ProcStep
<1> QED
  BY <1>1, <1>2, PTL DEF ProcSpec

(* TypeOK, for every set of nodes and every bound on the ids: the counts   *)
(* that MergeStates and Measure turn into indices and positions never go   *)
(* below 0, and ids stay in range, through any sequence of calls.          *)
THEOREM ProcTypeCorrect == ProcSpec => []TypeOK
<1>1. ProcInv => TypeOK
  BY DEF ProcInv, WellFormed, TypeOK
<1> QED
  BY <1>1, ProcInvariant, PTL

=============================================================================
