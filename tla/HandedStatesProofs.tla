------------------------- MODULE HandedStatesProofs --------------------------
(***************************************************************************)
(* HandedInTwice for every number of objects, qubits and states.           *)
(*                                                                         *)
(* HandedInv is the inductive invariant.  It has to say what is left of    *)
(* the agreement of handles, members and objects when an object is in the  *)
(* registry under two ids: only a state that a qubit names, or that its    *)
(* object was told last, has the qubits that name it as its members; but   *)
(* wherever a qubit names a state, its index leads to its wire.  Inside a  *)
(* handler some qubits are bound to nothing, so the invariant takes them   *)
(* as a parameter (Good), and each part of a handler - taking qubits from  *)
(* their states, registering an object, binding, removing empty states -   *)
(* preserves it or says whom it binds.                                     *)
(***************************************************************************)
EXTENDS HandedStates, FiniteSetTheorems, SequenceTheorems, TLAPS

Handle == [state : Nat, index : Nat, wire : Given]

(* The fields of the registry and the handles, and no others.              *)
IsRecord(r) ==
  r = [states |-> r.states, stateId |-> r.stateId, wires |-> r.wires,
       members |-> r.members, qubits |-> r.qubits, next |-> r.next]

Qubits(r) == DOMAIN r.qubits
StateOf(r, q) == r.qubits[q].state
IndexOf(r, q) == r.qubits[q].index
WireOf(r, q) == r.qubits[q].wire

(* In the middle of a handler the qubits P are not bound; no claim is made *)
(* of them.  Bound are the others that name a state.                       *)
Bound(r, P, s) == {q \in Qubits(r) \ P : StateOf(r, q) = s}

Kinds(r) ==
  /\ IsRecord(r)
  /\ r.next \in Nat \ {0}
  /\ DOMAIN r.states \subseteq 1..(r.next - 1)
  /\ DOMAIN r.members = DOMAIN r.states
  /\ r.qubits \in Seq(Handle)
  /\ \A q \in Qubits(r) : StateOf(r, q) < r.next

(* An object of the caller describes its wire; one the registry made has   *)
(* one id.                                                                 *)
Objects(r) ==
  /\ \A o \in Given : r.wires[GivenObject(o)] = <<o>>
  /\ \A o \in Given : GivenObject(o) \in DOMAIN r.wires
  /\ \A s \in DOMAIN r.states :
       \/ \E o \in Given : r.states[s] = GivenObject(o)
       \/ r.states[s] = MadeObject(s) /\ r.stateId[MadeObject(s)] = s
  /\ \A s \in DOMAIN r.states :
       r.states[s] \in DOMAIN r.wires /\ r.states[s] \in DOMAIN r.stateId
  /\ \A x \in DOMAIN r.wires : r.wires[x] \in Seq(Given)
  /\ \A x \in DOMAIN r.stateId :
       /\ r.stateId[x] \in 1..(r.next - 1)
       /\ r.stateId[x] \in DOMAIN r.states => r.states[r.stateId[x]] = x

(* The id an object was last told.                                         *)
Current(r, s) == r.stateId[r.states[s]] = s

(* A state that is named by a qubit, or by its object, has the qubits that *)
(* name it as its members.  (Of a state that neither names, members_ may   *)
(* still list a qubit that was measured.)                                  *)
MembersBound(r, P) ==
  \A s \in DOMAIN r.states :
    Current(r, s) \/ Bound(r, P, s) # {} => r.members[s] = Bound(r, P, s)

(* The indices of qs are 0, 1, ...                                         *)
Ranked(qs, f) ==
  /\ \A x \in qs : f[x] = Cardinality({y \in qs : f[y] < f[x]})
  /\ \A x, y \in qs : f[x] = f[y] => x = y

Indices(r, qs) == [q \in qs |-> IndexOf(r, q)]

(* The index of a qubit leads to its wire.                                 *)
InPlace(r, qs, ws) ==
  /\ Len(ws) = Cardinality(qs)
  /\ Ranked(qs, Indices(r, qs))
  /\ \A q \in qs : ws[IndexOf(r, q) + 1] = WireOf(r, q)

AllInPlace(r, P) ==
  \A s \in DOMAIN r.states :
    Bound(r, P, s) # {} => InPlace(r, Bound(r, P, s), r.wires[r.states[s]])

Shares(r, q) == \E p \in Qubits(r) \ {q} : WireOf(r, p) = WireOf(r, q)

OrphansShare(r, P) ==
  \A q \in Qubits(r) \ P : StateOf(r, q) \notin DOMAIN r.states => Shares(r, q)

Good(r, P) ==
  Kinds(r) /\ Objects(r) /\ MembersBound(r, P) /\ AllInPlace(r, P) /\ OrphansShare(r, P)

HandedInv == Good(Value, {}) /\ ActsOnOwnWire

-----------------------------------------------------------------------------
(* Ranks.                                                                  *)

LEMMA RankBelow ==
  ASSUME NEW qs, IsFiniteSet(qs), NEW f, \A x \in qs : f[x] \in Nat, NEW x \in qs
  PROVE  /\ Cardinality({y \in qs : f[y] < f[x]}) \in Nat
         /\ Cardinality({y \in qs : f[y] < f[x]}) < Cardinality(qs)
<1> DEFINE below == {y \in qs : f[y] < f[x]}
<1>1. below \subseteq qs /\ x \notin below
  OBVIOUS
<1> HIDE DEF below
<1>2. IsFiniteSet(below) /\ Cardinality(below) <= Cardinality(qs)
      /\ (Cardinality(below) = Cardinality(qs) => below = qs)
  BY <1>1, FS_Subset
<1>3. Cardinality(below) \in Nat /\ Cardinality(qs) \in Nat
  BY <1>2, FS_CardinalityType
<1>4. Cardinality(below) # Cardinality(qs)
  BY <1>1, <1>2
<1>5. Cardinality(below) \in Nat /\ Cardinality(below) < Cardinality(qs)
  BY <1>2, <1>3, <1>4
<1> QED
  BY <1>5 DEF below

(* Sorting: the places of distinct indices are ranks.                      *)
Distinct(qs, f) ==
  (\A x \in qs : f[x] \in Nat) /\ \A x, y \in qs : f[x] = f[y] => x = y

Sorted(qs, f, g) == \A x \in qs : g[x] = Cardinality({y \in qs : f[y] < f[x]})

LEMMA PlacesRanked ==
  ASSUME NEW qs, IsFiniteSet(qs), NEW f, Distinct(qs, f), NEW g, Sorted(qs, f, g)
  PROVE  Ranked(qs, g)
<1> DEFINE below(x) == {y \in qs : f[y] < f[x]}
<1>0. /\ \A x \in qs : f[x] \in Nat
      /\ \A x, y \in qs : f[x] = f[y] => x = y
      /\ \A x \in qs : g[x] = Cardinality({y \in qs : f[y] < f[x]})
  BY DEF Distinct, Sorted
<1>1. ASSUME NEW x \in qs
      PROVE  g[x] = Cardinality(below(x)) /\ g[x] \in Nat /\ IsFiniteSet(below(x))
  <2>1. below(x) \subseteq qs /\ g[x] = Cardinality(below(x))
    BY <1>0
  <2>2. Cardinality({y \in qs : f[y] < f[x]}) \in Nat
    BY <1>0, RankBelow
  <2> QED
    BY <2>1, <2>2, FS_Subset
<1>2. ASSUME NEW x \in qs, NEW y \in qs, f[y] < f[x]
      PROVE  g[y] < g[x]
  <2>1. below(y) \subseteq below(x)
    BY <1>0, <1>2
  <2>2. y \in below(x) /\ y \notin below(y)
    BY <1>0, <1>2
  <2> HIDE DEF below
  <2>3. Cardinality(below(y)) <= Cardinality(below(x))
        /\ (Cardinality(below(y)) = Cardinality(below(x)) => below(y) = below(x))
    BY <1>1, <2>1, FS_Subset
  <2>4. Cardinality(below(y)) # Cardinality(below(x))
    BY <2>2, <2>3
  <2>5. g[x] = Cardinality(below(x)) /\ g[y] = Cardinality(below(y))
        /\ g[x] \in Nat /\ g[y] \in Nat
    BY <1>1
  <2> QED
    BY <2>3, <2>4, <2>5
<1>3. \A x, y \in qs : g[y] < g[x] <=> f[y] < f[x]
  <2>1. SUFFICES ASSUME NEW x \in qs, NEW y \in qs, ~(f[y] < f[x])
                 PROVE  ~(g[y] < g[x])
    BY <1>2
  <2>2. f[x] \in Nat /\ f[y] \in Nat
    BY <1>0
  <2>3. g[x] \in Nat /\ g[y] \in Nat
    BY <1>1
  <2> HIDE DEF below
  <2>4. CASE f[x] = f[y]
    <3>1. x = y
      BY <1>0, <2>4
    <3>2. ~(g[x] < g[x])
      BY <2>3
    <3> QED
      BY <3>1, <3>2
  <2>5. CASE f[x] < f[y]
    <3>1. g[x] < g[y]
      BY <1>2, <2>5
    <3> QED
      BY <2>3, <3>1
  <2> QED
    BY <2>1, <2>2, <2>4, <2>5
<1>4. \A x \in qs : {y \in qs : g[y] < g[x]} = below(x)
  BY <1>3
<1>5. ASSUME NEW x \in qs, NEW y \in qs, g[x] = g[y]
      PROVE  x = y
  <2>1. ~(f[y] < f[x]) /\ ~(f[x] < f[y])
    <3>1. g[x] \in Nat /\ g[y] \in Nat
      BY <1>1
    <3>2. ~(g[y] < g[x]) /\ ~(g[x] < g[y])
      BY <1>5, <3>1
    <3> QED
      BY <1>3, <3>2
  <2>2. f[x] \in Nat /\ f[y] \in Nat
    BY <1>0
  <2>3. f[x] = f[y]
    BY <2>1, <2>2
  <2> QED
    BY <1>0, <2>3
<1> HIDE DEF below
<1> QED
  BY <1>1, <1>4, <1>5 DEF Ranked

(* Joining: the second set follows the first.                              *)
LEMMA JoinedRanked ==
  ASSUME NEW a, NEW b, IsFiniteSet(a), IsFiniteSet(b), a \cap b = {},
         NEW f, \A x \in a \cup b : f[x] \in Nat, Ranked(a, f), Ranked(b, f),
         NEW g, \A x \in a : g[x] = f[x], \A x \in b : g[x] = Cardinality(a) + f[x]
  PROVE  Ranked(a \cup b, g)
<1> DEFINE na == Cardinality(a)
<1>1. na \in Nat
  BY FS_CardinalityType
<1>2. ASSUME NEW x \in a
      PROVE  f[x] < na
  <2>1. Cardinality({y \in a : f[y] < f[x]}) < Cardinality(a)
    BY RankBelow
  <2>2. f[x] = Cardinality({y \in a : f[y] < f[x]})
    BY DEF Ranked
  <2> QED
    BY <2>1, <2>2
<1> HIDE DEF na
<1>3. /\ \A x \in a : g[x] \in Nat /\ g[x] < na
      /\ \A x \in b : g[x] \in Nat /\ g[x] >= na
  BY <1>1, <1>2 DEF na
<1>4. ASSUME NEW x \in a
      PROVE  g[x] = Cardinality({y \in a \cup b : g[y] < g[x]})
  <2>1. {y \in a \cup b : g[y] < g[x]} = {y \in a : f[y] < f[x]}
    BY <1>1, <1>3
  <2> QED
    BY <2>1 DEF Ranked
<1>5. ASSUME NEW x \in b
      PROVE  g[x] = Cardinality({y \in a \cup b : g[y] < g[x]})
  <2> DEFINE under == {y \in b : f[y] < f[x]}
  <2>1. {y \in a \cup b : g[y] < g[x]} = a \cup under
    <3>1. \A y \in a : g[y] < g[x]
      BY <1>1, <1>3
    <3>2. \A y \in b : g[y] < g[x] <=> f[y] < f[x]
      BY <1>1 DEF na
    <3> QED
      BY <3>1, <3>2
  <2>2. f[x] = Cardinality(under)
    BY DEF Ranked
  <2>3. IsFiniteSet(under) /\ a \cap under = {}
    BY FS_Subset
  <2> HIDE DEF under
  <2>4. Cardinality(a \cup under) = Cardinality(a) + Cardinality(under) - Cardinality(a \cap under)
    BY <2>3, FS_Union
  <2>5. Cardinality(a \cap under) = 0
    BY <2>3, FS_EmptySet
  <2>6. Cardinality(under) \in Nat
    BY <2>2
  <2>7. Cardinality(a \cup under) = na + f[x]
    BY <1>1, <2>2, <2>4, <2>5, <2>6 DEF na
  <2> QED
    BY <2>1, <2>7 DEF na
<1>6. ASSUME NEW x \in a \cup b, NEW y \in a \cup b, g[x] = g[y]
      PROVE  x = y
  <2>1. CASE x \in a /\ y \in a
    BY <1>6, <2>1 DEF Ranked
  <2>2. CASE x \in b /\ y \in b
    <3>1. f[x] = f[y]
      BY <1>1, <1>6, <2>2 DEF na
    <3> QED
      BY <2>2, <3>1 DEF Ranked
  <2>3. CASE x \in a /\ y \in b
    <3>1. g[x] \in Nat /\ g[y] \in Nat /\ g[x] < na /\ g[y] >= na
      BY <1>3, <2>3
    <3> QED
      BY <1>1, <1>6, <3>1
  <2>4. CASE x \in b /\ y \in a
    <3>1. g[x] \in Nat /\ g[y] \in Nat /\ g[y] < na /\ g[x] >= na
      BY <1>3, <2>4
    <3> QED
      BY <1>1, <1>6, <3>1
  <2> QED
    BY <2>1, <2>2, <2>3, <2>4
<1> QED
  BY <1>4, <1>5, <1>6 DEF Ranked

(* Taking one out: those after it move up by one.                          *)
LEMMA RestPlaces ==
  ASSUME NEW qs, IsFiniteSet(qs), NEW f, \A x \in qs : f[x] \in Nat, Ranked(qs, f),
         NEW q \in qs, NEW x \in qs \ {q}
  PROVE  Cardinality({y \in qs \ {q} : f[y] < f[x]}) = IF f[x] < f[q] THEN f[x] ELSE f[x] - 1
<1> DEFINE under == {y \in qs : f[y] < f[x]}
<1>1. f[x] = Cardinality(under) /\ IsFiniteSet(under)
  BY FS_Subset DEF Ranked
<1>2. f[x] # f[q]
  BY DEF Ranked
<1>3. CASE f[x] < f[q]
  <2>1. {y \in qs \ {q} : f[y] < f[x]} = under
    BY <1>3
  <2> QED
    BY <1>1, <1>3, <2>1
<1>4. CASE ~(f[x] < f[q])
  <2>1. {y \in qs \ {q} : f[y] < f[x]} = under \ {q}
    OBVIOUS
  <2>2. q \in under
    BY <1>2, <1>4
  <2> HIDE DEF under
  <2>3. Cardinality(under \ {q}) = Cardinality(under) - 1
    BY <1>1, <2>2, FS_RemoveElement
  <2> QED
    BY <1>1, <1>4, <2>1, <2>3
<1> QED
  BY <1>3, <1>4

-----------------------------------------------------------------------------
(* The parts of a handler.                                                 *)

LEMMA UnregisteredFields ==
  ASSUME NEW r, IsRecord(r), NEW qs
  PROVE  LET u == Unregistered(r, qs)
         IN  /\ IsRecord(u)
             /\ u.states = r.states /\ u.stateId = r.stateId /\ u.wires = r.wires
             /\ u.qubits = r.qubits /\ u.next = r.next
             /\ u.members = [sid \in DOMAIN r.members |-> r.members[sid] \ qs]
<1> DEFINE m == [sid \in DOMAIN r.members |-> r.members[sid] \ qs]
<1>1. Unregistered(r, qs) = [r EXCEPT !.members = m]
  BY DEF Unregistered
<1> HIDE DEF m
<1>2. Unregistered(r, qs) =
        [states |-> r.states, stateId |-> r.stateId, wires |-> r.wires, members |-> m,
         qubits |-> r.qubits, next |-> r.next]
  BY <1>1 DEF IsRecord
<1>3. /\ IsRecord(Unregistered(r, qs))
      /\ Unregistered(r, qs).states = r.states /\ Unregistered(r, qs).stateId = r.stateId
      /\ Unregistered(r, qs).wires = r.wires /\ Unregistered(r, qs).qubits = r.qubits
      /\ Unregistered(r, qs).next = r.next /\ Unregistered(r, qs).members = m
  BY <1>2 DEF IsRecord
<1> QED
  BY <1>3 DEF m

LEMMA CreatedFields ==
  ASSUME NEW r, IsRecord(r), NEW x
  PROVE  LET u == CreateStateFromExisting(r, x)
         IN  /\ IsRecord(u)
             /\ u.states = With(r.states, r.next, x)
             /\ u.stateId = With(r.stateId, x, r.next)
             /\ u.members = With(r.members, r.next, {})
             /\ u.wires = r.wires /\ u.qubits = r.qubits /\ u.next = r.next + 1
<1> DEFINE f == With(r.states, r.next, x)
           g == With(r.stateId, x, r.next)
           h == With(r.members, r.next, {})
           n == r.next + 1
<1>1. CreateStateFromExisting(r, x) =
        [r EXCEPT !.states = f, !.stateId = g, !.members = h, !.next = n]
  BY DEF CreateStateFromExisting
<1> HIDE DEF f, g, h, n
<1>2. CreateStateFromExisting(r, x) =
        [states |-> f, stateId |-> g, wires |-> r.wires, members |-> h,
         qubits |-> r.qubits, next |-> n]
  BY <1>1 DEF IsRecord
<1> QED
  BY <1>2 DEF IsRecord, f, g, h, n

LEMMA RegisteredFields ==
  ASSUME NEW r, IsRecord(r), NEW place
  PROVE  LET u == Bind(r, place)
             sid == r.next - 1
         IN  /\ IsRecord(u)
             /\ u.states = r.states /\ u.stateId = r.stateId /\ u.wires = r.wires
             /\ u.next = r.next
             /\ u.members = [r.members EXCEPT ![sid] = @ \cup DOMAIN place]
             /\ u.qubits = [q \in DOMAIN r.qubits |->
                              IF q \in DOMAIN place
                              THEN [r.qubits[q] EXCEPT !.state = sid, !.index = place[q]]
                              ELSE r.qubits[q]]
<1> DEFINE m == [r.members EXCEPT ![r.next - 1] = @ \cup DOMAIN place]
           qs == [q \in DOMAIN r.qubits |->
                    IF q \in DOMAIN place
                    THEN [r.qubits[q] EXCEPT !.state = r.next - 1, !.index = place[q]]
                    ELSE r.qubits[q]]
<1>1. Bind(r, place) = [r EXCEPT !.members = m, !.qubits = qs]
  BY DEF Bind, Registered
<1> HIDE DEF m, qs
<1>2. Bind(r, place) =
        [states |-> r.states, stateId |-> r.stateId, wires |-> r.wires, members |-> m,
         qubits |-> qs, next |-> r.next]
  BY <1>1 DEF IsRecord
<1>3. /\ IsRecord(Bind(r, place))
      /\ Bind(r, place).states = r.states /\ Bind(r, place).stateId = r.stateId
      /\ Bind(r, place).wires = r.wires /\ Bind(r, place).next = r.next
      /\ Bind(r, place).members = m /\ Bind(r, place).qubits = qs
  BY <1>2 DEF IsRecord
<1> QED
  BY <1>3 DEF m, qs

LEMMA RemovedFields ==
  ASSUME NEW r, IsRecord(r), NEW sids
  PROVE  LET u == RemoveIfEmpty(r, sids)
             empty == {sid \in sids : QubitsOf(r, sid) = {}}
         IN  /\ IsRecord(u)
             /\ u.states = Without(r.states, empty) /\ u.members = Without(r.members, empty)
             /\ u.stateId = r.stateId /\ u.wires = r.wires
             /\ u.qubits = r.qubits /\ u.next = r.next
<1> DEFINE empty == {sid \in sids : QubitsOf(r, sid) = {}}
           f == Without(r.states, empty)
           m == Without(r.members, empty)
<1>1. RemoveIfEmpty(r, sids) = [r EXCEPT !.states = f, !.members = m]
  BY DEF RemoveIfEmpty
<1> HIDE DEF empty, f, m
<1>2. RemoveIfEmpty(r, sids) =
        [states |-> f, stateId |-> r.stateId, wires |-> r.wires, members |-> m,
         qubits |-> r.qubits, next |-> r.next]
  BY <1>1 DEF IsRecord
<1> QED
  BY <1>2 DEF IsRecord, f, m, empty

LEMMA HandleFields ==
  ASSUME NEW r, Kinds(r), NEW q \in Qubits(r)
  PROVE  /\ StateOf(r, q) \in Nat /\ IndexOf(r, q) \in Nat /\ WireOf(r, q) \in Given
         /\ StateOf(r, q) < r.next
         /\ r.qubits[q] = [state |-> StateOf(r, q), index |-> IndexOf(r, q),
                           wire |-> WireOf(r, q)]
<1>1. r.qubits \in Seq(Handle) /\ StateOf(r, q) < r.next
  BY DEF Kinds
<1>2. r.qubits[q] \in Handle
  BY <1>1 DEF Qubits
<1> QED
  BY <1>1, <1>2 DEF Handle, StateOf, IndexOf, WireOf

(* Steps that change no qubit leave what is said of them.                  *)
LEMMA BoundSame ==
  ASSUME NEW r, NEW u, u.qubits = r.qubits, NEW P, NEW s
  PROVE  Bound(u, P, s) = Bound(r, P, s)
BY DEF Bound, Qubits, StateOf

LEMMA InPlaceLike ==
  ASSUME NEW r, NEW u, NEW qs, NEW ws, InPlace(r, qs, ws),
         \A q \in qs : IndexOf(u, q) = IndexOf(r, q) /\ WireOf(u, q) = WireOf(r, q)
  PROVE  InPlace(u, qs, ws)
<1>1. Indices(u, qs) = Indices(r, qs)
  BY DEF Indices
<1> QED
  BY <1>1 DEF InPlace

LEMMA InPlaceSame ==
  ASSUME NEW r, NEW u, u.qubits = r.qubits, NEW qs, NEW ws, InPlace(r, qs, ws)
  PROVE  InPlace(u, qs, ws)
BY InPlaceLike DEF IndexOf, WireOf

(* The qubits of C are taken from their states: those of their members     *)
(* that are named there, all at once.                                      *)
LEMMA UnregisterGood ==
  ASSUME NEW r, Good(r, {}), NEW C, NEW M, M \subseteq C, C \subseteq Qubits(r),
         \A p \in C, q \in Qubits(r) : StateOf(r, p) = StateOf(r, q) => q \in C,
         \A q \in C \ M : StateOf(r, q) \in DOMAIN r.states => ~Current(r, StateOf(r, q))
  PROVE  Good(Unregistered(r, M), C)
<1> DEFINE u == Unregistered(r, M)
<1>1. Kinds(r) /\ Objects(r) /\ MembersBound(r, {}) /\ AllInPlace(r, {}) /\ OrphansShare(r, {})
  BY DEF Good
<1>2. /\ IsRecord(u)
      /\ u.states = r.states /\ u.stateId = r.stateId /\ u.wires = r.wires
      /\ u.qubits = r.qubits /\ u.next = r.next
      /\ u.members = [sid \in DOMAIN r.members |-> r.members[sid] \ M]
  BY <1>1, UnregisteredFields DEF Kinds
<1> HIDE DEF u
<1>3. Kinds(u)
  BY <1>1, <1>2 DEF Kinds, Qubits, StateOf
<1>4. Objects(u)
  BY <1>1, <1>2 DEF Objects
<1>5. ASSUME NEW s
      PROVE  /\ Bound(u, C, s) # {} => Bound(u, C, s) = Bound(r, {}, s) /\ Bound(r, {}, s) \cap C = {}
             /\ Bound(u, C, s) = {} => Bound(r, {}, s) \subseteq C
  BY <1>2 DEF Bound, Qubits, StateOf
<1>6. ASSUME NEW s \in DOMAIN u.states, Current(u, s) \/ Bound(u, C, s) # {}
      PROVE  u.members[s] = Bound(u, C, s)
  <2>1. Current(r, s) \/ Bound(r, {}, s) # {}
    BY <1>2, <1>5, <1>6 DEF Current
  <2>2. r.members[s] = Bound(r, {}, s) /\ s \in DOMAIN r.members
    BY <1>1, <1>2, <2>1 DEF MembersBound, Kinds
  <2>3. CASE Bound(u, C, s) # {}
    BY <1>2, <1>5, <2>2, <2>3
  <2>4. CASE Bound(u, C, s) = {}
    <3>1. Current(r, s) /\ Bound(r, {}, s) \subseteq C
      BY <1>2, <1>5, <1>6, <2>4 DEF Current
    <3>2. Bound(r, {}, s) \subseteq M
      BY <3>1, <1>2 DEF Bound
    <3> QED
      BY <1>2, <2>2, <2>4, <3>2
  <2> QED
    BY <2>3, <2>4
<1>7. ASSUME NEW s \in DOMAIN u.states, Bound(u, C, s) # {}
      PROVE  InPlace(u, Bound(u, C, s), u.wires[u.states[s]])
  <2>1. InPlace(r, Bound(r, {}, s), r.wires[r.states[s]])
    BY <1>1, <1>2, <1>5, <1>7 DEF AllInPlace
  <2> QED
    BY <1>2, <1>5, <1>7, <2>1, InPlaceSame
<1>8. OrphansShare(u, C)
  BY <1>1, <1>2 DEF OrphansShare, Shares, Qubits, StateOf, WireOf
<1> QED
  BY <1>3, <1>4, <1>6, <1>7, <1>8 DEF Good, MembersBound, AllInPlace, u

(* States without members are removed.                                     *)
LEMMA RemoveGood ==
  ASSUME NEW r, NEW P, Good(r, P), NEW sids
  PROVE  LET u == RemoveIfEmpty(r, sids)
         IN  /\ Good(u, P)
             /\ DOMAIN u.states = {s \in DOMAIN r.states : ~(s \in sids /\ r.members[s] = {})}
             /\ u.qubits = r.qubits
<1> DEFINE u == RemoveIfEmpty(r, sids)
           empty == {sid \in sids : QubitsOf(r, sid) = {}}
<1>1. Kinds(r) /\ Objects(r) /\ MembersBound(r, P) /\ AllInPlace(r, P) /\ OrphansShare(r, P)
  BY DEF Good
<1>2. /\ IsRecord(u)
      /\ u.states = Without(r.states, empty) /\ u.members = Without(r.members, empty)
      /\ u.stateId = r.stateId /\ u.wires = r.wires
      /\ u.qubits = r.qubits /\ u.next = r.next
  BY <1>1, RemovedFields DEF Kinds
<1> HIDE DEF u
<1>3. \A s \in DOMAIN r.states : s \in empty <=> s \in sids /\ r.members[s] = {}
  BY <1>1 DEF Kinds, QubitsOf
<1> HIDE DEF empty
<1>4. /\ DOMAIN u.states = (DOMAIN r.states) \ empty /\ DOMAIN u.members = (DOMAIN r.members) \ empty
      /\ \A s \in DOMAIN u.states : u.states[s] = r.states[s] /\ u.members[s] = r.members[s]
  BY <1>1, <1>2 DEF Without, Kinds
<1>5. Kinds(u)
  BY <1>1, <1>2, <1>4 DEF Kinds, Qubits, StateOf
<1>6. Objects(u)
  BY <1>1, <1>2, <1>4 DEF Objects
<1>7. \A s : Bound(u, P, s) = Bound(r, P, s)
  BY <1>2, BoundSame
<1>8. MembersBound(u, P)
  BY <1>1, <1>2, <1>4, <1>7 DEF MembersBound, Current
<1>9. AllInPlace(u, P)
  <2>1. SUFFICES ASSUME NEW s \in DOMAIN u.states, Bound(u, P, s) # {}
                 PROVE  InPlace(u, Bound(u, P, s), u.wires[u.states[s]])
    BY DEF AllInPlace
  <2>2. InPlace(r, Bound(r, P, s), r.wires[r.states[s]])
    BY <1>1, <1>4, <1>7, <2>1 DEF AllInPlace
  <2> QED
    BY <1>2, <1>4, <1>7, <2>2, InPlaceSame
<1>10. OrphansShare(u, P)
  <2>1. SUFFICES ASSUME NEW q \in Qubits(u) \ P, StateOf(u, q) \notin DOMAIN u.states
                 PROVE  Shares(u, q)
    BY DEF OrphansShare
  <2>2. q \in Qubits(r) \ P /\ StateOf(u, q) = StateOf(r, q)
    BY <1>2 DEF Qubits, StateOf
  <2>3. StateOf(r, q) \notin DOMAIN r.states
    <3>1. SUFFICES ASSUME StateOf(r, q) \in DOMAIN r.states
                   PROVE  FALSE
      OBVIOUS
    <3>2. q \in Bound(r, P, StateOf(r, q))
      BY <2>2 DEF Bound
    <3>3. r.members[StateOf(r, q)] # {}
      BY <1>1, <3>1, <3>2 DEF MembersBound
    <3> QED
      BY <1>3, <1>4, <2>1, <2>2, <3>1, <3>3
  <2>4. Shares(r, q)
    BY <1>1, <2>2, <2>3 DEF OrphansShare
  <2> QED
    BY <1>2, <2>4 DEF Shares, Qubits, WireOf
<1>11. DOMAIN u.states = {s \in DOMAIN r.states : ~(s \in sids /\ r.members[s] = {})}
  BY <1>3, <1>4
<1> QED
  BY <1>2, <1>5, <1>6, <1>8, <1>9, <1>10, <1>11 DEF Good, u

(* The last state registered has no qubits yet; its object describes ws.   *)
Fresh(r, ws) ==
  LET sid == r.next - 1
  IN  /\ sid \in DOMAIN r.states /\ Current(r, sid)
      /\ r.members[sid] = {} /\ r.wires[r.states[sid]] = ws

(* An object is registered, the caller's or a new one.                     *)
LEMMA CreateGood ==
  ASSUME NEW r, NEW P, Good(r, P), NEW x, x \in DOMAIN r.wires,
         (\E o \in Given : x = GivenObject(o)) \/ x = MadeObject(r.next)
  PROVE  LET u == CreateStateFromExisting(r, x)
         IN  /\ Good(u, P) /\ Fresh(u, r.wires[x])
             /\ u.qubits = r.qubits /\ u.next = r.next + 1 /\ u.wires = r.wires
             /\ DOMAIN u.states = DOMAIN r.states \cup {r.next}
             /\ \A s \in DOMAIN r.states :
                  u.states[s] = r.states[s] /\ u.members[s] = r.members[s]
<1> DEFINE u == CreateStateFromExisting(r, x)
           n == r.next
<1>1. Kinds(r) /\ Objects(r) /\ MembersBound(r, P) /\ AllInPlace(r, P) /\ OrphansShare(r, P)
  BY DEF Good
<1>2. /\ IsRecord(u)
      /\ u.states = With(r.states, n, x)
      /\ u.stateId = With(r.stateId, x, n)
      /\ u.members = With(r.members, n, {})
      /\ u.wires = r.wires /\ u.qubits = r.qubits /\ u.next = n + 1
  BY <1>1, CreatedFields DEF Kinds
<1> HIDE DEF u
<1>3. n \in Nat \ {0} /\ n \notin DOMAIN r.states /\ DOMAIN r.members = DOMAIN r.states
      /\ \A s \in DOMAIN r.states : s \in Nat /\ s # n /\ s < n
  BY <1>1 DEF Kinds
<1>4. /\ DOMAIN u.states = DOMAIN r.states \cup {n}
      /\ u.states[n] = x
      /\ \A s \in DOMAIN r.states : u.states[s] = r.states[s]
  BY <1>2, <1>3 DEF With
<1>5. /\ DOMAIN u.members = DOMAIN r.members \cup {n}
      /\ u.members[n] = {}
      /\ \A s \in DOMAIN r.states : u.members[s] = r.members[s]
  BY <1>2, <1>3 DEF With
<1>6. /\ DOMAIN u.stateId = DOMAIN r.stateId \cup {x}
      /\ u.stateId[x] = n
      /\ \A y \in DOMAIN r.stateId \ {x} : u.stateId[y] = r.stateId[y]
  BY <1>2 DEF With
<1>7. Kinds(u)
  <2>1. u.next \in Nat \ {0} /\ u.next - 1 = n
    BY <1>2, <1>3
  <2>2. DOMAIN u.states \subseteq 1..(u.next - 1) /\ DOMAIN u.members = DOMAIN u.states
    BY <1>1, <1>3, <1>4, <1>5, <2>1 DEF Kinds
  <2>3. u.qubits \in Seq(Handle)
    BY <1>1, <1>2 DEF Kinds
  <2>4. ASSUME NEW q \in Qubits(u)
        PROVE  StateOf(u, q) < u.next
    <3>1. q \in Qubits(r) /\ StateOf(u, q) = StateOf(r, q)
      BY <1>2 DEF Qubits, StateOf
    <3>2. StateOf(r, q) \in Nat /\ StateOf(r, q) < n
      BY <1>1, <3>1, HandleFields
    <3> QED
      BY <1>2, <1>3, <3>1, <3>2
  <2> QED
    BY <1>2, <2>1, <2>2, <2>3, <2>4 DEF Kinds
<1>8. \A s \in DOMAIN r.states : r.states[s] \in DOMAIN r.stateId /\ r.states[s] \in DOMAIN r.wires
  BY <1>1 DEF Objects
<1>9. Objects(u)
  <2>1. ASSUME NEW s \in DOMAIN u.states
        PROVE  \/ \E o \in Given : u.states[s] = GivenObject(o)
               \/ u.states[s] = MadeObject(s) /\ u.stateId[MadeObject(s)] = s
    <3>1. CASE s = n
      BY <1>4, <1>6, <3>1
    <3>2. CASE s # n
      <4>1. s \in DOMAIN r.states /\ u.states[s] = r.states[s]
        BY <1>4, <3>2
      <4>2. CASE \E o \in Given : r.states[s] = GivenObject(o)
        BY <4>1, <4>2
      <4>3. CASE r.states[s] = MadeObject(s) /\ r.stateId[MadeObject(s)] = s
        <5>1. MadeObject(s) # x
          BY <3>2 DEF MadeObject, GivenObject
        <5> QED
          BY <1>6, <1>8, <4>1, <4>3, <5>1
      <4> QED
        BY <1>1, <4>1, <4>2, <4>3 DEF Objects
    <3> QED
      BY <3>1, <3>2
  <2>2. \A s \in DOMAIN u.states : u.states[s] \in DOMAIN u.wires /\ u.states[s] \in DOMAIN u.stateId
    BY <1>2, <1>4, <1>6, <1>8
  <2>3. ASSUME NEW y \in DOMAIN u.stateId
        PROVE  /\ u.stateId[y] \in 1..(u.next - 1)
               /\ u.stateId[y] \in DOMAIN u.states => u.states[u.stateId[y]] = y
    <3>1. CASE y = x
      BY <1>2, <1>3, <1>4, <1>6, <3>1
    <3>2. CASE y # x
      <4>1. y \in DOMAIN r.stateId /\ u.stateId[y] = r.stateId[y]
        BY <1>6, <3>2
      <4>2. /\ r.stateId[y] \in 1..(n - 1)
            /\ r.stateId[y] \in DOMAIN r.states => r.states[r.stateId[y]] = y
        BY <1>1, <4>1 DEF Objects
      <4>3. r.stateId[y] # n /\ r.stateId[y] \in 1..(u.next - 1)
        BY <1>2, <1>3, <4>2
      <4> QED
        BY <1>4, <4>1, <4>2, <4>3
    <3> QED
      BY <3>1, <3>2
  <2>4. /\ \A o \in Given : u.wires[GivenObject(o)] = <<o>>
        /\ \A o \in Given : GivenObject(o) \in DOMAIN u.wires
        /\ \A y \in DOMAIN u.wires : u.wires[y] \in Seq(Given)
    BY <1>1, <1>2 DEF Objects
  <2> QED
    BY <2>1, <2>2, <2>3, <2>4 DEF Objects
<1>10. \A s : Bound(u, P, s) = Bound(r, P, s)
  BY <1>2, BoundSame
<1>11. Bound(u, P, n) = {}
  <2>1. SUFFICES ASSUME NEW q \in Bound(r, P, n)
                 PROVE  FALSE
    BY <1>10
  <2>2. StateOf(r, q) = n /\ q \in Qubits(r)
    BY DEF Bound
  <2>3. StateOf(r, q) < n
    BY <1>1, <2>2 DEF Kinds
  <2> QED
    BY <1>3, <2>2, <2>3
<1>12. ASSUME NEW s \in DOMAIN u.states, Current(u, s) \/ Bound(u, P, s) # {}
       PROVE  u.members[s] = Bound(u, P, s)
  <2>1. CASE s = n
    BY <1>5, <1>11, <2>1
  <2>2. CASE s # n
    <3>1. s \in DOMAIN r.states
      BY <1>4, <2>2
    <3>2. Current(u, s) => Current(r, s)
      BY <1>4, <1>6, <1>8, <2>2, <3>1 DEF Current
    <3> QED
      BY <1>1, <1>5, <1>10, <1>12, <3>1, <3>2 DEF MembersBound
  <2> QED
    BY <2>1, <2>2
<1>13. ASSUME NEW s \in DOMAIN u.states, Bound(u, P, s) # {}
       PROVE  InPlace(u, Bound(u, P, s), u.wires[u.states[s]])
  <2>1. s \in DOMAIN r.states /\ u.states[s] = r.states[s]
    BY <1>4, <1>11, <1>13
  <2>2. InPlace(r, Bound(r, P, s), r.wires[r.states[s]])
    BY <1>1, <1>10, <1>13, <2>1 DEF AllInPlace
  <2> QED
    BY <1>2, <1>10, <2>1, <2>2, InPlaceSame
<1>14. OrphansShare(u, P)
  BY <1>1, <1>2, <1>4 DEF OrphansShare, Shares, Qubits, StateOf, WireOf
<1>15. Good(u, P)
  BY <1>7, <1>9, <1>12, <1>13, <1>14 DEF Good, MembersBound, AllInPlace
<1>16. u.next - 1 = n
  BY <1>2, <1>3
<1>17. Fresh(u, r.wires[x])
  BY <1>2, <1>4, <1>5, <1>6, <1>16 DEF Fresh, Current
<1> QED
  BY <1>2, <1>4, <1>5, <1>15, <1>17 DEF u

(* A new object for the wires ws, registered.                              *)
LEMMA MakeGood ==
  ASSUME NEW r, NEW P, Good(r, P), NEW ws \in Seq(Given)
  PROVE  LET u == Make(r, ws)
         IN  /\ Good(u, P) /\ Fresh(u, ws)
             /\ u.qubits = r.qubits /\ u.next = r.next + 1
             /\ DOMAIN u.states = DOMAIN r.states \cup {r.next}
             /\ \A s \in DOMAIN r.states : u.members[s] = r.members[s]
<1> DEFINE x == MadeObject(r.next)
           w == With(r.wires, x, ws)
           v == [r EXCEPT !.wires = w]
<1>1. Kinds(r) /\ Objects(r) /\ MembersBound(r, P) /\ AllInPlace(r, P) /\ OrphansShare(r, P)
  BY DEF Good
<1>2. DOMAIN w = DOMAIN r.wires \cup {x} /\ w[x] = ws /\ \A y \in DOMAIN r.wires \ {x} : w[y] = r.wires[y]
  BY DEF With
<1>3. Make(r, ws) = CreateStateFromExisting(v, x)
  BY DEF Make
<1>4. x = MadeObject(r.next)
  OBVIOUS
<1> HIDE DEF x, w
<1>5. v = [states |-> r.states, stateId |-> r.stateId, wires |-> w, members |-> r.members,
           qubits |-> r.qubits, next |-> r.next]
  <2>1. IsRecord(r)
    BY <1>1 DEF Kinds
  <2> QED
    BY <2>1 DEF IsRecord
<1>6. /\ IsRecord(v) /\ v.states = r.states /\ v.stateId = r.stateId /\ v.wires = w
      /\ v.members = r.members /\ v.qubits = r.qubits /\ v.next = r.next
  BY <1>5 DEF IsRecord
<1> HIDE DEF v
<1>7. \A s \in DOMAIN r.states : r.states[s] # x /\ w[r.states[s]] = r.wires[r.states[s]]
  <2>1. SUFFICES ASSUME NEW s \in DOMAIN r.states
                 PROVE  r.states[s] # x /\ w[r.states[s]] = r.wires[r.states[s]]
    OBVIOUS
  <2>2. s # r.next
    BY <1>1 DEF Kinds
  <2>3. r.states[s] # x
    <3>1. CASE \E o \in Given : r.states[s] = GivenObject(o)
      BY <1>4, <3>1 DEF GivenObject, MadeObject
    <3>2. CASE r.states[s] = MadeObject(s)
      BY <1>4, <2>2, <3>2 DEF MadeObject
    <3> QED
      BY <1>1, <3>1, <3>2 DEF Objects
  <2>4. r.states[s] \in DOMAIN r.wires
    BY <1>1 DEF Objects
  <2> QED
    BY <1>2, <2>3, <2>4
<1>8. Kinds(v)
  BY <1>1, <1>6 DEF Kinds, Qubits, StateOf
<1>9. Objects(v)
  <2>1. \A o \in Given : GivenObject(o) # x
    BY <1>4 DEF GivenObject, MadeObject
  <2>2. \A o \in Given : v.wires[GivenObject(o)] = <<o>> /\ GivenObject(o) \in DOMAIN v.wires
    BY <1>1, <1>2, <1>6, <2>1 DEF Objects
  <2>3. \A y \in DOMAIN v.wires : v.wires[y] \in Seq(Given)
    BY <1>1, <1>2, <1>6 DEF Objects
  <2>4. \A s \in DOMAIN v.states : v.states[s] \in DOMAIN v.wires /\ v.states[s] \in DOMAIN v.stateId
    BY <1>1, <1>2, <1>6 DEF Objects
  <2> QED
    BY <1>1, <1>6, <2>2, <2>3, <2>4 DEF Objects
<1>10. \A s : Bound(v, P, s) = Bound(r, P, s)
  BY <1>6, BoundSame
<1>11. MembersBound(v, P)
  BY <1>1, <1>6, <1>10 DEF MembersBound, Current
<1>12. ASSUME NEW s \in DOMAIN v.states, Bound(v, P, s) # {}
       PROVE  InPlace(v, Bound(v, P, s), v.wires[v.states[s]])
  <2>1. InPlace(r, Bound(r, P, s), r.wires[r.states[s]])
    BY <1>1, <1>6, <1>10, <1>12 DEF AllInPlace
  <2>2. v.wires[v.states[s]] = r.wires[r.states[s]]
    BY <1>6, <1>7
  <2> QED
    BY <1>6, <1>10, <2>1, <2>2, InPlaceSame
<1>13. OrphansShare(v, P)
  BY <1>1, <1>6 DEF OrphansShare, Shares, Qubits, StateOf, WireOf
<1>14. Good(v, P)
  BY <1>8, <1>9, <1>11, <1>12, <1>13 DEF Good, AllInPlace
<1> DEFINE u == CreateStateFromExisting(v, x)
<1>15. /\ Good(u, P) /\ Fresh(u, v.wires[x])
       /\ u.qubits = v.qubits /\ u.next = v.next + 1 /\ u.wires = v.wires
       /\ DOMAIN u.states = DOMAIN v.states \cup {v.next}
       /\ \A s \in DOMAIN v.states : u.states[s] = v.states[s] /\ u.members[s] = v.members[s]
  BY <1>2, <1>4, <1>6, <1>14, CreateGood
<1> HIDE DEF u
<1>16. /\ Good(u, P) /\ Fresh(u, ws)
       /\ u.qubits = r.qubits /\ u.next = r.next + 1
       /\ DOMAIN u.states = DOMAIN r.states \cup {r.next}
       /\ \A s \in DOMAIN r.states : u.members[s] = r.members[s]
  BY <1>2, <1>6, <1>7, <1>15
<1> QED
  BY <1>3, <1>16 DEF u

(* What binding the qubits M to the last state changes, and what it leaves. *)
BindsTo(r, M, place, u) ==
  LET n == r.next - 1
  IN  /\ Kinds(u)
      /\ u.states = r.states /\ u.stateId = r.stateId /\ u.wires = r.wires
      /\ u.next = r.next /\ Qubits(u) = Qubits(r)
      /\ \A s \in DOMAIN r.states :
           u.members[s] = IF s = n THEN r.members[s] \cup M ELSE r.members[s]
      /\ \A q \in Qubits(r) : WireOf(u, q) = WireOf(r, q)
      /\ \A q \in M : StateOf(u, q) = n /\ IndexOf(u, q) = place[q]
      /\ \A q \in Qubits(r) \ M :
           StateOf(u, q) = StateOf(r, q) /\ IndexOf(u, q) = IndexOf(r, q)

LEMMA BindFields ==
  ASSUME NEW r, Kinds(r), NEW M, M \subseteq Qubits(r), NEW place \in [M -> Nat],
         r.next - 1 \in DOMAIN r.states
  PROVE  BindsTo(r, M, place, Bind(r, place))
<1> DEFINE u == Bind(r, place)
           n == r.next - 1
<1>1. /\ IsRecord(r) /\ r.next \in Nat \ {0} /\ DOMAIN r.members = DOMAIN r.states
      /\ DOMAIN r.states \subseteq 1..(r.next - 1)
  BY DEF Kinds
<1>2. n \in Nat /\ n < r.next /\ n \in DOMAIN r.states
  BY <1>1
<1>3. /\ IsRecord(u)
      /\ u.states = r.states /\ u.stateId = r.stateId /\ u.wires = r.wires /\ u.next = r.next
      /\ u.members = [r.members EXCEPT ![n] = @ \cup DOMAIN place]
      /\ u.qubits = [q \in DOMAIN r.qubits |->
                       IF q \in DOMAIN place
                       THEN [r.qubits[q] EXCEPT !.state = n, !.index = place[q]]
                       ELSE r.qubits[q]]
  BY <1>1, RegisteredFields
<1>4. DOMAIN place = M
  OBVIOUS
<1> HIDE DEF u, n
<1>5. /\ DOMAIN u.members = DOMAIN r.members
      /\ \A s \in DOMAIN r.states :
           u.members[s] = IF s = n THEN r.members[s] \cup M ELSE r.members[s]
  BY <1>1, <1>3, <1>4
<1>6. Qubits(u) = Qubits(r)
  BY <1>3 DEF Qubits
<1>7. ASSUME NEW q \in M
      PROVE  u.qubits[q] = [state |-> n, index |-> place[q], wire |-> WireOf(r, q)]
  <2>1. q \in Qubits(r)
    OBVIOUS
  <2>2. r.qubits[q] = [state |-> StateOf(r, q), index |-> IndexOf(r, q), wire |-> WireOf(r, q)]
    BY <2>1, HandleFields
  <2>3. u.qubits[q] = [r.qubits[q] EXCEPT !.state = n, !.index = place[q]]
    BY <1>3, <1>4, <2>1 DEF Qubits
  <2> DEFINE a == StateOf(r, q)
             b == IndexOf(r, q)
             c == WireOf(r, q)
             i == place[q]
  <2> HIDE DEF a, b, c, i
  <2>4. u.qubits[q] = [[state |-> a, index |-> b, wire |-> c] EXCEPT !.state = n, !.index = i]
    BY <2>2, <2>3 DEF a, b, c, i
  <2>5. u.qubits[q] = [state |-> n, index |-> i, wire |-> c]
    BY <2>4
  <2> QED
    BY <2>5 DEF c, i
<1>8. ASSUME NEW q \in Qubits(r) \ M
      PROVE  u.qubits[q] = r.qubits[q]
  BY <1>3, <1>4 DEF Qubits
<1>9. /\ \A q \in M : StateOf(u, q) = n /\ IndexOf(u, q) = place[q] /\ WireOf(u, q) = WireOf(r, q)
      /\ \A q \in Qubits(r) \ M : /\ StateOf(u, q) = StateOf(r, q) /\ IndexOf(u, q) = IndexOf(r, q)
                                  /\ WireOf(u, q) = WireOf(r, q)
  <2>1. ASSUME NEW q \in M
        PROVE  StateOf(u, q) = n /\ IndexOf(u, q) = place[q] /\ WireOf(u, q) = WireOf(r, q)
    <3> DEFINE c == WireOf(r, q)
    <3>1. u.qubits[q] = [state |-> n, index |-> place[q], wire |-> c]
      BY <1>7
    <3> HIDE DEF c
    <3>2. StateOf(u, q) = n /\ IndexOf(u, q) = place[q] /\ WireOf(u, q) = c
      BY <3>1 DEF StateOf, IndexOf, WireOf
    <3> QED
      BY <3>2 DEF c
  <2>2. ASSUME NEW q \in Qubits(r) \ M
        PROVE  /\ StateOf(u, q) = StateOf(r, q) /\ IndexOf(u, q) = IndexOf(r, q)
               /\ WireOf(u, q) = WireOf(r, q)
    BY <1>8 DEF StateOf, IndexOf, WireOf
  <2> QED
    BY <2>1, <2>2
<1>10. \A q \in Qubits(r) : WireOf(u, q) = WireOf(r, q)
  BY <1>9
<1>11. u.qubits \in Seq(Handle)
  <2>1. r.qubits \in Seq(Handle)
    BY DEF Kinds
  <2>2. PICK k \in Nat : r.qubits \in [1..k -> Handle]
    BY <2>1, SeqDef
  <2>3. ASSUME NEW q \in Qubits(r)
        PROVE  u.qubits[q] \in Handle
    <3>1. CASE q \in M
      <4>1. place[q] \in Nat /\ WireOf(r, q) \in Given
        BY <3>1, HandleFields
      <4>2. u.qubits[q] = [state |-> n, index |-> place[q], wire |-> WireOf(r, q)]
        BY <1>7, <3>1
      <4> QED
        BY <1>2, <4>1, <4>2 DEF Handle
    <3>2. CASE q \notin M
      BY <1>8, <2>2, <3>2 DEF Qubits
    <3> QED
      BY <3>1, <3>2
  <2>4. u.qubits \in [1..k -> Handle]
    <3>1. DOMAIN r.qubits = 1..k /\ u.qubits = [q \in DOMAIN r.qubits |-> u.qubits[q]]
      BY <1>3, <2>2
    <3> HIDE DEF Handle
    <3> QED
      BY <2>3, <3>1 DEF Qubits
  <2> QED
    BY <2>4, SeqDef
<1>12. Kinds(u)
  <2>1. \A q \in Qubits(u) : StateOf(u, q) < u.next
    <3>1. SUFFICES ASSUME NEW q \in Qubits(r)
                   PROVE  StateOf(u, q) < r.next
      BY <1>3, <1>6
    <3>2. StateOf(r, q) < r.next
      BY HandleFields
    <3> QED
      BY <1>2, <1>9, <3>2
  <2> QED
    BY <1>1, <1>3, <1>5, <1>11, <2>1 DEF Kinds
<1> QED
  BY <1>3, <1>5, <1>6, <1>9, <1>10, <1>12 DEF BindsTo, u, n

(* Each of the qubits M has a place of its own, that of its wire in ws.    *)
Fits(r, M, place, ws) ==
  /\ place \in [M -> Nat] /\ Ranked(M, place) /\ Len(ws) = Cardinality(M)
  /\ \A q \in M : ws[place[q] + 1] = WireOf(r, q)

(* The qubits M, bound to nothing, are bound to the last state registered, *)
(* each at the place of its wire.                                          *)
LEMMA BindGood ==
  ASSUME NEW r, NEW P, Good(r, P), P \subseteq Qubits(r), NEW ws, Fresh(r, ws),
         NEW M, M \subseteq P, NEW place, Fits(r, M, place, ws)
  PROVE  Good(Bind(r, place), P \ M)
<1> DEFINE u == Bind(r, place)
           n == r.next - 1
<1>0. /\ place \in [M -> Nat] /\ Ranked(M, place) /\ Len(ws) = Cardinality(M)
      /\ \A q \in M : ws[place[q] + 1] = WireOf(r, q)
  BY DEF Fits
<1>1. Kinds(r) /\ Objects(r) /\ MembersBound(r, P) /\ AllInPlace(r, P) /\ OrphansShare(r, P)
  BY DEF Good
<1>2. /\ n \in DOMAIN r.states /\ r.stateId[r.states[n]] = n
      /\ r.members[n] = {} /\ r.wires[r.states[n]] = ws
  BY DEF Fresh, Current
<1>3. /\ Kinds(u)
      /\ u.states = r.states /\ u.stateId = r.stateId /\ u.wires = r.wires
      /\ u.next = r.next /\ Qubits(u) = Qubits(r)
      /\ \A s \in DOMAIN r.states :
           u.members[s] = IF s = n THEN r.members[s] \cup M ELSE r.members[s]
      /\ \A q \in Qubits(r) : WireOf(u, q) = WireOf(r, q)
      /\ \A q \in M : StateOf(u, q) = n /\ IndexOf(u, q) = place[q]
      /\ \A q \in Qubits(r) \ M :
           StateOf(u, q) = StateOf(r, q) /\ IndexOf(u, q) = IndexOf(r, q)
  <2>1. M \subseteq Qubits(r) /\ Kinds(r) /\ r.next - 1 \in DOMAIN r.states
    BY <1>1, <1>2
  <2>2. BindsTo(r, M, place, u)
    BY <1>0, <2>1, BindFields
  <2> QED
    BY <2>2 DEF BindsTo
<1> HIDE DEF u, n
<1>4. Objects(u)
  BY <1>1, <1>3 DEF Objects
<1>5. Bound(r, P, n) = {}
  BY <1>1, <1>2 DEF MembersBound, Current
<1>6. Bound(u, P \ M, n) = M
  BY <1>3, <1>5 DEF Bound
<1>7. ASSUME NEW s, s # n
      PROVE  Bound(u, P \ M, s) = Bound(r, P, s)
  BY <1>3, <1>7 DEF Bound
<1>8. ASSUME NEW s \in DOMAIN u.states, Current(u, s) \/ Bound(u, P \ M, s) # {}
      PROVE  u.members[s] = Bound(u, P \ M, s)
  <2>1. CASE s = n
    BY <1>2, <1>3, <1>6, <2>1
  <2>2. CASE s # n
    <3>1. Current(r, s) \/ Bound(r, P, s) # {}
      BY <1>3, <1>7, <1>8, <2>2 DEF Current
    <3>2. r.members[s] = Bound(r, P, s)
      BY <1>1, <1>3, <3>1 DEF MembersBound
    <3> QED
      BY <1>3, <1>7, <2>2, <3>2
  <2> QED
    BY <2>1, <2>2
<1>9. ASSUME NEW s \in DOMAIN u.states, Bound(u, P \ M, s) # {}
      PROVE  InPlace(u, Bound(u, P \ M, s), u.wires[u.states[s]])
  <2>1. CASE s = n
    <3>1. Indices(u, M) = place
      BY <1>0, <1>3 DEF Indices
    <3>2. \A q \in M : ws[IndexOf(u, q) + 1] = WireOf(u, q)
      BY <1>0, <1>3
    <3>3. InPlace(u, M, ws)
      BY <1>0, <3>1, <3>2 DEF InPlace
    <3> QED
      BY <1>2, <1>3, <1>6, <2>1, <3>3
  <2>2. CASE s # n
    <3>1. Bound(r, P, s) # {} /\ Bound(u, P \ M, s) = Bound(r, P, s)
      BY <1>7, <1>9, <2>2
    <3>2. InPlace(r, Bound(r, P, s), r.wires[r.states[s]])
      BY <1>1, <1>3, <3>1 DEF AllInPlace
    <3>3. \A q \in Bound(r, P, s) : q \in Qubits(r) \ M
      BY DEF Bound
    <3>4. \A q \in Bound(r, P, s) : IndexOf(u, q) = IndexOf(r, q) /\ WireOf(u, q) = WireOf(r, q)
      BY <1>3, <3>3
    <3> QED
      BY <1>3, <3>1, <3>2, <3>4, InPlaceLike
  <2> QED
    BY <2>1, <2>2
<1>10. OrphansShare(u, P \ M)
  <2>1. SUFFICES ASSUME NEW q \in Qubits(u) \ (P \ M), StateOf(u, q) \notin DOMAIN u.states
                 PROVE  Shares(u, q)
    BY DEF OrphansShare
  <2>2. q \notin M
    BY <1>2, <1>3, <2>1
  <2>3. q \in Qubits(r) \ P /\ StateOf(r, q) \notin DOMAIN r.states
    BY <1>3, <2>1, <2>2
  <2>4. Shares(r, q)
    BY <1>1, <2>3 DEF OrphansShare
  <2> QED
    BY <1>3, <2>3, <2>4 DEF Shares
<1> QED
  BY <1>3, <1>4, <1>8, <1>9, <1>10 DEF Good, MembersBound, AllInPlace, u

(* Qubits left unbound whose states are gone do no harm if they share.     *)
LEMMA DropGood ==
  ASSUME NEW r, NEW P, Good(r, P),
         \A q \in P : StateOf(r, q) \notin DOMAIN r.states /\ Shares(r, q)
  PROVE  Good(r, {})
<1>1. Kinds(r) /\ Objects(r) /\ MembersBound(r, P) /\ AllInPlace(r, P) /\ OrphansShare(r, P)
  BY DEF Good
<1>2. \A s \in DOMAIN r.states : Bound(r, {}, s) = Bound(r, P, s)
  BY DEF Bound
<1>3. MembersBound(r, {}) /\ AllInPlace(r, {})
  BY <1>1, <1>2 DEF MembersBound, AllInPlace
<1>4. OrphansShare(r, {})
  BY <1>1 DEF OrphansShare
<1> QED
  BY <1>1, <1>3, <1>4 DEF Good

-----------------------------------------------------------------------------
(* CreateQubit.                                                            *)

LEMMA AppendGood ==
  ASSUME NEW r, Good(r, {}), NEW o \in Given
  PROVE  LET q == Len(r.qubits) + 1
             u == [r EXCEPT !.qubits = Append(r.qubits, [state |-> 0, index |-> 0, wire |-> o])]
         IN  Good(u, {q}) /\ q \in Qubits(u) /\ WireOf(u, q) = o /\ u.wires = r.wires
<1> DEFINE q == Len(r.qubits) + 1
           new == [state |-> 0, index |-> 0, wire |-> o]
           qs == Append(r.qubits, new)
           u == [r EXCEPT !.qubits = qs]
<1>1. Kinds(r) /\ Objects(r) /\ MembersBound(r, {}) /\ AllInPlace(r, {}) /\ OrphansShare(r, {})
  BY DEF Good
<1>2. new \in Handle /\ new.state = 0 /\ new.wire = o
  BY DEF Handle
<1>3. r.qubits \in Seq(Handle) /\ IsRecord(r)
  BY <1>1 DEF Kinds
<1> HIDE DEF new, Handle
<1>4. /\ qs \in Seq(Handle) /\ Len(qs) = q /\ qs[q] = new
      /\ \A i \in 1..Len(r.qubits) : qs[i] = r.qubits[i]
  BY <1>2, <1>3, AppendProperties
<1>5. Len(r.qubits) \in Nat /\ DOMAIN r.qubits = 1..Len(r.qubits) /\ DOMAIN qs = 1..q
  BY <1>3, <1>4, LenProperties
<1> HIDE DEF qs, q
<1>6. u = [states |-> r.states, stateId |-> r.stateId, wires |-> r.wires, members |-> r.members,
           qubits |-> qs, next |-> r.next]
  BY <1>3 DEF IsRecord
<1>7. /\ IsRecord(u) /\ u.states = r.states /\ u.stateId = r.stateId /\ u.wires = r.wires
      /\ u.members = r.members /\ u.qubits = qs /\ u.next = r.next
  BY <1>6 DEF IsRecord
<1> HIDE DEF u
<1>8. q = Len(r.qubits) + 1
  BY DEF q
<1>9. Qubits(u) = Qubits(r) \cup {q} /\ q \notin Qubits(r)
  BY <1>5, <1>7, <1>8 DEF Qubits
<1>10. \A p \in Qubits(r) : /\ StateOf(u, p) = StateOf(r, p) /\ IndexOf(u, p) = IndexOf(r, p)
                            /\ WireOf(u, p) = WireOf(r, p)
  BY <1>4, <1>5, <1>7 DEF Qubits, StateOf, IndexOf, WireOf
<1>11. StateOf(u, q) = 0 /\ WireOf(u, q) = o
  BY <1>2, <1>4, <1>7 DEF StateOf, WireOf
<1>12. Kinds(u)
  <2>1. \A p \in Qubits(u) : StateOf(u, p) < u.next
    <3>1. 0 < r.next
      BY <1>1 DEF Kinds
    <3> QED
      BY <1>1, <1>7, <1>9, <1>10, <1>11, <3>1 DEF Kinds
  <2> QED
    BY <1>1, <1>4, <1>7, <2>1 DEF Kinds
<1>13. Objects(u)
  BY <1>1, <1>7 DEF Objects
<1>14. \A s : Bound(u, {q}, s) = Bound(r, {}, s)
  BY <1>9, <1>10 DEF Bound
<1>15. MembersBound(u, {q})
  BY <1>1, <1>7, <1>14 DEF MembersBound, Current
<1>16. ASSUME NEW s \in DOMAIN u.states, Bound(u, {q}, s) # {}
       PROVE  InPlace(u, Bound(u, {q}, s), u.wires[u.states[s]])
  <2>1. InPlace(r, Bound(r, {}, s), r.wires[r.states[s]])
    BY <1>1, <1>7, <1>14, <1>16 DEF AllInPlace
  <2>2. \A p \in Bound(r, {}, s) : p \in Qubits(r)
    BY DEF Bound
  <2> QED
    BY <1>7, <1>10, <1>14, <2>1, <2>2, InPlaceLike
<1>17. OrphansShare(u, {q})
  BY <1>1, <1>7, <1>9, <1>10 DEF OrphansShare, Shares
<1>18. Good(u, {q}) /\ q \in Qubits(u) /\ WireOf(u, q) = o /\ u.wires = r.wires
  BY <1>7, <1>9, <1>11, <1>12, <1>13, <1>15, <1>16, <1>17 DEF Good, AllInPlace
<1> QED
  BY <1>18 DEF u, qs, q, new

(* One qubit at the head of the wires.                                     *)
LEMMA BindOne ==
  ASSUME NEW r, NEW P, Good(r, P), P \subseteq Qubits(r), NEW q \in P, Fresh(r, <<WireOf(r, q)>>)
  PROVE  Good(Bind(r, [x \in {q} |-> 0]), P \ {q})
<1> DEFINE place == [x \in {q} |-> 0]
           ws == <<WireOf(r, q)>>
<1>1. place \in [{q} -> Nat] /\ place[q] = 0
  OBVIOUS
<1>2. Ranked({q}, place)
  <2>1. {y \in {q} : place[y] < place[q]} = {}
    BY <1>1
  <2> QED
    BY <1>1, <2>1, FS_EmptySet DEF Ranked
<1>3. Len(ws) = Cardinality({q})
  BY FS_Singleton
<1>4. \A x \in {q} : ws[place[x] + 1] = WireOf(r, x)
  BY <1>1
<1>5. {q} \subseteq P /\ Fresh(r, ws)
  OBVIOUS
<1> HIDE DEF place, ws
<1>6. Fits(r, {q}, place, ws)
  BY <1>1, <1>2, <1>3, <1>4 DEF Fits
<1>7. Good(Bind(r, place), P \ {q})
  BY <1>5, <1>6, BindGood
<1> QED
  BY <1>7 DEF place

LEMMA CreateQubitGood ==
  ASSUME NEW r, Good(r, {}), NEW o \in Given
  PROVE  LET q == Len(r.qubits) + 1
             u == [r EXCEPT !.qubits = Append(r.qubits, [state |-> 0, index |-> 0, wire |-> o])]
         IN  Good(Bind(CreateStateFromExisting(u, GivenObject(o)), [x \in {q} |-> 0]), {})
<1> DEFINE q == Len(r.qubits) + 1
           u == [r EXCEPT !.qubits = Append(r.qubits, [state |-> 0, index |-> 0, wire |-> o])]
           v == CreateStateFromExisting(u, GivenObject(o))
<1>1. Good(u, {q}) /\ q \in Qubits(u) /\ WireOf(u, q) = o /\ u.wires = r.wires
  BY AppendGood
<1> HIDE DEF q, u
<1>2. GivenObject(o) \in DOMAIN u.wires /\ u.wires[GivenObject(o)] = <<o>>
  BY <1>1 DEF Good, Objects
<1>3. Good(v, {q}) /\ Fresh(v, <<o>>) /\ v.qubits = u.qubits
  BY <1>1, <1>2, CreateGood
<1> HIDE DEF v
<1>4. {q} \subseteq Qubits(v) /\ q \in {q} /\ WireOf(v, q) = o
  BY <1>1, <1>3 DEF Qubits, WireOf
<1>5. Good(Bind(v, [x \in {q} |-> 0]), {q} \ {q})
  BY <1>3, <1>4, BindOne
<1>6. {q} \ {q} = {}
  OBVIOUS
<1>7. Good(Bind(v, [x \in {q} |-> 0]), {})
  BY <1>5, <1>6
<1> QED
  BY <1>7 DEF q, u, v

-----------------------------------------------------------------------------
(* Merging.                                                                *)

LEMMA UnregisterFresh ==
  ASSUME NEW r, Kinds(r), NEW ws, Fresh(r, ws), NEW M
  PROVE  Fresh(Unregistered(r, M), ws)
<1> DEFINE u == Unregistered(r, M)
<1>1. /\ u.states = r.states /\ u.stateId = r.stateId /\ u.wires = r.wires /\ u.next = r.next
      /\ u.members = [sid \in DOMAIN r.members |-> r.members[sid] \ M]
  BY UnregisteredFields DEF Kinds
<1>2. DOMAIN r.members = DOMAIN r.states
  BY DEF Kinds
<1> HIDE DEF u
<1>3. Fresh(u, ws)
  BY <1>1, <1>2 DEF Fresh, Current
<1> QED
  BY <1>3 DEF u

LEMMA BoundFinite ==
  ASSUME NEW r, Kinds(r), NEW P, NEW s
  PROVE  IsFiniteSet(Bound(r, P, s)) /\ Bound(r, P, s) \subseteq Qubits(r)
<1>1. Len(r.qubits) \in Nat /\ Qubits(r) = 1..Len(r.qubits)
  BY LenProperties DEF Kinds, Qubits
<1>2. IsFiniteSet(Qubits(r))
  BY <1>1, FS_Interval
<1>3. Bound(r, P, s) \subseteq Qubits(r)
  BY DEF Bound
<1> QED
  BY <1>2, <1>3, FS_Subset

(* The qubits of two states in one order: first those of s, then those of t. *)
Joined(r, a, b) ==
  [q \in a \cup b |-> IF q \in a THEN Position(r, a, q) ELSE Cardinality(a) + Position(r, b, q)]

LEMMA JoinedInPlace ==
  ASSUME NEW r, Kinds(r), NEW a, NEW b, a \subseteq Qubits(r), b \subseteq Qubits(r),
         IsFiniteSet(a), IsFiniteSet(b), a \cap b = {},
         NEW v \in Seq(Given), NEW w \in Seq(Given), InPlace(r, a, v), InPlace(r, b, w)
  PROVE  Fits(r, a \cup b, Joined(r, a, b), v \o w)
<1> DEFINE f == [q \in a \cup b |-> IndexOf(r, q)]
           g == Joined(r, a, b)
           na == Cardinality(a)
<1>1. na \in Nat /\ Cardinality(b) \in Nat
  BY FS_CardinalityType
<1>2. \A q \in a \cup b : f[q] = IndexOf(r, q) /\ f[q] \in Nat
  BY HandleFields
<1>3. /\ \A x \in a : f[x] = Cardinality({y \in a : f[y] < f[x]})
      /\ \A x, y \in a : f[x] = f[y] => x = y
  <2>1. \A x \in a : Indices(r, a)[x] = f[x]
    BY DEF Indices
  <2>2. Ranked(a, Indices(r, a))
    BY DEF InPlace
  <2> HIDE DEF f
  <2>3. ASSUME NEW x \in a
        PROVE  f[x] = Cardinality({y \in a : f[y] < f[x]})
    <3>1. {y \in a : Indices(r, a)[y] < Indices(r, a)[x]} = {y \in a : f[y] < f[x]}
      BY <2>1
    <3> QED
      BY <2>1, <2>2, <3>1 DEF Ranked
  <2> QED
    BY <2>1, <2>2, <2>3 DEF Ranked
<1>4. /\ \A x \in b : f[x] = Cardinality({y \in b : f[y] < f[x]})
      /\ \A x, y \in b : f[x] = f[y] => x = y
  <2>1. \A x \in b : Indices(r, b)[x] = f[x]
    BY DEF Indices
  <2>2. Ranked(b, Indices(r, b))
    BY DEF InPlace
  <2> HIDE DEF f
  <2>3. ASSUME NEW x \in b
        PROVE  f[x] = Cardinality({y \in b : f[y] < f[x]})
    <3>1. {y \in b : Indices(r, b)[y] < Indices(r, b)[x]} = {y \in b : f[y] < f[x]}
      BY <2>1
    <3> QED
      BY <2>1, <2>2, <3>1 DEF Ranked
  <2> QED
    BY <2>1, <2>2, <2>3 DEF Ranked
<1>5. Ranked(a, f) /\ Ranked(b, f)
  BY <1>3, <1>4 DEF Ranked
<1>6. ASSUME NEW x \in a
      PROVE  g[x] = f[x]
  <2>1. {p \in a : r.qubits[p].index < r.qubits[x].index} = {y \in a : f[y] < f[x]}
    BY <1>2 DEF IndexOf
  <2> QED
    BY <1>3, <2>1 DEF Joined, Position
<1>7. ASSUME NEW x \in b
      PROVE  g[x] = na + f[x]
  <2>1. {p \in b : r.qubits[p].index < r.qubits[x].index} = {y \in b : f[y] < f[x]}
    BY <1>2 DEF IndexOf
  <2>2. x \notin a
    OBVIOUS
  <2> QED
    BY <1>4, <2>1, <2>2 DEF Joined, Position
<1>8. g = [x \in a \cup b |-> g[x]]
  BY DEF Joined
<1> HIDE DEF f, g, na
<1>9. Ranked(a \cup b, g)
  BY <1>2, <1>5, <1>6, <1>7, JoinedRanked DEF na
<1>10. g \in [a \cup b -> Nat]
  <2>1. \A x \in a \cup b : g[x] \in Nat
    BY <1>1, <1>2, <1>6, <1>7
  <2> QED
    BY <1>8, <2>1
<1>11. Len(v) = na /\ Len(w) = Cardinality(b)
  BY DEF InPlace, na
<1>12. /\ Len(v \o w) = Len(v) + Len(w)
       /\ \A i \in 1..(Len(v) + Len(w)) :
            (v \o w)[i] = IF i <= Len(v) THEN v[i] ELSE w[i - Len(v)]
  BY ConcatProperties
<1>13. Len(v \o w) = Cardinality(a \cup b)
  <2>1. Cardinality(a \cup b) = Cardinality(a) + Cardinality(b) - Cardinality(a \cap b)
    BY FS_Union
  <2>2. Cardinality(a \cap b) = 0
    BY FS_EmptySet
  <2> QED
    BY <1>1, <1>11, <1>12, <2>1, <2>2 DEF na
<1>14. ASSUME NEW q \in a
       PROVE  (v \o w)[g[q] + 1] = WireOf(r, q)
  <2>1. f[q] < na /\ f[q] \in Nat
    <3>1. Cardinality({y \in a : f[y] < f[q]}) < Cardinality(a)
      BY <1>2, RankBelow
    <3> QED
      BY <1>2, <1>3, <3>1 DEF na
  <2>2. v[f[q] + 1] = WireOf(r, q)
    BY <1>2 DEF InPlace
  <2>3. f[q] + 1 \in 1..(Len(v) + Len(w)) /\ f[q] + 1 <= Len(v)
    BY <1>1, <1>11, <2>1
  <2> QED
    BY <1>6, <1>12, <2>2, <2>3
<1>15. ASSUME NEW q \in b
       PROVE  (v \o w)[g[q] + 1] = WireOf(r, q)
  <2>1. f[q] < Cardinality(b) /\ f[q] \in Nat
    <3>1. Cardinality({y \in b : f[y] < f[q]}) < Cardinality(b)
      BY <1>2, RankBelow
    <3> QED
      BY <1>2, <1>4, <3>1
  <2>2. w[f[q] + 1] = WireOf(r, q)
    BY <1>2 DEF InPlace
  <2> DEFINE i == g[q] + 1
  <2>3. i \in 1..(Len(v) + Len(w)) /\ ~(i <= Len(v)) /\ i - Len(v) = f[q] + 1
    BY <1>1, <1>7, <1>11, <2>1
  <2> HIDE DEF i
  <2>4. (v \o w)[i] = WireOf(r, q)
    BY <1>12, <2>2, <2>3
  <2> QED
    BY <2>4 DEF i
<1>16. Fits(r, a \cup b, g, v \o w)
  BY <1>9, <1>10, <1>13, <1>14, <1>15 DEF Fits
<1> QED
  BY <1>16 DEF g

(* What a gate needs after a merge: the qubits keep their wires, and those *)
(* of the two states are in a state again.                                 *)
Merges(r, s, t, u) ==
  /\ Good(u, {}) /\ Qubits(u) = Qubits(r)
  /\ \A q \in Qubits(r) : WireOf(u, q) = WireOf(r, q)
  /\ \A q \in Qubits(r) : StateOf(r, q) \in {s, t} => StateOf(u, q) \in DOMAIN u.states

LEMMA MergeGood ==
  ASSUME NEW r, Good(r, {}), NEW s \in DOMAIN r.states, NEW t \in DOMAIN r.states, s # t,
         Bound(r, {}, s) # {}, Bound(r, {}, t) # {}
  PROVE  Merges(r, s, t, MergeInOrder(r, s, t))
<1> DEFINE a == Bound(r, {}, s)
           b == Bound(r, {}, t)
           v == r.wires[r.states[s]]
           w == r.wires[r.states[t]]
           made == Make(r, v \o w)
           cut == Unregistered(made, a \cup b)
           place == Joined(r, a, b)
           u == Bind(cut, place)
           done == RemoveIfEmpty(u, {s, t})
<1>1. Kinds(r) /\ Objects(r) /\ MembersBound(r, {}) /\ AllInPlace(r, {}) /\ OrphansShare(r, {})
  BY DEF Good
<1>2. QubitsOf(r, s) = a /\ QubitsOf(r, t) = b
  BY <1>1 DEF QubitsOf, MembersBound, Kinds
<1>3. /\ IsFiniteSet(a) /\ a \subseteq Qubits(r) /\ IsFiniteSet(b) /\ b \subseteq Qubits(r)
      /\ a \cap b = {}
  <2>1. IsFiniteSet(a) /\ a \subseteq Qubits(r)
    BY <1>1, BoundFinite
  <2>2. IsFiniteSet(b) /\ b \subseteq Qubits(r)
    BY <1>1, BoundFinite
  <2>3. a \cap b = {}
    BY DEF Bound
  <2> QED
    BY <2>1, <2>2, <2>3
<1>4. v \in Seq(Given) /\ w \in Seq(Given) /\ v \o w \in Seq(Given)
  BY <1>1, ConcatProperties DEF Objects
<1>5. InPlace(r, a, v) /\ InPlace(r, b, w)
  BY <1>1 DEF AllInPlace
<1>6. /\ Good(made, {}) /\ Fresh(made, v \o w)
      /\ made.qubits = r.qubits /\ made.next = r.next + 1
      /\ DOMAIN made.states = DOMAIN r.states \cup {r.next}
  BY <1>4, MakeGood
<1>7. MergeInOrder(r, s, t) = RemoveIfEmpty(Bind(Unregistered(made, a \cup b), [q \in a \cup b |->
                  IF q \in a THEN Position(r, a, q) ELSE Cardinality(a) + Position(r, b, q)]), {s, t})
  BY <1>2 DEF MergeInOrder
<1>8. MergeInOrder(r, s, t) = done
  BY <1>7 DEF Joined
<1> HIDE DEF made, v, w
<1>9. a = Bound(made, {}, s) /\ b = Bound(made, {}, t)
  BY <1>6, BoundSame
<1>10. Good(cut, a \cup b)
  <2> DEFINE C == a \cup b
  <2>1. C \subseteq C /\ C \subseteq Qubits(made) /\ C \ C = {}
    BY <1>3, <1>6 DEF Qubits
  <2>2. \A p \in C, q \in Qubits(made) : StateOf(made, p) = StateOf(made, q) => q \in C
    BY <1>9 DEF Bound
  <2>3. \A q \in C \ C : StateOf(made, q) \in DOMAIN made.states => ~Current(made, StateOf(made, q))
    BY <2>1
  <2> HIDE DEF C
  <2>4. Good(Unregistered(made, C), C)
    BY <1>6, <2>1, <2>2, <2>3, UnregisterGood
  <2> QED
    BY <2>4 DEF C
<1>11. Fresh(cut, v \o w) /\ cut.qubits = r.qubits /\ cut.next = r.next + 1
  <2>1. Kinds(made) /\ IsRecord(made)
    BY <1>6 DEF Good, Kinds
  <2>2. Fresh(cut, v \o w)
    BY <1>6, <2>1, UnregisterFresh
  <2>3. cut.qubits = made.qubits /\ cut.next = made.next
    BY <2>1, UnregisteredFields
  <2> QED
    BY <1>6, <2>2, <2>3
<1> HIDE DEF a, b, cut
<1>12. Fits(r, a \cup b, place, v \o w)
  BY <1>1, <1>3, <1>4, <1>5, JoinedInPlace
<1> HIDE DEF place
<1>13. \A q \in Qubits(r) : WireOf(cut, q) = WireOf(r, q) /\ StateOf(cut, q) = StateOf(r, q)
  BY <1>11 DEF WireOf, StateOf
<1>14. Qubits(cut) = Qubits(r) /\ a \cup b \subseteq Qubits(cut) /\ a \cup b \subseteq a \cup b
  BY <1>3, <1>11 DEF Qubits
<1>15. Fits(cut, a \cup b, place, v \o w)
  BY <1>3, <1>12, <1>13 DEF Fits
<1>16. Good(u, {})
  <2> DEFINE C == a \cup b
             ws == v \o w
  <2>1. /\ Good(cut, C) /\ C \subseteq Qubits(cut) /\ Fresh(cut, ws) /\ C \subseteq C
        /\ Fits(cut, C, place, ws)
    BY <1>10, <1>11, <1>14, <1>15
  <2> HIDE DEF C, ws, u
  <2>2. Good(Bind(cut, place), C \ C)
    BY <2>1, BindGood
  <2>3. C \ C = {}
    OBVIOUS
  <2> QED
    BY <2>2, <2>3 DEF u
<1>17. BindsTo(cut, a \cup b, place, u) /\ cut.next - 1 \in DOMAIN cut.states
  <2>1. cut.next - 1 \in DOMAIN cut.states /\ Kinds(cut)
    BY <1>10, <1>11 DEF Good, Fresh
  <2> QED
    BY <1>12, <1>14, <2>1, BindFields DEF Fits
<1> HIDE DEF u
<1>18. /\ DOMAIN u.states = DOMAIN cut.states /\ Qubits(u) = Qubits(r)
       /\ \A q \in Qubits(r) : WireOf(u, q) = WireOf(r, q)
       /\ \A q \in a \cup b : StateOf(u, q) = r.next
       /\ r.next \in DOMAIN u.states
  <2>1. cut.next - 1 = r.next
    BY <1>1, <1>11 DEF Kinds
  <2> QED
    BY <1>13, <1>14, <1>17, <2>1 DEF BindsTo
<1>19. /\ Good(done, {}) /\ done.qubits = u.qubits
       /\ DOMAIN done.states = {x \in DOMAIN u.states : ~(x \in {s, t} /\ u.members[x] = {})}
  BY <1>16, RemoveGood
<1> HIDE DEF done
<1>20. r.next \in DOMAIN done.states
  <2>1. r.next \notin {s, t}
    BY <1>1 DEF Kinds
  <2> QED
    BY <1>18, <1>19, <2>1
<1>21. /\ Qubits(done) = Qubits(r)
       /\ \A q \in Qubits(r) : WireOf(done, q) = WireOf(r, q)
       /\ \A q \in a \cup b : StateOf(done, q) = r.next
  BY <1>3, <1>18, <1>19 DEF Qubits, WireOf, StateOf
<1>22. \A q \in Qubits(r) : StateOf(r, q) \in {s, t} => q \in a \cup b
  BY DEF a, b, Bound
<1>23. Merges(r, s, t, done)
  BY <1>19, <1>20, <1>21, <1>22 DEF Merges
<1> QED
  BY <1>8, <1>23

-----------------------------------------------------------------------------
(* Measuring.                                                              *)

(* The wires that stay are where the qubits that stay are bound.           *)
LEMMA RestFits ==
  ASSUME NEW r, Kinds(r), NEW B, B \subseteq Qubits(r), IsFiniteSet(B), NEW q \in B,
         NEW ws \in Seq(Given), InPlace(r, B, ws)
  PROVE  /\ Drop(ws, IndexOf(r, q) + 1) \in Seq(Given)
         /\ Fits(r, B \ {q}, [x \in B \ {q} |-> Position(r, B \ {q}, x)],
                 Drop(ws, IndexOf(r, q) + 1))
<1> DEFINE rest == B \ {q}
           f == [x \in B |-> IndexOf(r, x)]
           g == [x \in rest |-> Position(r, rest, x)]
           n == Len(ws)
           kept == Drop(ws, f[q] + 1)
<1>1. \A x \in B : f[x] = IndexOf(r, x) /\ f[x] \in Nat
  BY HandleFields
<1>2. Indices(r, B) = f
  BY DEF Indices
<1> HIDE DEF f
<1>3. Ranked(B, f) /\ n = Cardinality(B) /\ \A x \in B : ws[f[x] + 1] = WireOf(r, x)
  BY <1>1, <1>2 DEF InPlace
<1>4. ASSUME NEW x \in B
      PROVE  f[x] < n
  <2>1. Cardinality({y \in B : f[y] < f[x]}) < Cardinality(B)
    BY <1>1, RankBelow
  <2> QED
    BY <1>3, <2>1 DEF Ranked
<1>5. n \in Nat /\ ws \in [1..n -> Given]
  BY LenProperties
<1>6. IsFiniteSet(rest) /\ Cardinality(rest) = n - 1
  BY <1>3, FS_RemoveElement
<1>7. ASSUME NEW x \in rest
      PROVE  /\ g[x] = Cardinality({y \in rest : f[y] < f[x]})
             /\ g[x] = IF f[x] < f[q] THEN f[x] ELSE f[x] - 1
  <2>1. {p \in rest : r.qubits[p].index < r.qubits[x].index} = {y \in rest : f[y] < f[x]}
    BY <1>1 DEF IndexOf
  <2>2. g[x] = Cardinality({y \in rest : f[y] < f[x]})
    BY <2>1 DEF Position
  <2>3. Cardinality({y \in rest : f[y] < f[x]}) = IF f[x] < f[q] THEN f[x] ELSE f[x] - 1
    BY <1>1, <1>3, RestPlaces
  <2> QED
    BY <2>2, <2>3
<1>8. \A x \in rest : f[x] # f[q]
  BY <1>3 DEF Ranked
<1>9. DOMAIN g = rest
  OBVIOUS
<1>10. g = [x \in rest |-> g[x]]
  OBVIOUS
<1> HIDE DEF g
<1>11. g \in [rest -> Nat]
  <2>1. ASSUME NEW x \in rest
        PROVE  g[x] \in Nat
    <3>1. f[x] \in Nat /\ f[q] \in Nat /\ f[x] # f[q]
      BY <1>1, <1>8
    <3>2. (IF f[x] < f[q] THEN f[x] ELSE f[x] - 1) \in Nat
      BY <3>1
    <3> QED
      BY <1>7, <3>2
  <2> QED
    BY <1>10, <2>1
<1>12. Ranked(rest, g)
  <2>1. Distinct(rest, f)
    BY <1>1, <1>3 DEF Ranked, Distinct
  <2>2. Sorted(rest, f, g)
    BY <1>7 DEF Sorted
  <2> HIDE DEF rest
  <2> QED
    BY <1>6, <2>1, <2>2, PlacesRanked
<1>13. kept = [i \in 1..(n - 1) |-> IF i < f[q] + 1 THEN ws[i] ELSE ws[i + 1]]
  BY DEF Drop
<1> HIDE DEF kept
<1>14. n - 1 \in Nat
  BY <1>4, <1>5, <1>1
<1>15. kept \in Seq(Given) /\ Len(kept) = n - 1
  <2>1. ASSUME NEW i \in 1..(n - 1)
        PROVE  kept[i] \in Given
    BY <1>5, <1>13, <1>14
  <2>2. kept \in [1..(n - 1) -> Given]
    BY <1>13, <2>1
  <2>3. kept \in Seq(Given)
    BY <1>14, <2>2, SeqDef
  <2>4. DOMAIN kept = 1..(n - 1)
    BY <2>2
  <2> QED
    BY <1>14, <2>3, <2>4, LenProperties
<1>16. ASSUME NEW x \in rest
       PROVE  kept[g[x] + 1] = WireOf(r, x)
  <2>1. f[x] \in Nat /\ f[q] \in Nat /\ f[x] # f[q] /\ f[x] < n /\ f[q] < n
    BY <1>1, <1>4, <1>8
  <2>2. ws[f[x] + 1] = WireOf(r, x)
    BY <1>3
  <2>3. CASE f[x] < f[q]
    <3>1. g[x] = f[x]
      BY <1>7, <2>3
    <3>2. f[x] + 1 \in 1..(n - 1) /\ f[x] + 1 < f[q] + 1
      BY <1>5, <2>1, <2>3
    <3> QED
      BY <1>13, <2>2, <3>1, <3>2
  <2>4. CASE ~(f[x] < f[q])
    <3>1. g[x] = f[x] - 1
      BY <1>7, <2>4
    <3>2. f[x] \in 1..(n - 1) /\ ~(f[x] < f[q] + 1) /\ f[x] - 1 + 1 = f[x]
      BY <1>5, <2>1, <2>4
    <3> QED
      BY <1>13, <2>2, <3>1, <3>2
  <2> QED
    BY <2>3, <2>4
<1>17. Fits(r, rest, g, kept)
  BY <1>6, <1>11, <1>12, <1>15, <1>16 DEF Fits
<1>18. f[q] = IndexOf(r, q)
  BY <1>1
<1> QED
  BY <1>15, <1>17, <1>18 DEF g, kept

(* The measured qubit gets a state of its own; the others go on unbound.   *)
LEMMA MeasuredGood ==
  ASSUME NEW r, NEW P, Good(r, P), P \subseteq Qubits(r), NEW q \in P
  PROVE  LET u == Bind(Make(r, <<WireOf(r, q)>>), [x \in {q} |-> 0])
         IN  /\ Good(u, P \ {q}) /\ Qubits(u) = Qubits(r)
             /\ \A p \in Qubits(r) : WireOf(u, p) = WireOf(r, p)
             /\ \A p \in Qubits(r) \ {q} :
                  StateOf(u, p) = StateOf(r, p) /\ IndexOf(u, p) = IndexOf(r, p)
             /\ DOMAIN u.states = DOMAIN r.states \cup {r.next}
             /\ \A s \in DOMAIN r.states : u.members[s] = r.members[s]
<1> DEFINE w == WireOf(r, q)
           made == Make(r, <<w>>)
           place == [x \in {q} |-> 0]
           u == Bind(made, place)
<1>1. Kinds(r)
  BY DEF Good
<1>2. <<w>> \in Seq(Given)
  <2>1. w \in Given
    BY <1>1, HandleFields
  <2> HIDE DEF w
  <2> QED
    BY <2>1
<1>3. /\ Good(made, P) /\ Fresh(made, <<w>>) /\ made.qubits = r.qubits /\ made.next = r.next + 1
      /\ DOMAIN made.states = DOMAIN r.states \cup {r.next}
      /\ \A s \in DOMAIN r.states : made.members[s] = r.members[s]
  <2> HIDE DEF w
  <2> QED
    BY <1>2, MakeGood
<1> HIDE DEF made
<1>4. Qubits(made) = Qubits(r)
      /\ \A p \in Qubits(r) : /\ WireOf(made, p) = WireOf(r, p) /\ StateOf(made, p) = StateOf(r, p)
                              /\ IndexOf(made, p) = IndexOf(r, p)
  BY <1>3 DEF Qubits, WireOf, StateOf, IndexOf
<1>5. P \subseteq Qubits(made) /\ Fresh(made, <<WireOf(made, q)>>)
  BY <1>3, <1>4
<1>6. Good(u, P \ {q})
  BY <1>3, <1>5, BindOne
<1>7. BindsTo(made, {q}, place, u)
  <2>1. place \in [{q} -> Nat] /\ {q} \subseteq Qubits(made)
    BY <1>5
  <2>2. Kinds(made) /\ made.next - 1 \in DOMAIN made.states
    BY <1>3 DEF Good, Fresh
  <2> HIDE DEF place, u
  <2> QED
    BY <2>1, <2>2, BindFields DEF u
<1> HIDE DEF u, place
<1>8. made.next - 1 = r.next /\ r.next \notin DOMAIN r.states
  BY <1>1, <1>3 DEF Kinds
<1>9. /\ Qubits(u) = Qubits(r)
      /\ \A p \in Qubits(r) : WireOf(u, p) = WireOf(r, p)
      /\ \A p \in Qubits(r) \ {q} :
           StateOf(u, p) = StateOf(r, p) /\ IndexOf(u, p) = IndexOf(r, p)
      /\ DOMAIN u.states = DOMAIN r.states \cup {r.next}
  BY <1>3, <1>4, <1>7 DEF BindsTo
<1>10. \A s \in DOMAIN r.states : u.members[s] = r.members[s]
  BY <1>3, <1>7, <1>8 DEF BindsTo
<1> QED
  BY <1>6, <1>9, <1>10 DEF u, made, place, w

(* Split, when the qubits of the state are those rebound.                  *)
LEMMA SplitGood ==
  ASSUME NEW r, NEW B, Good(r, B), B \subseteq Qubits(r), IsFiniteSet(B), NEW q \in B,
         NEW ws \in Seq(Given), InPlace(r, B, ws)
  PROVE  Good(SplitObject(r, q, ws, IndexOf(r, q) + 1, B \ {q}), {})
<1> DEFINE k == IndexOf(r, q) + 1
           rest == B \ {q}
           place == [x \in rest |-> Position(r, rest, x)]
           m == Bind(Make(r, <<WireOf(r, q)>>), [x \in {q} |-> 0])
           made == Make(m, Drop(ws, k))
<1>1. ws[k] = WireOf(r, q) /\ Len(ws) = Cardinality(B)
  BY DEF InPlace
<1>2. SplitObject(r, q, ws, k, rest) = IF Len(ws) = 1 THEN m ELSE Bind(made, place)
  BY <1>1 DEF SplitObject
<1>3. /\ Good(m, rest) /\ Qubits(m) = Qubits(r)
      /\ \A p \in Qubits(r) : WireOf(m, p) = WireOf(r, p)
  BY MeasuredGood
<1>4. Drop(ws, k) \in Seq(Given) /\ Fits(r, rest, place, Drop(ws, k))
  BY RestFits DEF Good
<1> DEFINE kept == Drop(ws, k)
<1> HIDE DEF m, place, k, kept
<1>5. CASE Len(ws) = 1
  <2>1. PICK x : B = {x}
    BY <1>1, <1>5, FS_Singleton
  <2>2. rest = {}
    BY <2>1
  <2>3. Good(m, {})
    BY <1>3, <2>2
  <2> QED
    BY <1>2, <1>5, <2>3 DEF k
<1>6. CASE Len(ws) # 1
  <2>1. Good(made, rest) /\ Fresh(made, kept) /\ made.qubits = m.qubits
    BY <1>3, <1>4, MakeGood DEF kept
  <2> HIDE DEF made
  <2>2. rest \subseteq Qubits(made) /\ \A p \in rest : WireOf(made, p) = WireOf(r, p)
    BY <1>3, <2>1 DEF Qubits, WireOf
  <2>3. Fits(made, rest, place, kept)
    BY <1>4, <2>2 DEF Fits, kept
  <2> HIDE DEF rest
  <2>4. Good(Bind(made, place), rest \ rest)
    BY <2>1, <2>2, <2>3, BindGood
  <2>5. rest \ rest = {}
    OBVIOUS
  <2>6. Good(Bind(made, place), {})
    BY <2>4, <2>5
  <2> QED
    BY <1>2, <1>6, <2>6 DEF k, rest
<1> QED
  BY <1>5, <1>6

Measured(r, q) ==
  LET object == ObjectOf(r, q)
      sid == r.stateId[object]
      related == QubitsOf(r, sid)
  IN  RemoveIfEmpty(
        SplitObject(Unregistered(r, related), q, r.wires[object], IndexOf(r, q) + 1, related \ {q}),
        {sid})

(* The state of the qubit is the one its object was told last.             *)
LEMMA MeasureCurrent ==
  ASSUME NEW r, Good(r, {}), NEW q \in Qubits(r), StateOf(r, q) \in DOMAIN r.states,
         Current(r, StateOf(r, q))
  PROVE  Good(Measured(r, q), {})
<1> DEFINE s == StateOf(r, q)
           B == Bound(r, {}, s)
           ws == r.wires[r.states[s]]
           cut == Unregistered(r, B)
           split == SplitObject(cut, q, ws, IndexOf(r, q) + 1, B \ {q})
<1>1. Kinds(r) /\ Objects(r) /\ MembersBound(r, {}) /\ AllInPlace(r, {}) /\ OrphansShare(r, {})
  BY DEF Good
<1>2. ObjectOf(r, q) = r.states[s] /\ r.stateId[r.states[s]] = s /\ s \in DOMAIN r.states
  BY DEF ObjectOf, StateOf, Current
<1>3. QubitsOf(r, s) = B
  BY <1>1, <1>2 DEF QubitsOf, MembersBound, Kinds
<1>4. Measured(r, q) = RemoveIfEmpty(split, {s})
  BY <1>2, <1>3 DEF Measured
<1>5. q \in B /\ IsFiniteSet(B) /\ B \subseteq Qubits(r)
  BY <1>1, BoundFinite DEF Bound
<1>6. InPlace(r, B, ws) /\ ws \in Seq(Given)
  BY <1>1, <1>2, <1>5 DEF AllInPlace, Objects
<1>7. Good(cut, B)
  <2>1. B \subseteq B /\ B \ B = {}
    OBVIOUS
  <2>2. \A p \in B, y \in Qubits(r) : StateOf(r, p) = StateOf(r, y) => y \in B
    BY DEF Bound
  <2>3. \A y \in B \ B : StateOf(r, y) \in DOMAIN r.states => ~Current(r, StateOf(r, y))
    BY <2>1
  <2> HIDE DEF B
  <2> QED
    BY <1>5, <2>1, <2>2, <2>3, UnregisterGood
<1>8. cut.qubits = r.qubits
  BY <1>1, UnregisteredFields DEF Kinds
<1> HIDE DEF B, ws, cut
<1>9. B \subseteq Qubits(cut) /\ IndexOf(cut, q) = IndexOf(r, q)
  BY <1>5, <1>8 DEF Qubits, IndexOf
<1>10. InPlace(cut, B, ws)
  BY <1>6, <1>8, InPlaceSame
<1>11. Good(SplitObject(cut, q, ws, IndexOf(cut, q) + 1, B \ {q}), {})
  BY <1>5, <1>6, <1>7, <1>9, <1>10, SplitGood
<1>12. Good(split, {})
  BY <1>9, <1>11
<1> HIDE DEF split
<1>13. Good(RemoveIfEmpty(split, {s}), {})
  BY <1>12, RemoveGood
<1> QED
  BY <1>4, <1>13

(* A state whose object was told another id since has one qubit, at the    *)
(* head of an object of the caller.                                        *)
LEMMA OneQubit ==
  ASSUME NEW r, Good(r, {}), NEW s \in DOMAIN r.states, NEW o \in Given,
         r.states[s] = GivenObject(o), NEW q \in Bound(r, {}, s)
  PROVE  Bound(r, {}, s) = {q} /\ IndexOf(r, q) = 0 /\ WireOf(r, q) = o
<1> DEFINE B == Bound(r, {}, s)
<1>1. Kinds(r) /\ r.wires[r.states[s]] = <<o>>
  BY DEF Good, Objects
<1>2. InPlace(r, B, <<o>>)
  BY <1>1 DEF Good, AllInPlace
<1>3. IsFiniteSet(B) /\ B \subseteq Qubits(r) /\ Cardinality(B) = 1
  BY <1>1, <1>2, BoundFinite DEF InPlace
<1>4. PICK x : B = {x}
  BY <1>3, FS_Singleton
<1>5. B = {q}
  BY <1>4
<1> HIDE DEF B
<1>6. IndexOf(r, q) = 0
  <2>1. \A y \in B : IndexOf(r, y) \in Nat
    BY <1>1, <1>3, HandleFields
  <2>2. Indices(r, B)[q] = IndexOf(r, q)
    BY <1>5 DEF Indices
  <2>3. IndexOf(r, q) = Cardinality({y \in B : Indices(r, B)[y] < Indices(r, B)[q]})
    BY <1>2, <1>5, <2>2 DEF InPlace, Ranked
  <2>4. {y \in B : Indices(r, B)[y] < Indices(r, B)[q]} = {}
    BY <1>5, <2>1, <2>2
  <2> QED
    BY <2>3, <2>4, FS_EmptySet
<1>7. WireOf(r, q) = o
  BY <1>2, <1>5, <1>6 DEF InPlace
<1> QED
  BY <1>5, <1>6, <1>7 DEF B

LEMMA MeasureStale ==
  ASSUME NEW r, Good(r, {}), NEW q \in Qubits(r), StateOf(r, q) \in DOMAIN r.states,
         ~Current(r, StateOf(r, q))
  PROVE  Good(Measured(r, q), {})
<1> DEFINE s == StateOf(r, q)
           object == r.states[s]
           sid == r.stateId[object]
           M == QubitsOf(r, sid)
           cut == Unregistered(r, M)
           u == Bind(Make(cut, <<WireOf(cut, q)>>), [x \in {q} |-> 0])
           done == RemoveIfEmpty(u, {sid})
           C == {q} \cup M
<1>1. Kinds(r) /\ Objects(r) /\ MembersBound(r, {}) /\ AllInPlace(r, {}) /\ OrphansShare(r, {})
  BY DEF Good
<1>2. s \in DOMAIN r.states /\ sid # s /\ ObjectOf(r, q) = object
  BY DEF Current, ObjectOf, StateOf
<1>3. PICK o \in Given : object = GivenObject(o)
  BY <1>1, <1>2 DEF Objects
<1>4. q \in Bound(r, {}, s)
  BY DEF Bound
<1>5. Bound(r, {}, s) = {q} /\ IndexOf(r, q) = 0 /\ WireOf(r, q) = o
  BY <1>2, <1>3, <1>4, OneQubit
<1>6. r.wires[object] = <<o>>
  BY <1>1, <1>3 DEF Objects
<1>7. sid \in DOMAIN r.states => r.states[sid] = object /\ M = Bound(r, {}, sid)
  <2>1. SUFFICES ASSUME sid \in DOMAIN r.states
                 PROVE  r.states[sid] = object /\ M = Bound(r, {}, sid)
    OBVIOUS
  <2>2. r.states[sid] = object
    BY <1>1, <1>2, <2>1 DEF Objects
  <2>3. Current(r, sid)
    BY <2>2 DEF Current
  <2>4. r.members[sid] = Bound(r, {}, sid) /\ sid \in DOMAIN r.members
    BY <1>1, <2>1, <2>3 DEF MembersBound, Kinds
  <2> QED
    BY <2>2, <2>4 DEF QubitsOf
<1>8. sid \notin DOMAIN r.states => M = {}
  BY <1>1 DEF QubitsOf, Kinds
<1> HIDE DEF s, object, sid, M
<1>9. ASSUME NEW y \in M
      PROVE  /\ sid \in DOMAIN r.states /\ StateOf(r, y) = sid /\ y \in Qubits(r)
             /\ WireOf(r, y) = o /\ y # q
  <2>1. sid \in DOMAIN r.states /\ y \in Bound(r, {}, sid)
    BY <1>7, <1>8, <1>9
  <2>2. WireOf(r, y) = o
    BY <1>3, <1>7, <2>1, OneQubit
  <2>3. StateOf(r, y) = sid /\ y \in Qubits(r)
    BY <2>1 DEF Bound
  <2> QED
    BY <1>2, <2>1, <2>2, <2>3 DEF s
<1>10. Good(cut, C)
  <2>1. M \subseteq C /\ C \subseteq Qubits(r)
    BY <1>9
  <2>2. ASSUME NEW p \in C, NEW y \in Qubits(r), StateOf(r, p) = StateOf(r, y)
        PROVE  y \in C
    <3>1. CASE p = q
      <4>1. y \in Bound(r, {}, s)
        BY <2>2, <3>1 DEF Bound, s
      <4> QED
        BY <1>5, <4>1
    <3>2. CASE p \in M
      <4>1. y \in Bound(r, {}, sid) /\ sid \in DOMAIN r.states
        BY <1>9, <2>2, <3>2 DEF Bound
      <4> QED
        BY <1>7, <4>1
    <3> QED
      BY <3>1, <3>2
  <2>3. \A y \in C \ M : StateOf(r, y) \in DOMAIN r.states => ~Current(r, StateOf(r, y))
    OBVIOUS
  <2> HIDE DEF C
  <2> QED
    BY <2>1, <2>2, <2>3, UnregisterGood
<1>11. /\ cut.qubits = r.qubits /\ cut.states = r.states
       /\ cut.members = [x \in DOMAIN r.members |-> r.members[x] \ M]
  BY <1>1, UnregisteredFields DEF Kinds
<1> HIDE DEF cut
<1>12. Qubits(cut) = Qubits(r)
       /\ \A p \in Qubits(r) : WireOf(cut, p) = WireOf(r, p) /\ StateOf(cut, p) = StateOf(r, p)
  BY <1>11 DEF Qubits, WireOf, StateOf
<1>13. C \subseteq Qubits(cut) /\ q \in C /\ C \ {q} = M
  BY <1>9, <1>12
<1> HIDE DEF C
<1>14. /\ Good(u, C \ {q}) /\ Qubits(u) = Qubits(cut)
       /\ \A p \in Qubits(cut) : WireOf(u, p) = WireOf(cut, p)
       /\ \A p \in Qubits(cut) \ {q} :
            StateOf(u, p) = StateOf(cut, p) /\ IndexOf(u, p) = IndexOf(cut, p)
       /\ DOMAIN u.states = DOMAIN cut.states \cup {cut.next}
       /\ \A x \in DOMAIN cut.states : u.members[x] = cut.members[x]
  BY <1>10, <1>13, MeasuredGood
<1>15. Measured(r, q) = done
  <2>1. SplitObject(cut, q, <<o>>, 0 + 1, M \ {q}) = u
    BY <1>5, <1>12 DEF SplitObject
  <2> HIDE DEF u
  <2> QED
    BY <1>2, <1>5, <1>6, <2>1 DEF Measured, sid, M, cut
<1> HIDE DEF u
<1>16. /\ Good(done, M) /\ done.qubits = u.qubits
       /\ DOMAIN done.states = {x \in DOMAIN u.states : ~(x \in {sid} /\ u.members[x] = {})}
  BY ZenonT(60), <1>13, <1>14, RemoveGood
<1> HIDE DEF done
<1>17. /\ Qubits(done) = Qubits(r)
       /\ \A p \in Qubits(r) : WireOf(done, p) = WireOf(r, p)
       /\ \A p \in Qubits(r) \ {q} : StateOf(done, p) = StateOf(r, p)
  BY <1>12, <1>14, <1>16 DEF Qubits, WireOf, StateOf
<1>18. ASSUME NEW y \in M
       PROVE  StateOf(done, y) \notin DOMAIN done.states /\ Shares(done, y)
  <2>1. StateOf(done, y) = sid /\ y \in Qubits(done) /\ y # q /\ WireOf(done, y) = o
    BY <1>9, <1>17
  <2>2. q \in Qubits(done) \ {y} /\ WireOf(done, q) = o
    BY <1>5, <1>17, <2>1
  <2>3. u.members[sid] = {}
    <3>1. sid \in DOMAIN r.members /\ r.members[sid] = M
      BY <1>1, <1>9 DEF M, QubitsOf, Kinds
    <3> QED
      BY <1>9, <1>11, <1>14, <3>1
  <2>4. sid \notin DOMAIN done.states
    BY <1>16, <2>3
  <2> QED
    BY <2>1, <2>2, <2>4 DEF Shares
<1>19. Good(done, {})
  BY <1>16, <1>18, DropGood
<1> QED
  BY <1>15, <1>19

-----------------------------------------------------------------------------
(* The steps.                                                              *)

(* The index a qubit goes by leads to its wire.                            *)
LEMMA WireFound ==
  ASSUME NEW r, Good(r, {}), NEW q \in Qubits(r), StateOf(r, q) \in DOMAIN r.states
  PROVE  r.wires[ObjectOf(r, q)][IndexOf(r, q) + 1] = WireOf(r, q)
<1> DEFINE s == StateOf(r, q)
<1>1. q \in Bound(r, {}, s)
  BY DEF Bound
<1>2. InPlace(r, Bound(r, {}, s), r.wires[r.states[s]])
  BY <1>1 DEF Good, AllInPlace
<1>3. ObjectOf(r, q) = r.states[s]
  BY DEF ObjectOf, StateOf
<1> QED
  BY <1>1, <1>2, <1>3 DEF InPlace

LEMMA HandedInit_Inv ==
  ASSUME HandedStatesAssumption, HandedInit
  PROVE  HandedInv
<1> DEFINE r == Value
<1>1. /\ r.states = << >> /\ r.members = << >> /\ r.stateId = << >> /\ r.qubits = << >> /\ r.next = 1
      /\ r.wires = [o \in {GivenObject(g) : g \in Given} |-> <<o[2]>>]
  BY DEF HandedInit, Value
<1>2. IsRecord(r)
  BY DEF IsRecord, Value
<1> HIDE DEF r
<1>3. DOMAIN r.states = {} /\ DOMAIN r.members = {} /\ DOMAIN r.stateId = {} /\ Qubits(r) = {}
  BY <1>1 DEF Qubits
<1>4. r.qubits \in Seq(Handle)
  BY <1>1, EmptySeq
<1>5. Kinds(r)
  BY <1>1, <1>2, <1>3, <1>4 DEF Kinds
<1>6. Objects(r)
  <2>1. DOMAIN r.wires = {GivenObject(g) : g \in Given}
    BY <1>1
  <2>2. ASSUME NEW o \in Given
        PROVE  r.wires[GivenObject(o)] = <<o>> /\ GivenObject(o) \in DOMAIN r.wires
    <3>1. GivenObject(o)[2] = o
      BY DEF GivenObject
    <3> QED
      BY <1>1, <3>1
  <2>3. ASSUME NEW x \in DOMAIN r.wires
        PROVE  r.wires[x] \in Seq(Given)
    <3>1. PICK g \in Given : x = GivenObject(g)
      BY <2>1
    <3>2. <<g>> \in Seq(Given)
      OBVIOUS
    <3> QED
      BY <2>2, <3>1, <3>2
  <2> QED
    BY <1>3, <2>2, <2>3 DEF Objects
<1>7. Good(r, {})
  BY <1>3, <1>5, <1>6 DEF Good, MembersBound, AllInPlace, OrphansShare
<1> QED
  BY <1>7 DEF HandedInv, r, ActsOnOwnWire, HandedInit, Untouched

LEMMA ValueKept ==
  ASSUME HandedInv, UNCHANGED <<states, stateId, wires, members, qubits, next>>,
         last'.hit = last'.asked
  PROVE  HandedInv'
<1>1. Value' = Value
  BY DEF Value
<1>2. Good(Value, {})'
  BY <1>1 DEF HandedInv
<1> QED
  BY <1>2 DEF HandedInv, ActsOnOwnWire

LEMMA RejectedInv ==
  ASSUME HandedInv, Rejected
  PROVE  HandedInv'
<1>1. last'.hit = last'.asked
  BY DEF Rejected, Untouched
<1> QED
  BY <1>1, ValueKept DEF Rejected

LEMMA CreateQubitInv ==
  ASSUME HandedInv, NEW o \in Given, CreateQubitFrom(o)
  PROVE  HandedInv'
<1> DEFINE r == Value
           q == Len(r.qubits) + 1
           u == [r EXCEPT !.qubits = Append(r.qubits, [state |-> 0, index |-> 0, wire |-> o])]
           done == Bind(CreateStateFromExisting(u, GivenObject(o)), [x \in {q} |-> 0])
<1>1. Good(r, {})
  BY DEF HandedInv
<1>2. Good(done, {})
  <2> HIDE DEF r
  <2> QED
    BY <1>1, CreateQubitGood
<1>3. r.qubits = qubits
  BY DEF Value
<1>4. Becomes(done)
  BY <1>3 DEF CreateQubitFrom
<1> HIDE DEF r, q, u, done
<1>5. IsRecord(done)
  BY <1>2 DEF Good, Kinds
<1>6. Value' = done
  BY <1>4, <1>5 DEF Becomes, Value, IsRecord
<1>7. Good(Value, {})'
  BY <1>2, <1>6
<1>8. ActsOnOwnWire'
  BY DEF ActsOnOwnWire, CreateQubitFrom, Untouched
<1> QED
  BY <1>7, <1>8 DEF HandedInv

LEMMA Apply1Inv ==
  ASSUME HandedInv, NEW q \in DOMAIN qubits, Apply1(q)
  PROVE  HandedInv'
<1> DEFINE r == Value
<1>1. Good(r, {}) /\ q \in Qubits(r) /\ r.qubits = qubits
  BY DEF HandedInv, Qubits, Value
<1>2. CASE ~Known(Value, q)
  BY <1>2, RejectedInv DEF Apply1
<1>3. CASE Known(Value, q)
  <2>1. StateOf(r, q) \in DOMAIN r.states
    BY <1>3 DEF Known, StateOf
  <2> HIDE DEF r
  <2>2. WireAt(r, q) = WireOf(r, q)
    BY <1>1, <2>1, WireFound DEF WireAt, IndexOf
  <2>3. qubits[q].wire = WireOf(r, q)
    BY <1>1 DEF WireOf
  <2>4. last' = [asked |-> <<qubits[q].wire>>, hit |-> <<WireAt(Value, q)>>]
        /\ UNCHANGED <<states, stateId, wires, members, qubits, next>>
    BY <1>3 DEF Apply1
  <2>5. last'.hit = last'.asked
    BY <2>2, <2>3, <2>4 DEF r
  <2> QED
    BY <2>4, <2>5, ValueKept
<1> QED
  BY <1>2, <1>3

LEMMA MeasureInv ==
  ASSUME HandedInv, NEW q \in DOMAIN qubits, MeasureObject(q)
  PROVE  HandedInv'
<1> DEFINE r == Value
<1>1. Good(r, {}) /\ q \in Qubits(r) /\ r.qubits = qubits
  BY DEF HandedInv, Qubits, Value
<1>2. CASE ~Known(Value, q)
  BY <1>2, RejectedInv DEF MeasureObject
<1>3. CASE Known(Value, q)
  <2> DEFINE done == Measured(r, q)
  <2>1. StateOf(r, q) \in DOMAIN r.states
    BY <1>3 DEF Known, StateOf
  <2>2. Good(done, {})
    <3> HIDE DEF r
    <3> QED
      BY <1>1, <2>1, MeasureCurrent, MeasureStale
  <2>3. /\ r.states = states /\ r.stateId = stateId /\ r.wires = wires
    BY DEF Value
  <2>4. ObjectOf(r, q) = states[qubits[q].state] /\ IndexOf(r, q) = qubits[q].index
    BY <1>1, <2>3 DEF ObjectOf, IndexOf
  <2>5. Becomes(done)
    BY <1>3, <2>3, <2>4 DEF MeasureObject, Measured
  <2>6. last' = [asked |-> <<qubits[q].wire>>,
                 hit |-> <<wires[states[qubits[q].state]][qubits[q].index + 1]>>]
    BY <1>3 DEF MeasureObject
  <2>7. last'.hit = last'.asked
    <3>1. r.wires[ObjectOf(r, q)][IndexOf(r, q) + 1] = WireOf(r, q)
      <4> HIDE DEF r
      <4> QED
        BY <1>1, <2>1, WireFound
    <3>2. WireOf(r, q) = qubits[q].wire
      BY <1>1 DEF WireOf
    <3>3. wires[states[qubits[q].state]][qubits[q].index + 1] = qubits[q].wire
      BY <2>3, <2>4, <3>1, <3>2
    <3> QED
      BY <2>6, <3>3
  <2> HIDE DEF done
  <2>8. IsRecord(done)
    BY <2>2 DEF Good, Kinds
  <2>9. Value' = done
    BY <2>5, <2>8 DEF Becomes, Value, IsRecord
  <2>10. Good(Value, {})'
    BY <2>2, <2>9
  <2> QED
    BY <2>7, <2>10 DEF HandedInv, ActsOnOwnWire
<1> QED
  BY <1>2, <1>3

LEMMA Apply2Inv ==
  ASSUME HandedInv, NEW p \in DOMAIN qubits, NEW q \in DOMAIN qubits, Apply2(p, q)
  PROVE  HandedInv'
<1> DEFINE r == Value
           s == StateOf(r, p)
           t == StateOf(r, q)
           u == IF s = t THEN r ELSE MergeObjects(r, s, t)
<1>1. Good(r, {}) /\ p \in Qubits(r) /\ q \in Qubits(r) /\ r.qubits = qubits
  BY DEF HandedInv, Qubits, Value
<1>2. CASE ~Known(Value, p) \/ ~Known(Value, q)
  BY <1>2, RejectedInv DEF Apply2
<1>3. CASE Known(Value, p) /\ Known(Value, q)
  <2>1. s \in DOMAIN r.states /\ t \in DOMAIN r.states
    BY <1>3 DEF Known, StateOf
  <2>2. s = qubits[p].state /\ t = qubits[q].state
    BY <1>1 DEF StateOf
  <2>3. Becomes(u) /\ last' = [asked |-> <<qubits[p].wire, qubits[q].wire>>,
                               hit |-> <<WireAt(u, p), WireAt(u, q)>>]
    BY <1>3, <2>2 DEF Apply2
  <2> HIDE DEF r
  <2>4. /\ Good(u, {}) /\ Qubits(u) = Qubits(r)
        /\ WireOf(u, p) = WireOf(r, p) /\ WireOf(u, q) = WireOf(r, q)
        /\ StateOf(u, p) \in DOMAIN u.states /\ StateOf(u, q) \in DOMAIN u.states
    <3>1. CASE s = t
      BY <1>1, <2>1, <3>1
    <3>2. CASE s # t
      <4>1. Bound(r, {}, s) # {} /\ Bound(r, {}, t) # {}
        BY <1>1 DEF Bound
      <4> HIDE DEF s, t
      <4>2. Merges(r, s, t, MergeInOrder(r, s, t)) /\ Merges(r, t, s, MergeInOrder(r, t, s))
        BY <1>1, <2>1, <3>2, <4>1, MergeGood
      <4>3. u = MergeInOrder(r, s, t) \/ u = MergeInOrder(r, t, s)
        BY <3>2 DEF MergeObjects
      <4> HIDE DEF u
      <4>4. Merges(r, s, t, u) \/ Merges(r, t, s, u)
        BY <4>2, <4>3
      <4>5. StateOf(r, p) \in {s, t} /\ StateOf(r, q) \in {s, t}
        BY DEF s, t
      <4> QED
        BY <1>1, <4>4, <4>5 DEF Merges
    <3> QED
      BY <3>1, <3>2
  <2> HIDE DEF u
  <2>5. WireAt(u, p) = WireOf(u, p) /\ WireAt(u, q) = WireOf(u, q)
    BY <1>1, <2>4, WireFound DEF WireAt, IndexOf
  <2>6. qubits[p].wire = WireOf(r, p) /\ qubits[q].wire = WireOf(r, q)
    BY <1>1 DEF WireOf
  <2>7. last'.hit = last'.asked
    BY <2>3, <2>4, <2>5, <2>6
  <2>8. IsRecord(u)
    BY <2>4 DEF Good, Kinds
  <2>9. Value' = u
    BY <2>3, <2>8 DEF Becomes, Value, IsRecord
  <2>10. Good(Value, {})'
    BY <2>4, <2>9
  <2> QED
    BY <2>7, <2>10 DEF HandedInv, ActsOnOwnWire
<1> QED
  BY <1>2, <1>3

LEMMA HandedNext_Inv ==
  ASSUME HandedInv, [HandedNext]_handedVars
  PROVE  HandedInv'
<1>1. CASE \E o \in Given : CreateQubitFrom(o)
  BY <1>1, CreateQubitInv
<1>2. CASE \E q \in DOMAIN qubits : Apply1(q) \/ MeasureObject(q)
  BY <1>2, Apply1Inv, MeasureInv
<1>3. CASE \E p, q \in DOMAIN qubits : p # q /\ Apply2(p, q)
  BY <1>3, Apply2Inv
<1>4. CASE UNCHANGED handedVars
  <2>1. UNCHANGED <<states, stateId, wires, members, qubits, next, last>>
    BY <1>4 DEF handedVars
  <2>2. last'.hit = last'.asked
    BY <2>1 DEF HandedInv, ActsOnOwnWire
  <2> QED
    BY <2>1, <2>2, ValueKept
<1> QED
  BY <1>1, <1>2, <1>3, <1>4 DEF HandedNext

(* The registry and the handles stay in order whatever objects are handed  *)
(* in: the qubits that name a state are its members, if its object was     *)
(* told its id last, they have the indices 0, 1, ..., and index and object *)
(* lead to the wire of the qubit.                                          *)
THEOREM HandedInvariant ==
  ASSUME HandedStatesAssumption
  PROVE  HandedSpec => []HandedInv
<1>1. HandedInit => HandedInv
  BY HandedInit_Inv
<1>2. HandedInv /\ [HandedNext]_handedVars => HandedInv'
  BY HandedNext_Inv
<1> QED
  BY <1>1, <1>2, PTL DEF HandedSpec

(* However often an object was handed in to CreateQubit, an operation that *)
(* is not rejected acts on the wire its qubit was created for, and only a  *)
(* qubit that shares its object can lose its state.                        *)
THEOREM HandedInTwiceAlways ==
  ASSUME HandedStatesAssumption
  PROVE  HandedSpec => []HandedInTwice
<1>1. HandedInv => HandedInTwice
  <2>1. SUFFICES ASSUME HandedInv
                 PROVE  HandedInTwice
    OBVIOUS
  <2>2. OrphansShare(Value, {}) /\ Value.qubits = qubits /\ ActsOnOwnWire
    BY <2>1 DEF HandedInv, Good, Value
  <2>3. ASSUME NEW q \in DOMAIN qubits, ~Known(Value, q)
        PROVE  \E p \in DOMAIN qubits \ {q} : qubits[p].wire = qubits[q].wire
    <3>1. q \in Qubits(Value) \ {} /\ StateOf(Value, q) \notin DOMAIN Value.states
      BY <2>2, <2>3 DEF Qubits, StateOf, Known
    <3>2. Shares(Value, q)
      BY <2>2, <3>1 DEF OrphansShare
    <3> QED
      BY <2>2, <3>2 DEF Shares, Qubits, WireOf
  <2> QED
    BY <2>2, <2>3 DEF HandedInTwice, OnlySharedAreOrphaned
<1> QED
  BY <1>1, HandedInvariant, PTL

=============================================================================
