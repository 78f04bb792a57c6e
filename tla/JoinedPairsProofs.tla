--------------------------- MODULE JoinedPairsProofs ---------------------------
(***************************************************************************)
(* The Pauli frames the applications compute with are the quantum state,   *)
(* for any number of Bell pairs, corrected and joined in any order: the    *)
(* stabilizers of a pair's two qubits have the signs its frame says.       *)
(*                                                                         *)
(* A Bell measurement needs the products of two pairs' stabilizers, and    *)
(* the next one products of those; so the invariant is that the group has  *)
(* the products over every set of pairs.  XOf(U) and ZOf(U) are those; no  *)
(* product of an X with a Z is needed, hence no phases.                    *)
(***************************************************************************)
EXTENDS JoinedPairs, FiniteSetTheorems, WellFoundedInduction, TLAPS

-----------------------------------------------------------------------------
(* What a gate does to a product of X or of Z.                             *)

LEMMA PauliParts ==
  ASSUME NEW x, NEW z, NEW neg
  PROVE  Pauli(x, z, neg).x = x /\ Pauli(x, z, neg).z = z /\ Pauli(x, z, neg).neg = neg
BY DEF Pauli

LEMMA ConjugatedByH ==
  ASSUME NEW p, NEW i
  PROVE  LET on == Xor(i \in p.x, i \in p.z)
         IN  Conjugated(p, "H", <<i>>) = Pauli(Toggle(p.x, i, on), Toggle(p.z, i, on),
                                               Xor(p.neg, i \in p.x /\ i \in p.z))
BY DEF Conjugated

LEMMA ConjugatedByCnot ==
  ASSUME NEW p, NEW i, NEW j
  PROVE  Conjugated(p, "CNOT", <<i, j>>) =
           Pauli(Toggle(p.x, j, i \in p.x), Toggle(p.z, i, j \in p.z),
                 Xor(p.neg, i \in p.x /\ j \in p.z /\ (j \in p.x <=> i \in p.z)))
BY DEF Conjugated

LEMMA XorSame ==
  ASSUME NEW a \in BOOLEAN
  PROVE  Xor(a, FALSE) = a /\ Xor(a, TRUE) = ~a
BY DEF Xor

LEMMA ToggleIs ==
  ASSUME NEW s, NEW i
  PROVE  /\ Toggle(s, i, FALSE) = s
         /\ Toggle(s, i, TRUE) = IF i \in s THEN s \ {i} ELSE s \cup {i}
BY DEF Toggle, SymDiff

LEMMA CnotOnX ==
  ASSUME NEW x, NEW neg \in BOOLEAN, NEW i, NEW j
  PROVE  Conjugated(Pauli(x, {}, neg), "CNOT", <<i, j>>)
           = Pauli(Toggle(x, j, i \in x), {}, neg)
<1> DEFINE p == Pauli(x, {}, neg)
<1>1. p.x = x /\ p.z = {} /\ p.neg = neg
  BY PauliParts
<1>2. Toggle({}, i, FALSE) = {} /\ Xor(neg, FALSE) = neg
  BY ToggleIs, XorSame
<1>3. Conjugated(p, "CNOT", <<i, j>>) =
        Pauli(Toggle(x, j, i \in x), Toggle({}, i, FALSE), Xor(neg, FALSE))
  <2>1. Toggle(p.z, i, j \in p.z) = Toggle({}, i, FALSE)
    BY <1>1 DEF Toggle
  <2>2. Xor(p.neg, i \in p.x /\ j \in p.z /\ (j \in p.x <=> i \in p.z)) = Xor(neg, FALSE)
    BY <1>1 DEF Xor
  <2>3. Toggle(p.x, j, i \in p.x) = Toggle(x, j, i \in x)
    BY <1>1
  <2> HIDE DEF p
  <2> QED
    BY <2>1, <2>2, <2>3, ConjugatedByCnot
<1> QED
  BY <1>2, <1>3

LEMMA CnotOnZ ==
  ASSUME NEW z, NEW neg \in BOOLEAN, NEW i, NEW j
  PROVE  Conjugated(Pauli({}, z, neg), "CNOT", <<i, j>>)
           = Pauli({}, Toggle(z, i, j \in z), neg)
<1> DEFINE p == Pauli({}, z, neg)
<1>1. p.x = {} /\ p.z = z /\ p.neg = neg
  BY PauliParts
<1>2. Toggle({}, j, FALSE) = {} /\ Xor(neg, FALSE) = neg
  BY ToggleIs, XorSame
<1>3. Conjugated(p, "CNOT", <<i, j>>) =
        Pauli(Toggle({}, j, FALSE), Toggle(z, i, j \in z), Xor(neg, FALSE))
  <2>1. (i \in p.x) = FALSE
    BY <1>1
  <2>2. (i \in p.x /\ j \in p.z /\ (j \in p.x <=> i \in p.z)) = FALSE
    BY <1>1
  <2> QED
    BY <1>1, <2>1, <2>2, ConjugatedByCnot
<1> QED
  BY <1>2, <1>3

LEMMA HadamardOnX ==
  ASSUME NEW x, NEW neg \in BOOLEAN, NEW i
  PROVE  Conjugated(Pauli(x, {}, neg), "H", <<i>>)
           = IF i \in x THEN Pauli(x \ {i}, {i}, neg) ELSE Pauli(x, {}, neg)
<1> DEFINE p == Pauli(x, {}, neg)
<1>1. p.x = x /\ p.z = {} /\ p.neg = neg
  BY PauliParts
<1>2. Xor(neg, FALSE) = neg
  BY XorSame
<1>3. Conjugated(p, "H", <<i>>) =
        Pauli(Toggle(x, i, i \in x), Toggle({}, i, i \in x), Xor(neg, FALSE))
  <2>1. Xor(i \in p.x, i \in p.z) = (i \in x)
    BY <1>1 DEF Xor
  <2>2. (i \in p.x /\ i \in p.z) = FALSE
    BY <1>1
  <2> QED
    BY <1>1, <2>1, <2>2, ConjugatedByH
<1>4. CASE i \in x
  <2>1. (i \in x) = TRUE
    BY <1>4
  <2>2. Toggle(x, i, TRUE) = x \ {i} /\ Toggle({}, i, TRUE) = {i}
    <3>1. {} \cup {i} = {i}
      OBVIOUS
    <3> QED
      BY <1>4, <3>1, ToggleIs
  <2> QED
    BY <1>2, <1>3, <1>4, <2>1, <2>2
<1>5. CASE i \notin x
  <2>1. (i \in x) = FALSE
    BY <1>5
  <2> QED
    BY <1>2, <1>3, <1>5, <2>1, ToggleIs
<1> QED
  BY <1>4, <1>5

LEMMA HadamardOnZ ==
  ASSUME NEW z, NEW neg \in BOOLEAN, NEW i, i \notin z
  PROVE  Conjugated(Pauli({}, z, neg), "H", <<i>>) = Pauli({}, z, neg)
<1> DEFINE p == Pauli({}, z, neg)
<1>1. p.x = {} /\ p.z = z /\ p.neg = neg
  BY PauliParts
<1>2. Xor(i \in p.x, i \in p.z) = FALSE
  BY <1>1 DEF Xor
<1>3. (i \in p.x /\ i \in p.z) = FALSE
  BY <1>1
<1>4. Conjugated(p, "H", <<i>>) = Pauli(Toggle({}, i, FALSE), Toggle(z, i, FALSE), Xor(neg, FALSE))
  BY <1>1, <1>2, <1>3, ConjugatedByH
<1> QED
  BY <1>4, ToggleIs, XorSame

(* X and Z only change the sign of what they do not commute with.          *)
LEMMA PauliOnX ==
  ASSUME NEW x, NEW neg \in BOOLEAN, NEW i, NEW k \in {"X", "Z"}
  PROVE  Conjugated(Pauli(x, {}, neg), k, <<i>>)
           = Pauli(x, {}, IF k = "Z" /\ i \in x THEN ~neg ELSE neg)
<1> DEFINE p == Pauli(x, {}, neg)
<1>1. p.x = x /\ p.z = {} /\ p.neg = neg
  BY PauliParts
<1>2. CASE k = "X"
  <2>1. Conjugated(p, "X", <<i>>) = Pauli(p.x, p.z, Xor(p.neg, i \in p.z))
    BY DEF Conjugated
  <2>2. (i \in p.z) = FALSE
    BY <1>1
  <2> QED
    BY <1>1, <1>2, <2>1, <2>2, XorSame
<1>3. CASE k = "Z"
  <2>1. Conjugated(p, "Z", <<i>>) = Pauli(p.x, p.z, Xor(p.neg, i \in p.x))
    BY DEF Conjugated
  <2>2. Xor(neg, i \in x) = IF i \in x THEN ~neg ELSE neg
    BY DEF Xor
  <2> QED
    BY <1>1, <1>3, <2>1, <2>2
<1> QED
  BY <1>2, <1>3

LEMMA PauliOnZ ==
  ASSUME NEW z, NEW neg \in BOOLEAN, NEW i, NEW k \in {"X", "Z"}
  PROVE  Conjugated(Pauli({}, z, neg), k, <<i>>)
           = Pauli({}, z, IF k = "X" /\ i \in z THEN ~neg ELSE neg)
<1> DEFINE p == Pauli({}, z, neg)
<1>1. p.x = {} /\ p.z = z /\ p.neg = neg
  BY PauliParts
<1>2. CASE k = "Z"
  <2>1. Conjugated(p, "Z", <<i>>) = Pauli(p.x, p.z, Xor(p.neg, i \in p.x))
    BY DEF Conjugated
  <2>2. (i \in p.x) = FALSE
    BY <1>1
  <2> QED
    BY <1>1, <1>2, <2>1, <2>2, XorSame
<1>3. CASE k = "X"
  <2>1. Conjugated(p, "X", <<i>>) = Pauli(p.x, p.z, Xor(p.neg, i \in p.z))
    BY DEF Conjugated
  <2>2. Xor(neg, i \in z) = IF i \in z THEN ~neg ELSE neg
    BY DEF Xor
  <2> QED
    BY <1>1, <1>3, <2>1, <2>2
<1> QED
  BY <1>2, <1>3

-----------------------------------------------------------------------------
(* Taking a position out: the swaps carry it to the end, and lower those   *)
(* they pass by one.                                                       *)

Low(q, i) == IF q > i THEN q - 1 ELSE q
Lower(s, i) == {Low(q, i) : q \in s}
LowerTo(s, i, k) == {IF i < q /\ q <= k THEN q - 1 ELSE q : q \in s}
Moved(s, q) == IF q \in s THEN (s \ {q}) \cup {q - 1} ELSE s

LEMMA SwapMoves ==
  ASSUME NEW x, NEW z, NEW neg, NEW q \in Int, q - 1 \notin x \cup z
  PROVE  Conjugated(Pauli(x, z, neg), "SWAP", <<q - 1, q>>) = Pauli(Moved(x, q), Moved(z, q), neg)
<1> DEFINE Swapped(s) == Toggle(Toggle(s, q - 1, Xor(q - 1 \in s, q \in s)), q,
                                Xor(q - 1 \in s, q \in s))
           p == Pauli(x, z, neg)
<1>1. Conjugated(p, "SWAP", <<q - 1, q>>) = Pauli(Swapped(p.x), Swapped(p.z), p.neg)
  BY DEF Conjugated
<1>2. ASSUME NEW s, q - 1 \notin s
      PROVE  Swapped(s) = Moved(s, q)
  <2>1. CASE q \in s
    <3>1. Toggle(s, q - 1, Xor(q - 1 \in s, q \in s)) = s \cup {q - 1}
      BY <1>2, <2>1 DEF Toggle, SymDiff, Xor
    <3>2. Swapped(s) = Toggle(s \cup {q - 1}, q, Xor(q - 1 \in s, q \in s))
      BY <3>1
    <3>3. Swapped(s) = SymDiff(s \cup {q - 1}, {q})
      BY <1>2, <2>1, <3>2 DEF Toggle, Xor
    <3>4. SymDiff(s \cup {q - 1}, {q}) = (s \ {q}) \cup {q - 1}
      BY <2>1 DEF SymDiff
    <3> QED
      BY <2>1, <3>3, <3>4 DEF Moved
  <2>2. CASE q \notin s
    BY <1>2, <2>2 DEF Toggle, Xor, Moved
  <2> QED
    BY <2>1, <2>2
<1>3. p.x = x /\ p.z = z /\ p.neg = neg
  BY PauliParts
<1> HIDE DEF Swapped, p
<1> QED
  BY <1>1, <1>2, <1>3 DEF p

LEMMA LowerStep ==
  ASSUME NEW s \in SUBSET Nat, NEW i \in Nat, i \notin s, NEW q \in Nat, i < q
  PROVE  /\ q - 1 \notin LowerTo(s, i, q - 1)
         /\ LowerTo(s, i, q) = Moved(LowerTo(s, i, q - 1), q)
<1>1. \A w \in s : w \in Nat /\ w # i
  OBVIOUS
<1>2. q - 1 \notin LowerTo(s, i, q - 1)
  BY <1>1 DEF LowerTo
<1>3. CASE q \in s
  <2>1. q \in LowerTo(s, i, q - 1)
    BY <1>3 DEF LowerTo
  <2>2. \A v : v \in LowerTo(s, i, q) <=> v \in (LowerTo(s, i, q - 1) \ {q}) \cup {q - 1}
    BY <1>1, <1>3 DEF LowerTo
  <2> QED
    BY <1>2, <2>1, <2>2 DEF Moved
<1>4. CASE q \notin s
  <2>1. q \notin LowerTo(s, i, q - 1)
    BY <1>1, <1>4 DEF LowerTo
  <2>2. \A w \in s : (i < w /\ w <= q) <=> (i < w /\ w <= q - 1)
    BY <1>1, <1>4
  <2> QED
    BY <1>2, <2>1, <2>2 DEF Moved, LowerTo
<1> QED
  BY <1>3, <1>4

(* A set of numbers that contains 0 and the successor of each of its       *)
(* elements below n contains all of them.                                  *)
LEMMA Reach ==
  ASSUME NEW n \in Nat, NEW S, 0 \in S, \A i \in 1..n : i - 1 \in S => i \in S
  PROVE  \A i \in 0..n : i \in S
<1> DEFINE T == (0..n) \ S
<1>1. SUFFICES ASSUME T # {}
               PROVE  FALSE
  OBVIOUS
<1>2. T \subseteq Nat
  OBVIOUS
<1>3. PICK x \in T : \A y \in T : <<y, x>> \notin OpToRel(<, Nat)
  <2> HIDE DEF T
  <2> QED
    BY <1>1, <1>2, NatLessThanWellFounded, WFMin, Zenon
<1>4. \A y \in T : ~(y < x)
  BY <1>2, <1>3 DEF OpToRel
<1>5. x \in 1..n /\ x - 1 \in 0..n /\ x - 1 < x
  OBVIOUS
<1>6. x - 1 \in S
  BY <1>4, <1>5
<1> QED
  BY <1>5, <1>6

IsSwapping(f, grp, i, k) ==
  f = [q \in i..k |-> IF q = i THEN grp ELSE StabApply(f[q - 1], "SWAP", <<q - 1, q>>)]

LEMMA SwappingExists ==
  ASSUME NEW grp, NEW i \in Nat, NEW k \in Nat, i <= k
  PROVE  \E f : IsSwapping(f, grp, i, k)
<1> DEFINE S == {m \in 0..(k - i) : \E f : IsSwapping(f, grp, i, i + m)}
<1>1. 0 \in S
  <2>1. IsSwapping([q \in i..i |-> grp], grp, i, i)
    BY DEF IsSwapping
  <2>2. i + 0 = i
    OBVIOUS
  <2> QED
    BY <2>1, <2>2
<1>2. ASSUME NEW m \in 1..(k - i), m - 1 \in S
      PROVE  m \in S
  <2> DEFINE last == i + m
  <2>1. last \in Nat /\ i + (m - 1) = last - 1 /\ i < last
    OBVIOUS
  <2>2. PICK f : IsSwapping(f, grp, i, last - 1)
    BY <1>2, <2>1
  <2> DEFINE g == [q \in i..last |-> IF q < last THEN f[q]
                                     ELSE StabApply(f[last - 1], "SWAP", <<last - 1, last>>)]
  <2>3. ASSUME NEW q \in i..last
        PROVE  g[q] = IF q = i THEN grp ELSE StabApply(g[q - 1], "SWAP", <<q - 1, q>>)
    <3>1. CASE q = last
      <4>1. last - 1 \in i..last /\ last - 1 < last /\ q # i
        BY <2>1, <3>1
      <4>2. g[last - 1] = f[last - 1]
        BY <4>1
      <4> QED
        BY <3>1, <4>1, <4>2
    <3>2. CASE q # last
      <4>1. q \in i..(last - 1)
        BY <2>1, <3>2
      <4>2. f[q] = IF q = i THEN grp ELSE StabApply(f[q - 1], "SWAP", <<q - 1, q>>)
        BY <2>2, <4>1 DEF IsSwapping
      <4>3. g[q] = f[q]
        BY <2>1, <4>1
      <4>4. q # i => q - 1 \in i..last /\ q - 1 < last
        BY <2>1, <4>1
      <4>5. q # i => g[q - 1] = f[q - 1]
        BY <4>4
      <4> QED
        BY <4>2, <4>3, <4>5
    <3> QED
      BY <3>1, <3>2
  <2>4. IsSwapping(g, grp, i, last)
    <3>1. g = [q \in i..last |-> g[q]]
      OBVIOUS
    <3> HIDE DEF g
    <3> QED
      BY <2>3, <3>1 DEF IsSwapping
  <2> QED
    BY <2>4
<1>3. k - i \in S
  <2>1. k - i \in Nat
    OBVIOUS
  <2> HIDE DEF S
  <2> QED
    BY <1>1, <1>2, <2>1, Reach
<1>4. i + (k - i) = k
  OBVIOUS
<1> QED
  BY <1>3, <1>4

LEMMA RemoveQubitIs ==
  ASSUME NEW grp, NEW n \in Nat, NEW i \in 0..(n - 1)
  PROVE  \E f : IsSwapping(f, grp, i, n - 1) /\ RemoveQubit(grp, n, i) = DropLast(f[n - 1], n)
<1> DEFINE swapped[q \in i..(n - 1)] ==
             IF q = i THEN grp ELSE StabApply(swapped[q - 1], "SWAP", <<q - 1, q>>)
<1>1. IsSwapping(swapped, grp, i, n - 1)
  <2>1. swapped = CHOOSE f : f = [q \in i..(n - 1) |-> IF q = i THEN grp
                                    ELSE StabApply(f[q - 1], "SWAP", <<q - 1, q>>)]
    OBVIOUS
  <2>2. swapped = CHOOSE f : IsSwapping(f, grp, i, n - 1)
    BY <2>1 DEF IsSwapping
  <2>3. i \in Nat /\ n - 1 \in Nat /\ i <= n - 1
    OBVIOUS
  <2> HIDE DEF swapped
  <2> QED
    BY <2>2, <2>3, SwappingExists
<1>2. RemoveQubit(grp, n, i) = DropLast(swapped[n - 1], n)
  BY DEF RemoveQubit
<1> HIDE DEF swapped
<1> QED
  BY <1>1, <1>2

(* What does not touch the position stays in the group, renumbered.        *)
LEMMA StaysRenumbered ==
  ASSUME NEW grp, NEW n \in Nat, NEW i \in 0..(n - 1),
         NEW x \in SUBSET (0..(n - 1)), NEW z \in SUBSET (0..(n - 1)), NEW neg,
         i \notin x, i \notin z, Pauli(x, z, neg) \in grp
  PROVE  Pauli(Lower(x, i), Lower(z, i), neg) \in RemoveQubit(grp, n, i)
<1> DEFINE At(q) == Pauli(LowerTo(x, i, q), LowerTo(z, i, q), neg)
<1>1. PICK f : IsSwapping(f, grp, i, n - 1) /\ RemoveQubit(grp, n, i) = DropLast(f[n - 1], n)
  BY RemoveQubitIs
<1>2. i \in Nat /\ n - 1 \in Nat /\ i <= n - 1 /\ n - 1 - i \in Nat
        /\ x \in SUBSET Nat /\ z \in SUBSET Nat
  OBVIOUS
<1> DEFINE S == {m \in 0..(n - 1 - i) : At(i + m) \in f[i + m]}
<1>3. 0 \in S
  <2>1. LowerTo(x, i, i) = x /\ LowerTo(z, i, i) = z
    <3>1. \A w \in x \cup z : ~(i < w /\ w <= i)
      BY <1>2
    <3> QED
      BY <3>1 DEF LowerTo
  <2>2. f[i] = grp
    BY <1>1, <1>2 DEF IsSwapping
  <2>3. i + 0 = i
    BY <1>2
  <2> QED
    BY <1>2, <2>1, <2>2, <2>3
<1>4. ASSUME NEW m \in 1..(n - 1 - i), m - 1 \in S
      PROVE  m \in S
  <2> DEFINE q == i + m
  <2>1. q \in i..(n - 1) /\ q # i /\ q \in Nat /\ i < q /\ i + (m - 1) = q - 1
    BY <1>2
  <2>2. At(q - 1) \in f[q - 1]
    BY <1>4, <2>1
  <2>3. f[q] = StabApply(f[q - 1], "SWAP", <<q - 1, q>>)
    BY <1>1, <2>1 DEF IsSwapping
  <2>4. /\ q - 1 \notin LowerTo(x, i, q - 1) \cup LowerTo(z, i, q - 1)
        /\ LowerTo(x, i, q) = Moved(LowerTo(x, i, q - 1), q)
        /\ LowerTo(z, i, q) = Moved(LowerTo(z, i, q - 1), q)
    BY <1>2, <2>1, LowerStep
  <2>5. Conjugated(At(q - 1), "SWAP", <<q - 1, q>>) = At(q)
    BY <2>1, <2>4, SwapMoves
  <2>6. At(q) \in f[q]
    BY <2>2, <2>3, <2>5 DEF StabApply
  <2> QED
    BY <2>6
<1>5. At(n - 1) \in f[n - 1]
  <2>1. n - 1 - i \in S
    <3> HIDE DEF S
    <3> QED
      BY <1>2, <1>3, <1>4, Reach
  <2>2. i + (n - 1 - i) = n - 1
    BY <1>2
  <2> HIDE DEF At
  <2> QED
    BY <2>1, <2>2
<1>6. LowerTo(x, i, n - 1) = Lower(x, i) /\ LowerTo(z, i, n - 1) = Lower(z, i)
  <2>1. \A w \in x \cup z : w \in Nat /\ w <= n - 1
    OBVIOUS
  <2>2. \A w \in x \cup z : (i < w /\ w <= n - 1) <=> w > i
    BY <1>2, <2>1
  <2> QED
    BY <2>2 DEF LowerTo, Lower, Low
<1>7. n - 1 \notin Lower(x, i) \cup Lower(z, i)
  BY <1>2 DEF Lower, Low
<1> QED
  BY <1>1, <1>5, <1>6, <1>7, PauliParts DEF DropLast

(* A measurement in Z leaves what commutes with it, and takes the measured *)
(* position out of it for the sign of the outcome.                         *)
LEMMA SurvivesZ ==
  ASSUME NEW grp, NEW n \in Nat, NEW i \in 0..(n - 1), NEW bit \in {0, 1},
         NEW x \in SUBSET (0..(n - 1)), NEW z \in SUBSET (0..(n - 1)), NEW neg \in BOOLEAN,
         NEW sign \in BOOLEAN, sign <=> IF i \in z /\ bit = 1 THEN ~neg ELSE neg,
         i \notin x, Pauli(x, z, neg) \in grp
  PROVE  Pauli(Lower(x, i), Lower(z \ {i}, i), sign) \in StabSurvivors(grp, n, i, "Z", bit)
<1>1. RotateIntoZBasis(grp, i, "Z") = grp
  BY DEF RotateIntoZBasis, IntoZ
<1>2. StabSurvivors(grp, n, i, "Z", bit) = RemoveQubit(AfterZ(grp, i, bit), n, i)
  BY <1>1 DEF StabSurvivors
<1>3. Pauli(x, z \ {i}, sign) \in AfterZ(grp, i, bit)
  <2> DEFINE p == Pauli(x, z, neg)
             commuting == {g \in grp : i \notin g.x}
  <2>1. p \in commuting /\ p.x = x /\ p.z = z /\ p.neg = neg
    BY PauliParts
  <2>2. AfterZ(grp, i, bit) =
          commuting \cup {Pauli(g.x, SymDiff(g.z, {i}), Xor(g.neg, bit = 1)) : g \in commuting}
    BY DEF AfterZ
  <2> HIDE DEF p, commuting
  <2>3. CASE i \in z
    <3>1. Pauli(p.x, SymDiff(p.z, {i}), Xor(p.neg, bit = 1)) \in AfterZ(grp, i, bit)
      BY <2>1, <2>2
    <3>2. SymDiff(z, {i}) = z \ {i}
      BY <2>3 DEF SymDiff
    <3>3. Xor(neg, bit = 1) = sign
      BY <2>3 DEF Xor
    <3> QED
      BY <2>1, <3>1, <3>2, <3>3
  <2>4. CASE i \notin z
    <3>1. z \ {i} = z /\ sign = neg
      BY <2>4
    <3> QED
      BY <2>1, <2>2, <3>1 DEF p
  <2> QED
    BY <2>3, <2>4
<1>4. z \ {i} \in SUBSET (0..(n - 1)) /\ i \notin z \ {i}
  OBVIOUS
<1>5. Pauli(Lower(x, i), Lower(z \ {i}, i), sign) \in RemoveQubit(AfterZ(grp, i, bit), n, i)
  BY <1>3, <1>4, StaysRenumbered
<1> QED
  BY <1>2, <1>5

LEMMA LowIs ==
  ASSUME NEW n \in Nat, NEW i \in 0..(n - 1), NEW q \in 0..(n - 1), q # i
  PROVE  /\ Low(q, i) \in 0..(n - 1 - 1)
         /\ \A r \in 0..(n - 1) : r # i /\ r # q => Low(r, i) # Low(q, i)
BY DEF Low

LEMMA LowerIs ==
  ASSUME NEW n \in Nat, NEW i \in 0..(n - 1), NEW s \in SUBSET (0..(n - 1)), i \notin s
  PROVE  /\ Lower(s, i) \in SUBSET (0..(n - 1 - 1))
         /\ \A j \in 0..(n - 1) : j # i =>
              /\ Low(j, i) \in Lower(s, i) <=> j \in s
              /\ Lower(s, i) \ {Low(j, i)} = Lower(s \ {j}, i)
<1>1. \A q \in s : Low(q, i) \in 0..(n - 1 - 1)
  BY LowIs
<1>2. Lower(s, i) \in SUBSET (0..(n - 1 - 1))
  BY <1>1 DEF Lower
<1>3. ASSUME NEW j \in 0..(n - 1), j # i
      PROVE  /\ Low(j, i) \in Lower(s, i) <=> j \in s
             /\ Lower(s, i) \ {Low(j, i)} = Lower(s \ {j}, i)
  <2>1. \A q \in s : q # j => Low(q, i) # Low(j, i)
    BY <1>3, LowIs
  <2> QED
    BY <2>1 DEF Lower
<1> QED
  BY <1>2, <1>3

(* The gates and measurements of MeasureBell(a, b), with a and b at the    *)
(* positions i and j.  A product of X that has both loses them, for the    *)
(* sign of the first outcome; one of Z, for the sign of the second.        *)
LEMMA GatesOnX ==
  ASSUME NEW w, NEW neg \in BOOLEAN, NEW i, NEW j, i # j, i \in w <=> j \in w
  PROVE  Conjugated(Conjugated(Pauli(w, {}, neg), "CNOT", <<i, j>>), "H", <<i>>)
           = Pauli(w \ {i, j}, IF i \in w THEN {i} ELSE {}, neg)
<1>1. CASE i \in w
  <2>1. (i \in w) = TRUE
    BY <1>1
  <2>2. Toggle(w, j, i \in w) = w \ {j}
    BY <1>1, <2>1, ToggleIs
  <2>3. Conjugated(Pauli(w, {}, neg), "CNOT", <<i, j>>) = Pauli(w \ {j}, {}, neg)
    <3>1. Conjugated(Pauli(w, {}, neg), "CNOT", <<i, j>>) = Pauli(Toggle(w, j, i \in w), {}, neg)
      BY CnotOnX
    <3> QED
      BY <2>2, <3>1
  <2>4. i \in w \ {j} /\ (w \ {j}) \ {i} = w \ {i, j}
    BY <1>1
  <2>5. Conjugated(Pauli(w \ {j}, {}, neg), "H", <<i>>) = Pauli((w \ {j}) \ {i}, {i}, neg)
    BY <2>4, HadamardOnX
  <2> QED
    BY <1>1, <2>3, <2>4, <2>5
<1>2. CASE i \notin w
  <2>1. (i \in w) = FALSE
    BY <1>2
  <2>2. w \ {i, j} = w
    BY <1>2
  <2>3. Conjugated(Pauli(w, {}, neg), "CNOT", <<i, j>>) = Pauli(w, {}, neg)
    <3>1. Conjugated(Pauli(w, {}, neg), "CNOT", <<i, j>>) = Pauli(Toggle(w, j, i \in w), {}, neg)
      BY CnotOnX
    <3>2. Toggle(w, j, i \in w) = w
      BY <2>1, ToggleIs
    <3> QED
      BY <3>1, <3>2
  <2>4. Conjugated(Pauli(w, {}, neg), "H", <<i>>) = Pauli(w, {}, neg)
    BY <1>2, HadamardOnX
  <2> QED
    BY <1>2, <2>2, <2>3, <2>4
<1> QED
  BY <1>1, <1>2

LEMMA GatesOnZ ==
  ASSUME NEW w, NEW neg \in BOOLEAN, NEW i, NEW j, i # j, i \in w <=> j \in w
  PROVE  Conjugated(Conjugated(Pauli({}, w, neg), "CNOT", <<i, j>>), "H", <<i>>)
           = Pauli({}, w \ {i}, neg)
<1>1. Toggle(w, i, j \in w) = w \ {i}
  <2>1. CASE j \in w
    <3>1. (j \in w) = TRUE
      BY <2>1
    <3> QED
      BY <2>1, <3>1, ToggleIs
  <2>2. CASE j \notin w
    <3>1. (j \in w) = FALSE /\ w \ {i} = w
      BY <2>2
    <3> QED
      BY <3>1, ToggleIs
  <2> QED
    BY <2>1, <2>2
<1>2. Conjugated(Pauli({}, w, neg), "CNOT", <<i, j>>) = Pauli({}, w \ {i}, neg)
  <2>1. Conjugated(Pauli({}, w, neg), "CNOT", <<i, j>>) = Pauli({}, Toggle(w, i, j \in w), neg)
    BY CnotOnZ
  <2> QED
    BY <1>1, <2>1
<1>3. Conjugated(Pauli({}, w \ {i}, neg), "H", <<i>>) = Pauli({}, w \ {i}, neg)
  BY HadamardOnZ
<1> QED
  BY <1>2, <1>3

LEMMA BellMeasured ==
  ASSUME NEW grp, NEW n \in Nat, NEW i \in 0..(n - 1), NEW j \in 0..(n - 1), i # j,
         NEW m1 \in {0, 1}, NEW m2 \in {0, 1},
         NEW w \in SUBSET (0..(n - 1)), NEW neg \in BOOLEAN, i \in w <=> j \in w,
         NEW sign \in BOOLEAN
  PROVE  LET rotated == StabApply(StabApply(grp, "CNOT", <<i, j>>), "H", <<i>>)
             afterA == StabSurvivors(rotated, n, i, "Z", m1)
             afterB == StabSurvivors(afterA, n - 1, Low(j, i), "Z", m2)
             left == Lower(Lower(w \ {i, j}, i), Low(j, i))
         IN  /\ Pauli(w, {}, neg) \in grp /\ (sign <=> IF i \in w /\ m1 = 1 THEN ~neg ELSE neg)
                  => Pauli(left, {}, sign) \in afterB
             /\ Pauli({}, w, neg) \in grp /\ (sign <=> IF i \in w /\ m2 = 1 THEN ~neg ELSE neg)
                  => Pauli({}, left, sign) \in afterB
<1> DEFINE rotated == StabApply(StabApply(grp, "CNOT", <<i, j>>), "H", <<i>>)
           afterA == StabSurvivors(rotated, n, i, "Z", m1)
           jA == Low(j, i)
           afterB == StabSurvivors(afterA, n - 1, jA, "Z", m2)
           wA == Lower(w \ {i, j}, i)
           left == Lower(wA, jA)
<1>1. n - 1 \in Nat /\ jA \in 0..(n - 1 - 1)
  BY LowIs
<1>2. w \ {i, j} \in SUBSET (0..(n - 1)) /\ i \notin w \ {i, j} /\ j \notin w \ {i, j}
  OBVIOUS
<1>3. wA \in SUBSET (0..(n - 1 - 1)) /\ jA \notin wA
  BY <1>2, LowerIs
<1>4. \A s : Lower({}, s) = {}
  BY DEF Lower
<1>5. \A p \in grp : Conjugated(Conjugated(p, "CNOT", <<i, j>>), "H", <<i>>) \in rotated
  BY DEF StabApply
<1>6. ASSUME Pauli(w, {}, neg) \in grp, sign <=> IF i \in w /\ m1 = 1 THEN ~neg ELSE neg
      PROVE  Pauli(left, {}, sign) \in afterB
  <2> DEFINE zs == IF i \in w THEN {i} ELSE {}
  <2>1. Pauli(w \ {i, j}, zs, neg) \in rotated
    <3>1. Conjugated(Conjugated(Pauli(w, {}, neg), "CNOT", <<i, j>>), "H", <<i>>)
            = Pauli(w \ {i, j}, zs, neg)
      BY GatesOnX
    <3> HIDE DEF rotated, zs
    <3> QED
      BY <1>5, <1>6, <3>1
  <2>2. zs \in SUBSET (0..(n - 1)) /\ (i \in zs <=> i \in w) /\ zs \ {i} = {}
    OBVIOUS
  <2> HIDE DEF zs, rotated
  <2>4. sign <=> IF i \in zs /\ m1 = 1 THEN ~neg ELSE neg
    BY <1>6, <2>2
  <2>5. Pauli(wA, {}, sign) \in afterA
    <3>1. Lower(zs \ {i}, i) = {}
      BY <1>4, <2>2
    <3>2. Pauli(wA, Lower(zs \ {i}, i), sign) \in afterA
      BY <1>2, <2>1, <2>2, <2>4, SurvivesZ
    <3> QED
      BY <3>1, <3>2
  <2> HIDE DEF wA, afterA, jA
  <2>6. {} \ {jA} = {} /\ Lower({}, jA) = {} /\ jA \notin {}
    BY <1>4
  <2>7. Pauli(left, Lower({} \ {jA}, jA), sign) \in afterB
    BY <1>1, <1>3, <2>5, <2>6, SurvivesZ
  <2> QED
    BY <2>6, <2>7
<1>7. ASSUME Pauli({}, w, neg) \in grp, sign <=> IF i \in w /\ m2 = 1 THEN ~neg ELSE neg
      PROVE  Pauli({}, left, sign) \in afterB
  <2> DEFINE v == w \ {i}
             vA == Lower(v, i)
  <2>1. Pauli({}, v, neg) \in rotated
    <3>1. Conjugated(Conjugated(Pauli({}, w, neg), "CNOT", <<i, j>>), "H", <<i>>) = Pauli({}, v, neg)
      BY GatesOnZ
    <3> HIDE DEF rotated, v
    <3> QED
      BY <1>5, <1>7, <3>1
  <2>2. v \in SUBSET (0..(n - 1)) /\ i \notin v /\ v \ {i} = v /\ v \ {j} = w \ {i, j}
          /\ (j \in v <=> i \in w)
    OBVIOUS
  <2> HIDE DEF v, rotated
  <2>3. Pauli({}, vA, neg) \in afterA
    <3>1. i \notin {} /\ {} \in SUBSET (0..(n - 1))
      OBVIOUS
    <3>2. Pauli(Lower({}, i), Lower(v \ {i}, i), neg) \in afterA
      BY <2>1, <2>2, <3>1, SurvivesZ
    <3> QED
      BY <1>4, <2>2, <3>2
  <2>4. vA \in SUBSET (0..(n - 1 - 1)) /\ (jA \in vA <=> j \in v) /\ vA \ {jA} = wA
    <3>1. /\ Lower(v, i) \in SUBSET (0..(n - 1 - 1))
          /\ Low(j, i) \in Lower(v, i) <=> j \in v
          /\ Lower(v, i) \ {Low(j, i)} = Lower(v \ {j}, i)
      BY <2>2, LowerIs
    <3> QED
      BY <2>2, <3>1
  <2>5. sign <=> IF jA \in vA /\ m2 = 1 THEN ~neg ELSE neg
    BY <1>7, <2>2, <2>4
  <2> HIDE DEF vA, wA, afterA, jA
  <2>6. Pauli(Lower({}, jA), Lower(vA \ {jA}, jA), sign) \in afterB
    <3>1. jA \notin {} /\ {} \in SUBSET (0..(n - 1 - 1))
      OBVIOUS
    <3> QED
      BY <1>1, <2>3, <2>4, <2>5, <3>1, SurvivesZ
  <2> QED
    BY <1>4, <2>4, <2>6
<1> QED
  BY <1>6, <1>7

-----------------------------------------------------------------------------
(* Signs: whether an odd number of the pairs of U has a frame whose j-th   *)
(* bit is 1.                                                               *)
Count(fr, U, j) == Cardinality({p \in U : fr[p][j] = 1})
Odd(fr, U, j) == Count(fr, U, j) % 2 = 1

LEMMA OddEmpty ==
  ASSUME NEW fr, NEW j
  PROVE  Odd(fr, {}, j) = FALSE
<1>1. {p \in {} : fr[p][j] = 1} = {}
  OBVIOUS
<1> QED
  BY <1>1, FS_EmptySet DEF Odd, Count

(* p is another pair than those of the finite set U; the pairs with p; and *)
(* a count with one more pair, whose bit is v.                             *)
Another(U, p) == IsFiniteSet(U) /\ p \notin U
With(U, p) == U \cup {p}
OneMore(c, v) == IF v = 1 THEN c + 1 ELSE c

LEMMA CountAdd ==
  ASSUME NEW fr, NEW U, NEW p, Another(U, p), NEW j
  PROVE  /\ Count(fr, U, j) \in Nat
         /\ Count(fr, With(U, p), j) = OneMore(Count(fr, U, j), fr[p][j])
<1> DEFINE On(V) == {r \in V : fr[r][j] = 1}
<1>1. IsFiniteSet(On(U)) /\ p \notin On(U)
  BY FS_Subset DEF Another
<1>2. Cardinality(On(U)) \in Nat
  BY <1>1, FS_CardinalityType
<1>3. CASE fr[p][j] = 1
  <2>1. On(U \cup {p}) = On(U) \cup {p}
    BY <1>3
  <2>2. Cardinality(On(U \cup {p})) = Cardinality(On(U)) + 1
    BY <1>1, <2>1, FS_AddElement
  <2> QED
    BY <1>2, <1>3, <2>2 DEF Count, With, OneMore
<1>4. CASE fr[p][j] # 1
  <2>1. On(U \cup {p}) = On(U)
    BY <1>4
  <2> QED
    BY <1>2, <1>4, <2>1 DEF Count, With, OneMore
<1> QED
  BY <1>3, <1>4

LEMMA OddSame ==
  ASSUME NEW fr, NEW gr, NEW U, NEW j, \A p \in U : (fr[p][j] = 1) <=> (gr[p][j] = 1)
  PROVE  Odd(fr, U, j) = Odd(gr, U, j)
<1>1. {p \in U : fr[p][j] = 1} = {p \in U : gr[p][j] = 1}
  OBVIOUS
<1> QED
  BY <1>1 DEF Odd, Count

-----------------------------------------------------------------------------
(* The products of the pairs' stabilizers, over any set of pairs.          *)
Wires(idx, U) == {idx[q] : q \in UNION U}
XOf(idx, fr, U) == Pauli(Wires(idx, U), {}, Odd(fr, U, 2))
ZOf(idx, fr, U) == Pauli({}, Wires(idx, U), Odd(fr, U, 1))

Paired ==
  /\ IsFiniteSet(DOMAIN frames)
  /\ frames \in [DOMAIN frames -> F!Frame]
  /\ UNION (DOMAIN frames) = Qubits
  /\ \A p \in DOMAIN frames : \E a, b \in Qubits : a # b /\ p = {a, b}
  /\ \A p, r \in DOMAIN frames : p # r => p \cap r = {}

Placed ==
  /\ made \in Nat
  /\ Qubits \subseteq 1..(2 * made)
  /\ index \in [Qubits -> 0..(Size - 1)]
  /\ \A q, w \in Qubits : q # w => index[q] # index[w]

Products == \A U \in SUBSET DOMAIN frames : {XOf(index, frames, U), ZOf(index, frames, U)} \subseteq pairsGroup

PairsInv == Paired /\ Placed /\ Products

LEMMA SizeIs ==
  ASSUME Placed
  PROVE  IsFiniteSet(Qubits) /\ Size \in Nat
<1>1. IsFiniteSet(1..(2 * made))
  BY FS_Interval DEF Placed
<1>2. IsFiniteSet(Qubits)
  BY <1>1, FS_Subset DEF Placed
<1> QED
  BY <1>2, FS_CardinalityType DEF Size

(* Of the pairs U, gr and fr differ at most in the frame of p.             *)
Differ(fr, gr, U, p) ==
  /\ IsFiniteSet(U) /\ \A r \in U \ {p} : gr[r] = fr[r]
  /\ fr[p] \in F!Frame /\ gr[p] \in F!Frame

LEMMA OddChanged ==
  ASSUME NEW fr, NEW gr, NEW U, NEW p, Differ(fr, gr, U, p), NEW j \in {1, 2}
  PROVE  /\ p \in U /\ gr[p][j] # fr[p][j] => (Odd(gr, U, j) <=> ~Odd(fr, U, j))
         /\ ~(p \in U /\ gr[p][j] # fr[p][j]) => (Odd(gr, U, j) <=> Odd(fr, U, j))
<1>0. /\ IsFiniteSet(U) /\ \A r \in U \ {p} : gr[r] = fr[r]
      /\ fr[p] \in F!Frame /\ gr[p] \in F!Frame
  BY DEF Differ
<1>1. CASE p \in U
  <2> DEFINE V == U \ {p}
             c == Count(fr, V, j)
  <2>1. Another(V, p) /\ U = With(V, p)
    BY <1>0, <1>1, FS_RemoveElement DEF Another, With
  <2>2. Count(gr, V, j) = c
    <3>1. {r \in V : gr[r][j] = 1} = {r \in V : fr[r][j] = 1}
      BY <1>0
    <3> QED
      BY <3>1 DEF Count
  <2> HIDE DEF V
  <2>3. /\ c \in Nat
        /\ Count(gr, U, j) = IF gr[p][j] = 1 THEN c + 1 ELSE c
        /\ Count(fr, U, j) = IF fr[p][j] = 1 THEN c + 1 ELSE c
    <3>0. Another(V, p)
      BY <2>1
    <3>1. Count(gr, V, j) \in Nat
      BY ONLY <3>0, CountAdd
    <3>2. Count(fr, With(V, p), j) = OneMore(Count(fr, V, j), fr[p][j])
      BY ONLY <3>0, CountAdd
    <3>4. Count(gr, With(V, p), j) = OneMore(Count(gr, V, j), gr[p][j])
      BY ONLY <3>0, CountAdd
    <3>3. Count(gr, U, j) = OneMore(c, gr[p][j]) /\ Count(fr, U, j) = OneMore(c, fr[p][j])
      BY ONLY <2>1, <2>2, <3>2, <3>4
    <3> HIDE DEF c
    <3> QED
      BY ONLY <2>2, <3>1, <3>3 DEF OneMore
  <2>4. gr[p][j] \in {0, 1} /\ fr[p][j] \in {0, 1}
    BY <1>0 DEF F!Frame, F!Bit
  <2> HIDE DEF c
  <2>5. (Count(gr, U, j) % 2 = 1) = IF gr[p][j] # fr[p][j] THEN ~(Count(fr, U, j) % 2 = 1)
                                                          ELSE (Count(fr, U, j) % 2 = 1)
    BY <2>3, <2>4
  <2> QED
    BY <1>1, <2>5 DEF Odd
<1>2. CASE p \notin U
  <2>1. {r \in U : gr[r][j] = 1} = {r \in U : fr[r][j] = 1}
    BY <1>0, <1>2
  <2> QED
    BY <1>2, <2>1 DEF Odd, Count
<1> QED
  BY <1>1, <1>2

-----------------------------------------------------------------------------
LEMMA InitPairs ==
  ASSUME PairsInit
  PROVE  PairsInv
<1>1. made = 0 /\ index = [q \in {} |-> 0] /\ pairsGroup = StabZero(0) /\ frames = [p \in {} |-> F!NoFrame]
  BY DEF PairsInit
<1>2. Qubits = {} /\ DOMAIN frames = {} /\ Size = 0
  BY <1>1, FS_EmptySet DEF Qubits, Size
<1>3. Paired
  BY <1>1, <1>2, FS_EmptySet DEF Paired
<1>4. Placed
  BY <1>1, <1>2 DEF Placed
<1>5. Products
  <2>1. SUFFICES {XOf(index, frames, {}), ZOf(index, frames, {})} \subseteq pairsGroup
    BY <1>2 DEF Products
  <2>2. Wires(index, {}) = {}
    BY DEF Wires
  <2>3. Pauli({}, {}, FALSE) \in StabZero(0)
    BY DEF StabZero, BasisStates
  <2> QED
    BY <1>1, <2>2, <2>3, OddEmpty DEF XOf, ZOf
<1> QED
  BY <1>3, <1>4, <1>5 DEF PairsInv

LEMMA BellPairHas ==
  {Pauli({}, {}, FALSE), Pauli({0, 1}, {}, FALSE), Pauli({}, {0, 1}, FALSE)} \subseteq BellPairGroup
<1> DEFINE h == StabApply(StabZero(2), "H", <<0>>)
<1>1. \A z \in SUBSET {0, 1} : Pauli({}, z, FALSE) \in StabZero(2)
  <2>1. 0..(2 - 1) = {0, 1}
    OBVIOUS
  <2> QED
    BY <2>1 DEF StabZero, BasisStates, Positions
<1>2. Pauli({}, {}, FALSE) \in h /\ Pauli({}, {1}, FALSE) \in h
  <2>1. /\ Conjugated(Pauli({}, {}, FALSE), "H", <<0>>) = Pauli({}, {}, FALSE)
        /\ Conjugated(Pauli({}, {1}, FALSE), "H", <<0>>) = Pauli({}, {1}, FALSE)
    <3>1. 0 \notin {} /\ 0 \notin {1} /\ FALSE \in BOOLEAN
      OBVIOUS
    <3> QED
      BY <3>1, HadamardOnZ, Zenon
  <2>2. {} \in SUBSET {0, 1} /\ {1} \in SUBSET {0, 1}
    OBVIOUS
  <2> QED
    BY <1>1, <2>1, <2>2 DEF StabApply
<1>3. Pauli({0}, {}, FALSE) \in h
  <2> DEFINE p == Pauli({}, {0}, FALSE)
  <2>1. p.x = {} /\ p.z = {0} /\ p.neg = FALSE
    BY DEF Pauli
  <2>2. Xor(0 \in p.x, 0 \in p.z) = TRUE
    BY <2>1 DEF Xor
  <2>3. (0 \in p.x /\ 0 \in p.z) = FALSE
    BY <2>1
  <2>4. Conjugated(p, "H", <<0>>) = Pauli(Toggle({}, 0, TRUE), Toggle({0}, 0, TRUE), Xor(FALSE, FALSE))
    <3> HIDE DEF p
    <3> QED
      BY <2>1, <2>2, <2>3, ConjugatedByH
  <2>5. Toggle({}, 0, TRUE) = {0} /\ Toggle({0}, 0, TRUE) = {}
    BY DEF Toggle, SymDiff
  <2>6. Xor(FALSE, FALSE) = FALSE
    BY XorSame
  <2>7. {0} \in SUBSET {0, 1}
    OBVIOUS
  <2> QED
    BY <1>1, <2>4, <2>5, <2>6, <2>7 DEF StabApply
<1> HIDE DEF h
<1>4. BellPairGroup = StabApply(h, "CNOT", <<0, 1>>)
  BY DEF BellPairGroup, h
<1>5. Conjugated(Pauli({}, {}, FALSE), "CNOT", <<0, 1>>) = Pauli({}, {}, FALSE)
  <2>1. Conjugated(Pauli({}, {}, FALSE), "CNOT", <<0, 1>>) = Pauli(Toggle({}, 1, 0 \in {}), {}, FALSE)
    BY CnotOnX
  <2>2. Toggle({}, 1, 0 \in {}) = {}
    BY DEF Toggle
  <2> QED
    BY <2>1, <2>2
<1>6. Conjugated(Pauli({0}, {}, FALSE), "CNOT", <<0, 1>>) = Pauli({0, 1}, {}, FALSE)
  <2>1. Conjugated(Pauli({0}, {}, FALSE), "CNOT", <<0, 1>>) = Pauli(Toggle({0}, 1, 0 \in {0}), {}, FALSE)
    BY CnotOnX
  <2>2. Toggle({0}, 1, 0 \in {0}) = {0, 1}
    BY DEF Toggle, SymDiff
  <2> QED
    BY <2>1, <2>2
<1>7. Conjugated(Pauli({}, {1}, FALSE), "CNOT", <<0, 1>>) = Pauli({}, {0, 1}, FALSE)
  <2>1. Conjugated(Pauli({}, {1}, FALSE), "CNOT", <<0, 1>>) = Pauli({}, Toggle({1}, 0, 1 \in {1}), FALSE)
    BY CnotOnZ
  <2>2. Toggle({1}, 0, 1 \in {1}) = {0, 1}
    BY DEF Toggle, SymDiff
  <2> QED
    BY <2>1, <2>2
<1> QED
  BY <1>2, <1>3, <1>4, <1>5, <1>6, <1>7 DEF StabApply

LEMMA MergedHas ==
  ASSUME NEW grp, NEW n \in Nat, NEW s, NEW neg \in BOOLEAN, NEW on \in BOOLEAN
  PROVE  LET t == IF on THEN s \cup {n, n + 1} ELSE s
         IN  /\ Pauli(s, {}, neg) \in grp => Pauli(t, {}, neg) \in StabMerge(grp, n, BellPairGroup)
             /\ Pauli({}, s, neg) \in grp => Pauli({}, t, neg) \in StabMerge(grp, n, BellPairGroup)
<1> DEFINE shift(w) == {q + n : q \in w}
           bits == IF on THEN {0, 1} ELSE {}
           t == IF on THEN s \cup {n, n + 1} ELSE s
           both(p, r) == Pauli(p.x \cup shift(r.x), p.z \cup shift(r.z), Xor(p.neg, r.neg))
<1>1. \A p \in grp, r \in BellPairGroup : both(p, r) \in StabMerge(grp, n, BellPairGroup)
  <2>1. StabMerge(grp, n, BellPairGroup) = {both(p, r) : p \in grp, r \in BellPairGroup}
    BY DEF StabMerge
  <2> HIDE DEF both
  <2> QED
    BY <2>1
<1>2. Pauli(bits, {}, FALSE) \in BellPairGroup /\ Pauli({}, bits, FALSE) \in BellPairGroup
  BY BellPairHas
<1>3. shift({}) = {} /\ s \cup shift(bits) = t
  <2>1. shift({}) = {}
    OBVIOUS
  <2>2. shift({0, 1}) = {n, n + 1}
    OBVIOUS
  <2> QED
    BY <2>1, <2>2
<1> HIDE DEF shift, bits, t
<1>4. both(Pauli(s, {}, neg), Pauli(bits, {}, FALSE)) = Pauli(t, {}, neg)
  BY <1>3, XorSame DEF Pauli, Xor
<1>5. both(Pauli({}, s, neg), Pauli({}, bits, FALSE)) = Pauli({}, t, neg)
  BY <1>3, XorSame DEF Pauli, Xor
<1> HIDE DEF both
<1> QED
  BY <1>1, <1>2, <1>4, <1>5 DEF t

LEMMA CreateStep ==
  ASSUME PairsInv, CreateBellPair
  PROVE  PairsInv'
<1> DEFINE q0 == 2 * made + 1
           q1 == 2 * made + 2
           new == {q0, q1}
           n == Size
<1>1. /\ made' = made + 1
      /\ index' = [q \in Qubits \cup new |->
                     IF q = q0 THEN n ELSE IF q = q1 THEN n + 1 ELSE index[q]]
      /\ pairsGroup' = StabMerge(pairsGroup, n, BellPairGroup)
      /\ frames' = [p \in DOMAIN frames \cup {new} |-> IF p = new THEN F!NoFrame ELSE frames[p]]
  BY DEF CreateBellPair
<1>2. made \in Nat /\ Qubits \subseteq 1..(2 * made) /\ UNION (DOMAIN frames) = Qubits
  BY DEF PairsInv, Placed, Paired
<1>3. /\ q0 \in Nat /\ q1 \in Nat /\ q0 # q1 /\ q0 \notin Qubits /\ q1 \notin Qubits
      /\ Qubits \cup new \subseteq 1..(2 * (made + 1))
  BY <1>2
<1>4. new \notin DOMAIN frames /\ \A p \in DOMAIN frames : p \cap new = {}
  BY <1>2, <1>3
<1>5. Qubits' = Qubits \cup new
  BY <1>1 DEF Qubits
<1>6. IsFiniteSet(Qubits) /\ n \in Nat
  BY SizeIs DEF PairsInv
<1>7. Size' = n + 2
  <2>1. Size' = Cardinality(Qubits \cup new)
    BY <1>5 DEF Size
  <2>2. IsFiniteSet(Qubits \cup {q0}) /\ Cardinality(Qubits \cup {q0}) = n + 1
    BY <1>3, <1>6, FS_AddElement DEF Size
  <2>3. q1 \notin Qubits \cup {q0}
    BY <1>3
  <2>4. Cardinality((Qubits \cup {q0}) \cup {q1}) = (n + 1) + 1
    BY <2>2, <2>3, FS_AddElement
  <2>5. (Qubits \cup {q0}) \cup {q1} = Qubits \cup new
    OBVIOUS
  <2> QED
    BY <1>6, <2>1, <2>4, <2>5
<1> HIDE DEF n, q0, q1
<1>8. Paired'
  <2>1. DOMAIN frames' = DOMAIN frames \cup {new}
    BY <1>1
  <2>2. IsFiniteSet(DOMAIN frames')
    <3>1. IsFiniteSet(DOMAIN frames)
      BY DEF PairsInv, Paired
    <3>2. IsFiniteSet(DOMAIN frames \cup {new})
      BY <3>1, FS_AddElement
    <3> QED
      BY <2>1, <3>2
  <2>3. frames' \in [DOMAIN frames' -> F!Frame]
    BY <1>1, <2>1 DEF PairsInv, Paired, F!NoFrame, F!Frame, F!Bit
  <2>4. UNION (DOMAIN frames') = Qubits'
    BY <1>2, <1>5, <2>1
  <2>5. ASSUME NEW p \in DOMAIN frames'
        PROVE  \E a, b \in Qubits' : a # b /\ p = {a, b}
    <3>1. CASE p = new
      BY <1>3, <1>5, <3>1
    <3>2. CASE p # new
      BY <1>5, <2>1, <3>2 DEF PairsInv, Paired
    <3> QED
      BY <3>1, <3>2
  <2>6. \A p, r \in DOMAIN frames' : p # r => p \cap r = {}
    BY <1>4, <2>1 DEF PairsInv, Paired
  <2> QED
    BY <2>2, <2>3, <2>4, <2>5, <2>6 DEF Paired
<1>9. Placed'
  <2>1. index \in [Qubits -> 0..(n - 1)] /\ \A q, w \in Qubits : q # w => index[q] # index[w]
    BY DEF PairsInv, Placed, n
  <2>2. index' \in [Qubits' -> 0..(Size' - 1)]
    <3>1. Size' - 1 = n + 1
      BY <1>6, <1>7
    <3>2. \A q \in Qubits \cup new : index'[q] \in 0..(n + 1)
      BY <1>1, <1>6, <2>1
    <3> QED
      BY <1>1, <1>5, <3>1, <3>2
  <2>3. \A q, w \in Qubits' : q # w => index'[q] # index'[w]
    BY <1>1, <1>3, <1>5, <1>6, <2>1
  <2>4. made' \in Nat
    BY <1>1, <1>2
  <2>5. Qubits' \subseteq 1..(2 * made')
    BY <1>1, <1>3, <1>5
  <2> QED
    BY <2>2, <2>3, <2>4, <2>5 DEF Placed
<1>10. ASSUME NEW U \in SUBSET DOMAIN frames'
       PROVE  {XOf(index', frames', U), ZOf(index', frames', U)} \subseteq pairsGroup'
  <2> DEFINE V == U \ {new}
             on == new \in U
             s == Wires(index, V)
             t == IF on THEN s \cup {n, n + 1} ELSE s
  <2>1. V \in SUBSET DOMAIN frames
    BY <1>1
  <2>2. UNION V \subseteq Qubits
    BY <1>2, <2>1
  <2>3. Wires(index', U) = t
    <3>1. \A q \in UNION V : index'[q] = index[q]
      BY <1>1, <1>3, <2>2
    <3>2. Wires(index', V) = s
      BY <3>1 DEF Wires
    <3>3. CASE on
      <4>1. UNION U = (UNION V) \cup new
        BY <3>3
      <4>2. index'[q0] = n /\ index'[q1] = n + 1
        BY <1>1, <1>3
      <4>3. Wires(index', U) = Wires(index', V) \cup {index'[q0], index'[q1]}
        BY <4>1 DEF Wires
      <4> QED
        BY <3>2, <3>3, <4>2, <4>3
    <3>4. CASE ~on
      <4>1. U = V
        BY <3>4
      <4> QED
        BY <3>2, <3>4, <4>1
    <3> QED
      BY <3>3, <3>4
  <2>4. ASSUME NEW j \in {1, 2}
        PROVE  Odd(frames', U, j) = Odd(frames, V, j)
    <3>1. on => frames'[new][j] = 0
      BY <1>1 DEF F!NoFrame
    <3>2. \A p \in V : frames'[p] = frames[p]
      BY <1>1, <2>1
    <3>3. \A p : p \in U /\ frames'[p][j] = 1 <=> p \in V /\ frames[p][j] = 1
      <4>1. \A p \in U : p # new => p \in V
        OBVIOUS
      <4>2. new \notin V /\ (new \in U => frames'[new][j] # 1)
        BY <3>1
      <4>3. V \subseteq U
        OBVIOUS
      <4> HIDE DEF V
      <4> QED
        BY <3>2, <4>1, <4>2, <4>3
    <3>4. {p \in U : frames'[p][j] = 1} = {p \in V : frames[p][j] = 1}
      BY <3>3
    <3> QED
      BY <3>4 DEF Odd, Count
  <2>5. XOf(index, frames, V) \in pairsGroup /\ ZOf(index, frames, V) \in pairsGroup
    BY <2>1 DEF PairsInv, Products
  <2>6. Odd(frames, V, 1) \in BOOLEAN /\ Odd(frames, V, 2) \in BOOLEAN
    BY DEF Odd
  <2> HIDE DEF V, s
  <2>7. /\ Pauli(t, {}, Odd(frames, V, 2)) \in pairsGroup'
        /\ Pauli({}, t, Odd(frames, V, 1)) \in pairsGroup'
    BY <1>1, <1>6, <2>5, <2>6, MergedHas DEF XOf, ZOf, s
  <2> HIDE DEF t
  <2> QED
    BY <2>3, <2>4, <2>7 DEF XOf, ZOf
<1> QED
  BY <1>8, <1>9, <1>10 DEF PairsInv, Products

LEMMA PauliStep ==
  ASSUME PairsInv, NEW k \in {"X", "Z"}, NEW q \in Qubits, ApplyPauli(k, q)
  PROVE  PairsInv'
<1>1. PICK p \in DOMAIN frames :
        q \in p /\ frames' = [frames EXCEPT ![p] = Rotated(frames[p], k)]
  BY DEF ApplyPauli
<1>2. /\ made' = made /\ index' = index /\ Qubits' = Qubits /\ Size' = Size
      /\ pairsGroup' = StabApply(pairsGroup, k, <<index[q]>>)
  BY DEF ApplyPauli, Qubits, Size
<1>3. frames[p] \in F!Frame
  BY DEF PairsInv, Paired
<1>4. /\ Rotated(frames[p], k) \in F!Frame
      /\ (Rotated(frames[p], k)[1] # frames[p][1]) <=> k = "X"
      /\ (Rotated(frames[p], k)[2] # frames[p][2]) <=> k = "Z"
  BY <1>3 DEF Rotated, F!AfterX, F!AfterZ, F!XorFrame, F!XorBit, F!Frame, F!Bit
<1>5. DOMAIN frames' = DOMAIN frames /\ frames'[p] = Rotated(frames[p], k)
        /\ \A r \in DOMAIN frames \ {p} : frames'[r] = frames[r]
  BY <1>1
<1>6. Paired'
  <2>1. frames' \in [DOMAIN frames -> F!Frame]
    BY <1>1, <1>4 DEF PairsInv, Paired
  <2> QED
    BY <1>2, <1>5, <2>1 DEF PairsInv, Paired
<1>7. Placed'
  BY <1>2 DEF PairsInv, Placed
<1>8. ASSUME NEW U \in SUBSET DOMAIN frames'
      PROVE  {XOf(index', frames', U), ZOf(index', frames', U)} \subseteq pairsGroup'
  <2> DEFINE w == Wires(index, U)
             i == index[q]
  <2>1. U \in SUBSET DOMAIN frames /\ IsFiniteSet(U)
    BY <1>5, FS_Subset DEF PairsInv, Paired
  <2>2. i \in w <=> p \in U
    <3>1. p \in U => i \in w
      BY <1>1 DEF Wires
    <3>2. ASSUME i \in w
          PROVE  p \in U
      <4>1. PICK v \in UNION U : index[v] = i
        BY <3>2 DEF Wires
      <4>2. v \in Qubits /\ v = q
        BY <2>1, <4>1 DEF PairsInv, Paired, Placed
      <4>3. PICK r \in U : q \in r
        BY <4>1, <4>2
      <4> QED
        BY <1>1, <2>1, <4>3 DEF PairsInv, Paired
    <3> QED
      BY <3>1, <3>2
  <2>3. XOf(index, frames, U) \in pairsGroup /\ ZOf(index, frames, U) \in pairsGroup
    BY <2>1 DEF PairsInv, Products
  <2>4. ASSUME NEW j \in {1, 2}
        PROVE  /\ p \in U /\ frames'[p][j] # frames[p][j] => (Odd(frames', U, j) <=> ~Odd(frames, U, j))
               /\ ~(p \in U /\ frames'[p][j] # frames[p][j]) => (Odd(frames', U, j) <=> Odd(frames, U, j))
    <3>1. \A r \in U \ {p} : frames'[r] = frames[r]
      BY <1>5, <2>1
    <3>2. frames[p] \in F!Frame /\ frames'[p] \in F!Frame
      BY <1>3, <1>4, <1>5
    <3>3. IsFiniteSet(U)
      BY <2>1
    <3> DEFINE gr == frames'
    <3>4. Differ(frames, gr, U, p)
      BY <3>1, <3>2, <3>3 DEF Differ
    <3> HIDE DEF gr
    <3>6. /\ p \in U /\ gr[p][j] # frames[p][j] => (Odd(gr, U, j) <=> ~Odd(frames, U, j))
          /\ ~(p \in U /\ gr[p][j] # frames[p][j]) => (Odd(gr, U, j) <=> Odd(frames, U, j))
      BY ONLY <3>4, OddChanged
    <3> QED
      BY <3>6 DEF gr
  <2>5. \A j \in {1, 2} : Odd(frames, U, j) \in BOOLEAN /\ Odd(frames', U, j) \in BOOLEAN
    BY DEF Odd
  <2> HIDE DEF w, i
  <2>6. XOf(index', frames', U) \in pairsGroup'
    <3>1. Conjugated(Pauli(w, {}, Odd(frames, U, 2)), k, <<i>>)
            = Pauli(w, {}, IF k = "Z" /\ i \in w THEN ~Odd(frames, U, 2) ELSE Odd(frames, U, 2))
      BY <2>5, PauliOnX
    <3>2. Odd(frames', U, 2) = IF k = "Z" /\ i \in w THEN ~Odd(frames, U, 2) ELSE Odd(frames, U, 2)
      <4>1. (k = "Z" /\ i \in w) <=> (p \in U /\ frames'[p][2] # frames[p][2])
        BY <1>4, <1>5, <2>2
      <4>2. CASE k = "Z" /\ i \in w
        BY <2>4, <2>5, <4>1, <4>2
      <4>3. CASE ~(k = "Z" /\ i \in w)
        BY <2>4, <2>5, <4>1, <4>3
      <4> QED
        BY <4>2, <4>3
    <3> QED
      BY <1>2, <2>3, <3>1, <3>2 DEF StabApply, XOf, w, i
  <2>7. ZOf(index', frames', U) \in pairsGroup'
    <3>1. Conjugated(Pauli({}, w, Odd(frames, U, 1)), k, <<i>>)
            = Pauli({}, w, IF k = "X" /\ i \in w THEN ~Odd(frames, U, 1) ELSE Odd(frames, U, 1))
      BY <2>5, PauliOnZ
    <3>2. Odd(frames', U, 1) = IF k = "X" /\ i \in w THEN ~Odd(frames, U, 1) ELSE Odd(frames, U, 1)
      <4>1. (k = "X" /\ i \in w) <=> (p \in U /\ frames'[p][1] # frames[p][1])
        BY <1>4, <1>5, <2>2
      <4>2. CASE k = "X" /\ i \in w
        BY <2>4, <2>5, <4>1, <4>2
      <4>3. CASE ~(k = "X" /\ i \in w)
        BY <2>4, <2>5, <4>1, <4>3
      <4> QED
        BY <4>2, <4>3
    <3> QED
      BY <1>2, <2>3, <3>1, <3>2 DEF StabApply, ZOf, w, i
  <2> QED
    BY <2>6, <2>7
<1> QED
  BY <1>6, <1>7, <1>8 DEF PairsInv, Products

(* Two pairs become one: its frame has the bits of both and one outcome.   *)
LEMMA OddJoined ==
  ASSUME NEW fr, NEW gr, NEW W, IsFiniteSet(W), NEW p, NEW r, p \notin W, r \notin W, p # r,
         NEW far, far \notin W, \A s \in W : gr[s] = fr[s],
         NEW j \in {1, 2}, NEW m \in {0, 1}, fr[p][j] \in {0, 1}, fr[r][j] \in {0, 1},
         gr[far][j] = F!XorBit(F!XorBit(fr[p][j], fr[r][j]), m)
  PROVE  /\ m = 1 => (Odd(gr, W \cup {far}, j) <=> ~Odd(fr, W \cup {p, r}, j))
         /\ m = 0 => (Odd(gr, W \cup {far}, j) <=> Odd(fr, W \cup {p, r}, j))
<1> DEFINE c == Count(fr, W, j)
           cp == Count(fr, W \cup {p}, j)
           cpr == Count(fr, W \cup {p, r}, j)
           cf == Count(gr, W \cup {far}, j)
           x == fr[p][j]
           y == fr[r][j]
           v == gr[far][j]
<1>1. Count(gr, W, j) = c
  <2>1. {s \in W : gr[s][j] = 1} = {s \in W : fr[s][j] = 1}
    OBVIOUS
  <2> QED
    BY <2>1 DEF Count
<1>2. c \in Nat /\ cf = IF v = 1 THEN c + 1 ELSE c
  <2>1. Another(W, far)
    BY DEF Another
  <2>2. Count(gr, W, j) \in Nat
    BY ONLY <2>1, CountAdd
  <2>3. Count(gr, With(W, far), j) = OneMore(Count(gr, W, j), gr[far][j])
    BY ONLY <2>1, CountAdd
  <2> QED
    BY <1>1, <2>2, <2>3 DEF With, OneMore
<1>3. cp = IF x = 1 THEN c + 1 ELSE c
  <2>1. Another(W, p)
    BY DEF Another
  <2>2. Count(fr, With(W, p), j) = OneMore(Count(fr, W, j), fr[p][j])
    BY ONLY <2>1, CountAdd
  <2> QED
    BY <2>2 DEF With, OneMore
<1>4. cpr = IF y = 1 THEN cp + 1 ELSE cp
  <2>1. Another(W \cup {p}, r) /\ (W \cup {p}) \cup {r} = W \cup {p, r}
    BY FS_AddElement DEF Another
  <2> DEFINE T == W \cup {p}
  <2> HIDE DEF T
  <2>2. Count(fr, With(T, r), j) = OneMore(Count(fr, T, j), fr[r][j])
    BY ONLY <2>1, CountAdd DEF T
  <2>3. With(T, r) = W \cup {p, r}
    BY <2>1 DEF With, T
  <2> QED
    BY <2>2, <2>3 DEF OneMore, T
<1>5. x \in {0, 1} /\ y \in {0, 1} /\ v = F!XorBit(F!XorBit(x, y), m)
  OBVIOUS
<1> HIDE DEF c, cp, cpr, cf, x, y, v
<1>6. (cf % 2 = 1) <=> IF m = 1 THEN ~(cpr % 2 = 1) ELSE (cpr % 2 = 1)
  BY <1>2, <1>3, <1>4, <1>5 DEF F!XorBit
<1> QED
  BY <1>6 DEF Odd, cf, cpr

IsPlacing(places, Q, n) ==
  /\ n \in Nat
  /\ places \in [Q -> 0..(n - 1)]
  /\ \A q, w \in Q : q # w => places[q] # places[w]

LEMMA WithoutIs ==
  ASSUME NEW n, NEW Q, NEW places, IsPlacing(places, Q, n), NEW a \in Q
  PROVE  /\ IsPlacing(Without(places, a), Q \ {a}, n - 1)
         /\ \A q \in Q \ {a} : Without(places, a)[q] = Low(places[q], places[a])
<1>0. n \in Nat /\ places \in [Q -> 0..(n - 1)] /\ \A q, w \in Q : q # w => places[q] # places[w]
  BY DEF IsPlacing
<1>1. /\ DOMAIN Without(places, a) = Q \ {a}
      /\ Without(places, a) = [w \in Q \ {a} |-> Low(places[w], places[a])]
  BY <1>0 DEF Without, Low
<1>2. \A q \in Q \ {a} : /\ Without(places, a)[q] = Low(places[q], places[a])
                         /\ places[q] \in 0..(n - 1) /\ places[q] # places[a]
  BY <1>0, <1>1
<1>3. places[a] \in 0..(n - 1)
  BY <1>0
<1>4. ASSUME NEW q \in Q \ {a}
      PROVE  Low(places[q], places[a]) \in 0..(n - 1 - 1)
  <2>1. places[q] \in 0..(n - 1) /\ places[q] # places[a]
    BY <1>2
  <2> QED
    BY <1>0, <1>3, <2>1, LowIs
<1>5. ASSUME NEW q \in Q \ {a}, NEW w \in Q \ {a}, q # w
      PROVE  Low(places[w], places[a]) # Low(places[q], places[a])
  <2>1. /\ places[q] \in 0..(n - 1) /\ places[w] \in 0..(n - 1)
        /\ places[q] # places[a] /\ places[w] # places[a] /\ places[w] # places[q]
    BY <1>0, <1>2, <1>5
  <2> QED
    BY <1>0, <1>3, <2>1, LowIs
<1>6. n - 1 \in Nat
  BY <1>0, <1>3
<1> QED
  BY <1>1, <1>2, <1>4, <1>5, <1>6 DEF IsPlacing

LEMMA BellStep ==
  ASSUME PairsInv, NEW a \in Qubits, NEW b \in Qubits, a # b, NEW m1 \in {0, 1}, NEW m2 \in {0, 1},
         MeasureBell(a, b, m1, m2)
  PROVE  PairsInv'
<1> DEFINE n == Size
           i == index[a]
           j == index[b]
           indexA == Without(index, a)
           jA == Low(j, i)
<1>1. PICK p, r \in DOMAIN frames :
        p # r /\ a \in p /\ b \in r /\ frames' = Joined(p, r, a, b, m1, m2)
  BY DEF MeasureBell
<1> DEFINE far == (p \cup r) \ {a, b}
           rest == DOMAIN frames \ {p, r}
<1>2. n \in Nat /\ IsFiniteSet(Qubits)
  BY SizeIs DEF PairsInv
<1>3. /\ index \in [Qubits -> 0..(n - 1)]
      /\ \A q, w \in Qubits : q # w => index[q] # index[w]
  BY DEF PairsInv, Placed
<1>4. i \in 0..(n - 1) /\ j \in 0..(n - 1) /\ i # j /\ n - 1 \in Nat
  <2>1. i \in 0..(n - 1) /\ j \in 0..(n - 1) /\ i # j
    BY <1>3
  <2> QED
    BY <1>2, <2>1
<1> HIDE DEF n
<1>5. /\ IsPlacing(indexA, Qubits \ {a}, n - 1)
      /\ \A q \in Qubits \ {a} : indexA[q] = Low(index[q], i)
  <2>1. IsPlacing(index, Qubits, n)
    BY <1>2, <1>3 DEF IsPlacing
  <2> QED
    BY ONLY <2>1, WithoutIs
<1>6. indexA[b] = jA
  BY <1>5
<1>7. /\ index' \in [Qubits \ {a, b} -> 0..(n - 1 - 1 - 1)]
      /\ \A q \in Qubits \ {a, b} : index'[q] = Low(Low(index[q], i), jA)
      /\ \A q, w \in Qubits \ {a, b} : q # w => index'[q] # index'[w]
  <2>1. index' = Without(indexA, b)
    BY DEF MeasureBell
  <2>2. (Qubits \ {a}) \ {b} = Qubits \ {a, b} /\ b \in Qubits \ {a}
    OBVIOUS
  <2> HIDE DEF indexA, i, j, jA
  <2>3. /\ IsPlacing(Without(indexA, b), (Qubits \ {a}) \ {b}, n - 1 - 1)
        /\ \A q \in (Qubits \ {a}) \ {b} : Without(indexA, b)[q] = Low(indexA[q], indexA[b])
    <3> DEFINE Q == Qubits \ {a}
               k == n - 1
    <3>1. b \in Q /\ IsPlacing(indexA, Q, k)
      BY <1>5, <2>2
    <3> HIDE DEF Q, k
    <3>2. /\ IsPlacing(Without(indexA, b), Q \ {b}, k - 1)
          /\ \A q \in Q \ {b} : Without(indexA, b)[q] = Low(indexA[q], indexA[b])
      BY ONLY <3>1, WithoutIs
    <3> QED
      BY <3>2 DEF Q, k
  <2> QED
    BY <1>5, <1>6, <2>1, <2>2, <2>3 DEF IsPlacing
<1> USE DEF n
<1>8. Qubits' = Qubits \ {a, b} /\ Size' = n - 1 - 1
  <2>1. Qubits' = Qubits \ {a, b}
    BY <1>7 DEF Qubits
  <2>2. IsFiniteSet(Qubits \ {a}) /\ Cardinality(Qubits \ {a}) = n - 1
    BY <1>2, FS_RemoveElement DEF Size
  <2>3. b \in Qubits \ {a} /\ (Qubits \ {a}) \ {b} = Qubits \ {a, b}
    OBVIOUS
  <2>4. Cardinality((Qubits \ {a}) \ {b}) = (n - 1) - 1
    BY <2>2, <2>3, FS_RemoveElement
  <2> QED
    BY <2>1, <2>3, <2>4 DEF Size
<1>9. PICK c, d \in Qubits : a # c /\ b # d /\ p = {a, c} /\ r = {b, d}
  <2>1. \A s \in DOMAIN frames : \E x, y \in Qubits : x # y /\ s = {x, y}
    BY DEF PairsInv, Paired
  <2>2. \E c \in Qubits : a # c /\ p = {a, c}
    BY <1>1, <2>1
  <2>3. \E d \in Qubits : b # d /\ r = {b, d}
    BY <1>1, <2>1
  <2> QED
    BY <2>2, <2>3
<1>10. \A s, t \in DOMAIN frames : s # t => s \cap t = {}
  BY DEF PairsInv, Paired
<1>11. /\ p \cap r = {} /\ far = {c, d} /\ c # d /\ c \notin {a, b} /\ d \notin {a, b}
       /\ \A s \in rest : s \cap p = {} /\ s \cap r = {} /\ s \cap far = {} /\ far # s
  <2>1. p \cap r = {}
    BY <1>1, <1>10
  <2>2. c # d /\ c # b /\ d # a
    BY <1>9, <2>1
  <2>3. far = {c, d}
    BY <1>9, <2>2
  <2>4. \A s \in rest : s \cap p = {} /\ s \cap r = {}
    BY <1>10
  <2>5. \A s \in rest : s \cap far = {}
    BY <2>4
  <2>6. \A s \in rest : far # s
    BY <2>3, <2>5
  <2> QED
    BY <1>9, <2>1, <2>2, <2>3, <2>4, <2>5, <2>6
<1>12. /\ DOMAIN frames' = rest \cup {far}
       /\ frames'[far] = F!AfterMeasureBell(frames[p], frames[r], m1, m2)
       /\ \A s \in rest : frames'[s] = frames[s]
  <2>1. frames' = [s \in rest \cup {far} |->
                     IF s = far THEN F!AfterMeasureBell(frames[p], frames[r], m1, m2) ELSE frames[s]]
    BY <1>1 DEF Joined
  <2> HIDE DEF far, rest
  <2> QED
    BY <1>11, <2>1
<1>13. frames[p] \in F!Frame /\ frames[r] \in F!Frame
  BY DEF PairsInv, Paired
<1>14. /\ frames'[far] \in F!Frame
       /\ frames'[far][1] = F!XorBit(F!XorBit(frames[p][1], frames[r][1]), m2)
       /\ frames'[far][2] = F!XorBit(F!XorBit(frames[p][2], frames[r][2]), m1)
  BY <1>12, <1>13 DEF F!AfterMeasureBell, F!XorFrame, F!XorBit, F!Frame, F!Bit
<1> HIDE DEF n, i, j, indexA, far, rest
<1>15. IsFiniteSet(rest) /\ rest \subseteq DOMAIN frames /\ p \notin rest /\ r \notin rest
  <2>1. IsFiniteSet(DOMAIN frames)
    BY DEF PairsInv, Paired
  <2> QED
    BY <2>1, FS_Subset DEF rest
<1>16. Paired'
  <2>1. IsFiniteSet(DOMAIN frames')
    <3>1. IsFiniteSet(rest \cup {far})
      BY <1>15, FS_AddElement
    <3> QED
      BY <1>12, <3>1
  <2>2. frames' \in [DOMAIN frames' -> F!Frame]
    <3>1. \A s \in rest : frames'[s] \in F!Frame
      BY <1>12, <1>15 DEF PairsInv, Paired
    <3>2. \A s \in DOMAIN frames' : frames'[s] \in F!Frame
      BY <1>12, <1>14, <3>1
    <3>3. frames' = [s \in DOMAIN frames' |-> frames'[s]]
      BY <1>1 DEF Joined
    <3> QED
      BY <3>2, <3>3
  <2>3. UNION (DOMAIN frames') = Qubits'
    <3>1. UNION (DOMAIN frames) = Qubits
      BY DEF PairsInv, Paired
    <3>2. DOMAIN frames = rest \cup {p, r}
      BY <1>1 DEF rest
    <3>3. Qubits = (UNION rest) \cup {a, b, c, d}
      BY <1>9, <3>1, <3>2
    <3>4. a \notin UNION rest /\ b \notin UNION rest
      BY <1>1, <1>11
    <3>5. UNION (DOMAIN frames') = (UNION rest) \cup {c, d}
      BY <1>11, <1>12
    <3> QED
      BY <1>8, <1>11, <3>3, <3>4, <3>5
  <2>4. ASSUME NEW s \in DOMAIN frames'
        PROVE  \E x, y \in Qubits' : x # y /\ s = {x, y}
    <3>1. CASE s = far
      BY <1>8, <1>9, <1>11, <3>1
    <3>2. CASE s \in rest
      <4>1. PICK x, y \in Qubits : x # y /\ s = {x, y}
        BY <1>15, <3>2 DEF PairsInv, Paired
      <4>2. x \notin {a, b} /\ y \notin {a, b}
        BY <1>1, <1>11, <3>2, <4>1
      <4> QED
        BY <1>8, <4>1, <4>2
    <3> QED
      BY <1>12, <3>1, <3>2
  <2>5. \A s, t \in DOMAIN frames' : s # t => s \cap t = {}
    BY <1>10, <1>11, <1>12, <1>15
  <2> QED
    BY <2>1, <2>2, <2>3, <2>4, <2>5 DEF Paired
<1>17. Placed'
  <2>1. made' = made
    BY DEF MeasureBell
  <2>2. made' \in Nat /\ Qubits' \subseteq 1..(2 * made')
    BY <1>8, <2>1 DEF PairsInv, Placed
  <2>3. index' \in [Qubits' -> 0..(Size' - 1)]
    BY <1>7, <1>8
  <2>4. \A q, w \in Qubits' : q # w => index'[q] # index'[w]
    BY <1>7, <1>8
  <2> QED
    BY <2>2, <2>3, <2>4 DEF Placed
<1>18. /\ index'[c] = Low(Low(index[c], i), jA) /\ index'[d] = Low(Low(index[d], i), jA)
       /\ index[c] \notin {i, j} /\ index[d] \notin {i, j}
  BY <1>3, <1>7, <1>11 DEF i, j
<1>19. ASSUME NEW U \in SUBSET DOMAIN frames'
       PROVE  {XOf(index', frames', U), ZOf(index', frames', U)} \subseteq pairsGroup'
  <2> DEFINE W == U \ {far}
             joined == far \in U
             V == IF joined THEN W \cup {p, r} ELSE W
             w == Wires(index, V)
             left == Lower(Lower(w \ {i, j}, i), jA)
  <2>1. W \subseteq rest /\ V \in SUBSET DOMAIN frames /\ IsFiniteSet(W)
    <3>1. W \subseteq rest
      BY <1>12
    <3>2. IsFiniteSet(W)
      BY <1>15, <3>1, FS_Subset
    <3> QED
      BY <1>1, <1>15, <3>1, <3>2
  <2>2. UNION V \subseteq Qubits
    <3>1. UNION (DOMAIN frames) = Qubits
      BY DEF PairsInv, Paired
    <3> HIDE DEF V
    <3> QED
      BY <2>1, <3>1
  <2>3. (a \in UNION V <=> joined) /\ (b \in UNION V <=> joined)
    <3>1. a \notin UNION W /\ b \notin UNION W
      BY <1>1, <1>11, <2>1
    <3> QED
      BY <1>1, <3>1
  <2>4. (UNION V) \ {a, b} = UNION U
    <3>1. a \notin UNION W /\ b \notin UNION W
      BY <1>1, <1>11, <2>1
    <3>2. CASE joined
      <4>1. UNION U = (UNION W) \cup {c, d}
        BY <1>11, <3>2
      <4>2. UNION V = (UNION W) \cup {a, b, c, d}
        BY <1>9, <3>2
      <4> HIDE DEF V, W, joined
      <4>3. c \notin {a, b} /\ d \notin {a, b}
        BY <1>11
      <4>4. (UNION W) \ {a, b} = UNION W
        BY <3>1
      <4>5. ((UNION W) \cup {a, b, c, d}) \ {a, b} = (UNION W) \cup {c, d}
        BY <4>3, <4>4
      <4> QED
        BY <4>1, <4>2, <4>5
    <3>3. CASE ~joined
      BY <3>1, <3>3
    <3> QED
      BY <3>2, <3>3
  <2> HIDE DEF V, W
  <2>5. (i \in w <=> joined) /\ (j \in w <=> joined) /\ w \in SUBSET (0..(n - 1))
    BY <1>3, <2>2, <2>3 DEF Wires, i, j
  <2>6. w \ {i, j} = {index[q] : q \in UNION U}
    BY <1>3, <2>2, <2>4 DEF Wires, i, j
  <2>7. Wires(index', U) = left
    <3>1. \A q \in UNION U : index'[q] = Low(Low(index[q], i), jA)
      BY <1>7, <2>2, <2>4
    <3>2. left = {Low(Low(index[q], i), jA) : q \in UNION U}
      BY <2>6 DEF Lower
    <3> QED
      BY <3>1, <3>2 DEF Wires
  <2>8. ASSUME NEW k \in {1, 2}
        PROVE  LET m == IF k = 1 THEN m2 ELSE m1
               IN  Odd(frames', U, k) <=> IF joined /\ m = 1 THEN ~Odd(frames, V, k) ELSE Odd(frames, V, k)
    <3> DEFINE m == IF k = 1 THEN m2 ELSE m1
               fr == frames
               gr == frames'
    <3>1. \A s \in W : gr[s] = fr[s]
      BY <1>12, <2>1
    <3>2. CASE joined
      <4>1. p \notin W /\ r \notin W /\ far \notin W /\ p # r /\ m \in {0, 1}
        BY <1>1, <1>15, <2>1 DEF W
      <4>2. fr[p][k] \in {0, 1} /\ fr[r][k] \in {0, 1}
        BY <1>13 DEF F!Frame, F!Bit
      <4>3. gr[far][k] = F!XorBit(F!XorBit(fr[p][k], fr[r][k]), m)
        BY <1>14
      <4>4. U = W \cup {far} /\ V = W \cup {p, r}
        BY <3>2 DEF V, W
      <4> HIDE DEF fr, gr, m, joined
      <4>5. /\ m = 1 => (Odd(gr, W \cup {far}, k) <=> ~Odd(fr, W \cup {p, r}, k))
            /\ m = 0 => (Odd(gr, W \cup {far}, k) <=> Odd(fr, W \cup {p, r}, k))
        BY <2>1, <3>1, <4>1, <4>2, <4>3, OddJoined
      <4> QED
        BY <3>2, <4>1, <4>4, <4>5 DEF fr, gr, m
    <3>3. CASE ~joined
      <4>1. U = W /\ V = W
        BY <3>3 DEF V, W
      <4>2. \A s \in U : (fr[s][k] = 1) <=> (gr[s][k] = 1)
        BY <3>1, <4>1
      <4> HIDE DEF fr, gr
      <4>3. Odd(fr, U, k) = Odd(gr, U, k)
        BY <4>2, OddSame
      <4> QED
        BY <3>3, <4>1, <4>3 DEF fr, gr
    <3> QED
      BY <3>2, <3>3
  <2>9. XOf(index, frames, V) \in pairsGroup /\ ZOf(index, frames, V) \in pairsGroup
    BY <2>1 DEF PairsInv, Products
  <2>10. \A k \in {1, 2} : Odd(frames, V, k) \in BOOLEAN /\ Odd(frames', U, k) \in BOOLEAN
    BY DEF Odd
  <2> DEFINE rotated == StabApply(StabApply(pairsGroup, "CNOT", <<i, j>>), "H", <<i>>)
             afterA == StabSurvivors(rotated, n, i, "Z", m1)
             afterB == StabSurvivors(afterA, n - 1, jA, "Z", m2)
             negX == Odd(frames, V, 2)
             negZ == Odd(frames, V, 1)
  <2>11. pairsGroup' = afterB
    BY <1>6 DEF MeasureBell, i, j, n, indexA
  <2>12. Pauli(w, {}, negX) \in pairsGroup /\ Pauli({}, w, negZ) \in pairsGroup
    BY <2>9 DEF XOf, ZOf
  <2>13. negX \in BOOLEAN /\ negZ \in BOOLEAN
    BY <2>10
  <2> DEFINE signX == Odd(frames', U, 2)
             signZ == Odd(frames', U, 1)
  <2>14. /\ signX \in BOOLEAN /\ (signX <=> IF i \in w /\ m1 = 1 THEN ~negX ELSE negX)
         /\ signZ \in BOOLEAN /\ (signZ <=> IF i \in w /\ m2 = 1 THEN ~negZ ELSE negZ)
    <3>1. signX \in BOOLEAN /\ signZ \in BOOLEAN
      BY <2>10
    <3>2. signX <=> IF joined /\ m1 = 1 THEN ~negX ELSE negX
      BY <2>8
    <3>3. signZ <=> IF joined /\ m2 = 1 THEN ~negZ ELSE negZ
      BY <2>8
    <3> HIDE DEF signX, signZ, negX, negZ, joined, w
    <3> QED
      BY <2>5, <3>1, <3>2, <3>3
  <2> HIDE DEF w, negX, negZ, signX, signZ, joined
  <2>15. Pauli(left, {}, signX) \in afterB
    BY ZenonT(60), <1>2, <1>4, <2>5, <2>12, <2>13, <2>14, BellMeasured
  <2>16. Pauli({}, left, signZ) \in afterB
    BY ZenonT(60), <1>2, <1>4, <2>5, <2>12, <2>13, <2>14, BellMeasured
  <2> HIDE DEF left, rotated, afterA, afterB
  <2> QED
    BY <2>7, <2>11, <2>15, <2>16 DEF XOf, ZOf, signX, signZ
<1> QED
  BY <1>16, <1>17, <1>19 DEF PairsInv, Products

-----------------------------------------------------------------------------
LEMMA PairsStep ==
  ASSUME PairsInv, [PairsNext]_pairsVars
  PROVE  PairsInv'
<1>1. CASE CreateBellPair
  BY <1>1, CreateStep
<1>2. CASE \E k \in {"X", "Z"}, q \in Qubits : ApplyPauli(k, q)
  BY <1>2, PauliStep
<1>3. CASE \E a, b \in Qubits, m1, m2 \in {0, 1} : a # b /\ MeasureBell(a, b, m1, m2)
  BY <1>3, BellStep
<1>4. CASE UNCHANGED pairsVars
  BY <1>4 DEF pairsVars, PairsInv, Paired, Placed, Products, Qubits, Size
<1> QED
  BY <1>1, <1>2, <1>3, <1>4 DEF PairsNext

LEMMA PairsInvAlways == PairsSpec => []PairsInv
<1>1. PairsInit => PairsInv
  BY InitPairs
<1>2. PairsInv /\ [PairsNext]_pairsVars => PairsInv'
  BY PairsStep
<1> QED
  BY <1>1, <1>2, PTL DEF PairsSpec

(* The stabilizers of one pair are the products over it alone.             *)
LEMMA FramesFromProducts ==
  ASSUME PairsInv
  PROVE  FramesAreTheState
<1> SUFFICES ASSUME NEW p \in DOMAIN frames
             PROVE  LET both == {index[q] : q \in p}
                    IN  /\ Pauli(both, {}, frames[p][2] = 1) \in pairsGroup
                        /\ Pauli({}, both, frames[p][1] = 1) \in pairsGroup
  BY DEF FramesAreTheState
<1>1. Wires(index, {p}) = {index[q] : q \in p}
  BY DEF Wires
<1>2. ASSUME NEW j \in {1, 2}
      PROVE  Odd(frames, {p}, j) = (frames[p][j] = 1)
  <2>1. {r \in {p} : frames[r][j] = 1} = IF frames[p][j] = 1 THEN {p} ELSE {}
    OBVIOUS
  <2>2. Cardinality({p}) = 1 /\ Cardinality({}) = 0
    BY FS_Singleton, FS_EmptySet
  <2>3. CASE frames[p][j] = 1
    BY <2>1, <2>2, <2>3 DEF Odd, Count
  <2>4. CASE frames[p][j] # 1
    BY <2>1, <2>2, <2>4 DEF Odd, Count
  <2> QED
    BY <2>3, <2>4
<1>3. {p} \in SUBSET DOMAIN frames
  OBVIOUS
<1>4. XOf(index, frames, {p}) \in pairsGroup /\ ZOf(index, frames, {p}) \in pairsGroup
  BY <1>3 DEF PairsInv, Products
<1> QED
  BY <1>1, <1>2, <1>4 DEF XOf, ZOf

(* The halves of every Bell pair that is left, however many were made,     *)
(* corrected and joined by MeasureBell in whatever order, are stabilized   *)
(* by XX and ZZ with the signs of the pair's frame                         *)
(* (model/q2ns-qprocessor.cc:289).                                         *)
THEOREM FramesAlways == PairsSpec => []FramesAreTheState
<1>1. PairsInv => FramesAreTheState
  BY FramesFromProducts
<1> QED
  BY <1>1, PairsInvAlways, PTL

=============================================================================
