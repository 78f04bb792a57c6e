---------------------------- MODULE SetupProofs -----------------------------
(***************************************************************************)
(* What programs build a network with, for every program: NetController    *)
(* and the helpers, each in a part of its own.                             *)
(*                                                                         *)
(* The controller's tables fit together for every number of nodes and any  *)
(* calls: single links, chains and all-to-all lists of any length, with    *)
(* null nodes and repetitions, and edge lists.  A call is a walk over its  *)
(* list, a recursive function; what holds after i entries is carried to    *)
(* i + 1 (WalkedStep, RowsWalkedStep, EdgesWalkedStep), and Reach          *)
(* concludes: the indices where it holds are a set without a least index   *)
(* missing.  The recursive functions exist by the same argument            *)
(* (WalkExists, RowsExist, EdgesExist).                                    *)
(*                                                                         *)
(* What the helpers install fits together for every list of nodes, links,  *)
(* sessions, swaps, LANs and flows: HelpersAgreeAlways at the end combines *)
(* the helpers' invariants, and HopsLeadAlways is about the routes.        *)
(***************************************************************************)
EXTENDS NetController, Helpers, FiniteSetTheorems, WellFoundedInduction, TLAPS

-----------------------------------------------------------------------------
(* One link.                                                               *)

NodePairs == {p \in (1..MaxNodes) \X (1..MaxNodes) : p[1] <= p[2]}

(* What a net is made of.                                                  *)
NetTyped(t) ==
  /\ t = [channels |-> t.channels, count |-> t.count, delay |-> t.delay,
          ifaces |-> t.ifaces, routes |-> t.routes]
  /\ t.count \in Nat
  /\ DOMAIN t.channels \subseteq NodePairs
  /\ t.channels \in [DOMAIN t.channels -> 1..t.count]
  /\ t.delay \in Seq(Nat) /\ Len(t.delay) = t.count
  /\ t.ifaces \in [1..MaxNodes -> Seq(Nat)]
  /\ t.routes \in [1..MaxNodes -> [1..MaxNodes -> Nat]]

(* No channel joins two pairs.                                             *)
ChannelsApart(t) ==
  \A j, k \in DOMAIN t.channels : t.channels[j] = t.channels[k] => j = k

RouteRight(t, a, b) ==
  /\ t.routes[a][b] \in 1..Len(t.ifaces[a])
  /\ Key(a, b) \in DOMAIN t.channels
  /\ a # b => t.ifaces[a][t.routes[a][b]] = t.channels[Key(a, b)]

RoutesRight(t) ==
  \A a, b \in 1..MaxNodes : t.routes[a][b] # 0 => RouteRight(t, a, b)

NetOK(t) == NetTyped(t) /\ ChannelsApart(t) /\ RoutesRight(t)

(* u is t with links for the pairs K: no pair loses or changes its channel.*)
Grown(t, u, K) ==
  /\ NetOK(u)
  /\ DOMAIN u.channels = DOMAIN t.channels \cup K
  /\ \A k \in DOMAIN t.channels : u.channels[k] = t.channels[k]

DelaysKept(t, u) ==
  \A k \in DOMAIN t.channels : u.delay[u.channels[k]] = t.delay[t.channels[k]]

LEMMA KeyPairs ==
  ASSUME TopologyAssumption, NEW a \in 1..MaxNodes, NEW b \in 1..MaxNodes
  PROVE  Key(a, b) \in NodePairs /\ Key(a, b) = Key(b, a)
BY DEF Key, NodePairs, TopologyAssumption

LEMMA KeySame ==
  ASSUME TopologyAssumption, NEW a \in 1..MaxNodes, NEW b \in 1..MaxNodes,
         NEW c \in 1..MaxNodes, NEW d \in 1..MaxNodes, Key(a, b) = Key(c, d)
  PROVE  (a = c /\ b = d) \/ (a = d /\ b = c)
BY DEF Key, TopologyAssumption

LEMMA WithAppended ==
  ASSUME NEW f, f \in [1..MaxNodes -> Seq(Nat)], NEW a \in 1..MaxNodes, NEW c \in Nat
  PROVE  [f EXCEPT ![a] = Append(@, c)] \in [1..MaxNodes -> Seq(Nat)]
<1>1. Append(f[a], c) \in Seq(Nat)
  OBVIOUS
<1> QED
  BY <1>1

(* A new link appends to the interfaces of its ends, and no others.        *)
LEMMA NewInterfaces ==
  ASSUME NEW f, f \in [1..MaxNodes -> Seq(Nat)], NEW a \in 1..MaxNodes, NEW c \in Nat,
         NEW g, g = [f EXCEPT ![a] = Append(@, c)]
  PROVE  /\ g[a][Len(g[a])] = c
         /\ Len(g[a]) \in 1..Len(g[a])
         /\ \A n \in 1..MaxNodes : \A i \in 1..Len(f[n]) : i \in 1..Len(g[n]) /\ g[n][i] = f[n][i]
<1>1. f[a] \in Seq(Nat) /\ g[a] = Append(f[a], c)
  OBVIOUS
<1>2. \A n \in 1..MaxNodes : n # a => g[n] = f[n]
  OBVIOUS
<1>3. \A i \in 1..Len(f[a]) : i \in 1..Len(g[a]) /\ g[a][i] = f[a][i]
  BY <1>1
<1>4. Len(g[a]) = Len(f[a]) + 1 /\ g[a][Len(f[a]) + 1] = c /\ Len(f[a]) \in Nat
  BY <1>1
<1>5. ASSUME NEW n \in 1..MaxNodes, NEW i \in 1..Len(f[n])
      PROVE  i \in 1..Len(g[n]) /\ g[n][i] = f[n][i]
  BY <1>2, <1>3
<1> QED
  BY <1>4, <1>5

LEMMA NewLinkTyped ==
  ASSUME TopologyAssumption, NEW t, NetTyped(t),
         NEW a \in 1..MaxNodes, NEW b \in 1..MaxNodes, Key(a, b) \notin DOMAIN t.channels
  PROVE  /\ NetTyped(NewLink(t, a, b))
         /\ DOMAIN NewLink(t, a, b).channels = DOMAIN t.channels \cup {Key(a, b)}
         /\ NewLink(t, a, b).channels[Key(a, b)] = t.count + 1
         /\ \A k \in DOMAIN t.channels : NewLink(t, a, b).channels[k] = t.channels[k]
         /\ \A c \in 1..t.count : NewLink(t, a, b).delay[c] = t.delay[c]
<1> DEFINE c == t.count + 1
           withA == [t.ifaces EXCEPT ![a] = Append(@, c)]
           withB == [withA EXCEPT ![b] = Append(@, c)]
           chans == [k \in DOMAIN t.channels \cup {Key(a, b)} |->
                       IF k = Key(a, b) THEN c ELSE t.channels[k]]
           via == [[t.routes EXCEPT ![a][b] = Len(withA[a])] EXCEPT ![b][a] = Len(withB[b])]
           u == NewLink(t, a, b)
<1>1. u = [channels |-> chans, count |-> c, delay |-> Append(t.delay, 0),
           ifaces |-> withB, routes |-> via]
  BY DEF NewLink
<1>2. c \in Nat /\ t.count \in Nat
  BY DEF NetTyped
<1>3. Key(a, b) \in NodePairs
  BY KeyPairs
<1>4. chans \in [DOMAIN t.channels \cup {Key(a, b)} -> 1..c]
  BY <1>2 DEF NetTyped
<1>5. withA \in [1..MaxNodes -> Seq(Nat)]
  BY <1>2, WithAppended DEF NetTyped
<1>6. withB \in [1..MaxNodes -> Seq(Nat)]
  BY <1>2, <1>5, WithAppended
<1>7. via \in [1..MaxNodes -> [1..MaxNodes -> Nat]]
  <2>1. Len(withA[a]) \in Nat /\ Len(withB[b]) \in Nat
    BY <1>5, <1>6
  <2>2. t.routes \in [1..MaxNodes -> [1..MaxNodes -> Nat]]
    BY DEF NetTyped
  <2> HIDE DEF withA, withB
  <2> QED
    BY <2>1, <2>2
<1>8. /\ Append(t.delay, 0) \in Seq(Nat) /\ Len(Append(t.delay, 0)) = c
      /\ \A x \in 1..t.count : Append(t.delay, 0)[x] = t.delay[x]
  BY <1>2 DEF NetTyped
<1>9. DOMAIN chans = DOMAIN t.channels \cup {Key(a, b)} /\ chans[Key(a, b)] = c
  OBVIOUS
<1>10. \A k \in DOMAIN t.channels : chans[k] = t.channels[k]
  OBVIOUS
<1>11. DOMAIN t.channels \subseteq NodePairs
  BY DEF NetTyped
<1> HIDE DEF chans, withB, via, c, withA
<1>12. /\ u.channels = chans /\ u.count = c /\ u.delay = Append(t.delay, 0)
       /\ u.ifaces = withB /\ u.routes = via
  BY <1>1
<1> HIDE DEF u
<1>13. NetTyped(u)
  BY <1>1, <1>12, <1>2, <1>3, <1>4, <1>6, <1>7, <1>8, <1>9, <1>11 DEF NetTyped
<1>14. u.channels[Key(a, b)] = t.count + 1
  BY <1>12, <1>9 DEF c
<1>15. DOMAIN u.channels = DOMAIN t.channels \cup {Key(a, b)}
  BY <1>12, <1>9
<1>16. \A k \in DOMAIN t.channels : u.channels[k] = t.channels[k]
  BY <1>12, <1>10
<1>17. \A x \in 1..t.count : u.delay[x] = t.delay[x]
  BY <1>12, <1>8
<1> QED
  BY <1>13, <1>14, <1>15, <1>16, <1>17 DEF u

LEMMA NewLinkRoutes ==
  ASSUME TopologyAssumption, NEW t, NetTyped(t), RoutesRight(t),
         NEW a \in 1..MaxNodes, NEW b \in 1..MaxNodes, Key(a, b) \notin DOMAIN t.channels
  PROVE  RoutesRight(NewLink(t, a, b))
<1> DEFINE c == t.count + 1
           withA == [t.ifaces EXCEPT ![a] = Append(@, c)]
           withB == [withA EXCEPT ![b] = Append(@, c)]
           via == [[t.routes EXCEPT ![a][b] = Len(withA[a])] EXCEPT ![b][a] = Len(withB[b])]
           u == NewLink(t, a, b)
<1>1. u.ifaces = withB /\ u.routes = via
  BY DEF NewLink
<1>2. c \in Nat
  BY DEF NetTyped
<1>3. t.ifaces \in [1..MaxNodes -> Seq(Nat)] /\ t.routes \in [1..MaxNodes -> [1..MaxNodes -> Nat]]
  BY DEF NetTyped
<1>4. withA \in [1..MaxNodes -> Seq(Nat)]
  BY <1>2, <1>3, WithAppended
<1>5. /\ withA[a][Len(withA[a])] = c /\ Len(withA[a]) \in 1..Len(withA[a])
      /\ \A n \in 1..MaxNodes : \A i \in 1..Len(t.ifaces[n]) :
           i \in 1..Len(withA[n]) /\ withA[n][i] = t.ifaces[n][i]
  <2> DEFINE f == t.ifaces
  <2>1. withA = [f EXCEPT ![a] = Append(@, c)] /\ f \in [1..MaxNodes -> Seq(Nat)]
    BY <1>3
  <2> HIDE DEF c, withA, f
  <2>2. /\ withA[a][Len(withA[a])] = c /\ Len(withA[a]) \in 1..Len(withA[a])
        /\ \A n \in 1..MaxNodes : \A i \in 1..Len(f[n]) :
             i \in 1..Len(withA[n]) /\ withA[n][i] = f[n][i]
    BY <2>1, <1>2, NewInterfaces
  <2> QED
    BY <2>2 DEF f
<1>6. /\ withB[b][Len(withB[b])] = c /\ Len(withB[b]) \in 1..Len(withB[b])
      /\ \A n \in 1..MaxNodes : \A i \in 1..Len(withA[n]) :
           i \in 1..Len(withB[n]) /\ withB[n][i] = withA[n][i]
  <2> HIDE DEF c, withA
  <2> QED
    BY <1>2, <1>4, NewInterfaces
<1>7. /\ via[b][a] = Len(withB[b])
      /\ a # b => via[a][b] = Len(withA[a])
      /\ \A x, y \in 1..MaxNodes :
           ~(x = b /\ y = a) /\ ~(x = a /\ y = b) => via[x][y] = t.routes[x][y]
  <2> HIDE DEF withA, withB
  <2> QED
    BY <1>3
<1>8. /\ u.channels[Key(a, b)] = c
      /\ DOMAIN u.channels = DOMAIN t.channels \cup {Key(a, b)}
      /\ \A k \in DOMAIN t.channels : u.channels[k] = t.channels[k]
  BY NewLinkTyped
<1>9. Key(a, b) = Key(b, a)
  BY KeyPairs
<1> HIDE DEF u, c, withA, withB, via
<1>10. ASSUME NEW x \in 1..MaxNodes, NEW y \in 1..MaxNodes, u.routes[x][y] # 0
       PROVE  RouteRight(u, x, y)
  <2>1. CASE x = b /\ y = a
    BY <2>1, <1>1, <1>6, <1>7, <1>8, <1>9 DEF RouteRight
  <2>2. CASE x = a /\ y = b /\ a # b
    <3>1. u.routes[x][y] = Len(withA[a]) /\ Len(withA[a]) \in 1..Len(withB[a])
      BY <2>2, <1>1, <1>5, <1>6, <1>7
    <3>2. withB[a][Len(withA[a])] = c
      BY <1>5, <1>6
    <3> QED
      BY <2>2, <3>1, <3>2, <1>1, <1>8 DEF RouteRight
  <2>3. CASE ~(x = b /\ y = a) /\ ~(x = a /\ y = b)
    <3>1. u.routes[x][y] = t.routes[x][y]
      BY <2>3, <1>1, <1>7
    <3>2. RouteRight(t, x, y)
      BY <3>1, <1>10 DEF RoutesRight
    <3> DEFINE i == t.routes[x][y]
    <3>3. /\ i \in 1..Len(t.ifaces[x]) /\ Key(x, y) \in DOMAIN t.channels
          /\ x # y => t.ifaces[x][i] = t.channels[Key(x, y)]
      BY <3>2 DEF RouteRight
    <3> HIDE DEF i
    <3>4. i \in 1..Len(withA[x]) /\ withA[x][i] = t.ifaces[x][i]
      BY <3>3, <1>5
    <3>5. i \in 1..Len(withB[x]) /\ withB[x][i] = t.ifaces[x][i]
      BY <3>4, <1>6
    <3>6. Key(x, y) \in DOMAIN u.channels /\ u.channels[Key(x, y)] = t.channels[Key(x, y)]
      BY <3>3, <1>8
    <3> QED
      BY <3>1, <3>3, <3>5, <3>6, <1>1 DEF RouteRight, i
  <2> QED
    BY <2>1, <2>2, <2>3
<1> QED
  BY <1>10 DEF RoutesRight, u

LEMMA LinkGrows ==
  ASSUME TopologyAssumption, NEW t, NetOK(t),
         NEW a \in 1..MaxNodes, NEW b \in 1..MaxNodes
  PROVE  Grown(t, Link(t, a, b), {Key(a, b)}) /\ DelaysKept(t, Link(t, a, b))
<1>1. CASE Key(a, b) \in DOMAIN t.channels
  BY <1>1 DEF Link, Grown, DelaysKept
<1>2. CASE Key(a, b) \notin DOMAIN t.channels
  <2> DEFINE u == NewLink(t, a, b)
  <2>1. Link(t, a, b) = u
    BY <1>2 DEF Link
  <2>2. NetTyped(t) /\ ChannelsApart(t) /\ RoutesRight(t)
    BY DEF NetOK
  <2>3. /\ NetTyped(u)
        /\ DOMAIN u.channels = DOMAIN t.channels \cup {Key(a, b)}
        /\ u.channels[Key(a, b)] = t.count + 1
        /\ \A k \in DOMAIN t.channels : u.channels[k] = t.channels[k]
        /\ \A c \in 1..t.count : u.delay[c] = t.delay[c]
    BY <1>2, <2>2, NewLinkTyped
  <2>4. RoutesRight(u)
    BY <1>2, <2>2, NewLinkRoutes
  <2> HIDE DEF u
  <2>5. \A k \in DOMAIN t.channels : t.channels[k] \in 1..t.count
    BY <2>2 DEF NetTyped
  <2>6. t.count \in Nat
    BY <2>2 DEF NetTyped
  <2>7. \A k \in DOMAIN t.channels : t.channels[k] # t.count + 1
    BY <2>5, <2>6
  <2>8. ChannelsApart(u)
    BY <2>2, <2>3, <2>7 DEF ChannelsApart
  <2>9. DelaysKept(t, u)
    BY <2>3, <2>5 DEF DelaysKept
  <2> QED
    BY <2>1, <2>3, <2>4, <2>8, <2>9 DEF Grown, NetOK
<1> QED
  BY <1>1, <1>2

LEMMA GrownTwice ==
  ASSUME NEW t, NEW u, NEW v, NEW K, NEW L, Grown(t, u, K), Grown(u, v, L)
  PROVE  Grown(t, v, K \cup L)
BY DEF Grown

LEMMA KeptTwice ==
  ASSUME NEW t, NEW u, NEW v, NEW K, Grown(t, u, K), DelaysKept(t, u), DelaysKept(u, v)
  PROVE  DelaysKept(t, v)
BY DEF Grown, DelaysKept

-----------------------------------------------------------------------------
(* Walking lists.                                                          *)

(* Induction without an operator: the least index that is not in S.        *)
LEMMA Reach ==
  ASSUME NEW n \in Nat, NEW S, 0 \in S, \A i \in 1..n : i - 1 \in S => i \in S
  PROVE  \A i \in 0..n : i \in S
<1> DEFINE T == (0..n) \ S
<1>1. SUFFICES ASSUME T # {}
               PROVE  FALSE
  OBVIOUS
<1>2. T \subseteq Nat
  OBVIOUS
<1>3. PICK x \in T : \A y \in T : <<y, x>> \notin OpToRel(<, Nat)
  <2> HIDE DEF T
  <2> QED
    BY <1>1, <1>2, NatLessThanWellFounded, WFMin, Zenon
<1>4. \A y \in T : ~(y < x)
  BY <1>2, <1>3 DEF OpToRel
<1>5. x \in 1..n /\ x - 1 \in 0..n /\ x - 1 < x
  OBVIOUS
<1>6. x - 1 \in S
  BY <1>4, <1>5
<1> QED
  BY <1>5, <1>6

Valid(p) == Present(p[1]) /\ Present(p[2]) /\ p[1] # p[2]
KeyOf(p) == Key(p[1], p[2])

LEMMA StepGrows ==
  ASSUME TopologyAssumption, nodes \in 0..MaxNodes, NEW acc, NetOK(acc.net), acc.out \in Seq(Nat),
         NEW p, Valid(p)
  PROVE  /\ Grown(acc.net, Step(acc, p).net, {KeyOf(p)})
         /\ DelaysKept(acc.net, Step(acc, p).net)
         /\ Step(acc, p).out = Append(acc.out, Step(acc, p).net.channels[KeyOf(p)])
         /\ Step(acc, p).out \in Seq(Nat)
<1> DEFINE t == Link(acc.net, p[1], p[2])
<1>1. p[1] \in 1..MaxNodes /\ p[2] \in 1..MaxNodes
  BY DEF Valid, Present, TopologyAssumption
<1>2. Grown(acc.net, t, {KeyOf(p)}) /\ DelaysKept(acc.net, t)
  BY <1>1, LinkGrows DEF KeyOf
<1>3. Step(acc, p) = [net |-> t, out |-> Append(acc.out, GetChannel(t, p[1], p[2]))]
  BY DEF Step, Valid
<1> HIDE DEF t
<1>4. KeyOf(p) \in DOMAIN t.channels /\ t.channels[KeyOf(p)] \in Nat
  BY <1>2 DEF Grown, NetOK, NetTyped
<1>5. GetChannel(t, p[1], p[2]) = t.channels[KeyOf(p)]
  BY <1>4 DEF GetChannel, KeyOf
<1> QED
  BY <1>2, <1>3, <1>4, <1>5

LEMMA StepSkips ==
  ASSUME NEW acc, NEW p, ~Valid(p)
  PROVE  Step(acc, p) = acc
BY DEF Step, Valid

IsWalk(f, acc, pairs, n) == f = [i \in 0..n |-> IF i = 0 THEN acc ELSE Step(f[i - 1], pairs[i])]

LEMMA WalkExists ==
  ASSUME NEW acc, NEW pairs, NEW n \in Nat
  PROVE  \E f : IsWalk(f, acc, pairs, n)
<1> DEFINE S == {i \in 0..n : \E f : IsWalk(f, acc, pairs, i)}
<1>1. 0 \in S
  <2>1. IsWalk([i \in 0..0 |-> acc], acc, pairs, 0)
    BY DEF IsWalk
  <2> QED
    BY <2>1
<1>2. ASSUME NEW m \in 1..n, m - 1 \in S
      PROVE  m \in S
  <2>1. PICK f : IsWalk(f, acc, pairs, m - 1)
    BY <1>2
  <2> DEFINE g == [i \in 0..m |-> IF i < m THEN f[i] ELSE Step(f[m - 1], pairs[m])]
  <2>2. ASSUME NEW i \in 0..m
        PROVE  g[i] = IF i = 0 THEN acc ELSE Step(g[i - 1], pairs[i])
    <3>1. CASE i = m
      BY <3>1
    <3>2. CASE i # m
      <4>1. i \in 0..(m - 1)
        BY <3>2
      <4>2. f[i] = IF i = 0 THEN acc ELSE Step(f[i - 1], pairs[i])
        BY <2>1, <4>1 DEF IsWalk
      <4> QED
        BY <4>1, <4>2
    <3> QED
      BY <3>1, <3>2
  <2>3. IsWalk(g, acc, pairs, m)
    <3>1. g = [i \in 0..m |-> g[i]]
      OBVIOUS
    <3> HIDE DEF g
    <3> QED
      BY <2>2, <3>1 DEF IsWalk
  <2> QED
    BY <2>3
<1>3. n \in S
  <2> HIDE DEF S
  <2> QED
    BY <1>1, <1>2, Reach
<1> QED
  BY <1>3

LEMMA WalkIs ==
  ASSUME NEW acc, NEW pairs, Len(pairs) \in Nat
  PROVE  \E f : IsWalk(f, acc, pairs, Len(pairs)) /\ Walk(acc, pairs) = f[Len(pairs)]
<1> DEFINE after[i \in 0..Len(pairs)] == IF i = 0 THEN acc ELSE Step(after[i - 1], pairs[i])
<1>1. IsWalk(after, acc, pairs, Len(pairs))
  <2>1. after = CHOOSE f : f = [i \in 0..Len(pairs) |-> IF i = 0 THEN acc ELSE Step(f[i - 1], pairs[i])]
    OBVIOUS
  <2>2. after = CHOOSE f : IsWalk(f, acc, pairs, Len(pairs))
    BY <2>1 DEF IsWalk
  <2> HIDE DEF after
  <2> QED
    BY <2>2, WalkExists
<1>2. Walk(acc, pairs) = after[Len(pairs)]
  BY DEF Walk
<1> HIDE DEF after
<1> QED
  BY <1>1, <1>2

(* The keys of the first i pairs that are links.                           *)
KeysUpTo(pairs, i) == {KeyOf(pairs[j]) : j \in {m \in 1..i : Valid(pairs[m])}}

(* What the first i pairs have made of acc: the net has their links, and   *)
(* if no pair was skipped their channels are returned in order.            *)
Returned(acc, w, pairs, i) ==
  (\A j \in 1..i : Valid(pairs[j])) =>
    /\ Len(w.out) = Len(acc.out) + i
    /\ \A j \in 1..Len(acc.out) : w.out[j] = acc.out[j]
    /\ \A j \in 1..i : w.out[Len(acc.out) + j] = w.net.channels[KeyOf(pairs[j])]

Walked(acc, w, pairs, i) ==
  /\ Grown(acc.net, w.net, KeysUpTo(pairs, i))
  /\ DelaysKept(acc.net, w.net)
  /\ w.out \in Seq(Nat)
  /\ Returned(acc, w, pairs, i)

LEMMA WalkedStep ==
  ASSUME TopologyAssumption, nodes \in 0..MaxNodes, NEW acc, acc.out \in Seq(Nat), NEW pairs, NEW n \in Nat,
         NEW i \in 1..n, NEW w, Walked(acc, w, pairs, i - 1)
  PROVE  Walked(acc, Step(w, pairs[i]), pairs, i)
<1> DEFINE v == Step(w, pairs[i])
           p == pairs[i]
<1>1. /\ Grown(acc.net, w.net, KeysUpTo(pairs, i - 1)) /\ DelaysKept(acc.net, w.net)
      /\ w.out \in Seq(Nat) /\ Returned(acc, w, pairs, i - 1)
  BY DEF Walked
<1>2. NetOK(w.net)
  BY <1>1 DEF Grown
<1>3. CASE Valid(p)
  <2>1. /\ Grown(w.net, v.net, {KeyOf(p)}) /\ DelaysKept(w.net, v.net)
        /\ v.out = Append(w.out, v.net.channels[KeyOf(p)]) /\ v.out \in Seq(Nat)
    BY <1>1, <1>2, <1>3, StepGrows
  <2> HIDE DEF v
  <2>2. KeysUpTo(pairs, i) = KeysUpTo(pairs, i - 1) \cup {KeyOf(p)}
    <3>1. {m \in 1..i : Valid(pairs[m])} = {m \in 1..(i - 1) : Valid(pairs[m])} \cup {i}
      BY <1>3
    <3> QED
      BY <3>1 DEF KeysUpTo
  <2>3. Grown(acc.net, v.net, KeysUpTo(pairs, i))
    BY <1>1, <2>1, <2>2, GrownTwice
  <2>4. DelaysKept(acc.net, v.net)
    BY <1>1, <2>1, KeptTwice
  <2>5. Returned(acc, v, pairs, i)
    <3>1. SUFFICES ASSUME \A j \in 1..i : Valid(pairs[j])
                   PROVE  /\ Len(v.out) = Len(acc.out) + i
                          /\ \A j \in 1..Len(acc.out) : v.out[j] = acc.out[j]
                          /\ \A j \in 1..i : v.out[Len(acc.out) + j] = v.net.channels[KeyOf(pairs[j])]
      BY DEF Returned
    <3> DEFINE a == Len(acc.out)
    <3>2. a \in Nat
      OBVIOUS
    <3>3. /\ Len(w.out) = a + (i - 1)
          /\ \A j \in 1..a : w.out[j] = acc.out[j]
          /\ \A j \in 1..(i - 1) : w.out[a + j] = w.net.channels[KeyOf(pairs[j])]
      BY <1>1, <3>1 DEF Returned
    <3>4. \A j \in 1..(i - 1) : v.net.channels[KeyOf(pairs[j])] = w.net.channels[KeyOf(pairs[j])]
      <4>1. \A j \in 1..(i - 1) : KeyOf(pairs[j]) \in DOMAIN w.net.channels
        BY <1>1, <3>1 DEF Grown, KeysUpTo
      <4> QED
        BY <4>1, <2>1 DEF Grown
    <3>5. /\ Len(v.out) = a + i /\ v.out[a + i] = v.net.channels[KeyOf(p)]
          /\ \A j \in 1..(a + (i - 1)) : v.out[j] = w.out[j]
      BY <1>1, <2>1, <3>2, <3>3
    <3> HIDE DEF a
    <3>6. \A j \in 1..a : v.out[j] = acc.out[j]
      <4>1. \A j \in 1..a : j \in 1..(a + (i - 1))
        BY <3>2
      <4> QED
        BY ONLY <3>3, <3>5, <4>1
    <3>7. \A j \in 1..i : v.out[a + j] = v.net.channels[KeyOf(pairs[j])]
      <4>1. ASSUME NEW j \in 1..i, j # i
            PROVE  v.out[a + j] = v.net.channels[KeyOf(pairs[j])]
        <5>1. j \in 1..(i - 1) /\ a + j \in 1..(a + (i - 1))
          BY <4>1, <3>2
        <5> QED
          BY <5>1, <3>3, <3>4, <3>5
      <4> QED
        BY <4>1, <3>5
    <3> QED
      BY <3>5, <3>6, <3>7 DEF a
  <2> QED
    BY <2>1, <2>3, <2>4, <2>5 DEF Walked, v
<1>4. CASE ~Valid(p)
  <2>1. v = w
    BY <1>4, StepSkips
  <2>2. KeysUpTo(pairs, i) = KeysUpTo(pairs, i - 1)
    <3>1. {m \in 1..i : Valid(pairs[m])} = {m \in 1..(i - 1) : Valid(pairs[m])}
      BY <1>4
    <3> QED
      BY <3>1 DEF KeysUpTo
  <2>3. Returned(acc, w, pairs, i)
    BY <1>4 DEF Returned
  <2> QED
    BY <1>1, <2>1, <2>2, <2>3 DEF Walked
<1> QED
  BY <1>3, <1>4

LEMMA WalkWalks ==
  ASSUME TopologyAssumption, nodes \in 0..MaxNodes, NEW acc, NetOK(acc.net), acc.out \in Seq(Nat),
         NEW pairs, Len(pairs) \in Nat
  PROVE  Walked(acc, Walk(acc, pairs), pairs, Len(pairs))
<1> DEFINE n == Len(pairs)
<1>1. PICK f : IsWalk(f, acc, pairs, n) /\ Walk(acc, pairs) = f[n]
  BY WalkIs
<1>2. f[0] = acc /\ \A i \in 1..n : f[i] = Step(f[i - 1], pairs[i])
  BY <1>1 DEF IsWalk
<1> DEFINE S == {i \in 0..n : Walked(acc, f[i], pairs, i)}
<1>3. 0 \in S
  <2>1. Grown(acc.net, acc.net, KeysUpTo(pairs, 0)) /\ DelaysKept(acc.net, acc.net)
    BY DEF Grown, DelaysKept, KeysUpTo
  <2>2. Returned(acc, acc, pairs, 0)
    BY DEF Returned
  <2> QED
    BY <1>2, <2>1, <2>2 DEF Walked
<1>4. ASSUME NEW i \in 1..n, i - 1 \in S
      PROVE  i \in S
  <2>1. Walked(acc, f[i - 1], pairs, i - 1)
    BY <1>4
  <2>2. Walked(acc, Step(f[i - 1], pairs[i]), pairs, i)
    BY <2>1, WalkedStep
  <2> QED
    BY <1>2, <2>2
<1>5. n \in S
  <2> HIDE DEF S, n
  <2>1. n \in Nat
    BY DEF n
  <2>2. \A i \in 1..n : i - 1 \in S => i \in S
    BY <1>4
  <2>3. \A i \in 0..n : i \in S
    BY <1>3, <2>1, <2>2, Reach
  <2> QED
    BY <2>1, <2>3
<1> QED
  BY <1>1, <1>5

IsRows(f, acc, list, n) == f = [i \in 0..n |-> IF i = 0 THEN acc ELSE Walk(f[i - 1], Row(list, i))]

LEMMA RowsExist ==
  ASSUME NEW acc, NEW list, NEW n \in Nat
  PROVE  \E f : IsRows(f, acc, list, n)
<1> DEFINE S == {i \in 0..n : \E f : IsRows(f, acc, list, i)}
<1>1. 0 \in S
  <2>1. IsRows([i \in 0..0 |-> acc], acc, list, 0)
    BY DEF IsRows
  <2> QED
    BY <2>1
<1>2. ASSUME NEW m \in 1..n, m - 1 \in S
      PROVE  m \in S
  <2>1. PICK f : IsRows(f, acc, list, m - 1)
    BY <1>2
  <2> DEFINE g == [i \in 0..m |-> IF i < m THEN f[i] ELSE Walk(f[m - 1], Row(list, m))]
  <2>2. ASSUME NEW i \in 0..m
        PROVE  g[i] = IF i = 0 THEN acc ELSE Walk(g[i - 1], Row(list, i))
    <3>1. CASE i = m
      BY <3>1
    <3>2. CASE i # m
      <4>1. i \in 0..(m - 1)
        BY <3>2
      <4>2. f[i] = IF i = 0 THEN acc ELSE Walk(f[i - 1], Row(list, i))
        BY <2>1, <4>1 DEF IsRows
      <4> QED
        BY <4>1, <4>2
    <3> QED
      BY <3>1, <3>2
  <2>3. IsRows(g, acc, list, m)
    <3>1. g = [i \in 0..m |-> g[i]]
      OBVIOUS
    <3> HIDE DEF g
    <3> QED
      BY <2>2, <3>1 DEF IsRows
  <2> QED
    BY <2>3
<1>3. n \in S
  <2> HIDE DEF S
  <2> QED
    BY <1>1, <1>2, Reach
<1> QED
  BY <1>3

LEMMA RowsAre ==
  ASSUME NEW acc, NEW list, Len(list) \in Nat
  PROVE  \E f : IsRows(f, acc, list, Len(list)) /\ WalkRows(acc, list) = f[Len(list)]
<1> DEFINE after[i \in 0..Len(list)] == IF i = 0 THEN acc ELSE Walk(after[i - 1], Row(list, i))
<1>1. IsRows(after, acc, list, Len(list))
  <2>1. after = CHOOSE f : f = [i \in 0..Len(list) |-> IF i = 0 THEN acc ELSE Walk(f[i - 1], Row(list, i))]
    OBVIOUS
  <2>2. after = CHOOSE f : IsRows(f, acc, list, Len(list))
    BY <2>1 DEF IsRows
  <2> HIDE DEF after
  <2> QED
    BY <2>2, RowsExist
<1>2. WalkRows(acc, list) = after[Len(list)]
  BY DEF WalkRows
<1> HIDE DEF after
<1> QED
  BY <1>1, <1>2

(* The keys of the first i rows of a list of n nodes.                      *)
RowKeys(list, n, i) == UNION {KeysUpTo(Row(list, m), n - m) : m \in 1..i}

(* Neither null nodes nor repetitions.                                     *)
Whole(list, n) ==
  /\ \A i \in 1..n : Present(list[i])
  /\ \A i, j \in 1..n : list[i] = list[j] => i = j

Distinct(out) == \A i, j \in 1..Len(out) : out[i] = out[j] => i = j

RowsReturned(w, list, n, i) ==
  Whole(list, n) =>
    /\ 2 * Len(w.out) = i * (2 * n - i - 1)
    /\ Distinct(w.out)
    /\ \A j \in 1..Len(w.out) : \E k \in RowKeys(list, n, i) : w.out[j] = w.net.channels[k]

RowsWalked(acc, w, list, n, i) ==
  /\ Grown(acc.net, w.net, RowKeys(list, n, i))
  /\ DelaysKept(acc.net, w.net)
  /\ w.out \in Seq(Nat)
  /\ RowsReturned(w, list, n, i)

LEMMA RowIs ==
  ASSUME NEW list, NEW n \in Nat, n = Len(list), NEW i \in 1..n
  PROVE  /\ Len(Row(list, i)) = n - i /\ n - i \in Nat
         /\ \A j \in 1..(n - i) : Row(list, i)[j] = <<list[i], list[i + j]>>
BY DEF Row

LEMMA RowWhole ==
  ASSUME NEW list, NEW n \in Nat, n = Len(list), NEW i \in 1..n, Whole(list, n)
  PROVE  /\ \A j \in 1..(n - i) : Valid(Row(list, i)[j])
         /\ \A j \in 1..(n - i) : KeyOf(Row(list, i)[j]) = Key(list[i], list[i + j])
<1>1. ASSUME NEW j \in 1..(n - i)
      PROVE  Valid(Row(list, i)[j]) /\ KeyOf(Row(list, i)[j]) = Key(list[i], list[i + j])
  <2>1. i \in 1..n /\ i + j \in 1..n /\ i # i + j
    OBVIOUS
  <2>2. list[i] # list[i + j] /\ Present(list[i]) /\ Present(list[i + j])
    BY <2>1 DEF Whole
  <2>3. Row(list, i)[j] = <<list[i], list[i + j]>>
    BY RowIs
  <2> QED
    BY <2>2, <2>3 DEF Valid, KeyOf
<1> QED
  BY <1>1

(* The keys of a row are of no earlier row.                                *)
LEMMA RowsApart ==
  ASSUME TopologyAssumption, nodes \in 0..MaxNodes, NEW list, NEW n \in Nat, n = Len(list), Whole(list, n),
         NEW i \in 1..n, NEW j \in 1..(n - i)
  PROVE  /\ Key(list[i], list[i + j]) \notin RowKeys(list, n, i - 1)
         /\ \A k \in 1..(n - i) : Key(list[i], list[i + j]) = Key(list[i], list[i + k]) => j = k
<1>1. \A m \in 1..n : list[m] \in 1..MaxNodes
  BY DEF Whole, Present, TopologyAssumption
<1>2. i \in 1..n /\ i + j \in 1..n
  OBVIOUS
<1>3. ASSUME Key(list[i], list[i + j]) \in RowKeys(list, n, i - 1)
      PROVE  FALSE
  <2>1. PICK m \in 1..(i - 1) : Key(list[i], list[i + j]) \in KeysUpTo(Row(list, m), n - m)
    BY <1>3 DEF RowKeys
  <2>2. PICK k \in 1..(n - m) : Key(list[i], list[i + j]) = KeyOf(Row(list, m)[k])
    BY <2>1 DEF KeysUpTo
  <2>3. m \in 1..n /\ m + k \in 1..n
    OBVIOUS
  <2>4. Key(list[i], list[i + j]) = Key(list[m], list[m + k])
    BY <2>2, <2>3, RowWhole
  <2>5. list[i] = list[m] \/ list[i + j] = list[m]
    BY <1>1, <1>2, <2>3, <2>4, KeySame
  <2> QED
    BY <1>2, <2>3, <2>5 DEF Whole
<1>4. ASSUME NEW k \in 1..(n - i), Key(list[i], list[i + j]) = Key(list[i], list[i + k])
      PROVE  j = k
  <2>1. i + k \in 1..n /\ i # i + k
    OBVIOUS
  <2>2. list[i] \in 1..MaxNodes /\ list[i + j] \in 1..MaxNodes /\ list[i + k] \in 1..MaxNodes
    BY <1>1, <1>2, <2>1
  <2>3. list[i + j] = list[i + k] \/ list[i] = list[i + k]
    BY <1>4, <2>2, KeySame
  <2>4. i + j = i + k
    BY <1>2, <2>1, <2>3 DEF Whole
  <2> QED
    BY <2>4
<1> QED
  BY <1>3, <1>4

LEMMA RowsReturnedStep ==
  ASSUME TopologyAssumption, nodes \in 0..MaxNodes, NEW list, NEW n \in Nat, n = Len(list),
         NEW acc, NEW w, NEW v, NEW i \in 1..n,
         RowsWalked(acc, w, list, n, i - 1), Walked(w, v, Row(list, i), n - i)
  PROVE  RowsReturned(v, list, n, i)
<1>1. SUFFICES ASSUME Whole(list, n)
               PROVE  /\ 2 * Len(v.out) = i * (2 * n - i - 1)
                      /\ Distinct(v.out)
                      /\ \A j \in 1..Len(v.out) : \E k \in RowKeys(list, n, i) : v.out[j] = v.net.channels[k]
  BY DEF RowsReturned
<1> DEFINE l == Len(w.out)
           before == RowKeys(list, n, i - 1)
           K(j) == Key(list[i], list[i + j])
<1>2. l \in Nat /\ i - 1 \in Nat /\ n - i \in Nat
  BY DEF RowsWalked
<1>3. /\ 2 * l = (i - 1) * (2 * n - (i - 1) - 1)
      /\ Distinct(w.out)
      /\ \A j \in 1..l : \E k \in before : w.out[j] = w.net.channels[k]
  BY <1>1 DEF RowsWalked, RowsReturned
<1>4. /\ \A j \in 1..(n - i) : Valid(Row(list, i)[j])
      /\ \A j \in 1..(n - i) : KeyOf(Row(list, i)[j]) = K(j)
  BY <1>1, RowWhole
<1>5. /\ Len(v.out) = l + (n - i)
      /\ \A j \in 1..l : v.out[j] = w.out[j]
      /\ \A j \in 1..(n - i) : v.out[l + j] = v.net.channels[K(j)]
  BY <1>4 DEF Walked, Returned
<1>6. /\ before \subseteq DOMAIN w.net.channels
      /\ before \subseteq DOMAIN v.net.channels
      /\ \A k \in before : v.net.channels[k] = w.net.channels[k]
  BY DEF RowsWalked, Walked, Grown
<1>7. ChannelsApart(v.net)
  BY DEF Walked, Grown, NetOK
<1>8. \A j \in 1..(n - i) : K(j) \in KeysUpTo(Row(list, i), n - i)
  BY <1>4 DEF KeysUpTo
<1>9. KeysUpTo(Row(list, i), n - i) \subseteq DOMAIN v.net.channels
  BY DEF Walked, Grown
<1>10. before \subseteq RowKeys(list, n, i) /\ KeysUpTo(Row(list, i), n - i) \subseteq RowKeys(list, n, i)
  <2>1. 1..(i - 1) \subseteq 1..i /\ i \in 1..i
    OBVIOUS
  <2> QED
    BY <2>1 DEF RowKeys
<1>11. ASSUME NEW j \in 1..(n - i)
       PROVE  K(j) \notin before /\ \A k \in 1..(n - i) : K(j) = K(k) => j = k
  BY <1>1, RowsApart
<1> HIDE DEF l, before, K
<1>12. \A j \in 1..l : \E k \in before : v.out[j] = v.net.channels[k]
  BY <1>3, <1>5, <1>6
<1>13. ASSUME NEW j \in 1..Len(v.out), ~(j \in 1..l)
       PROVE  \E m \in 1..(n - i) : j = l + m
  <2>1. j - l \in 1..(n - i) /\ j = l + (j - l)
    BY <1>2, <1>5, <1>13
  <2> QED
    BY <2>1
<1>14. Distinct(v.out)
  <2>1. SUFFICES ASSUME NEW x \in 1..Len(v.out), NEW y \in 1..Len(v.out), v.out[x] = v.out[y]
                 PROVE  x = y
    BY DEF Distinct
  <2>2. CASE x \in 1..l /\ y \in 1..l
    BY <2>1, <2>2, <1>3, <1>5 DEF Distinct, l
  <2>3. ASSUME NEW p \in 1..l, NEW q \in 1..(n - i), v.out[p] = v.out[l + q]
        PROVE  FALSE
    <3>1. PICK k \in before : v.out[p] = v.net.channels[k]
      BY <1>12
    <3>2. v.net.channels[k] = v.net.channels[K(q)]
      BY <2>3, <3>1, <1>5
    <3>3. k \in DOMAIN v.net.channels /\ K(q) \in DOMAIN v.net.channels
      BY <1>6, <1>8, <1>9
    <3>4. k = K(q)
      BY <3>2, <3>3, <1>7 DEF ChannelsApart
    <3> QED
      BY <3>4, <1>11
  <2>4. CASE ~(x \in 1..l) /\ ~(y \in 1..l)
    <3>1. PICK p \in 1..(n - i) : x = l + p
      BY <2>4, <1>13
    <3>2. PICK q \in 1..(n - i) : y = l + q
      BY <2>4, <1>13
    <3>3. v.net.channels[K(p)] = v.net.channels[K(q)]
      BY <2>1, <3>1, <3>2, <1>5
    <3>4. K(p) \in DOMAIN v.net.channels /\ K(q) \in DOMAIN v.net.channels
      BY <1>8, <1>9
    <3>5. K(p) = K(q)
      BY <3>3, <3>4, <1>7 DEF ChannelsApart
    <3>6. p = q
      BY <3>5, <1>11
    <3> QED
      BY <3>1, <3>2, <3>6
  <2> QED
    BY <2>1, <2>2, <2>3, <2>4, <1>13
<1>15. ASSUME NEW j \in 1..Len(v.out)
       PROVE  \E k \in RowKeys(list, n, i) : v.out[j] = v.net.channels[k]
  <2>1. CASE j \in 1..l
    BY <2>1, <1>10, <1>12
  <2>2. CASE ~(j \in 1..l)
    <3>1. PICK m \in 1..(n - i) : j = l + m
      BY <2>2, <1>13
    <3> QED
      BY <3>1, <1>5, <1>8, <1>10
  <2> QED
    BY <2>1, <2>2
<1>16. 2 * Len(v.out) = i * (2 * n - i - 1)
  <2>1. 2 * Len(v.out) = (i - 1) * (2 * n - (i - 1) - 1) + 2 * (n - i)
    <3> DEFINE x == (i - 1) * (2 * n - (i - 1) - 1)
    <3>1. 2 * l = x
      BY <1>3 DEF l
    <3> HIDE DEF x
    <3>2. 2 * (l + (n - i)) = x + 2 * (n - i)
      BY <3>1, <1>2
    <3> QED
      BY <3>2, <1>5 DEF x
  <2>2. (i - 1) * (2 * n - (i - 1) - 1) + 2 * (n - i) = i * (2 * n - i - 1)
    OBVIOUS
  <2> QED
    BY <2>1, <2>2
<1> QED
  BY <1>14, <1>15, <1>16

LEMMA RowsWalkedStep ==
  ASSUME TopologyAssumption, nodes \in 0..MaxNodes, NEW list, NEW n \in Nat, n = Len(list),
         NEW acc, NEW w, NEW i \in 1..n, RowsWalked(acc, w, list, n, i - 1)
  PROVE  RowsWalked(acc, Walk(w, Row(list, i)), list, n, i)
<1> DEFINE v == Walk(w, Row(list, i))
<1>1. Len(Row(list, i)) = n - i /\ n - i \in Nat
  BY RowIs
<1>2. Grown(acc.net, w.net, RowKeys(list, n, i - 1)) /\ DelaysKept(acc.net, w.net) /\ w.out \in Seq(Nat)
  BY DEF RowsWalked
<1>3. NetOK(w.net)
  BY <1>2 DEF Grown
<1>4. Walked(w, v, Row(list, i), n - i)
  BY <1>1, <1>2, <1>3, WalkWalks
<1> HIDE DEF v
<1>5. RowsReturned(v, list, n, i)
  BY <1>4, RowsReturnedStep
<1>6. /\ Grown(w.net, v.net, KeysUpTo(Row(list, i), n - i)) /\ DelaysKept(w.net, v.net)
      /\ v.out \in Seq(Nat)
  BY <1>4 DEF Walked
<1>7. RowKeys(list, n, i) = RowKeys(list, n, i - 1) \cup KeysUpTo(Row(list, i), n - i)
  <2>1. 1..i = 1..(i - 1) \cup {i}
    OBVIOUS
  <2> QED
    BY <2>1 DEF RowKeys
<1>8. Grown(acc.net, v.net, RowKeys(list, n, i))
  BY <1>2, <1>6, <1>7, GrownTwice
<1>9. DelaysKept(acc.net, v.net)
  BY <1>2, <1>6, KeptTwice
<1> QED
  BY <1>5, <1>6, <1>8, <1>9 DEF RowsWalked, v

LEMMA RowsWalk ==
  ASSUME TopologyAssumption, nodes \in 0..MaxNodes, NEW acc, NetOK(acc.net), acc.out = <<>>,
         NEW list, NEW n \in Nat, n = Len(list)
  PROVE  RowsWalked(acc, WalkRows(acc, list), list, n, n)
<1>1. PICK f : IsRows(f, acc, list, n) /\ WalkRows(acc, list) = f[n]
  BY RowsAre
<1>2. f[0] = acc /\ \A i \in 1..n : f[i] = Walk(f[i - 1], Row(list, i))
  BY <1>1 DEF IsRows
<1> DEFINE S == {i \in 0..n : RowsWalked(acc, f[i], list, n, i)}
<1>3. 0 \in S
  <2>1. Grown(acc.net, acc.net, RowKeys(list, n, 0)) /\ DelaysKept(acc.net, acc.net)
    BY DEF Grown, DelaysKept, RowKeys
  <2>2. Len(acc.out) = 0 /\ acc.out \in Seq(Nat)
    OBVIOUS
  <2>3. RowsReturned(acc, list, n, 0)
    BY <2>2 DEF RowsReturned, Distinct
  <2>4. RowsWalked(acc, acc, list, n, 0)
    BY <2>1, <2>2, <2>3 DEF RowsWalked
  <2> QED
    BY <1>2, <2>4
<1>4. ASSUME NEW i \in 1..n, i - 1 \in S
      PROVE  i \in S
  <2>1. RowsWalked(acc, f[i - 1], list, n, i - 1)
    BY <1>4
  <2>2. RowsWalked(acc, Walk(f[i - 1], Row(list, i)), list, n, i)
    BY <2>1, RowsWalkedStep
  <2> QED
    BY <1>2, <2>2
<1>5. n \in S
  <2> HIDE DEF S
  <2>1. \A i \in 1..n : i - 1 \in S => i \in S
    BY <1>4
  <2>2. \A i \in 0..n : i \in S
    BY <1>3, <2>1, Reach
  <2> QED
    BY <2>2
<1> QED
  BY <1>1, <1>5

-----------------------------------------------------------------------------
(* Walking the edges of a specification.                                   *)

KeepsBut(t, u, K) ==
  \A k \in (DOMAIN t.channels) \ K : u.delay[u.channels[k]] = t.delay[t.channels[k]]

LEMMA EdgeGrows ==
  ASSUME TopologyAssumption, nodes \in 0..MaxNodes, NEW t, NetOK(t),
         NEW e, e.delay \in Int, Joins(e)
  PROVE  /\ Grown(t, EdgeStep(t, e), {EdgeKey(e)})
         /\ KeepsBut(t, EdgeStep(t, e), {EdgeKey(e)})
         /\ EdgeStep(t, e).delay[EdgeStep(t, e).channels[EdgeKey(e)]] = DelayOf(e)
<1> DEFINE k == EdgeKey(e)
           l == Link(t, e.u, e.v)
           d == DelayOf(e)
           c == l.channels[k]
           u == EdgeStep(t, e)
<1>1. e.u \in 1..MaxNodes /\ e.v \in 1..MaxNodes
  BY DEF Joins, Present, TopologyAssumption
<1>2. Grown(t, l, {k}) /\ DelaysKept(t, l)
  BY <1>1, LinkGrows DEF EdgeKey
<1>3. u = [l EXCEPT !.delay[GetChannel(l, e.u, e.v)] = d]
  BY DEF EdgeStep
<1>4. d \in Nat
  BY DEF DelayOf
<1> HIDE DEF l, d, u
<1>5. NetTyped(l) /\ ChannelsApart(l) /\ RoutesRight(l) /\ k \in DOMAIN l.channels
  BY <1>2 DEF Grown, NetOK
<1>6. GetChannel(l, e.u, e.v) = c
  BY <1>5 DEF GetChannel, EdgeKey
<1>7. c \in 1..l.count /\ l.count \in Nat
  BY <1>5 DEF NetTyped
<1> DEFINE delays == [l.delay EXCEPT ![c] = d]
<1>8. /\ u.channels = l.channels /\ u.count = l.count /\ u.ifaces = l.ifaces
      /\ u.routes = l.routes /\ u.delay = delays
      /\ u = [channels |-> u.channels, count |-> u.count, delay |-> u.delay,
              ifaces |-> u.ifaces, routes |-> u.routes]
  <2> HIDE DEF c
  <2>1. u = [l EXCEPT !.delay[c] = d]
    BY <1>3, <1>6
  <2>2. l = [channels |-> l.channels, count |-> l.count, delay |-> l.delay,
             ifaces |-> l.ifaces, routes |-> l.routes]
    BY <1>5 DEF NetTyped
  <2> QED
    BY <2>1, <2>2
<1>9. /\ delays \in Seq(Nat) /\ Len(delays) = l.count
      /\ delays[c] = d /\ \A x \in 1..l.count : x # c => delays[x] = l.delay[x]
  <2>1. l.delay \in Seq(Nat) /\ Len(l.delay) = l.count
    BY <1>5 DEF NetTyped
  <2> HIDE DEF c
  <2> QED
    BY <2>1, <1>4, <1>7
<1> HIDE DEF delays, k
<1>10. NetTyped(u)
  BY <1>5, <1>8, <1>9 DEF NetTyped
<1>11. ChannelsApart(u)
  BY <1>5, <1>8 DEF ChannelsApart
<1>12. RoutesRight(u)
  BY <1>5, <1>8 DEF RoutesRight, RouteRight
<1>13. Grown(t, u, {k})
  BY <1>2, <1>8, <1>10, <1>11, <1>12 DEF Grown, NetOK
<1>14. ASSUME NEW j \in (DOMAIN t.channels) \ {k}
       PROVE  u.delay[u.channels[j]] = t.delay[t.channels[j]]
  <2>1. j \in DOMAIN l.channels /\ l.delay[l.channels[j]] = t.delay[t.channels[j]]
    BY <1>2 DEF Grown, DelaysKept
  <2>2. l.channels[j] # c
    BY <2>1, <1>5 DEF ChannelsApart
  <2>3. l.channels[j] \in 1..l.count
    BY <2>1, <1>5 DEF NetTyped
  <2> QED
    BY <2>1, <2>2, <2>3, <1>8, <1>9
<1>15. u.delay[u.channels[k]] = d
  BY <1>8, <1>9
<1> QED
  BY <1>13, <1>14, <1>15 DEF KeepsBut, u, k, d

LEMMA KeepsButTwice ==
  ASSUME NEW t, NEW u, NEW v, NEW K, NEW L, Grown(t, u, K), KeepsBut(t, u, K), KeepsBut(u, v, L)
  PROVE  KeepsBut(t, v, K \cup L)
BY DEF Grown, KeepsBut

IsEdges(f, t, edges, n) == f = [i \in 0..n |-> IF i = 0 THEN t ELSE EdgeStep(f[i - 1], edges[i])]

LEMMA EdgesExist ==
  ASSUME NEW t, NEW edges, NEW n \in Nat
  PROVE  \E f : IsEdges(f, t, edges, n)
<1> DEFINE S == {i \in 0..n : \E f : IsEdges(f, t, edges, i)}
<1>1. 0 \in S
  <2>1. IsEdges([i \in 0..0 |-> t], t, edges, 0)
    BY DEF IsEdges
  <2> QED
    BY <2>1
<1>2. ASSUME NEW m \in 1..n, m - 1 \in S
      PROVE  m \in S
  <2>1. PICK f : IsEdges(f, t, edges, m - 1)
    BY <1>2
  <2> DEFINE g == [i \in 0..m |-> IF i < m THEN f[i] ELSE EdgeStep(f[m - 1], edges[m])]
  <2>2. ASSUME NEW i \in 0..m
        PROVE  g[i] = IF i = 0 THEN t ELSE EdgeStep(g[i - 1], edges[i])
    <3>1. CASE i = m
      BY <3>1
    <3>2. CASE i # m
      <4>1. i \in 0..(m - 1)
        BY <3>2
      <4>2. f[i] = IF i = 0 THEN t ELSE EdgeStep(f[i - 1], edges[i])
        BY <2>1, <4>1 DEF IsEdges
      <4> QED
        BY <4>1, <4>2
    <3> QED
      BY <3>1, <3>2
  <2>3. IsEdges(g, t, edges, m)
    <3>1. g = [i \in 0..m |-> g[i]]
      OBVIOUS
    <3> HIDE DEF g
    <3> QED
      BY <2>2, <3>1 DEF IsEdges
  <2> QED
    BY <2>3
<1>3. n \in S
  <2> HIDE DEF S
  <2> QED
    BY <1>1, <1>2, Reach
<1> QED
  BY <1>3

LEMMA EdgesAre ==
  ASSUME NEW t, NEW edges, Len(edges) \in Nat
  PROVE  \E f : IsEdges(f, t, edges, Len(edges)) /\ WalkEdges(t, edges) = f[Len(edges)]
<1> DEFINE after[i \in 0..Len(edges)] == IF i = 0 THEN t ELSE EdgeStep(after[i - 1], edges[i])
<1>1. IsEdges(after, t, edges, Len(edges))
  <2>1. after = CHOOSE f : f = [i \in 0..Len(edges) |-> IF i = 0 THEN t ELSE EdgeStep(f[i - 1], edges[i])]
    OBVIOUS
  <2>2. after = CHOOSE f : IsEdges(f, t, edges, Len(edges))
    BY <2>1 DEF IsEdges
  <2> HIDE DEF after
  <2> QED
    BY <2>2, EdgesExist
<1>2. WalkEdges(t, edges) = after[Len(edges)]
  BY DEF WalkEdges
<1> HIDE DEF after
<1> QED
  BY <1>1, <1>2

(* The keys of the first i edges that are linked.                          *)
EdgeKeys(edges, i) == {EdgeKey(edges[j]) : j \in {m \in 1..i : Joins(edges[m])}}

(* Of the first i edges, the j-th is the last one of its key.              *)
LastOf(edges, i, j) ==
  \A m \in 1..i : Joins(edges[m]) /\ EdgeKey(edges[m]) = EdgeKey(edges[j]) => m <= j

EdgesWalked(t, u, edges, i) ==
  /\ Grown(t, u, EdgeKeys(edges, i))
  /\ KeepsBut(t, u, EdgeKeys(edges, i))
  /\ \A j \in 1..i : Joins(edges[j]) /\ LastOf(edges, i, j) =>
       u.delay[u.channels[EdgeKey(edges[j])]] = DelayOf(edges[j])

LEMMA EdgesWalkedStep ==
  ASSUME TopologyAssumption, nodes \in 0..MaxNodes, NEW t, NEW edges, NEW n \in Nat,
         NEW i \in 1..n, edges[i].delay \in Int, NEW u, EdgesWalked(t, u, edges, i - 1)
  PROVE  EdgesWalked(t, EdgeStep(u, edges[i]), edges, i)
<1> DEFINE e == edges[i]
           v == EdgeStep(u, e)
<1>1. /\ Grown(t, u, EdgeKeys(edges, i - 1)) /\ KeepsBut(t, u, EdgeKeys(edges, i - 1))
      /\ \A j \in 1..(i - 1) : Joins(edges[j]) /\ LastOf(edges, i - 1, j) =>
           u.delay[u.channels[EdgeKey(edges[j])]] = DelayOf(edges[j])
  BY DEF EdgesWalked
<1>2. NetOK(u)
  BY <1>1 DEF Grown
<1>3. \A j \in 1..(i - 1) : LastOf(edges, i, j) => LastOf(edges, i - 1, j)
  BY DEF LastOf
<1>4. CASE Joins(e)
  <2>1. /\ Grown(u, v, {EdgeKey(e)}) /\ KeepsBut(u, v, {EdgeKey(e)})
        /\ v.delay[v.channels[EdgeKey(e)]] = DelayOf(e)
    BY <1>2, <1>4, EdgeGrows
  <2> HIDE DEF v
  <2>2. EdgeKeys(edges, i) = EdgeKeys(edges, i - 1) \cup {EdgeKey(e)}
    <3>1. {m \in 1..i : Joins(edges[m])} = {m \in 1..(i - 1) : Joins(edges[m])} \cup {i}
      BY <1>4
    <3> QED
      BY <3>1 DEF EdgeKeys
  <2>3. Grown(t, v, EdgeKeys(edges, i))
    BY <1>1, <2>1, <2>2, GrownTwice
  <2>4. KeepsBut(t, v, EdgeKeys(edges, i))
    BY <1>1, <2>1, <2>2, KeepsButTwice
  <2>5. ASSUME NEW j \in 1..i, Joins(edges[j]), LastOf(edges, i, j)
        PROVE  v.delay[v.channels[EdgeKey(edges[j])]] = DelayOf(edges[j])
    <3>1. CASE j = i
      BY <3>1, <2>1
    <3>2. CASE j # i
      <4>1. j \in 1..(i - 1) /\ i \in 1..i /\ ~(i <= j)
        BY <3>2
      <4>2. EdgeKey(edges[j]) # EdgeKey(e)
        BY <4>1, <2>5, <1>4 DEF LastOf
      <4>3. u.delay[u.channels[EdgeKey(edges[j])]] = DelayOf(edges[j])
        BY <4>1, <2>5, <1>1, <1>3
      <4>4. EdgeKey(edges[j]) \in DOMAIN u.channels
        BY <4>1, <2>5, <1>1 DEF Grown, EdgeKeys
      <4> QED
        BY <4>2, <4>3, <4>4, <2>1 DEF KeepsBut
    <3> QED
      BY <3>1, <3>2
  <2> QED
    BY <2>3, <2>4, <2>5 DEF EdgesWalked, v
<1>5. CASE ~Joins(e)
  <2>1. v = u
    BY <1>5 DEF EdgeStep
  <2>2. EdgeKeys(edges, i) = EdgeKeys(edges, i - 1)
    <3>1. {m \in 1..i : Joins(edges[m])} = {m \in 1..(i - 1) : Joins(edges[m])}
      BY <1>5
    <3> QED
      BY <3>1 DEF EdgeKeys
  <2>3. \A j \in 1..i : Joins(edges[j]) => j \in 1..(i - 1)
    BY <1>5
  <2> QED
    BY <1>1, <1>3, <2>1, <2>2, <2>3 DEF EdgesWalked
<1> QED
  BY <1>4, <1>5

LEMMA EdgesWalk ==
  ASSUME TopologyAssumption, nodes \in 0..MaxNodes, NEW t, NetOK(t),
         NEW edges, NEW n \in Nat, n = Len(edges), \A i \in 1..n : edges[i].delay \in Int
  PROVE  EdgesWalked(t, WalkEdges(t, edges), edges, n)
<1>1. PICK f : IsEdges(f, t, edges, n) /\ WalkEdges(t, edges) = f[n]
  BY EdgesAre
<1>2. f[0] = t /\ \A i \in 1..n : f[i] = EdgeStep(f[i - 1], edges[i])
  BY <1>1 DEF IsEdges
<1> DEFINE S == {i \in 0..n : EdgesWalked(t, f[i], edges, i)}
<1>3. 0 \in S
  <2>1. EdgesWalked(t, t, edges, 0)
    BY DEF EdgesWalked, Grown, KeepsBut, EdgeKeys
  <2> QED
    BY <1>2, <2>1
<1>4. ASSUME NEW i \in 1..n, i - 1 \in S
      PROVE  i \in S
  <2>1. EdgesWalked(t, f[i - 1], edges, i - 1) /\ edges[i].delay \in Int
    BY <1>4
  <2>2. EdgesWalked(t, EdgeStep(f[i - 1], edges[i]), edges, i)
    BY <2>1, EdgesWalkedStep
  <2> QED
    BY <1>2, <2>2
<1>5. n \in S
  <2> HIDE DEF S
  <2>1. \A i \in 1..n : i - 1 \in S => i \in S
    BY <1>4
  <2>2. \A i \in 0..n : i \in S
    BY <1>3, <2>1, Reach
  <2> QED
    BY <2>2
<1> QED
  BY <1>1, <1>5

-----------------------------------------------------------------------------
DelaysAsWanted ==
  \A k \in DOMAIN wanted :
    /\ k \in DOMAIN net.channels
    /\ net.delay[net.channels[k]] = IF wanted[k] < 0 THEN 0 ELSE wanted[k]

TopologyInv ==
  /\ nodes \in 0..MaxNodes
  /\ NetOK(net)
  /\ asked = DOMAIN net.channels
  /\ DelaysAsWanted
  /\ OneChannelPerPair

(* A step leaves each link its channel, and its delay unless an edge list  *)
(* asks for another.                                                       *)
LinksStay ==
  \A k \in DOMAIN net.channels :
    /\ k \in DOMAIN net'.channels /\ net'.channels[k] = net.channels[k]
    /\ wanted' = wanted => net'.delay[net'.channels[k]] = net.delay[net.channels[k]]

LEMMA KeptDelays ==
  ASSUME TopologyInv, NEW u, NEW K, Grown(net, u, K), DelaysKept(net, u),
         net' = u, wanted' = wanted
  PROVE  DelaysAsWanted' /\ LinksStay
BY DEF TopologyInv, DelaysAsWanted, Grown, DelaysKept, LinksStay

LEMMA InitInv ==
  ASSUME TopologyAssumption, TopologyInit
  PROVE  TopologyInv
<1>1. nodes \in 0..MaxNodes
  BY DEF TopologyInit, TopologyAssumption
<1>2. net = NoNet
  BY DEF TopologyInit
<1>3. DOMAIN net.channels = {} /\ net.count = 0 /\ net.delay = <<>>
  BY <1>2 DEF NoNet
<1>4. /\ net.ifaces \in [1..MaxNodes -> Seq(Nat)]
      /\ net.routes = [n \in 1..MaxNodes |-> [d \in 1..MaxNodes |-> 0]]
  BY <1>2 DEF NoNet
<1>5. net = [channels |-> net.channels, count |-> net.count, delay |-> net.delay,
             ifaces |-> net.ifaces, routes |-> net.routes]
  BY <1>2 DEF NoNet
<1>6. net.channels = [k \in {} |-> 0]
  BY <1>2 DEF NoNet
<1>7. NetTyped(net)
  BY <1>3, <1>4, <1>5, <1>6 DEF NetTyped
<1>8. ChannelsApart(net) /\ RoutesRight(net)
  BY <1>3, <1>4 DEF ChannelsApart, RoutesRight
<1>9. asked = DOMAIN net.channels /\ DelaysAsWanted
  BY <1>3 DEF TopologyInit, DelaysAsWanted
<1>10. OneChannelPerPair
  BY DEF TopologyInit, Nothing, OneChannelPerPair, IsInjective
<1> QED
  BY <1>1, <1>7, <1>8, <1>9, <1>10 DEF TopologyInv, NetOK

LEMMA LinkInv ==
  ASSUME TopologyAssumption, TopologyInv, NEW a \in 1..MaxNodes, NEW b \in 1..MaxNodes,
         InstallQuantumLink(a, b)
  PROVE  TopologyInv' /\ LinksStay
<1> DEFINE u == Link(net, a, b)
<1>1. Grown(net, u, {Key(a, b)}) /\ DelaysKept(net, u)
  BY LinkGrows DEF TopologyInv
<1>2. net' = u /\ nodes' = nodes /\ wanted' = wanted /\ asked' = asked \cup {Key(a, b)}
  BY DEF InstallQuantumLink
<1> HIDE DEF u
<1>3. NetOK(net') /\ asked' = DOMAIN net'.channels /\ nodes' \in 0..MaxNodes
  BY <1>1, <1>2 DEF Grown, TopologyInv
<1>4. DelaysAsWanted' /\ LinksStay
  BY <1>1, <1>2, KeptDelays
<1>5. OneChannelPerPair'
  <2>1. result'.call = "link" /\ result'.out = <<GetChannel(net', a, b)>>
    BY DEF InstallQuantumLink
  <2>2. IsInjective(result'.out)
    BY <2>1 DEF IsInjective
  <2> QED
    BY <2>1, <2>2 DEF OneChannelPerPair
<1> QED
  BY <1>3, <1>4, <1>5 DEF TopologyInv

LEMMA StartIs ==
  /\ Start.net = net /\ Start.out = <<>> /\ Start.out \in Seq(Nat) /\ Len(Start.out) = 0
BY DEF Start

LEMMA AdjacentIs ==
  ASSUME NEW V, NEW list \in Seq(V)
  PROVE  /\ Len(Adjacent(list)) \in Nat /\ DOMAIN Adjacent(list) = 1..Len(Adjacent(list))
         /\ \A i \in 1..Len(Adjacent(list)) :
              /\ i \in 1..Len(list) /\ i + 1 \in 1..Len(list)
              /\ Adjacent(list)[i] = <<list[i], list[i + 1]>>
         /\ \A i \in 1..(Len(list) - 1) : i \in 1..Len(Adjacent(list))
<1>1. CASE list = <<>>
  <2>1. Adjacent(list) = <<>> /\ Len(list) = 0
    BY <1>1 DEF Adjacent
  <2> QED
    BY <2>1
<1>2. CASE list # <<>>
  <2>1. Len(list) - 1 \in Nat
    BY <1>2
  <2>2. Adjacent(list) = [i \in 1..(Len(list) - 1) |-> <<list[i], list[i + 1]>>]
    BY <1>2 DEF Adjacent
  <2>3. Len(Adjacent(list)) = Len(list) - 1 /\ DOMAIN Adjacent(list) = 1..(Len(list) - 1)
    BY <2>1, <2>2
  <2> QED
    BY <2>1, <2>2, <2>3
<1> QED
  BY <1>1, <1>2

LEMMA ValidPairsAre ==
  ASSUME NEW pairs, DOMAIN pairs = 1..Len(pairs)
  PROVE  ValidPairs(pairs) = KeysUpTo(pairs, Len(pairs))
BY DEF ValidPairs, KeysUpTo, Range, Valid, KeyOf

LEMMA ListWhole ==
  ASSUME TopologyAssumption, TopologyInv, NEW list \in Lists, Usable(list)
  PROVE  /\ list \in Seq(1..MaxNodes \cup {Null}) /\ DOMAIN list = 1..Len(list) /\ Len(list) \in Nat
         /\ \A i \in 1..Len(list) : list[i] # Null <=> Present(list[i])
         /\ (\A i \in DOMAIN list : list[i] # Null) /\ IsInjective(list) => Whole(list, Len(list))
<1>1. list \in Seq(1..MaxNodes \cup {Null})
  BY DEF TopologyAssumption
<1>2. DOMAIN list = 1..Len(list) /\ Len(list) \in Nat
  BY <1>1
<1>3. ~Present(Null)
  BY DEF Present, TopologyAssumption, TopologyInv
<1>4. \A i \in 1..Len(list) : list[i] # Null <=> Present(list[i])
  BY <1>2, <1>3 DEF Usable
<1> QED
  BY <1>1, <1>2, <1>4 DEF IsInjective, Whole

LEMMA ChainInv ==
  ASSUME TopologyAssumption, TopologyInv, NEW list \in Lists, InstallQuantumChain(list)
  PROVE  TopologyInv' /\ LinksStay
<1> DEFINE pairs == Adjacent(list)
           w == Walk(Start, pairs)
           m == Len(pairs)
<1>1. /\ net' = w.net /\ nodes' = nodes /\ wanted' = wanted
      /\ asked' = asked \cup ValidPairs(pairs)
      /\ result' = [call |-> "chain", list |-> list, out |-> w.out]
      /\ Usable(list)
  BY DEF InstallQuantumChain, Install
<1>2. /\ list \in Seq(1..MaxNodes \cup {Null}) /\ DOMAIN list = 1..Len(list) /\ Len(list) \in Nat
      /\ (\A i \in DOMAIN list : list[i] # Null) /\ IsInjective(list) => Whole(list, Len(list))
  BY <1>1, ListWhole
<1>3. /\ m \in Nat /\ DOMAIN pairs = 1..m
      /\ \A i \in 1..m : /\ i \in 1..Len(list) /\ i + 1 \in 1..Len(list)
                       /\ pairs[i] = <<list[i], list[i + 1]>>
      /\ \A i \in 1..(Len(list) - 1) : i \in 1..m
  <2> HIDE DEF pairs
  <2>1. list \in Seq(1..MaxNodes \cup {Null})
    BY <1>2
  <2> QED
    BY <2>1, AdjacentIs DEF pairs
<1>4. Walked(Start, w, pairs, m)
  <2>1. NetOK(Start.net) /\ nodes \in 0..MaxNodes /\ Start.out \in Seq(Nat)
    BY StartIs DEF TopologyInv
  <2> HIDE DEF pairs
  <2> QED
    BY <2>1, <1>3, WalkWalks
<1>5. ValidPairs(pairs) = KeysUpTo(pairs, m)
  <2> HIDE DEF pairs
  <2> QED
    BY <1>3, ValidPairsAre
<1> HIDE DEF w, pairs, m
<1>6. /\ Grown(net, w.net, ValidPairs(pairs)) /\ DelaysKept(net, w.net) /\ w.out \in Seq(Nat)
      /\ Returned(Start, w, pairs, m)
  BY <1>4, <1>5, StartIs DEF Walked
<1>7. NetOK(net') /\ asked' = DOMAIN net'.channels /\ nodes' \in 0..MaxNodes
  BY <1>1, <1>6 DEF Grown, TopologyInv
<1>8. DelaysAsWanted' /\ LinksStay
  BY <1>1, <1>6, KeptDelays
<1>9. ASSUME Whole(list, Len(list))
      PROVE  /\ IsInjective(w.out)
             /\ \A i \in 1..(Len(list) - 1) : w.out[i] = GetChannel(w.net, list[i + 1], list[i])
  <2>1. ASSUME NEW i \in 1..m
        PROVE  Valid(pairs[i]) /\ KeyOf(pairs[i]) = Key(list[i], list[i + 1])
    <3>1. pairs[i] = <<list[i], list[i + 1]>> /\ i \in 1..Len(list) /\ i + 1 \in 1..Len(list)
      BY <1>3
    <3>2. Present(list[i]) /\ Present(list[i + 1]) /\ list[i] # list[i + 1]
      BY <1>9, <3>1 DEF Whole
    <3> QED
      BY <3>1, <3>2 DEF Valid, KeyOf
  <2>2. Len(w.out) = m /\ \A i \in 1..m : w.out[i] = w.net.channels[Key(list[i], list[i + 1])]
    <3>1. /\ Len(w.out) = Len(Start.out) + m
          /\ \A i \in 1..m : w.out[Len(Start.out) + i] = w.net.channels[KeyOf(pairs[i])]
      BY <1>6, <2>1 DEF Returned
    <3>2. \A i \in 1..m : w.out[i] = w.net.channels[KeyOf(pairs[i])]
      BY <3>1, StartIs
    <3> QED
      BY <1>3, <2>1, <3>1, <3>2, StartIs
  <2>3. \A i \in 1..m : Key(list[i], list[i + 1]) \in DOMAIN w.net.channels
    BY <1>5, <1>6, <2>1 DEF Grown, KeysUpTo
  <2>4. \A i \in 1..Len(list) : list[i] \in 1..MaxNodes
    BY <1>9 DEF Whole, Present, TopologyInv, TopologyAssumption
  <2>5. ASSUME NEW i \in 1..m, NEW j \in 1..m, w.out[i] = w.out[j]
        PROVE  i = j
    <3>1. Key(list[i], list[i + 1]) = Key(list[j], list[j + 1])
      BY SMTT(60), <2>2, <2>3, <2>5, <1>6 DEF Grown, NetOK, ChannelsApart
    <3>2. i \in 1..Len(list) /\ i + 1 \in 1..Len(list) /\ j \in 1..Len(list) /\ j + 1 \in 1..Len(list)
      BY <1>3
    <3>3. \/ list[i] = list[j] /\ list[i + 1] = list[j + 1]
          \/ list[i] = list[j + 1] /\ list[i + 1] = list[j]
      BY <3>1, <3>2, <2>4, KeySame
    <3>4. i = j \/ (i = j + 1 /\ i + 1 = j)
      BY <3>2, <3>3, <1>9 DEF Whole
    <3> QED
      BY <3>4
  <2>6. IsInjective(w.out)
    <3>1. DOMAIN w.out = 1..m
      BY <1>6, <2>2
    <3> QED
      BY <3>1, <2>5 DEF IsInjective
  <2>7. ASSUME NEW i \in 1..(Len(list) - 1)
        PROVE  w.out[i] = GetChannel(w.net, list[i + 1], list[i])
    <3>1. i \in 1..m /\ i \in 1..Len(list) /\ i + 1 \in 1..Len(list)
      BY <1>3
    <3>2. Key(list[i], list[i + 1]) = Key(list[i + 1], list[i])
      BY <3>1, <2>4, KeyPairs
    <3> QED
      BY <3>1, <3>2, <2>2, <2>3 DEF GetChannel
  <2> QED
    BY <2>6, <2>7
<1>10. OneChannelPerPair'
  <2>1. result'.call = "chain" /\ result'.list = list /\ result'.out = w.out
    BY <1>1
  <2> QED
    BY <2>1, <1>1, <1>2, <1>9 DEF OneChannelPerPair
<1> QED
  BY <1>7, <1>8, <1>10 DEF TopologyInv

(* The pairs of an all-to-all list are those of its rows.                  *)
LEMMA AllPairs ==
  ASSUME TopologyAssumption, TopologyInv, NEW list \in Lists, Usable(list), NEW n, n = Len(list)
  PROVE  {Key(list[p[1]], list[p[2]]) :
            p \in {q \in (DOMAIN list) \X (DOMAIN list) :
                     /\ list[q[1]] # Null /\ list[q[2]] # Null
                     /\ list[q[1]] # list[q[2]]}} = RowKeys(list, n, n)
<1> DEFINE good(x, y) == x \in 1..n /\ y \in 1..n /\ list[x] # Null /\ list[y] # Null /\ list[x] # list[y]
<1>1. /\ DOMAIN list = 1..n /\ n \in Nat
      /\ \A i \in 1..n : list[i] # Null <=> Present(list[i])
  BY ListWhole
<1>2. \A i \in 1..n : list[i] # Null => list[i] \in 1..MaxNodes
  BY <1>1 DEF Present, TopologyInv, TopologyAssumption
<1>0. ASSUME NEW x \in 1..n, NEW j \in 1..(n - x)
       PROVE  x + j \in 1..n /\ Row(list, x)[j] = <<list[x], list[x + j]>>
  <2>1. n \in Nat /\ n = Len(list)
    BY <1>1
  <2>2. Row(list, x)[j] = <<list[x], list[x + j]>>
    BY <2>1, RowIs
  <2> QED
    BY <2>1, <2>2
<1>3. ASSUME NEW x, NEW y, good(x, y), x < y
      PROVE  Key(list[x], list[y]) \in RowKeys(list, n, n)
  <2>1. x \in 1..n /\ y - x \in 1..(n - x) /\ x + (y - x) = y
    BY <1>1, <1>3
  <2>2. Row(list, x)[y - x] = <<list[x], list[y]>>
    BY <2>1, <1>0
  <2>3. Valid(Row(list, x)[y - x]) /\ KeyOf(Row(list, x)[y - x]) = Key(list[x], list[y])
    BY <1>1, <1>3, <2>2 DEF Valid, KeyOf
  <2>4. Key(list[x], list[y]) \in KeysUpTo(Row(list, x), n - x)
    BY <2>1, <2>3 DEF KeysUpTo
  <2> QED
    BY <2>1, <2>4 DEF RowKeys
<1>4. ASSUME NEW x, NEW y, good(x, y)
      PROVE  Key(list[x], list[y]) \in RowKeys(list, n, n)
  <2>1. x < y \/ y < x
    BY <1>1, <1>4
  <2>2. Key(list[x], list[y]) = Key(list[y], list[x])
    BY <1>2, <1>4, KeyPairs
  <2> QED
    BY <1>3, <1>4, <2>1, <2>2
<1>5. ASSUME NEW k \in RowKeys(list, n, n)
      PROVE  \E x \in 1..n, y \in 1..n : good(x, y) /\ k = Key(list[x], list[y])
  <2>1. PICK x \in 1..n : k \in KeysUpTo(Row(list, x), n - x)
    BY DEF RowKeys
  <2>2. PICK j \in 1..(n - x) : Valid(Row(list, x)[j]) /\ k = KeyOf(Row(list, x)[j])
    BY <2>1 DEF KeysUpTo
  <2>3. x + j \in 1..n /\ Row(list, x)[j] = <<list[x], list[x + j]>>
    BY <1>0
  <2>4. good(x, x + j) /\ k = Key(list[x], list[x + j])
    BY <1>1, <2>2, <2>3 DEF Valid, KeyOf
  <2> QED
    BY <2>3, <2>4
<1>6. ASSUME NEW x \in 1..n, NEW y \in 1..n, good(x, y)
      PROVE  <<x, y>> \in {q \in (DOMAIN list) \X (DOMAIN list) :
                             /\ list[q[1]] # Null /\ list[q[2]] # Null
                             /\ list[q[1]] # list[q[2]]}
  BY <1>1, <1>6
<1>7. ASSUME NEW p \in {q \in (DOMAIN list) \X (DOMAIN list) :
                          /\ list[q[1]] # Null /\ list[q[2]] # Null
                          /\ list[q[1]] # list[q[2]]}
      PROVE  good(p[1], p[2])
  BY <1>1
<1> DEFINE ps == {q \in (DOMAIN list) \X (DOMAIN list) :
                   /\ list[q[1]] # Null /\ list[q[2]] # Null
                   /\ list[q[1]] # list[q[2]]}
<1>8. \A x \in 1..n, y \in 1..n : good(x, y) => <<x, y>> \in ps
  BY <1>6
<1>9. \A p \in ps : good(p[1], p[2])
  BY <1>7
<1> HIDE DEF ps, good
<1>10. RowKeys(list, n, n) \subseteq {Key(list[p[1]], list[p[2]]) : p \in ps}
  <2>1. SUFFICES ASSUME NEW k \in RowKeys(list, n, n)
                 PROVE  \E p \in ps : k = Key(list[p[1]], list[p[2]])
    OBVIOUS
  <2>2. PICK x \in 1..n, y \in 1..n : good(x, y) /\ k = Key(list[x], list[y])
    BY <1>5
  <2>3. <<x, y>> \in ps /\ k = Key(list[<<x, y>>[1]], list[<<x, y>>[2]])
    BY <2>2, <1>8
  <2> QED
    BY <2>3
<1>11. {Key(list[p[1]], list[p[2]]) : p \in ps} \subseteq RowKeys(list, n, n)
  BY <1>4, <1>9
<1> QED
  BY <1>10, <1>11 DEF ps

LEMMA AllToAllInv ==
  ASSUME TopologyAssumption, TopologyInv, NEW list \in Lists, InstallQuantumAllToAll(list)
  PROVE  TopologyInv' /\ LinksStay
<1> DEFINE w == WalkRows(Start, list)
           n == Len(list)
<1>1. /\ net' = w.net /\ nodes' = nodes /\ wanted' = wanted
      /\ result' = [call |-> "all", list |-> list, out |-> w.out]
      /\ Usable(list)
  BY DEF InstallQuantumAllToAll, Install
<1>2. asked' = asked \cup RowKeys(list, n, n)
  BY <1>1, AllPairs DEF InstallQuantumAllToAll
<1>3. /\ n \in Nat
      /\ (\A i \in DOMAIN list : list[i] # Null) /\ IsInjective(list) => Whole(list, n)
  BY <1>1, ListWhole
<1>4. RowsWalked(Start, w, list, n, n)
  <2>1. NetOK(Start.net) /\ nodes \in 0..MaxNodes /\ Start.out = <<>>
    BY StartIs DEF TopologyInv
  <2> QED
    BY <2>1, <1>3, RowsWalk
<1> HIDE DEF w
<1>5. /\ Grown(net, w.net, RowKeys(list, n, n)) /\ DelaysKept(net, w.net) /\ w.out \in Seq(Nat)
      /\ RowsReturned(w, list, n, n)
  BY <1>4, StartIs DEF RowsWalked
<1>6. NetOK(net') /\ asked' = DOMAIN net'.channels /\ nodes' \in 0..MaxNodes
  BY <1>1, <1>2, <1>5 DEF Grown, TopologyInv
<1>7. DelaysAsWanted' /\ LinksStay
  BY <1>1, <1>5, KeptDelays
<1>8. ASSUME Whole(list, n)
      PROVE  IsInjective(w.out) /\ 2 * Len(w.out) = n * (n - 1)
  <2>1. 2 * Len(w.out) = n * (2 * n - n - 1) /\ Distinct(w.out)
    BY <1>5, <1>8 DEF RowsReturned
  <2>2. n * (2 * n - n - 1) = n * (n - 1)
    <3> HIDE DEF n
    <3> QED
      BY <1>3
  <2>3. IsInjective(w.out)
    <3>1. DOMAIN w.out = 1..Len(w.out)
      BY <1>5
    <3> QED
      BY <3>1, <2>1 DEF IsInjective, Distinct
  <2> QED
    BY <2>1, <2>2, <2>3
<1>9. OneChannelPerPair'
  <2>1. result'.call = "all" /\ result'.list = list /\ result'.out = w.out
    BY <1>1
  <2> QED
    BY <2>1, <1>3, <1>8 DEF OneChannelPerPair
<1> QED
  BY <1>6, <1>7, <1>9 DEF TopologyInv

(* A pair that joins is one of finitely many: the last edge of it exists.  *)
LEMMA LastEdgeIs ==
  ASSUME NEW edges, NEW n \in Nat, DOMAIN edges = 1..n, NEW i \in JoiningEdges(edges)
  PROVE  \E j \in 1..n : /\ j = LastEdge(edges, EdgeKey(edges[i]))
                       /\ Joins(edges[j]) /\ EdgeKey(edges[j]) = EdgeKey(edges[i])
                       /\ LastOf(edges, n, j)
<1> DEFINE k == EdgeKey(edges[i])
           Same == {m \in JoiningEdges(edges) : EdgeKey(edges[m]) = k}
           S == {m \in 0..n : Same \cap (1..m) # {} => \E j \in Same \cap (1..m) : \A l \in Same \cap (1..m) : l <= j}
<1>1. Same \subseteq 1..n /\ i \in Same
  BY DEF JoiningEdges
<1> HIDE DEF Same
<1>2. 0 \in S
  OBVIOUS
<1>3. ASSUME NEW m \in 1..n, m - 1 \in S
      PROVE  m \in S
  <2>1. CASE m \in Same
    <3>1. m \in Same \cap (1..m) /\ \A l \in Same \cap (1..m) : l <= m
      BY <2>1
    <3> QED
      BY <3>1
  <2>2. CASE m \notin Same
    <3>1. Same \cap (1..m) = Same \cap (1..(m - 1))
      BY <2>2
    <3> QED
      BY <3>1, <1>3
  <2> QED
    BY <2>1, <2>2
<1>4. n \in S
  <2> HIDE DEF S
  <2>1. \A m \in 0..n : m \in S
    BY <1>2, <1>3, Reach
  <2> QED
    BY <2>1
<1>5. Same \cap (1..n) = Same /\ Same # {}
  BY <1>1
<1>6. \E j \in Same : \A l \in Same : l <= j
  BY <1>4, <1>5
<1>7. \E j \in JoiningEdges(edges) :
        EdgeKey(edges[j]) = k /\ \A l \in JoiningEdges(edges) : EdgeKey(edges[l]) = k => l <= j
  BY <1>6 DEF Same
<1> DEFINE j == LastEdge(edges, k)
<1>8. /\ j \in JoiningEdges(edges) /\ EdgeKey(edges[j]) = k
      /\ \A l \in JoiningEdges(edges) : EdgeKey(edges[l]) = k => l <= j
  <2> HIDE DEF k
  <2> QED
    BY <1>7 DEF LastEdge
<1> HIDE DEF j
<1>9. j \in 1..n /\ Joins(edges[j])
  BY <1>8 DEF JoiningEdges
<1>10. LastOf(edges, n, j)
  BY <1>8 DEF LastOf, JoiningEdges
<1> QED
  BY <1>8, <1>9, <1>10 DEF j

LEMMA BuildInv ==
  ASSUME TopologyAssumption, TopologyInv, NEW edges \in Edges, BuildQuantum(edges)
  PROVE  TopologyInv' /\ LinksStay
<1> DEFINE u == WalkEdges(net, edges)
           n == Len(edges)
           joined == {EdgeKey(edges[i]) : i \in JoiningEdges(edges)}
<1>1. /\ net' = u /\ nodes' = nodes /\ asked' = asked \cup joined
      /\ result' = Nothing
      /\ wanted' = [k \in DOMAIN wanted \cup joined |->
                     IF k \in joined THEN edges[LastEdge(edges, k)].delay ELSE wanted[k]]
  BY DEF BuildQuantum
<1>2. edges \in Seq([u : Nat, v : Nat, delay : Int])
  BY DEF TopologyAssumption
<1>3. DOMAIN edges = 1..n /\ n \in Nat /\ \A i \in 1..n : edges[i].delay \in Int
  <2> DEFINE R == [u : Nat, v : Nat, delay : Int]
  <2>1. edges \in Seq(R)
    BY <1>2
  <2>2. \A e \in R : e.delay \in Int
    OBVIOUS
  <2> HIDE DEF R
  <2>3. DOMAIN edges = 1..n /\ n \in Nat /\ \A i \in 1..n : edges[i] \in R
    BY <2>1
  <2> QED
    BY <2>2, <2>3
<1>4. EdgesWalked(net, u, edges, n)
  BY <1>3, EdgesWalk DEF TopologyInv
<1>5. joined = EdgeKeys(edges, n)
  BY <1>3 DEF EdgeKeys, JoiningEdges
<1> HIDE DEF u
<1>6. /\ Grown(net, u, joined) /\ KeepsBut(net, u, joined)
      /\ \A j \in 1..n : Joins(edges[j]) /\ LastOf(edges, n, j) =>
           u.delay[u.channels[EdgeKey(edges[j])]] = DelayOf(edges[j])
  BY <1>4, <1>5 DEF EdgesWalked
<1>7. NetOK(net') /\ asked' = DOMAIN net'.channels /\ nodes' \in 0..MaxNodes
  BY <1>1, <1>6 DEF Grown, TopologyInv
<1>8. ASSUME NEW k \in joined
      PROVE  /\ wanted'[k] = edges[LastEdge(edges, k)].delay
             /\ u.delay[u.channels[k]] = DelayOf(edges[LastEdge(edges, k)])
  <2>1. PICK i \in JoiningEdges(edges) : k = EdgeKey(edges[i])
    OBVIOUS
  <2>2. PICK j \in 1..n : /\ j = LastEdge(edges, EdgeKey(edges[i]))
                       /\ Joins(edges[j]) /\ EdgeKey(edges[j]) = EdgeKey(edges[i])
                       /\ LastOf(edges, n, j)
    <3> HIDE DEF n
    <3> QED
      BY <1>3, LastEdgeIs
  <2>3. wanted'[k] = edges[LastEdge(edges, k)].delay
    BY <1>1
  <2> QED
    BY <2>1, <2>2, <2>3, <1>6
<1> HIDE DEF joined
<1>9. DelaysAsWanted'
  <2>1. SUFFICES ASSUME NEW k \in DOMAIN wanted'
                 PROVE  /\ k \in DOMAIN u.channels
                        /\ u.delay[u.channels[k]] = IF wanted'[k] < 0 THEN 0 ELSE wanted'[k]
    BY <1>1 DEF DelaysAsWanted
  <2>2. CASE k \in joined
    <3>1. k \in DOMAIN u.channels
      BY <2>2, <1>6 DEF Grown
    <3> QED
      BY <2>2, <3>1, <1>8 DEF DelayOf
  <2>3. CASE k \notin joined
    <3>1. k \in DOMAIN wanted /\ wanted'[k] = wanted[k]
      BY <1>1, <2>1, <2>3
    <3>2. k \in DOMAIN net.channels /\ net.delay[net.channels[k]] = IF wanted[k] < 0 THEN 0 ELSE wanted[k]
      BY <3>1 DEF TopologyInv, DelaysAsWanted
    <3>3. k \in DOMAIN u.channels /\ u.delay[u.channels[k]] = net.delay[net.channels[k]]
      BY <2>3, <3>2, <1>6 DEF Grown, KeepsBut
    <3> QED
      BY <3>1, <3>2, <3>3
  <2> QED
    BY <2>2, <2>3
<1>10. LinksStay
  <2>1. SUFFICES ASSUME NEW k \in DOMAIN net.channels
                 PROVE  /\ k \in DOMAIN u.channels /\ u.channels[k] = net.channels[k]
                        /\ wanted' = wanted => u.delay[u.channels[k]] = net.delay[net.channels[k]]
    BY <1>1 DEF LinksStay
  <2>2. k \in DOMAIN u.channels /\ u.channels[k] = net.channels[k]
    BY <1>6 DEF Grown
  <2>3. CASE k \in joined /\ wanted' = wanted
    <3>1. k \in DOMAIN wanted'
      BY <1>1, <2>3
    <3>2. k \in DOMAIN wanted
      BY <3>1, <2>3
    <3>3. net.delay[net.channels[k]] = IF wanted[k] < 0 THEN 0 ELSE wanted[k]
      BY <3>2 DEF TopologyInv, DelaysAsWanted
    <3>4. u.delay[u.channels[k]] = IF wanted[k] < 0 THEN 0 ELSE wanted[k]
      BY <3>1, <2>3, <1>1, <1>9 DEF DelaysAsWanted
    <3> QED
      BY <2>2, <3>3, <3>4
  <2>4. CASE k \notin joined
    BY <2>2, <2>4, <1>6 DEF KeepsBut
  <2> QED
    BY <2>2, <2>3, <2>4
<1>11. OneChannelPerPair'
  BY <1>1 DEF Nothing, OneChannelPerPair, IsInjective
<1> QED
  BY <1>7, <1>9, <1>11, <1>10 DEF TopologyInv

LEMMA NextInv ==
  ASSUME TopologyAssumption, TopologyInv, [TopologyNext]_topologyVars
  PROVE  TopologyInv' /\ LinksStay
<1>1. CASE CreateNode
  <2>1. /\ nodes < MaxNodes /\ nodes' = nodes + 1
        /\ net' = net /\ result' = result /\ asked' = asked /\ wanted' = wanted
    BY <1>1 DEF CreateNode
  <2>2. nodes' \in 0..MaxNodes
    BY <2>1 DEF TopologyInv, TopologyAssumption
  <2>3. DelaysAsWanted' /\ OneChannelPerPair'
    BY <2>1 DEF TopologyInv, DelaysAsWanted, OneChannelPerPair
  <2> QED
    BY <2>1, <2>2, <2>3 DEF TopologyInv, LinksStay
<1>2. ASSUME NEW a \in 1..MaxNodes, NEW b \in 1..MaxNodes, InstallQuantumLink(a, b)
      PROVE  TopologyInv' /\ LinksStay
  BY <1>2, LinkInv
<1>3. ASSUME NEW list \in Lists, InstallQuantumChain(list)
      PROVE  TopologyInv' /\ LinksStay
  BY <1>3, ChainInv
<1>4. ASSUME NEW list \in Lists, InstallQuantumAllToAll(list)
      PROVE  TopologyInv' /\ LinksStay
  BY <1>4, AllToAllInv
<1>5. ASSUME NEW edges \in Edges, BuildQuantum(edges)
      PROVE  TopologyInv' /\ LinksStay
  BY <1>5, BuildInv
<1>6. CASE UNCHANGED topologyVars
  BY <1>6 DEF topologyVars, TopologyInv, DelaysAsWanted, OneChannelPerPair, LinksStay
<1> QED
  BY <1>1, <1>2, <1>3, <1>4, <1>5, <1>6 DEF TopologyNext, BuildQuantumForSwaps

LEMMA InvGives ==
  ASSUME TopologyAssumption, TopologyInv
  PROVE  LinksAsAsked
<1>1. /\ NetTyped(net) /\ ChannelsApart(net) /\ RoutesRight(net)
      /\ asked = DOMAIN net.channels /\ DelaysAsWanted
  BY DEF TopologyInv, NetOK
<1>2. \A k \in DOMAIN net.channels : k \in NodePairs /\ net.channels[k] \in 1..net.count
  BY <1>1 DEF NetTyped
<1>3. \A k \in NodePairs : k[1] \in 1..MaxNodes /\ k[2] \in 1..MaxNodes /\ Key(k[1], k[2]) = k
  BY DEF NodePairs, Key
<1>4. LinkedAsAsked
  <2>1. {Sorted(p[1], p[2]) : p \in asked} = DOMAIN net.channels
    <3>1. \A k \in DOMAIN net.channels : Sorted(k[1], k[2]) = k
      BY <1>2, <1>3 DEF Sorted, Key
    <3> QED
      BY <1>1, <3>1
  <2>2. ASSUME NEW a \in 1..MaxNodes, NEW b \in 1..MaxNodes
        PROVE  (GetChannel(net, a, b) # 0) = (Sorted(a, b) \in DOMAIN net.channels)
    <3>1. Sorted(a, b) = Key(a, b)
      BY DEF Sorted, Key
    <3>2. \A k \in DOMAIN net.channels : net.channels[k] # 0
      BY <1>1, <1>2 DEF NetTyped
    <3> QED
      BY <3>1, <3>2 DEF GetChannel
  <2> QED
    BY <2>1, <2>2 DEF LinkedAsAsked
<1>5. RouteOverItsChannel
  <2>1. SUFFICES ASSUME NEW a \in 1..MaxNodes, NEW b \in 1..MaxNodes, net.routes[a][b] # 0
                 PROVE  /\ GetChannel(net, a, b) = GetChannel(net, b, a)
                        /\ a # b => net.ifaces[a][net.routes[a][b]] = GetChannel(net, a, b)
    BY DEF RouteOverItsChannel
  <2>2. RouteRight(net, a, b)
    BY <1>1, <2>1 DEF RoutesRight
  <2>3. Key(a, b) = Key(b, a)
    BY KeyPairs
  <2> QED
    BY <2>2, <2>3 DEF RouteRight, GetChannel
<1>6. DelayOfLastEdge
  <2>1. SUFFICES ASSUME NEW k \in DOMAIN wanted
                 PROVE  net.delay[GetChannel(net, k[1], k[2])] = IF wanted[k] < 0 THEN 0 ELSE wanted[k]
    BY DEF DelayOfLastEdge
  <2>2. k \in DOMAIN net.channels /\ net.delay[net.channels[k]] = IF wanted[k] < 0 THEN 0 ELSE wanted[k]
    BY <1>1 DEF DelaysAsWanted
  <2>3. GetChannel(net, k[1], k[2]) = net.channels[k]
    BY <2>2, <1>2, <1>3 DEF GetChannel
  <2> QED
    BY <2>2, <2>3
<1> QED
  BY <1>4, <1>5, <1>6 DEF LinksAsAsked, TopologyInv

(* The controller's tables fit together, for every number of nodes and all *)
(* lists and specifications.                                               *)
THEOREM TopologyInvariant ==
  ASSUME TopologyAssumption
  PROVE  TopologySpec => []TopologyInv
<1>1. TopologyInit => TopologyInv
  BY InitInv
<1>2. TopologyInv /\ [TopologyNext]_topologyVars => TopologyInv'
  BY NextInv
<1> QED
  BY <1>1, <1>2, PTL DEF TopologySpec

(* The linked pairs are those asked for, each has one channel, which its   *)
(* routes lead over and which keeps the delay of its last edge, and a call *)
(* returns a channel for each of its pairs                                 *)
(* (model/q2ns-netcontroller.cc:139, 180, 212).                            *)
THEOREM TopologyLinksAsAsked ==
  ASSUME TopologyAssumption
  PROVE  TopologySpec => []LinksAsAsked
<1>1. TopologyInv => LinksAsAsked
  BY InvGives
<1> QED
  BY <1>1, TopologyInvariant, PTL

(* Existing links are left unchanged (model/q2ns-netcontroller.h:178): no  *)
(* call moves a linked pair to another channel, and only an edge list      *)
(* changes a delay.                                                        *)
THEOREM TopologyLinksStay ==
  ASSUME TopologyAssumption
  PROVE  TopologySpec => [][LinksStay]_topologyVars
<1>1. TopologyInv /\ [TopologyNext]_topologyVars => [LinksStay]_topologyVars
  BY NextInv
<1> QED
  BY <1>1, TopologyInvariant, PTL DEF TopologySpec

-----------------------------------------------------------------------------
(* TeleportationHelper: sessions over named links.                         *)

LEMMA LinkCount ==
  ASSUME NEW S
  PROVE  TH!Cardinality(S) = Cardinality(S)
BY SMTT(60) DEF TH!Cardinality, Cardinality

Places == [nodes : Nat \ {0}, edges : Nat \ {0}, sessions : Nat \ {0}]

(* The lists are gone through one after the other; links wait for the      *)
(* nodes and sessions for the links.                                       *)
PhaseInv ==
  /\ spec \in [nodes : NodeLists, edges : EdgeLists, sessions : SessionLists]
  /\ at \in Places
  /\ named \subseteq TH!Names
  /\ addresses \in [TH!Names -> Seq(Int \X Int)]
  /\ ~TH!Done("nodes") => at.edges = 1 /\ addresses = [m \in TH!Names |-> <<>>]
  /\ ~TH!Done("nodes") \/ ~TH!Done("edges") => apps = {}
  /\ at.edges <= Len(spec.edges) + 1

LinksBuilt == TH!LinksBefore(at.edges)

(* No value is given twice by the sequences of f.                          *)
Given(N, f) == UNION {{f[m][i] : i \in DOMAIN f[m]} : m \in N}
Apart(N, f) ==
  \A m, k \in N : \A i \in DOMAIN f[m], j \in DOMAIN f[k] :
    f[m][i] = f[k][j] => m = k /\ i = j

(* An address bears the number of its link, which is below those to come.  *)
Below(N, f, s) == Apart(N, f) /\ \A z \in Given(N, f) : z[1] < s
AddressInv == LinksBuilt <= Subnets => Below(TH!Names, addresses, LinksBuilt)

(* A session has one sink, at its destination and on its port; a port that *)
(* was chosen for it is taken.                                             *)
SinkInv ==
  /\ \A a \in TH!Sinks :
       /\ a.session < at.sessions /\ a.session \in Nat \ {0}
       /\ a.session <= Len(spec.sessions)
       /\ a.node = spec.sessions[a.session].dst
       /\ a.port = TH!PortOf(spec.sessions[a.session])
       /\ spec.sessions[a.session].ctrlPort # 0 => <<a.node, a.port>> \in usedPorts
  /\ \A a, b \in TH!Sinks : a.session = b.session => a = b

(* Of two sinks of a node whose ports were chosen alike, one was warned    *)
(* about.                                                                  *)
ChosenPortsWarned ==
  \A a, b \in TH!Sinks :
    TH!Conflict(a, b) /\ TH!Chosen(a) /\ TH!Chosen(b) => {a.session, b.session} \cap warned # {}

InstallInv == PhaseInv /\ TH!SourceFindsSink /\ SinkInv /\ ChosenPortsWarned

-----------------------------------------------------------------------------
LEMMA HelperSizes ==
  ASSUME TH!HelperAssumption
  PROVE  /\ Subnets \in Nat \ {0}
         /\ NodeLists \subseteq Seq(TH!Entries(NodeLists))
         /\ EdgeLists \subseteq Seq(TH!Entries(EdgeLists))
         /\ SessionLists \subseteq Seq(TH!Entries(SessionLists))
BY DEF TH!HelperAssumption

LEMMA SpecLists ==
  ASSUME TH!HelperAssumption, PhaseInv
  PROVE  /\ spec.nodes \in Seq(TH!Names)
         /\ spec.edges \in Seq(TH!Entries(EdgeLists)) /\ spec.edges \in EdgeLists
         /\ spec.sessions \in Seq(TH!Entries(SessionLists))
<1>1. spec.nodes \in NodeLists /\ spec.edges \in EdgeLists /\ spec.sessions \in SessionLists
  BY DEF PhaseInv
<1>2. /\ NodeLists \subseteq Seq(TH!Entries(NodeLists))
      /\ EdgeLists \subseteq Seq(TH!Entries(EdgeLists))
      /\ SessionLists \subseteq Seq(TH!Entries(SessionLists))
  BY HelperSizes
<1>3. spec.nodes \in Seq(TH!Entries(NodeLists))
  BY ONLY <1>1, <1>2
<1>4. spec.edges \in Seq(TH!Entries(EdgeLists))
  BY ONLY <1>1, <1>2
<1>5. spec.sessions \in Seq(TH!Entries(SessionLists))
  BY ONLY <1>1, <1>2
<1> QED
  BY ONLY <1>1, <1>3, <1>4, <1>5 DEF TH!Names

LEMMA Advanced ==
  ASSUME TH!HelperAssumption, PhaseInv,
         NEW list \in {"nodes", "edges", "sessions"}, TH!Advance(list)
  PROVE  /\ at \in Places /\ at' \in Places
         /\ at[list] <= Len(spec[list]) /\ Len(spec[list]) \in Nat
         /\ at'[list] = at[list] + 1
         /\ \A other \in {"nodes", "edges", "sessions"} \ {list} : at'[other] = at[other]
<1>1. at \in Places /\ at' = [at EXCEPT ![list] = @ + 1] /\ ~(at[list] > Len(spec[list]))
  BY DEF PhaseInv, TH!Advance, TH!Done, Places
<1>2. Len(spec[list]) \in Nat
  BY SpecLists
<1>3. at[list] \in Nat \ {0} /\ DOMAIN at = {"nodes", "edges", "sessions"}
  BY <1>1 DEF Places
<1>4. at' \in Places
  BY <1>1, <1>3 DEF Places
<1> QED
  BY <1>1, <1>2, <1>3, <1>4

LEMMA InstallInit ==
  ASSUME TH!HelperAssumption, TH!Init
  PROVE  InstallInv
<1>1. PhaseInv
  <2>1. spec \in [nodes : NodeLists, edges : EdgeLists, sessions : SessionLists]
    BY DEF TH!Init
  <2>2. at = [nodes |-> 1, edges |-> 1, sessions |-> 1]
        /\ named = {} /\ addresses = [m \in TH!Names |-> <<>>] /\ apps = {}
    BY DEF TH!Init
  <2>3. at \in Places /\ at.edges = 1
    BY ONLY <2>2 DEF Places
  <2>4. addresses \in [TH!Names -> Seq(Int \X Int)]
    BY ONLY <2>2
  <2>5. Len(spec.edges) \in Nat
    <3>1. spec.edges \in EdgeLists /\ EdgeLists \subseteq Seq(TH!Entries(EdgeLists))
      BY HelperSizes, <2>1
    <3> QED
      BY ONLY <3>1
  <2>6. at.edges <= Len(spec.edges) + 1
    BY ONLY <2>3, <2>5
  <2> QED
    BY ONLY <2>1, <2>2, <2>3, <2>4, <2>6 DEF PhaseInv
<1>2. apps = {}
  BY DEF TH!Init
<1> QED
  BY <1>1, <1>2 DEF InstallInv, TH!SourceFindsSink, SinkInv, ChosenPortsWarned,
     TH!Sinks, TH!Sources

(* What a step leaves when it touches no app.                              *)
LEMMA AppsKept ==
  ASSUME InstallInv, UNCHANGED <<spec, apps, warned, usedPorts>>, at'.sessions = at.sessions,
         apps = {} \/ addresses' = addresses, PhaseInv'
  PROVE  InstallInv'
<1>1. TH!Sinks' = TH!Sinks /\ TH!Sources' = TH!Sources
  BY DEF TH!Sinks, TH!Sources
<1>2. SinkInv'
  BY <1>1 DEF InstallInv, SinkInv, TH!PortOf, TH!AllocatePort
<1>3. ChosenPortsWarned'
  BY <1>1 DEF InstallInv, ChosenPortsWarned, TH!Conflict, TH!Chosen
<1>4. TH!SourceFindsSink'
  <2>1. CASE apps = {}
    BY <1>1, <2>1 DEF TH!SourceFindsSink, TH!Sources
  <2>2. CASE addresses' = addresses
    BY <1>1, <2>2 DEF InstallInv, TH!SourceFindsSink
  <2> QED
    BY <2>1, <2>2
<1> QED
  BY <1>2, <1>3, <1>4 DEF InstallInv

LEMMA BuildNodePhase ==
  ASSUME TH!HelperAssumption, PhaseInv, TH!BuildNode
  PROVE  PhaseInv' /\ at'.sessions = at.sessions /\ apps = {}
<1>1. ~TH!Done("nodes") /\ at' = [at EXCEPT !.nodes = @ + 1]
  BY DEF TH!BuildNode, TH!Advance
<1>2. /\ at.nodes \in Nat \ {0} /\ at.nodes <= Len(spec.nodes)
      /\ at'.nodes = at.nodes + 1 /\ at'.edges = at.edges /\ at'.sessions = at.sessions
      /\ at' \in Places
  BY Advanced DEF TH!BuildNode, Places
<1>3. spec.nodes[at.nodes] \in TH!Names
  BY <1>2, SpecLists
<1>4. /\ named' \subseteq TH!Names
      /\ UNCHANGED <<spec, addresses, apps>>
  BY <1>3 DEF TH!BuildNode, PhaseInv
<1>5. at.edges = 1 /\ addresses = [m \in TH!Names |-> <<>>] /\ apps = {}
  BY <1>1 DEF PhaseInv
<1> QED
  BY <1>2, <1>4, <1>5 DEF PhaseInv, TH!Done

LEMMA LinksCounted ==
  ASSUME TH!HelperAssumption, NEW k \in Nat \ {0}
  PROVE  /\ TH!LinksBefore(k) \in 0..(k - 1)
         /\ TH!Linked(k) => TH!LinksBefore(k + 1) = TH!LinksBefore(k) + 1
         /\ ~TH!Linked(k) => TH!LinksBefore(k + 1) = TH!LinksBefore(k)
<1> DEFINE L == {j \in 1..(k - 1) : TH!Linked(j)}
           M == {j \in 1..((k + 1) - 1) : TH!Linked(j)}
<1>1. 1 \in Int /\ k - 1 \in Int
  OBVIOUS
<1>2. IsFiniteSet(1..(k - 1)) /\ Cardinality(1..(k - 1)) = k - 1
  BY <1>1, FS_Interval
<1>3. IsFiniteSet(L) /\ Cardinality(L) \in Nat /\ Cardinality(L) <= k - 1
  <2>1. L \subseteq 1..(k - 1)
    OBVIOUS
  <2> HIDE DEF L
  <2> QED
    BY <1>2, <2>1, FS_Subset, FS_CardinalityType
<1>4. TH!LinksBefore(k) = Cardinality(L) /\ TH!LinksBefore(k + 1) = Cardinality(M)
  BY LinkCount DEF TH!LinksBefore
<1>5. TH!Linked(k) => Cardinality(M) = Cardinality(L) + 1
  <2> SUFFICES ASSUME TH!Linked(k)  PROVE Cardinality(M) = Cardinality(L) + 1
    OBVIOUS
  <2>1. M = L \cup {k} /\ k \notin L
    OBVIOUS
  <2> HIDE DEF L, M
  <2> QED
    BY <1>3, <2>1, FS_AddElement
<1>6. ~TH!Linked(k) => M = L
  OBVIOUS
<1> HIDE DEF L, M
<1> QED
  BY <1>3, <1>4, <1>5, <1>6

LEMMA BuildLinkPhase ==
  ASSUME TH!HelperAssumption, PhaseInv, TH!BuildClassicalLink
  PROVE  /\ PhaseInv' /\ at'.sessions = at.sessions /\ apps = {}
         /\ at.edges \in 1..Len(spec.edges) /\ at'.edges = at.edges + 1
<1>1. /\ TH!Done("nodes") /\ ~TH!Done("edges") /\ at' = [at EXCEPT !.edges = @ + 1]
      /\ UNCHANGED <<spec, named, apps>>
  BY ZenonT(60) DEF TH!BuildClassicalLink, TH!Advance
<1>2. /\ at.edges \in Nat \ {0} /\ at.edges <= Len(spec.edges)
      /\ at'.edges = at.edges + 1 /\ at'.nodes = at.nodes /\ at'.sessions = at.sessions
      /\ at' \in Places
      /\ Len(spec.edges) \in Nat
  BY Advanced DEF TH!BuildClassicalLink, Places
<1>3. apps = {}
  BY <1>1 DEF PhaseInv
<1>4. addresses' \in [TH!Names -> Seq(Int \X Int)]
  <2> DEFINE subnet == TH!SubnetOfLink(TH!LinksBefore(at.edges) + 1)
             u == spec.edges[at.edges].u
             v == spec.edges[at.edges].v
  <2>1. IF u \in named /\ v \in named
        THEN addresses' = [[addresses EXCEPT ![u] = Append(@, <<subnet, 1>>)]
                                        EXCEPT ![v] = Append(@, <<subnet, 2>>)]
        ELSE addresses' = addresses
    BY DEF TH!BuildClassicalLink, TH!Linked
  <2>2. subnet \in Int
    <3>1. TH!LinksBefore(at.edges) \in Nat
      BY <1>2, LinksCounted
    <3>2. Subnets \in Nat \ {0}
      BY HelperSizes
    <3> QED
      BY ONLY <3>1, <3>2 DEF TH!SubnetOfLink
  <2>3. named \subseteq TH!Names /\ addresses \in [TH!Names -> Seq(Int \X Int)]
    BY DEF PhaseInv
  <2> HIDE DEF subnet, u, v
  <2>4. CASE u \in named /\ v \in named
    <3> DEFINE half == [addresses EXCEPT ![u] = Append(@, <<subnet, 1>>)]
    <3>1. half \in [TH!Names -> Seq(Int \X Int)]
      BY <2>2, <2>3, <2>4
    <3>2. addresses' = [half EXCEPT ![v] = Append(@, <<subnet, 2>>)]
      BY <2>1, <2>4
    <3> HIDE DEF half
    <3> QED
      BY <2>2, <2>3, <2>4, <3>1, <3>2
  <2> QED
    BY SMTT(60), <2>1, <2>3, <2>4
<1> QED
  BY SMTT(60), <1>1, <1>2, <1>3, <1>4 DEF PhaseInv, TH!Done
-----------------------------------------------------------------------------
LEMMA AddressInit ==
  ASSUME TH!Init
  PROVE  AddressInv
BY DEF TH!Init, AddressInv, Below, Apart, Given

LEMMA BuildNodeAddresses ==
  ASSUME TH!HelperAssumption, PhaseInv, TH!BuildNode
  PROVE  AddressInv'
<1>1. addresses' = [m \in TH!Names |-> <<>>]
  BY DEF TH!BuildNode, TH!Advance, PhaseInv
<1> QED
  BY <1>1 DEF AddressInv, Below, Apart, Given

LEMMA LinkedKept ==
  ASSUME UNCHANGED <<spec, named>>, NEW k
  PROVE  TH!LinksBefore(k)' = TH!LinksBefore(k)
BY DEF TH!LinksBefore, TH!Linked

Extended(f, u, x) == [f EXCEPT ![u] = Append(@, x)]

LEMMA AppendFresh ==
  ASSUME NEW N, NEW T, NEW f \in [N -> Seq(T)], NEW u \in N, NEW x \in T,
         Apart(N, f), x \notin Given(N, f)
  PROVE  /\ Extended(f, u, x) \in [N -> Seq(T)]
         /\ Apart(N, Extended(f, u, x))
         /\ Given(N, Extended(f, u, x)) \subseteq Given(N, f) \cup {x}
<1> DEFINE g == Extended(f, u, x)
<1>0. g = [f EXCEPT ![u] = Append(@, x)]
  BY DEF Extended
<1> HIDE DEF g
<1>1. g \in [N -> Seq(T)]
  BY <1>0
<1>2. /\ DOMAIN g[u] = DOMAIN f[u] \cup {Len(f[u]) + 1} /\ Len(f[u]) + 1 \notin DOMAIN f[u]
      /\ g[u][Len(f[u]) + 1] = x
      /\ \A i \in DOMAIN f[u] : g[u][i] = f[u][i]
      /\ \A m \in N \ {u} : g[m] = f[m]
  BY <1>0
<1>3. \A m \in N : \A i \in DOMAIN f[m] : f[m][i] # x
  BY DEF Given
<1> DEFINE last == Len(f[u]) + 1
<1>4. \A m \in N : \A i \in DOMAIN g[m] :
        \/ i \in DOMAIN f[m] /\ g[m][i] = f[m][i]
        \/ m = u /\ i = last /\ g[m][i] = x
  BY <1>2
<1> HIDE DEF last
<1>5. Apart(N, g)
  <2> SUFFICES ASSUME NEW m \in N, NEW k \in N, NEW i \in DOMAIN g[m], NEW j \in DOMAIN g[k],
                      g[m][i] = g[k][j]
               PROVE  m = k /\ i = j
    BY DEF Apart
  <2>1. CASE i \in DOMAIN f[m] /\ g[m][i] = f[m][i] /\ j \in DOMAIN f[k] /\ g[k][j] = f[k][j]
    <3>1. f[m][i] = f[k][j]
      BY <2>1
    <3> QED
      BY ONLY <2>1, <3>1, Apart(N, f), m \in N, k \in N DEF Apart
  <2>2. CASE i \in DOMAIN f[m] /\ g[m][i] = f[m][i] /\ g[k][j] = x
    BY <1>3, <2>2
  <2>3. CASE g[m][i] = x /\ j \in DOMAIN f[k] /\ g[k][j] = f[k][j]
    BY <1>3, <2>3
  <2> QED
    BY <1>4, <2>1, <2>2, <2>3
<1>6. Given(N, g) \subseteq Given(N, f) \cup {x}
  BY ONLY <1>4 DEF Given
<1> QED
  BY <1>1, <1>5, <1>6 DEF g

(* New pairs at the end of two sequences, whose number none has yet.       *)
LEMMA LinkFresh ==
  ASSUME NEW N, NEW f \in [N -> Seq(Int \X Int)], NEW s \in Nat,
         NEW u \in N, NEW v \in N, Below(N, f, s)
  PROVE  Below(N, Extended(Extended(f, u, <<s, 1>>), v, <<s, 2>>), s + 1)
<1> DEFINE x == <<s, 1>>
           y == <<s, 2>>
           h == Extended(f, u, x)
           g == Extended(h, v, y)
<1>1. x \in Int \X Int /\ y \in Int \X Int /\ x # y /\ x[1] = s /\ y[1] = s
  OBVIOUS
<1> HIDE DEF x, y
<1>3. x \notin Given(N, f) /\ y \notin Given(N, f) /\ Apart(N, f)
      /\ \A z \in Given(N, f) : z[1] < s
  BY <1>1 DEF Below
<1>4. h \in [N -> Seq(Int \X Int)] /\ Apart(N, h) /\ Given(N, h) \subseteq Given(N, f) \cup {x}
  BY <1>1, <1>3, AppendFresh
<1> HIDE DEF h
<1>5. y \notin Given(N, h)
  BY <1>1, <1>3, <1>4
<1>6. g \in [N -> Seq(Int \X Int)] /\ Apart(N, g) /\ Given(N, g) \subseteq Given(N, h) \cup {y}
  BY <1>1, <1>4, <1>5, AppendFresh
<1> HIDE DEF g
<1>7. ASSUME NEW z \in Given(N, g)  PROVE z[1] < s + 1
  <2>1. z = x \/ z = y \/ z \in Given(N, f)
    BY <1>4, <1>6
  <2>2. z \in Int \X Int
    BY ONLY SMTT(60), <1>6, z \in Given(N, g) DEF Given
  <2> QED
    BY <1>1, <1>3, <2>1, <2>2
<1> QED
  BY <1>6, <1>7 DEF Below, g, h, x, y

LEMMA BuildLinkAddresses ==
  ASSUME TH!HelperAssumption, PhaseInv, AddressInv, TH!BuildClassicalLink
  PROVE  AddressInv'
<1> DEFINE k == at.edges
           s == TH!LinksBefore(k)
           u == spec.edges[k].u
           v == spec.edges[k].v
<1>1. /\ k \in 1..Len(spec.edges) /\ at'.edges = k + 1
      /\ UNCHANGED <<spec, named>>
  <2>1. at.edges \in 1..Len(spec.edges) /\ at'.edges = at.edges + 1
    BY BuildLinkPhase
  <2>2. UNCHANGED <<spec, named>>
    BY DEF TH!BuildClassicalLink
  <2> QED
    BY ONLY <2>1, <2>2
<1>2. k \in Nat \ {0} /\ Subnets \in Nat \ {0}
  <2>1. Subnets \in Nat \ {0}
    BY HelperSizes
  <2> HIDE DEF k
  <2>2. k \in Nat \ {0}
    BY ONLY <1>1
  <2> QED
    BY ONLY <2>1, <2>2
<1>3. /\ s \in 0..(k - 1)
      /\ LinksBuilt' = IF u \in named /\ v \in named THEN s + 1 ELSE s
  <2>1. LinksBuilt' = TH!LinksBefore(k + 1)
    BY <1>1, LinkedKept DEF LinksBuilt
  <2>2. k \in Nat \ {0}
    BY <1>2
  <2>3. /\ s \in 0..(k - 1)
        /\ TH!Linked(k) => TH!LinksBefore(k + 1) = s + 1
        /\ ~TH!Linked(k) => TH!LinksBefore(k + 1) = s
    BY <2>2, LinksCounted
  <2>4. TH!Linked(k) <=> u \in named /\ v \in named
    BY DEF TH!Linked
  <2> HIDE DEF k, s, u, v
  <2> QED
    BY <2>1, <2>3, <2>4
<1> SUFFICES ASSUME LinksBuilt' <= Subnets
             PROVE  Below(TH!Names, addresses', LinksBuilt')
  BY DEF AddressInv
<1>4. s + 1 <= Subnets => TH!SubnetOfLink(s + 1) = s
  <2> SUFFICES ASSUME s + 1 <= Subnets  PROVE TH!SubnetOfLink(s + 1) = s
    OBVIOUS
  <2> HIDE DEF k, s
  <2>1. s \in 0..(Subnets - 1) /\ (s + 1) - 1 = s
    BY <1>2, <1>3
  <2>2. s % Subnets = s
    BY SMTT(60), <1>2, <2>1
  <2> QED
    BY <2>1, <2>2 DEF TH!SubnetOfLink
<1>5. IF u \in named /\ v \in named
      THEN s + 1 <= Subnets =>
             addresses' = Extended(Extended(addresses, u, <<s, 1>>), v, <<s, 2>>)
      ELSE addresses' = addresses
  BY <1>4 DEF TH!BuildClassicalLink, TH!Linked, Extended
<1>6. s <= Subnets => Below(TH!Names, addresses, s)
  BY DEF AddressInv, LinksBuilt
<1>7. named \subseteq TH!Names /\ addresses \in [TH!Names -> Seq(Int \X Int)]
  BY DEF PhaseInv
<1> HIDE DEF k, s, u, v
<1>8. CASE u \in named /\ v \in named
  <2>1. LinksBuilt' = s + 1 /\ s \in Nat /\ u \in TH!Names /\ v \in TH!Names
    BY <1>2, <1>3, <1>7, <1>8
  <2>2. s + 1 <= Subnets /\ s <= Subnets
    BY <1>2, <2>1
  <2>3. addresses' = Extended(Extended(addresses, u, <<s, 1>>), v, <<s, 2>>)
    BY <1>5, <1>8, <2>2
  <2>4. Below(TH!Names, addresses, s)
    BY <1>6, <2>2
  <2>5. Below(TH!Names, addresses', s + 1)
    BY ONLY <1>7, <2>1, <2>3, <2>4, LinkFresh
  <2> QED
    BY <2>1, <2>5
<1>9. CASE ~(u \in named /\ v \in named)
  BY <1>3, <1>5, <1>6, <1>9
<1> QED
  BY <1>8, <1>9

-----------------------------------------------------------------------------
LEMMA SessionPhase ==
  ASSUME TH!HelperAssumption, PhaseInv, TH!InstallSession
  PROVE  /\ PhaseInv'
         /\ at.sessions \in Nat \ {0} /\ at'.sessions = at.sessions + 1
         /\ at.sessions <= Len(spec.sessions)
         /\ at'.edges = at.edges
         /\ UNCHANGED <<spec, named, addresses>>
<1>1. /\ TH!Done("nodes") /\ TH!Done("edges") /\ TH!Advance("sessions")
      /\ UNCHANGED <<spec, named, addresses>>
  BY DEF TH!InstallSession
<1>2. /\ at \in Places /\ at' \in Places
      /\ at'.sessions = at.sessions + 1 /\ at'.nodes = at.nodes /\ at'.edges = at.edges
      /\ at.sessions <= Len(spec.sessions)
  BY <1>1, Advanced
<1>3. TH!Done("nodes")' /\ TH!Done("edges")'
  BY <1>1, <1>2 DEF TH!Done
<1> QED
  BY <1>1, <1>2, <1>3 DEF PhaseInv, Places

LEMMA SessionApps ==
  ASSUME TH!HelperAssumption, InstallInv, TH!InstallSession
  PROVE  InstallInv'
<1> DEFINE n == at.sessions
           s == spec.sessions[n]
           source == TH!AppOf("source", s.src, TH!PeerOf(s), s)
           sink == TH!AppOf("sink", s.dst, TH!Any, s)
<1>1. /\ PhaseInv' /\ n \in Nat \ {0} /\ at'.sessions = n + 1 /\ n <= Len(spec.sessions)
      /\ UNCHANGED <<spec, named, addresses>>
  BY SessionPhase DEF InstallInv
<1>2. CASE UNCHANGED <<apps, warned, usedPorts>>
  <2>1. TH!Sinks' = TH!Sinks /\ TH!Sources' = TH!Sources
    BY <1>2 DEF TH!Sinks, TH!Sources
  <2>2. TH!SourceFindsSink' /\ ChosenPortsWarned'
    BY <1>1, <1>2, <2>1 DEF InstallInv, TH!SourceFindsSink, ChosenPortsWarned, TH!Conflict,
       TH!Chosen
  <2>3. \A k \in Nat : k < n => k < at'.sessions
    BY <1>1
  <2>4. SinkInv'
    <3>1. \A t : TH!PortOf(t)' = TH!PortOf(t)
      BY DEF TH!PortOf, TH!AllocatePort
    <3> QED
      BY <1>1, <1>2, <2>1, <2>3, <3>1 DEF InstallInv, SinkInv
  <2> QED
    BY <1>1, <2>2, <2>4 DEF InstallInv
<1>3. CASE {s.src, s.dst} \subseteq named /\ TH!CheckPort(s) /\ apps' = apps \cup {source, sink}
  <2>1. /\ source.role = "source" /\ source.session = n /\ source.port = TH!PortOf(s)
        /\ source.peer = TH!PeerOf(s) /\ source.proto = TH!Protocol(s)
        /\ sink.role = "sink" /\ sink.session = n /\ sink.port = TH!PortOf(s)
        /\ sink.node = s.dst /\ sink.proto = TH!Protocol(s)
    BY DEF TH!AppOf
  <2> DEFINE key == <<s.dst, s.ctrlPort>>
  <2>2. /\ warned' = IF s.ctrlPort # 0 /\ key \in usedPorts THEN warned \cup {n} ELSE warned
        /\ usedPorts' = IF s.ctrlPort # 0 THEN usedPorts \cup {key} ELSE usedPorts
    BY <1>3 DEF TH!CheckPort
  <2>3. s.dst \in TH!Names /\ addresses \in [TH!Names -> Seq(Int \X Int)]
    BY <1>3 DEF InstallInv, PhaseInv
  <2>4. s.ctrlPort # 0 => TH!PortOf(s) = s.ctrlPort
    BY DEF TH!PortOf
  <2>5. TH!PeerOf(s) # TH!Any =>
          \E i \in DOMAIN addresses[s.dst] : addresses[s.dst][i] = TH!PeerOf(s)
    <3> SUFFICES ASSUME TH!PeerOf(s) # TH!Any
                 PROVE  \E i \in DOMAIN addresses[s.dst] : addresses[s.dst][i] = TH!PeerOf(s)
      OBVIOUS
    <3> DEFINE q == addresses[s.dst]
    <3>1. q # <<>> /\ TH!PeerOf(s) = Head(q)
      BY DEF TH!PeerOf, TH!GetFirstNonLoopback
    <3>2. q \in Seq(Int \X Int)
      BY <2>3
    <3> HIDE DEF q, s
    <3>3. 1 \in DOMAIN q /\ Head(q) = q[1]
      BY <3>1, <3>2
    <3> QED
      BY <3>1, <3>3 DEF q
  <2> HIDE DEF source, sink, n, s, key
  <2>6. TH!Sinks' = TH!Sinks \cup {sink} /\ TH!Sources' = TH!Sources \cup {source}
    BY <1>3, <2>1 DEF TH!Sinks, TH!Sources
  <2>7. TH!SourceFindsSink'
    <3> SUFFICES ASSUME NEW a \in TH!Sources'
                 PROVE  \E b \in TH!Sinks' :
                          /\ b.session = a.session /\ b.port = a.port /\ b.proto = a.proto
                          /\ a.peer # TH!Any =>
                               \E i \in DOMAIN addresses'[b.node] : addresses'[b.node][i] = a.peer
      BY DEF TH!SourceFindsSink
    <3>1. CASE a = source
      <4>1. sink \in TH!Sinks' /\ addresses' = addresses
        BY <1>1, <2>6
      <4> QED
        BY <2>1, <2>5, <3>1, <4>1
    <3>2. CASE a \in TH!Sources
      BY <1>1, <2>6, <3>2 DEF InstallInv, TH!SourceFindsSink
    <3> QED
      BY <2>6, <3>1, <3>2
  <2>8. SinkInv'
    <3>1. s = spec'.sessions[n]
      BY <1>1 DEF s
    <3>2. ASSUME NEW a \in TH!Sinks'
          PROVE  /\ a.session < at'.sessions /\ a.session \in Nat \ {0}
                 /\ a.session <= Len(spec'.sessions)
                 /\ a.node = spec'.sessions[a.session].dst
                 /\ a.port = TH!PortOf(spec'.sessions[a.session])
                 /\ spec'.sessions[a.session].ctrlPort # 0 => <<a.node, a.port>> \in usedPorts'
      <4>1. CASE a = sink
        <5>1. a.session = n /\ a.node = s.dst /\ a.port = TH!PortOf(s)
          BY <2>1, <4>1
        <5>2. s.ctrlPort # 0 => <<a.node, a.port>> = key /\ key \in usedPorts'
          BY <2>2, <2>4, <5>1 DEF key
        <5> QED
          BY <1>1, <3>1, <5>1, <5>2
      <4>2. CASE a \in TH!Sinks
        <5>1. /\ a.session < n /\ a.session \in Nat \ {0} /\ a.session <= Len(spec.sessions)
              /\ a.node = spec.sessions[a.session].dst
              /\ a.port = TH!PortOf(spec.sessions[a.session])
              /\ spec.sessions[a.session].ctrlPort # 0 => <<a.node, a.port>> \in usedPorts
          BY <4>2 DEF InstallInv, SinkInv, n
        <5>2. usedPorts \subseteq usedPorts'
          BY <2>2
        <5>3. a.session < at'.sessions
          BY <1>1, <5>1
        <5> QED
          BY <1>1, <5>1, <5>2, <5>3
      <4> QED
        BY <2>6, <4>1, <4>2
    <3>3. \A a, b \in TH!Sinks' : a.session = b.session => a = b
      <4>1. \A a \in TH!Sinks : a.session < n /\ a.session \in Nat
        BY DEF InstallInv, SinkInv, n
      <4>2. \A a \in TH!Sinks : a.session # sink.session
        BY <1>1, <2>1, <4>1
      <4> QED
        BY <2>6, <4>2 DEF InstallInv, SinkInv
    <3>4. \A t : TH!PortOf(t)' = TH!PortOf(t)
      BY DEF TH!PortOf, TH!AllocatePort
    <3> QED
      BY <3>2, <3>3, <3>4 DEF SinkInv
  <2>9. ChosenPortsWarned'
    <3> DEFINE chosen(x) == spec.sessions[x.session].ctrlPort # 0
    <3>1. ASSUME NEW a \in TH!Sinks, TH!Conflict(a, sink), chosen(a), chosen(sink)
          PROVE  n \in warned'
      <4>1. a.node = s.dst /\ a.port = TH!PortOf(s) /\ s.ctrlPort # 0
        BY <2>1, <3>1 DEF TH!Conflict, s
      <4>2. <<a.node, a.port>> \in usedPorts
        BY <3>1 DEF InstallInv, SinkInv
      <4>3. key \in usedPorts
        BY <2>4, <4>1, <4>2 DEF key
      <4> QED
        BY <2>2, <4>1, <4>3
    <3>2. \A a, b \in TH!Sinks' : TH!Conflict(a, b) => TH!Conflict(b, a) /\ a # b
      BY DEF TH!Conflict
    <3>3. warned \subseteq warned'
      BY <2>2
    <3>4. ASSUME NEW a \in TH!Sinks', NEW b \in TH!Sinks', TH!Conflict(a, b), chosen(a), chosen(b)
          PROVE  {a.session, b.session} \cap warned' # {}
      <4>1. CASE a = sink
        BY <2>1, <2>6, <3>1, <3>2, <3>4, <4>1
      <4>2. CASE b = sink
        BY <2>1, <2>6, <3>1, <3>2, <3>4, <4>2
      <4>3. CASE a \in TH!Sinks /\ b \in TH!Sinks
        BY <3>3, <3>4, <4>3 DEF InstallInv, ChosenPortsWarned, TH!Chosen
      <4> QED
        BY <2>6, <4>1, <4>2, <4>3
    <3>5. \A a, b : TH!Conflict(a, b)' = TH!Conflict(a, b)
      BY DEF TH!Conflict
    <3> HIDE DEF chosen
    <3>6. \A x : chosen(x) <=> spec'.sessions[x.session].ctrlPort # 0
      BY <1>1 DEF chosen
    <3> QED
      BY <3>4, <3>6 DEF ChosenPortsWarned, TH!Conflict, TH!Chosen
  <2> QED
    BY <1>1, <2>7, <2>8, <2>9 DEF InstallInv
<1> QED
  BY <1>2, <1>3 DEF TH!InstallSession

LEMMA InstallStep ==
  ASSUME TH!HelperAssumption, InstallInv, [TH!Next]_TH!vars
  PROVE  InstallInv'
<1>1. CASE TH!BuildNode
  BY SMTT(60), <1>1, AppsKept, BuildNodePhase DEF InstallInv, TH!BuildNode
<1>2. CASE TH!BuildClassicalLink
  BY <1>2, AppsKept, BuildLinkPhase DEF InstallInv, TH!BuildClassicalLink
<1>3. CASE TH!InstallSession
  BY <1>3, SessionApps
<1>4. CASE UNCHANGED TH!vars
  <2>1. PhaseInv'
    BY <1>4 DEF InstallInv, PhaseInv, TH!vars, TH!Done
  <2> QED
    BY <1>4, <2>1, AppsKept DEF TH!vars
<1> QED
  BY <1>1, <1>2, <1>3, <1>4 DEF TH!Next

LEMMA AddressStep ==
  ASSUME TH!HelperAssumption, PhaseInv, AddressInv, [TH!Next]_TH!vars
  PROVE  AddressInv'
<1>1. CASE TH!BuildNode
  BY <1>1, BuildNodeAddresses
<1>2. CASE TH!BuildClassicalLink
  BY <1>2, BuildLinkAddresses
<1>3. CASE TH!InstallSession \/ UNCHANGED TH!vars
  <2>1. UNCHANGED <<spec, named, addresses>> /\ at'.edges = at.edges
    BY <1>3, SessionPhase DEF TH!vars
  <2>2. LinksBuilt' = LinksBuilt
    BY <2>1, LinkedKept DEF LinksBuilt
  <2> QED
    BY <2>1, <2>2 DEF AddressInv
<1> QED
  BY <1>1, <1>2, <1>3 DEF TH!Next

-----------------------------------------------------------------------------
LEMMA Modulus ==
  ASSUME NEW w \in Nat \ {0}, NEW x \in Nat
  PROVE  x % w \in 0..(w - 1)
OBVIOUS

LEMMA SmallModulus ==
  ASSUME NEW w \in Nat \ {0}, NEW x \in 0..(w - 1)
  PROVE  x % w = x
OBVIOUS

LEMMA PortNumbers ==
  TH!Ports \in Nat \ {0} /\ TH!AllocatedPorts \in Nat \ {0}
BY DEF TH!Ports, TH!AllocatedPorts

LEMMA AllocatedPort ==
  ASSUME TH!PortsFit, NEW id \in Nat
  PROVE  /\ TH!AllocatePort(id) = PortBase + (id % TH!AllocatedPorts)
         /\ id % TH!AllocatedPorts \in 0..(TH!AllocatedPorts - 1)
         /\ PortBase \in Int
<1> DEFINE r == id % TH!AllocatedPorts
           p == PortBase + r
<1>1. r \in 0..(TH!AllocatedPorts - 1)
  BY PortNumbers, Modulus
<1>2. PortBase \in 1..(TH!Ports - TH!AllocatedPorts)
  BY DEF TH!PortsFit
<1> HIDE DEF r
<1>3. p \in 0..(TH!Ports - 1) /\ p # 0 /\ PortBase \in Int
  BY <1>1, <1>2, PortNumbers
<1>4. p % TH!Ports = p
  <2> HIDE DEF p
  <2> QED
    BY ONLY <1>3, PortNumbers, SmallModulus
<1>5. TH!AllocatePort(id) = p
  BY ONLY <1>3, <1>4 DEF TH!AllocatePort, p, r
<1> QED
  BY <1>1, <1>3, <1>5 DEF r

LEMMA ConflictsFollow ==
  ASSUME TH!HelperAssumption, InstallInv
  PROVE  TH!ConflictsKnown
<1> SUFFICES ASSUME TH!PortsFit, NEW a \in TH!Sinks, NEW b \in TH!Sinks, TH!Conflict(a, b)
             PROVE  \/ TH!Chosen(a) /\ TH!Chosen(b) /\ {a.session, b.session} \cap warned # {}
                    \/ /\ TH!Chosen(a) <=> ~TH!Chosen(b)
                       /\ a.port \in PortBase..(PortBase + TH!AllocatedPorts - 1)
                    \/ /\ ~TH!Chosen(a) /\ ~TH!Chosen(b)
                       /\ TH!Id(a) % TH!AllocatedPorts = TH!Id(b) % TH!AllocatedPorts
  BY DEF TH!ConflictsKnown
<1>1. a.port = b.port
  BY DEF TH!Conflict
<1>2. \A x \in TH!Sinks : x.session \in Nat \ {0} /\ x.session <= Len(spec.sessions)
  BY DEF InstallInv, SinkInv
<1>3. \A x \in TH!Sinks : TH!Id(x) \in Nat
  <2>1. spec.sessions \in Seq(TH!Entries(SessionLists)) /\ Len(spec.sessions) \in Nat
    BY SpecLists DEF InstallInv
  <2>2. \A x \in TH!Sinks : spec.sessions[x.session] \in TH!Entries(SessionLists)
    BY <1>2, <2>1
  <2> QED
    BY <2>2 DEF TH!HelperAssumption, TH!Id
<1>4. \A x \in TH!Sinks : ~TH!Chosen(x) =>
        /\ x.port = PortBase + (TH!Id(x) % TH!AllocatedPorts)
        /\ TH!Id(x) % TH!AllocatedPorts \in 0..(TH!AllocatedPorts - 1)
        /\ PortBase \in Int
  <2> SUFFICES ASSUME NEW x \in TH!Sinks, ~TH!Chosen(x)
               PROVE  /\ x.port = PortBase + (TH!Id(x) % TH!AllocatedPorts)
                      /\ TH!Id(x) % TH!AllocatedPorts \in 0..(TH!AllocatedPorts - 1)
                      /\ PortBase \in Int
    OBVIOUS
  <2>1. x.port = TH!AllocatePort(TH!Id(x))
    BY DEF InstallInv, SinkInv, TH!PortOf, TH!Chosen, TH!Id
  <2> QED
    BY <1>3, <2>1, AllocatedPort
<1>5. CASE TH!Chosen(a) /\ TH!Chosen(b)
  BY <1>5 DEF InstallInv, ChosenPortsWarned
<1>6. CASE TH!Chosen(a) <=> ~TH!Chosen(b)
  <2>1. PICK x \in {a, b} : ~TH!Chosen(x)
    BY <1>6
  <2>2. x.port = a.port /\ x \in TH!Sinks
    BY <1>1
  <2> DEFINE r == TH!Id(x) % TH!AllocatedPorts
  <2>3. a.port = PortBase + r /\ r \in 0..(TH!AllocatedPorts - 1) /\ PortBase \in Int
    BY <1>4, <2>1, <2>2
  <2> HIDE DEF r
  <2>4. a.port \in PortBase..(PortBase + TH!AllocatedPorts - 1)
    BY ONLY <2>3, PortNumbers
  <2> QED
    BY <1>6, <2>4
<1>7. CASE ~TH!Chosen(a) /\ ~TH!Chosen(b)
  <2>1. TH!Id(a) % TH!AllocatedPorts = TH!Id(b) % TH!AllocatedPorts
    BY <1>1, <1>4, <1>7
  <2> QED
    BY <1>7, <2>1
<1> QED
  BY <1>5, <1>6, <1>7

(* A source finds the sink of its session, and it is known which sinks get *)
(* in each other's way without a warning.                                  *)
THEOREM SessionsFit ==
  ASSUME TH!HelperAssumption
  PROVE  TH!Spec => [](TH!SourceFindsSink /\ TH!ConflictsKnown)
<1>1. TH!Init => InstallInv
  BY InstallInit
<1>2. InstallInv /\ [TH!Next]_TH!vars => InstallInv'
  BY InstallStep
<1>3. InstallInv => TH!SourceFindsSink /\ TH!ConflictsKnown
  BY ConflictsFollow DEF InstallInv
<1> QED
  BY <1>1, <1>2, <1>3, PTL DEF TH!Spec

(* No two interfaces share an address while there are subnets left.        *)
THEOREM LinkAddressesUnique ==
  ASSUME TH!HelperAssumption
  PROVE  TH!Spec => []TH!AddressesUnique
<1>1. TH!Init => InstallInv /\ AddressInv
  BY InstallInit, AddressInit
<1>2. InstallInv /\ AddressInv /\ [TH!Next]_TH!vars => InstallInv' /\ AddressInv'
  BY InstallStep, AddressStep DEF InstallInv
<1>3. AddressInv => TH!AddressesUnique
  BY DEF AddressInv, LinksBuilt, Below, Apart, TH!AddressesUnique
<1> QED
  BY <1>1, <1>2, <1>3, PTL DEF TH!Spec

-----------------------------------------------------------------------------
(* SwapHelper: sessions along paths.                                       *)

SwapSession == [path : Seq(SH!Nodes), sid : SH!Sids, start : Int]

LEMMA RoleCount ==
  ASSUME NEW S
  PROVE  SH!Cardinality(S) = Cardinality(S)
BY DEF SH!Cardinality, Cardinality

(* The apps know session i as s says, at every node of its path.           *)
SetUpAs(i, s) ==
  /\ s \in SwapSession /\ s.sid = i /\ Len(s.path) >= 2
  /\ \E j \in DOMAIN sessions : sessions[j].sid = i /\ sessions[j].path = s.path
  /\ \A m \in SH!OnPath(s) : swapApps[m][i] = SH!ConfigOf(s, SH!Place(s, m))
  /\ \A m \in SH!Nodes \ SH!OnPath(s) : swapApps[m][i] = SH!NotThere

PlanInv ==
  /\ sessions \in Topologies
  /\ planned \in Seq(SwapSession)
  /\ next \in Nat \ {0}
  /\ \A k \in DOMAIN planned : \E j \in DOMAIN sessions :
       planned[k].sid = sessions[j].sid /\ planned[k].path = sessions[j].path

RoleInv ==
  /\ \A m \in SH!Nodes : DOMAIN swapApps[m] = SH!Sids
  /\ \A i \in SH!Sids : SH!Plain(i) =>
       \/ \A m \in SH!Nodes : swapApps[m][i] = SH!NotThere
       \/ \E s : SetUpAs(i, s)

LEMMA SwapInit ==
  ASSUME SH!SwapHelperAssumption, SH!Init
  PROVE  PlanInv /\ RoleInv
BY DEF SH!Init, PlanInv, RoleInv

LEMMA SessionsTyped ==
  ASSUME SH!SwapHelperAssumption, PlanInv
  PROVE  sessions \in Seq(SwapSession)
BY DEF SH!SwapHelperAssumption, PlanInv, SwapSession

LEMMA PlanStep ==
  ASSUME SH!SwapHelperAssumption, PlanInv, RoleInv, SH!Plan
  PROVE  PlanInv' /\ RoleInv'
<1> DEFINE i == Len(planned)
           j == (i % Len(sessions)) + 1
           s == sessions[j]
<1>1. /\ i \in Nat /\ i < SH!PlannedLength /\ Len(sessions) \in Nat
      /\ UNCHANGED <<sessions, next, swapApps, fired>>
  BY SessionsTyped DEF SH!Plan, PlanInv
<1>2. Len(sessions) > 0
  <2>1. {Rounds, Period, Jitter} \subseteq Nat
    BY DEF SH!SwapHelperAssumption
  <2> QED
    BY <1>1, <2>1 DEF SH!PlannedLength
<1>3. j \in DOMAIN sessions
  <2>1. i % Len(sessions) \in 0..(Len(sessions) - 1)
    BY <1>1, <1>2
  <2>2. DOMAIN sessions = 1..Len(sessions)
    BY SessionsTyped
  <2> QED
    BY <1>1, <2>1, <2>2
<1>4. s \in SwapSession
  BY <1>3, SessionsTyped
<1>5. PICK jitter \in (IF SH!Enabled THEN -Jitter..Jitter ELSE {0}) :
        planned' = Append(planned, [s EXCEPT !.start = @ + (i \div Len(sessions)) * Period + jitter])
  BY DEF SH!Plan
<1> DEFINE t == [s EXCEPT !.start = @ + (i \div Len(sessions)) * Period + jitter]
<1>6. t \in SwapSession /\ t.sid = s.sid /\ t.path = s.path
  <2>1. jitter \in Int /\ Period \in Nat
    BY <1>5 DEF SH!SwapHelperAssumption
  <2>2. (i \div Len(sessions)) \in Int
    BY <1>1, <1>2
  <2>3. (i \div Len(sessions)) * Period + jitter \in Int
    BY <2>1, <2>2
  <2>4. s.start \in Int
    BY <1>4 DEF SwapSession
  <2>5. s.start + (i \div Len(sessions)) * Period + jitter \in Int
    BY <2>1, <2>2, <2>4
  <2> HIDE DEF s, j, i
  <2> QED
    BY <1>4, <2>5 DEF SwapSession
<1>7. planned' = Append(planned, t)
  BY <1>5
<1> HIDE DEF t, s, j
<1>8. PlanInv'
  <2>1. planned \in Seq(SwapSession)
    BY DEF PlanInv
  <2>2. planned' \in Seq(SwapSession)
    BY <1>6, <1>7, <2>1
  <2>3. ASSUME NEW k \in DOMAIN planned'
        PROVE  \E l \in DOMAIN sessions :
                 planned'[k].sid = sessions[l].sid /\ planned'[k].path = sessions[l].path
    <3>1. CASE k \in DOMAIN planned
      <4>1. planned'[k] = planned[k]
        BY <1>7, <2>1, <3>1
      <4> QED
        BY <3>1, <4>1 DEF PlanInv
    <3>2. CASE k \notin DOMAIN planned
      <4>1. planned'[k] = t
        BY <1>7, <2>1, <3>2
      <4> QED
        BY <1>3, <1>6, <4>1 DEF s
    <3> QED
      BY <3>1, <3>2
  <2> QED
    BY <1>1, <2>2, <2>3 DEF PlanInv
<1>9. RoleInv'
  BY <1>1 DEF RoleInv, SetUpAs, SH!Plain
<1> QED
  BY <1>8, <1>9

LEMMA Configured ==
  ASSUME NEW s \in SwapSession, NEW k
  PROVE  SH!ConfigOf(s, k) # SH!NotThere
<1>1. SH!ConfigOf(s, k).role # "none"
  BY DEF SH!ConfigOf
<1>2. SH!NotThere.role = "none"
  BY DEF SH!NotThere
<1> QED
  BY <1>1, <1>2

LEMMA SwapInstallStep ==
  ASSUME SH!SwapHelperAssumption, PlanInv, RoleInv, SH!InstallUnified
  PROVE  PlanInv' /\ RoleInv'
<1>0. PICK s : s = planned[next]
  OBVIOUS
<1>1. /\ Len(planned) = SH!PlannedLength /\ next <= SH!PlannedLength
      /\ next' = next + 1
      /\ swapApps' = IF Len(s.path) < 2 THEN swapApps ELSE [m \in SH!Nodes |-> SH!AddSession(m, s)]
      /\ UNCHANGED <<sessions, planned, fired>>
  BY <1>0 DEF SH!InstallUnified
<1>2. PlanInv'
  BY <1>1 DEF PlanInv
<1>3. next \in DOMAIN planned
  BY <1>1 DEF PlanInv
<1>4. s \in SwapSession /\ \E j \in DOMAIN sessions : s.sid = sessions[j].sid /\ s.path = sessions[j].path
  BY <1>0, <1>3 DEF PlanInv
<1>5. CASE Len(s.path) < 2
  BY <1>1, <1>2, <1>5 DEF RoleInv, SetUpAs, SH!Plain
<1>6. CASE ~(Len(s.path) < 2)
  <2>1. swapApps' = [m \in SH!Nodes |-> SH!AddSession(m, s)]
    BY <1>1, <1>6
  <2>2. s.path \in Seq(SH!Nodes) /\ s.sid \in SH!Sids /\ Len(s.path) \in Nat /\ Len(s.path) >= 2
    BY <1>4, <1>6 DEF SwapSession
  <2>3. SH!OnPath(s) \subseteq SH!Nodes
    BY <2>2 DEF SH!OnPath
  <2>4. ASSUME NEW m \in SH!Nodes
        PROVE  /\ DOMAIN swapApps'[m] = SH!Sids
               /\ \A i \in SH!Sids \ {s.sid} : swapApps'[m][i] = swapApps[m][i]
               /\ swapApps'[m][s.sid] = IF swapApps[m][s.sid] = SH!NotThere /\ m \in SH!OnPath(s)
                                    THEN SH!ConfigOf(s, SH!Place(s, m)) ELSE swapApps[m][s.sid]
    <3>1. swapApps'[m] = IF swapApps[m][s.sid] = SH!NotThere /\ m \in SH!OnPath(s)
                     THEN [swapApps[m] EXCEPT ![s.sid] = SH!ConfigOf(s, SH!Place(s, m))]
                     ELSE swapApps[m]
      BY <2>1 DEF SH!AddSession, SH!OnPath
    <3>2. DOMAIN swapApps[m] = SH!Sids
      BY DEF RoleInv
    <3> QED
      BY <2>2, <3>1, <3>2
  <2>5. ASSUME NEW i \in SH!Sids, SH!Plain(i)
        PROVE  \/ \A m \in SH!Nodes : swapApps'[m][i] = SH!NotThere
               \/ \E t : SetUpAs(i, t)'
    <3>1. CASE i # s.sid
      <4>1. \A m \in SH!Nodes : swapApps'[m][i] = swapApps[m][i]
        BY <2>4, <3>1
      <4>2. CASE \A m \in SH!Nodes : swapApps[m][i] = SH!NotThere
        BY <4>1, <4>2
      <4>3. CASE \E t : SetUpAs(i, t)
        <5>1. PICK t : SetUpAs(i, t)
          BY <4>3
        <5>2. SH!OnPath(t) \subseteq SH!Nodes
          BY <5>1 DEF SetUpAs, SH!OnPath, SwapSession
        <5>3. SetUpAs(i, t)'
          BY <1>1, <4>1, <5>1, <5>2 DEF SetUpAs
        <5> QED
          BY <5>3
      <4> QED
        BY <2>5, <4>2, <4>3 DEF RoleInv
    <3>2. CASE i = s.sid
      <4>1. CASE \A m \in SH!Nodes : swapApps[m][i] = SH!NotThere
        <5>1. /\ \A m \in SH!OnPath(s) : swapApps'[m][i] = SH!ConfigOf(s, SH!Place(s, m))
              /\ \A m \in SH!Nodes \ SH!OnPath(s) : swapApps'[m][i] = SH!NotThere
          BY <2>3, <2>4, <3>2, <4>1
        <5>2. \E j \in DOMAIN sessions' : sessions'[j].sid = i /\ sessions'[j].path = s.path
          BY <1>1, <1>4, <3>2
        <5>3. SetUpAs(i, s)'
          BY <1>4, <2>2, <3>2, <5>1, <5>2 DEF SetUpAs
        <5> QED
          BY <5>3
      <4>2. CASE \E t : SetUpAs(i, t)
        <5>1. PICK t : SetUpAs(i, t)
          BY <4>2
        <5>2. SH!OnPath(t) = SH!OnPath(s)
          <6>1. PICK j \in DOMAIN sessions : sessions[j].sid = i /\ sessions[j].path = t.path
            BY <5>1 DEF SetUpAs
          <6>2. PICK k \in DOMAIN sessions : sessions[k].sid = i /\ sessions[k].path = s.path
            BY <1>4, <3>2
          <6>3. j = k
            BY <2>5, <6>1, <6>2 DEF SH!Plain
          <6> QED
            BY <6>1, <6>2, <6>3 DEF SH!OnPath
        <5>3. \A m \in SH!OnPath(s) : swapApps[m][i] # SH!NotThere
          BY <5>1, <5>2, Configured DEF SetUpAs
        <5>4. \A m \in SH!Nodes : swapApps'[m][i] = swapApps[m][i]
          BY <2>4, <3>2, <5>3
        <5>5. SetUpAs(i, t)'
          BY <1>1, <2>3, <5>1, <5>2, <5>4 DEF SetUpAs
        <5> QED
          BY <5>5
      <4> QED
        BY <2>5, <4>1, <4>2 DEF RoleInv
    <3> QED
      BY <3>1, <3>2
  <2>6. \A i : SH!Plain(i)' <=> SH!Plain(i)
    BY <1>1 DEF SH!Plain
  <2> QED
    BY <1>2, <2>4, <2>5, <2>6 DEF RoleInv
<1> QED
  BY <1>5, <1>6

LEMMA SwapStep ==
  ASSUME SH!SwapHelperAssumption, PlanInv, RoleInv, [SH!Next]_SH!vars
  PROVE  PlanInv' /\ RoleInv'
<1>1. CASE SH!Plan
  BY <1>1, PlanStep
<1>2. CASE SH!InstallUnified
  BY <1>2, SwapInstallStep
<1>3. CASE SH!RunStart \/ UNCHANGED SH!vars
  <2>1. UNCHANGED <<sessions, planned, next, swapApps>>
    BY <1>3 DEF SH!RunStart, SH!vars
  <2> QED
    BY <2>1 DEF PlanInv, RoleInv, SetUpAs, SH!Plain
<1> QED
  BY <1>1, <1>2, <1>3 DEF SH!Next

-----------------------------------------------------------------------------
LEMMA RolesOf ==
  ASSUME SH!SwapHelperAssumption, PlanInv,
         NEW i \in SH!Sids, SH!Plain(i), NEW s, SetUpAs(i, s)
  PROVE  /\ Cardinality(SH!WithRole(i, "prev")) = 1 /\ Cardinality(SH!WithRole(i, "next")) = 1
         /\ {swapApps[m][i].nextPeer : m \in SH!Known(i) \ SH!WithRole(i, "next")}
              = SH!Known(i) \ SH!WithRole(i, "prev")
         /\ \A m, k \in SH!Known(i) : /\ swapApps[m][i].start = swapApps[k][i].start
                                      /\ swapApps[m][i].end \in SH!WithRole(i, "next")
         /\ \A m \in SH!WithRole(i, "next") :
              swapApps[m][i].expectedMsgs = Cardinality(SH!WithRole(i, "repeater"))
<1> DEFINE p == s.path
           n == Len(p)
<1>1. p \in Seq(SH!Nodes) /\ n \in Nat /\ n >= 2 /\ DOMAIN p = 1..n /\ s \in SwapSession
  BY DEF SetUpAs, SwapSession
<1>2. \A j, k \in 1..n : p[j] = p[k] => j = k
  <2>1. PICK l \in DOMAIN sessions : sessions[l].sid = i /\ sessions[l].path = p
    BY DEF SetUpAs
  <2>2. \A x, y \in DOMAIN sessions[l].path : sessions[l].path[x] = sessions[l].path[y] => x = y
    BY <2>1 DEF SH!Plain
  <2> QED
    BY <1>1, <2>1, <2>2
<1>3. SH!OnPath(s) = {p[j] : j \in 1..n} /\ SH!OnPath(s) \subseteq SH!Nodes
  BY <1>1 DEF SH!OnPath
<1>4. \A j \in 1..n : swapApps[p[j]][i] = SH!ConfigOf(s, j)
  <2> SUFFICES ASSUME NEW j \in 1..n  PROVE swapApps[p[j]][i] = SH!ConfigOf(s, j)
    OBVIOUS
  <2>1. SH!Place(s, p[j]) = j
    <3>1. CASE j = 1 \/ j = n
      BY <1>1, <1>2, <3>1 DEF SH!Place
    <3>2. CASE j # 1 /\ j # n
      <4>1. p[j] # p[1] /\ p[j] # p[n]
        BY <1>1, <1>2, <3>2
      <4>2. \A k \in DOMAIN p : p[k] = p[j] => k = j
        BY <1>1, <1>2
      <4> HIDE DEF n
      <4> QED
        BY <1>1, <4>1, <4>2 DEF SH!Place, n
    <3> QED
      BY <3>1, <3>2
  <2> QED
    BY <1>3, <2>1 DEF SetUpAs
<1>5. SH!Known(i) = {p[j] : j \in 1..n}
  <2>1. \A m \in SH!Nodes \ SH!OnPath(s) : swapApps[m][i] = SH!NotThere
    BY DEF SetUpAs
  <2>2. \A j \in 1..n : swapApps[p[j]][i] # SH!NotThere
    BY <1>1, <1>4, Configured
  <2> HIDE DEF p, n
  <2> QED
    BY <1>3, <2>1, <2>2 DEF SH!Known
<1>6. \A j \in 1..n :
        /\ swapApps[p[j]][i].role = IF j = 1 THEN "prev" ELSE IF j = n THEN "next" ELSE "repeater"
        /\ swapApps[p[j]][i].start = s.start
        /\ swapApps[p[j]][i].nextPeer = IF j < n THEN p[j + 1] ELSE p[j]
        /\ swapApps[p[j]][i].end = p[n]
        /\ swapApps[p[j]][i].expectedMsgs = n - 2
  <2> SUFFICES ASSUME NEW j \in 1..n
               PROVE  /\ SH!ConfigOf(s, j).role = IF j = 1 THEN "prev" ELSE IF j = n THEN "next" ELSE "repeater"
                      /\ SH!ConfigOf(s, j).start = s.start
                      /\ SH!ConfigOf(s, j).nextPeer = IF j < n THEN p[j + 1] ELSE p[j]
                      /\ SH!ConfigOf(s, j).end = p[n]
                      /\ SH!ConfigOf(s, j).expectedMsgs = n - 2
    <3> HIDE DEF p, n
    <3> QED
      BY <1>4
  <2> QED
    BY DEF SH!ConfigOf
<1> HIDE DEF p, n
<1>7. /\ SH!WithRole(i, "prev") = {p[1]}
      /\ SH!WithRole(i, "next") = {p[n]}
      /\ SH!WithRole(i, "repeater") = {p[j] : j \in 2..(n - 1)}
  <2>1. \A role : SH!WithRole(i, role) = {p[j] : j \in {k \in 1..n : swapApps[p[k]][i].role = role}}
    BY <1>5 DEF SH!WithRole
  <2>2. /\ {k \in 1..n : swapApps[p[k]][i].role = "prev"} = {1}
        /\ {k \in 1..n : swapApps[p[k]][i].role = "next"} = {n}
        /\ {k \in 1..n : swapApps[p[k]][i].role = "repeater"} = 2..(n - 1)
    BY <1>1, <1>6
  <2> QED
    BY <2>1, <2>2
<1>8. Cardinality(SH!WithRole(i, "prev")) = 1 /\ Cardinality(SH!WithRole(i, "next")) = 1
  BY <1>7, FS_Singleton
<1>9. {swapApps[m][i].nextPeer : m \in SH!Known(i) \ SH!WithRole(i, "next")}
        = SH!Known(i) \ SH!WithRole(i, "prev")
  <2>1. SH!Known(i) \ SH!WithRole(i, "next") = {p[j] : j \in 1..(n - 1)}
    BY <1>1, <1>2, <1>5, <1>7
  <2>2. SH!Known(i) \ SH!WithRole(i, "prev") = {p[j + 1] : j \in 1..(n - 1)}
    <3>1. \A j \in 2..n : j - 1 \in 1..(n - 1) /\ (j - 1) + 1 = j
      BY <1>1
    <3>2. {p[j + 1] : j \in 1..(n - 1)} = {p[j] : j \in 2..n}
      BY <1>1, <3>1
    <3> QED
      BY <1>1, <1>2, <1>5, <1>7, <3>2
  <2>3. \A j \in 1..(n - 1) : swapApps[p[j]][i].nextPeer = p[j + 1]
    BY <1>1, <1>6
  <2> QED
    BY <2>1, <2>2, <2>3
<1>10. \A m, k \in SH!Known(i) : /\ swapApps[m][i].start = swapApps[k][i].start
                                 /\ swapApps[m][i].end \in SH!WithRole(i, "next")
  BY <1>5, <1>6, <1>7
<1>11. Cardinality(SH!WithRole(i, "repeater")) = n - 2
  <2> DEFINE g == [j \in 2..(n - 1) |-> p[j]]
             R == {p[j] : j \in 2..(n - 1)}
  <2>1. g \in Bijection(2..(n - 1), R)
    <3>1. g \in Injection(2..(n - 1), R)
      BY <1>1, <1>2 DEF Injection, IsInjective
    <3>2. g \in Surjection(2..(n - 1), R)
      BY DEF Surjection
    <3> QED
      BY <3>1, <3>2 DEF Bijection
  <2>2. 2 \in Int /\ n - 1 \in Int
    BY <1>1
  <2>3. IsFiniteSet(2..(n - 1)) /\ Cardinality(2..(n - 1)) = IF 2 > n - 1 THEN 0 ELSE (n - 1) - 2 + 1
    BY ONLY <2>2, FS_Interval
  <2>4. Cardinality(2..(n - 1)) = n - 2
    BY <1>1, <2>3
  <2> HIDE DEF g, R
  <2>5. Cardinality(R) = Cardinality(2..(n - 1))
    <3>1. ExistsBijection(2..(n - 1), R)
      BY <2>1 DEF ExistsBijection
    <3> QED
      BY ONLY <2>3, <3>1, FS_Bijection
  <2> QED
    BY <1>7, <2>4, <2>5 DEF R
<1>12. \A m \in SH!WithRole(i, "next") :
         swapApps[m][i].expectedMsgs = Cardinality(SH!WithRole(i, "repeater"))
  BY <1>1, <1>6, <1>7, <1>11
<1> QED
  BY <1>8, <1>9, <1>10, <1>12

LEMMA RolesGive ==
  ASSUME SH!SwapHelperAssumption, PlanInv, RoleInv
  PROVE  SH!RolesAgree
<1> SUFFICES ASSUME NEW i \in SH!Sids, SH!Plain(i), SH!Known(i) # {}
             PROVE  /\ SH!Cardinality(SH!WithRole(i, "prev")) = 1
                    /\ SH!Cardinality(SH!WithRole(i, "next")) = 1
                    /\ {swapApps[m][i].nextPeer : m \in SH!Known(i) \ SH!WithRole(i, "next")}
                         = SH!Known(i) \ SH!WithRole(i, "prev")
                    /\ \A m, k \in SH!Known(i) : /\ swapApps[m][i].start = swapApps[k][i].start
                                                 /\ swapApps[m][i].end \in SH!WithRole(i, "next")
                    /\ \A m \in SH!WithRole(i, "next") :
                         swapApps[m][i].expectedMsgs = SH!Cardinality(SH!WithRole(i, "repeater"))
  BY DEF SH!RolesAgree
<1>1. PICK s : SetUpAs(i, s)
  BY DEF RoleInv, SH!Known
<1> QED
  BY <1>1, RolesOf, RoleCount

(* The apps of a session agree on roles, order, start and count.           *)
THEOREM RolesAgreeAlways ==
  ASSUME SH!SwapHelperAssumption
  PROVE  SH!Spec => []SH!RolesAgree
<1>1. SH!Init => PlanInv /\ RoleInv
  BY SwapInit
<1>2. PlanInv /\ RoleInv /\ [SH!Next]_SH!vars => PlanInv' /\ RoleInv'
  BY SwapStep
<1>3. PlanInv /\ RoleInv => SH!RolesAgree
  BY RolesGive
<1> QED
  BY <1>1, <1>2, <1>3, PTL DEF SH!Spec

-----------------------------------------------------------------------------
(* ClassicalNetworkBuilder: addresses and routes.                          *)

LEMMA Smallest ==
  ASSUME NEW S, S \subseteq Nat, S # {}
  PROVE  \E x \in S : \A y \in S : x <= y
<1>1. PICK x \in S : \A y \in S : <<y, x>> \notin OpToRel(<, Nat)
  BY NatLessThanWellFounded, WFMin, Zenon
<1>2. \A y \in S : ~(y < x)
  BY <1>1 DEF OpToRel
<1> QED
  BY <1>2

LEMMA NameCount ==
  ASSUME NEW S
  PROVE  /\ NB!Cardinality(S) = Cardinality(S)
         /\ NB!IsFiniteSet(S) <=> IsFiniteSet(S)
BY DEF NB!Cardinality, Cardinality, NB!IsFiniteSet, IsFiniteSet

(* Who is on segment g of the configuration c, and the addresses by place. *)
Here(c, g) == IF g <= Len(c.links) THEN c.links[g] ELSE c.lans[g - Len(c.links)]
AddressAt(c, g, i) ==
  IF c.family = "v6" THEN <<g, i>> ELSE <<IF g <= Len(c.links) THEN 1 + g ELSE 1, i>>
SegmentsOf(c) == Len(c.links) + Len(c.lans)

LEMMA Configuration ==
  /\ NB!Segments = SegmentsOf(config)
  /\ \A g : NB!Members(g) = Here(config, g)
  /\ \A g, i : NB!AddressOf(g, i) = AddressAt(config, g, i)
BY DEF NB!Segments, NB!LinkCount, NB!Members, NB!IsLink, NB!AddressOf, NB!LanSubnet,
       SegmentsOf, Here, AddressAt

(* How far the building is.                                                *)
Stages == [segment : Nat \ {0}, devices : Nat]
BuiltInv ==
  /\ config \in Networks /\ built \in Stages
  /\ built.segment <= SegmentsOf(config) + 1

(* An address that has been given at stage b, and the addresses that may   *)
(* have been given twice.                                                  *)
GivenAt(c, b, x) ==
  \E g \in Nat \ {0}, i \in Nat :
    /\ g < b.segment \/ (g = b.segment /\ i <= b.devices)
    /\ x = AddressAt(c, g, i)
Repeats(c, b) ==
  {x \in Int \X Int : c.family = "v4" /\ x[1] = 1 /\ b.segment > Len(c.links) + 1}

(* A value that the sequences of f give twice is in R.                     *)
ApartBut(f, R) ==
  \A m, k \in Hosts : \A i \in DOMAIN f[m], j \in DOMAIN f[k] :
    f[m][i] = f[k][j] => (m = k /\ i = j) \/ f[m][i] \in R

(* An address on a segment is that of a place of its node there.           *)
SegmentInv ==
  /\ segIf = [m \in Hosts |-> segIf[m]]
  /\ \A m \in Hosts : \A g \in DOMAIN segIf[m] : Here(config, g)[segIf[m][g][2]] = m
GivenInv ==
  /\ addrs \in [Hosts -> Seq(Int \X Int)]
  /\ \A m \in Hosts : \A i \in DOMAIN addrs[m] : GivenAt(config, built, addrs[m][i])
  /\ ApartBut(addrs, Repeats(config, built))

NetworkInv == BuiltInv /\ SegmentInv /\ GivenInv

LEMMA ConfigTyped ==
  ASSUME NB!BuilderAssumption, BuiltInv
  PROVE  /\ config.links \in Seq(Hosts \X Hosts) /\ config.lans \in Seq(Seq(Hosts))
         /\ Len(config.links) \in Nat /\ Len(config.lans) \in Nat
         /\ config.family \in {"v4", "v6"} /\ SegmentsOf(config) \in Nat
         /\ built.segment \in Nat \ {0} /\ built.devices \in Nat
         /\ built = [segment |-> built.segment, devices |-> built.devices]
<1>1. config \in [family : {"v4", "v6"}, links : Seq(Hosts \X Hosts), lans : Seq(Seq(Hosts))]
  BY DEF NB!BuilderAssumption, BuiltInv
<1>2. built \in [segment : Nat \ {0}, devices : Nat]
  BY DEF BuiltInv, Stages
<1> QED
  BY <1>1, <1>2 DEF SegmentsOf

LEMMA BuildInit ==
  ASSUME NB!BuilderAssumption, NB!Init
  PROVE  NetworkInv
<1>1. config \in [family : {"v4", "v6"}, links : Seq(Hosts \X Hosts), lans : Seq(Seq(Hosts))]
  BY DEF NB!BuilderAssumption, NB!Init
<1>2. BuiltInv
  BY <1>1 DEF NB!Init, BuiltInv, Stages, SegmentsOf
<1>3. /\ addrs = [m \in Hosts |-> <<>>] /\ segIf = [m \in Hosts |-> <<>>]
      /\ \A m \in Hosts : DOMAIN segIf[m] = {} /\ DOMAIN addrs[m] = {}
  BY DEF NB!Init
<1>4. SegmentInv
  BY <1>3 DEF SegmentInv
<1>5. addrs \in [Hosts -> Seq(Int \X Int)]
  BY <1>3
<1>6. GivenInv
  BY <1>3, <1>5 DEF GivenInv, ApartBut
<1> QED
  BY <1>2, <1>4, <1>6 DEF NetworkInv

LEMMA AppendApart ==
  ASSUME NEW f \in [Hosts -> Seq(Int \X Int)], NEW u \in Hosts, NEW x \in Int \X Int,
         NEW R, ApartBut(f, R),
         \A m \in Hosts : \A i \in DOMAIN f[m] : f[m][i] = x => x \in R
  PROVE  ApartBut([f EXCEPT ![u] = Append(@, x)], R)
<1> DEFINE e == [f EXCEPT ![u] = Append(@, x)]
<1>1. \A m \in Hosts : \A i \in DOMAIN e[m] :
        \/ i \in DOMAIN f[m] /\ e[m][i] = f[m][i]
        \/ m = u /\ i = Len(f[u]) + 1 /\ e[m][i] = x
  <2> SUFFICES ASSUME NEW m \in Hosts, NEW i \in DOMAIN e[m]
               PROVE  \/ i \in DOMAIN f[m] /\ e[m][i] = f[m][i]
                      \/ m = u /\ i = Len(f[u]) + 1 /\ e[m][i] = x
    OBVIOUS
  <2>1. CASE m # u
    BY <2>1
  <2>2. CASE m = u
    <3>1. e[m] = Append(f[u], x) /\ f[u] \in Seq(Int \X Int)
      BY <2>2
    <3> QED
      BY <2>2, <3>1
  <2> QED
    BY <2>1, <2>2
<1> HIDE DEF e
<1>2. SUFFICES ASSUME NEW m \in Hosts, NEW k \in Hosts, NEW i \in DOMAIN e[m],
                      NEW j \in DOMAIN e[k], e[m][i] = e[k][j]
               PROVE  (m = k /\ i = j) \/ e[m][i] \in R
  BY DEF ApartBut, e
<1>3. CASE i \in DOMAIN f[m] /\ e[m][i] = f[m][i]
  <2>1. CASE j \in DOMAIN f[k] /\ e[k][j] = f[k][j]
    BY <1>2, <1>3, <2>1 DEF ApartBut
  <2>2. CASE e[k][j] = x
    BY <1>2, <1>3, <2>2
  <2> QED
    BY <1>1, <2>1, <2>2
<1>4. CASE m = u /\ i = Len(f[u]) + 1 /\ e[m][i] = x
  <2>1. CASE j \in DOMAIN f[k] /\ e[k][j] = f[k][j]
    BY <1>2, <1>4, <2>1
  <2>2. CASE k = u /\ j = Len(f[u]) + 1
    BY <1>4, <2>2
  <2> QED
    BY <1>1, <2>1, <2>2
<1> QED
  BY <1>1, <1>3, <1>4

(* The address of the next place is new, except on the second LAN of IPv4. *)
LEMMA NextAddress ==
  ASSUME NB!BuilderAssumption, BuiltInv, NEW x, GivenAt(config, built, x),
         x = AddressAt(config, built.segment, built.devices + 1)
  PROVE  x \in Repeats(config, built)
<1> DEFINE n == Len(config.links)
           s == built.segment
           d == built.devices
<1>1. n \in Nat /\ s \in Nat \ {0} /\ d \in Nat /\ config.family \in {"v4", "v6"}
  BY ConfigTyped
<1>2. PICK g \in Nat \ {0}, i \in Nat :
        (g < s \/ (g = s /\ i <= d)) /\ x = AddressAt(config, g, i)
  BY DEF GivenAt
<1> HIDE DEF n, s, d
<1>3. CASE config.family = "v6"
  <2>1. x = <<g, i>> /\ x = <<s, d + 1>>
    BY <1>2, <1>3 DEF AddressAt, s, d
  <2> QED
    BY <1>1, <1>2, <2>1
<1>4. CASE config.family = "v4"
  <2>1. /\ x = <<IF g <= n THEN 1 + g ELSE 1, i>>
        /\ x = <<IF s <= n THEN 1 + s ELSE 1, d + 1>>
    BY <1>2, <1>4 DEF AddressAt, s, d, n
  <2>2. i = d + 1 /\ (IF g <= n THEN 1 + g ELSE 1) = IF s <= n THEN 1 + s ELSE 1
    BY <2>1
  <2>3. s > n + 1 /\ x = <<1, d + 1>>
    BY <1>1, <1>2, <2>1, <2>2
  <2> QED
    BY <1>1, <1>4, <2>3 DEF Repeats, s, n
<1> QED
  BY <1>1, <1>3, <1>4

LEMMA AttachInv ==
  ASSUME NB!BuilderAssumption, NetworkInv, NB!AttachDevice
  PROVE  NetworkInv'
<1> DEFINE g == built.segment
           i == built.devices + 1
           m == Here(config, g)[i]
           x == AddressAt(config, g, i)
<1>1. /\ g \in Nat \ {0} /\ built.devices \in Nat /\ i \in Nat \ {0}
      /\ built = [segment |-> g, devices |-> built.devices]
      /\ SegmentsOf(config) \in Nat /\ Len(config.links) \in Nat /\ Len(config.lans) \in Nat
      /\ config.links \in Seq(Hosts \X Hosts) /\ config.lans \in Seq(Seq(Hosts))
  BY ConfigTyped DEF NetworkInv
<1>2. /\ g <= SegmentsOf(config) /\ i \in DOMAIN Here(config, g)
      /\ built' = [built EXCEPT !.devices = i]
      /\ addrs' = [addrs EXCEPT ![m] = Append(@, x)]
      /\ segIf' = [segIf EXCEPT ![m] =
                     [h \in DOMAIN @ \cup {g} |-> IF h = g THEN x ELSE @[h]]]
      /\ config' = config
  BY Configuration DEF NB!AttachDevice
<1>3. m \in Hosts
  <2> DEFINE n == Len(config.links)
  <2>1. /\ g \in Nat \ {0} /\ n \in Nat /\ Len(config.lans) \in Nat
        /\ g <= n + Len(config.lans) /\ i \in DOMAIN Here(config, g)
        /\ config.links \in Seq(Hosts \X Hosts) /\ config.lans \in Seq(Seq(Hosts))
        /\ Here(config, g) = IF g <= n THEN config.links[g] ELSE config.lans[g - n]
    BY <1>1, <1>2 DEF SegmentsOf, Here
  <2>2. CASE g <= n
    <3> HIDE DEF n, g, i
    <3>1. config.links[g] \in Hosts \X Hosts
      <4>1. g \in 1..n /\ n = Len(config.links)
        BY <2>1, <2>2 DEF n
      <4> QED
        BY <2>1, <4>1
    <3>2. \A p \in Hosts \X Hosts : \A k \in DOMAIN p : p[k] \in Hosts
      OBVIOUS
    <3>3. i \in DOMAIN config.links[g] /\ m = config.links[g][i]
      BY <2>1, <2>2
    <3> QED
      BY <3>1, <3>2, <3>3
  <2>3. CASE ~(g <= n)
    <3> HIDE DEF n, g, i
    <3>1. g - n \in 1..Len(config.lans)
      BY <2>1, <2>3
    <3>2. config.lans[g - n] \in Seq(Hosts)
      BY <2>1, <3>1
    <3>3. Here(config, g) \in Seq(Hosts)
      BY <2>1, <2>3, <3>2
    <3> QED
      BY <2>1, <3>3
  <2> QED
    BY <2>2, <2>3
<1>4. /\ built' = [segment |-> g, devices |-> i]
      /\ built'.segment = g /\ built'.devices = i
  BY <1>1, <1>2
<1>5. x \in Int \X Int /\ x[2] = i
  BY <1>1 DEF AddressAt
<1>6. BuiltInv'
  <2>1. built' \in Stages
    BY <1>1, <1>4 DEF Stages
  <2>2. g <= SegmentsOf(config) + 1
    BY <1>1, <1>2
  <2> QED
    BY <1>2, <1>4, <2>1, <2>2 DEF NetworkInv, BuiltInv
<1> HIDE DEF g, i, m, x
<1>7. SegmentInv'
  <2> DEFINE u == [h \in DOMAIN segIf[m] \cup {g} |-> IF h = g THEN x ELSE segIf[m][h]]
  <2>1. segIf' = [k \in Hosts |-> IF k = m THEN u ELSE segIf[k]]
    BY <1>2, <1>3 DEF NetworkInv, SegmentInv
  <2>2. \A h \in DOMAIN u : Here(config, h)[u[h][2]] = m
    BY <1>3, <1>5 DEF NetworkInv, SegmentInv, m
  <2> HIDE DEF u
  <2> QED
    BY <1>2, <2>1, <2>2 DEF NetworkInv, SegmentInv
<1>8. GivenInv'
  <2>1. addrs \in [Hosts -> Seq(Int \X Int)]
    BY DEF NetworkInv, GivenInv
  <2>2. addrs[m] \in Seq(Int \X Int) /\ Append(addrs[m], x) \in Seq(Int \X Int)
    BY <1>3, <1>5, <2>1
  <2>3. addrs' \in [Hosts -> Seq(Int \X Int)]
    BY <1>2, <1>3, <2>1, <2>2
  <2>4. GivenAt(config, built', x)
    BY <1>1, <1>4 DEF GivenAt, x
  <2>5. \A y : GivenAt(config, built, y) => GivenAt(config, built', y)
    BY <1>1, <1>4 DEF GivenAt, g, i
  <2>6. \A k \in Hosts : \A j \in DOMAIN addrs'[k] : GivenAt(config, built', addrs'[k][j])
    <3> SUFFICES ASSUME NEW k \in Hosts, NEW j \in DOMAIN addrs'[k]
                 PROVE  GivenAt(config, built', addrs'[k][j])
      OBVIOUS
    <3>1. CASE k # m
      <4>1. addrs'[k] = addrs[k]
        BY <1>2, <2>1, <3>1
      <4> QED
        BY <2>5, <4>1 DEF NetworkInv, GivenInv
    <3>2. CASE k = m
      <4>1. addrs'[k] = Append(addrs[m], x)
        BY <1>2, <1>3, <2>1, <3>2
      <4>2. (j \in DOMAIN addrs[m] /\ addrs'[k][j] = addrs[m][j]) \/ addrs'[k][j] = x
        BY <2>2, <4>1
      <4> QED
        BY <1>3, <2>4, <2>5, <4>2 DEF NetworkInv, GivenInv
    <3> QED
      BY <3>1, <3>2
  <2>7. \A k \in Hosts : \A j \in DOMAIN addrs[k] :
          addrs[k][j] = x => x \in Repeats(config, built)
    BY NextAddress DEF NetworkInv, GivenInv, x, g, i
  <2> DEFINE R == Repeats(config, built)
  <2>8. ApartBut(addrs, R)
    BY DEF NetworkInv, GivenInv
  <2> HIDE DEF R
  <2>9. ApartBut([addrs EXCEPT ![m] = Append(@, x)], R)
    BY <1>3, <1>5, <2>1, <2>7, <2>8, AppendApart DEF R
  <2>10. Repeats(config, built') = R
    BY <1>4 DEF Repeats, R, g
  <2> QED
    BY <1>2, <2>3, <2>6, <2>9, <2>10 DEF GivenInv
<1> QED
  BY <1>6, <1>7, <1>8 DEF NetworkInv

LEMMA NextSegmentInv ==
  ASSUME NB!BuilderAssumption, NetworkInv, NB!NextSegment
  PROVE  NetworkInv'
<1>1. /\ built.segment \in Nat \ {0} /\ built.devices \in Nat
      /\ SegmentsOf(config) \in Nat /\ Len(config.links) \in Nat
  BY ConfigTyped DEF NetworkInv
<1>2. /\ built.segment <= SegmentsOf(config)
      /\ built' = [segment |-> built.segment + 1, devices |-> 0]
      /\ UNCHANGED <<config, addrs, segIf>>
  BY Configuration DEF NB!NextSegment
<1>3. built'.segment = built.segment + 1 /\ built'.devices = 0
  BY <1>2
<1>4. BuiltInv'
  BY <1>1, <1>2, <1>3 DEF NetworkInv, BuiltInv, Stages
<1>5. \A y : GivenAt(config, built, y) => GivenAt(config, built', y)
  BY <1>1, <1>3 DEF GivenAt
<1>6. Repeats(config, built) \subseteq Repeats(config, built')
  BY <1>1, <1>3 DEF Repeats
<1>7. ApartBut(addrs, Repeats(config, built'))
  BY <1>6 DEF NetworkInv, GivenInv, ApartBut
<1> QED
  BY <1>2, <1>4, <1>5, <1>7 DEF NetworkInv, SegmentInv, GivenInv

(* No other step touches what was built.                                   *)
SearchOrSend ==
  \/ \E a \in Hosts : NB!StartSearch(a) \/ NB!Visit(a)
  \/ NB!Pop \/ NB!InstallRoutes
  \/ \E a, b \in Hosts : NB!SendControl(a, b)
  \/ NB!Forward

LEMMA BuiltKept ==
  ASSUME SearchOrSend \/ UNCHANGED NB!vars
  PROVE  UNCHANGED <<config, built, addrs, segIf>>
BY Zenon DEF SearchOrSend, NB!StartSearch, NB!Visit, NB!Pop, NB!InstallRoutes, NB!SendControl,
       NB!Forward, NB!vars

LEMMA NetworkKept ==
  ASSUME NetworkInv, UNCHANGED <<config, built, addrs, segIf>>
  PROVE  NetworkInv'
BY DEF NetworkInv, BuiltInv, SegmentInv, GivenInv, ApartBut

LEMMA BuildStep ==
  ASSUME NB!BuilderAssumption, NetworkInv, [NB!Next]_NB!vars
  PROVE  NetworkInv'
<1>1. NB!AttachDevice \/ NB!NextSegment \/ SearchOrSend \/ UNCHANGED NB!vars
  BY DEF NB!Next, SearchOrSend
<1> QED
  BY <1>1, AttachInv, NextSegmentInv, BuiltKept, NetworkKept

LEMMA BuiltGives ==
  ASSUME NetworkInv
  PROVE  NB!AddressesUnique
<1>1. \A x \in Repeats(config, built) : NB!OfLan(x) /\ NB!SecondLan
  BY DEF Repeats, NB!OfLan, NB!SecondLan, NB!LanSubnet, NB!LinkCount
<1>2. ApartBut(addrs, Repeats(config, built))
  BY DEF NetworkInv, GivenInv
<1> QED
  BY <1>1, <1>2 DEF ApartBut, NB!AddressesUnique

(* No two devices of a built network share an address, except on the LANs  *)
(* of an IPv4 network with more than one                                   *)
(* (helper/q2ns-classical-network-builder.cc:193).                         *)
THEOREM InterfacesUnique ==
  ASSUME NB!BuilderAssumption
  PROVE  NB!Spec => []NB!AddressesUnique
<1>1. NB!Init => NetworkInv
  BY BuildInit
<1>2. NetworkInv /\ [NB!Next]_NB!vars => NetworkInv'
  BY BuildStep
<1>3. NetworkInv => NB!AddressesUnique
  BY BuiltGives
<1> QED
  BY <1>1, <1>2, <1>3, PTL DEF NB!Spec

-----------------------------------------------------------------------------
(* The search from one node, over any segments.                            *)

SharedIn(s, a, b) == DOMAIN s[a] \cap DOMAIN s[b]
NeighboursIn(s, a) == {b \in Hosts \ {a} : SharedIn(s, a, b) # {}}
EdgesIn(s) == {e \in Hosts \X Hosts : e[2] \in NeighboursIn(s, e[1])}

WalkOver(E, a, b, n) ==
  \E w \in [0..n -> Hosts] :
    /\ w[0] = a /\ w[n] = b
    /\ \A i \in 1..n : <<w[i - 1], w[i]>> \in E
ReachableOver(E, a) == {b \in Hosts : \E n \in NB!Lengths : WalkOver(E, a, b, n)}
DistanceOver(E, a, b) ==
  CHOOSE n \in NB!Lengths : WalkOver(E, a, b, n) /\ \A k \in 0..(n - 1) : ~WalkOver(E, a, b, k)

LEMMA Adjacency ==
  \A b : \A a \in Hosts : b \in NB!Adjacent(a) <=> <<a, b>> \in EdgesIn(segIf)
BY DEF EdgesIn, NeighboursIn, SharedIn, NB!Adjacent, NB!Shared

LEMMA Walks ==
  \A a, b : \A n \in Nat : NB!Walk(a, b, n) <=> WalkOver(EdgesIn(segIf), a, b, n)
<1> SUFFICES ASSUME NEW a, NEW b, NEW n \in Nat
             PROVE  NB!Walk(a, b, n) <=> WalkOver(EdgesIn(segIf), a, b, n)
  OBVIOUS
<1> DEFINE W(w) == /\ w[0] = a /\ w[n] = b
                   /\ \A i \in 1..n : w[i] \in NB!Adjacent(w[i - 1])
           V(w) == /\ w[0] = a /\ w[n] = b
                   /\ \A i \in 1..n : <<w[i - 1], w[i]>> \in EdgesIn(segIf)
<1>1. ASSUME NEW w \in [0..n -> Hosts]
      PROVE  W(w) <=> V(w)
  <2>1. \A i \in 1..n : i - 1 \in 0..n => w[i - 1] \in Hosts
    BY <1>1
  <2>2. \A i \in 1..n : i - 1 \in 0..n
    OBVIOUS
  <2> QED
    BY <2>1, <2>2, Adjacency
<1>2. NB!Walk(a, b, n) <=> \E w \in [0..n -> Hosts] : W(w)
  BY DEF NB!Walk
<1>3. WalkOver(EdgesIn(segIf), a, b, n) <=> \E w \in [0..n -> Hosts] : V(w)
  BY DEF WalkOver
<1> QED
  BY <1>1, <1>2, <1>3

LEMMA HostCount ==
  ASSUME NB!BuilderAssumption
  PROVE  /\ Cardinality(Hosts) \in Nat \ {0} /\ IsFiniteSet(Hosts) /\ 0 \notin Hosts
         /\ Hosts \subseteq Nat /\ NB!Lengths = 0..(Cardinality(Hosts) - 1)
<1>1. IsFiniteSet(Hosts) /\ Hosts # {} /\ Hosts \subseteq Nat \ {0}
  BY NameCount DEF NB!BuilderAssumption
<1>2. Cardinality(Hosts) \in Nat /\ Cardinality(Hosts) # 0
  BY <1>1, FS_CardinalityType, FS_EmptySet
<1>3. NB!Lengths = 0..(Cardinality(Hosts) - 1)
  BY NameCount DEF NB!Lengths
<1> QED
  BY <1>1, <1>2, <1>3

LEMMA Distances ==
  ASSUME NB!BuilderAssumption
  PROVE  \A a, b : /\ NB!Reachable(a) = ReachableOver(EdgesIn(segIf), a)
                   /\ NB!Distance(a, b) = DistanceOver(EdgesIn(segIf), a, b)
<1>1. NB!Lengths \subseteq Nat /\ \A n \in NB!Lengths : 0..(n - 1) \subseteq Nat
  BY HostCount
<1>2. \A a, b : \A n \in NB!Lengths :
        /\ NB!Walk(a, b, n) <=> WalkOver(EdgesIn(segIf), a, b, n)
        /\ \A k \in 0..(n - 1) : NB!Walk(a, b, k) <=> WalkOver(EdgesIn(segIf), a, b, k)
  BY <1>1, Walks
<1> QED
  BY <1>2 DEF NB!Reachable, NB!Distance, ReachableOver, DistanceOver

(* There is a shortest of several walks.                                   *)
LEMMA Shortest ==
  ASSUME NB!BuilderAssumption, NEW E, NEW a, NEW b, NEW n \in NB!Lengths, WalkOver(E, a, b, n)
  PROVE  /\ DistanceOver(E, a, b) \in Nat /\ DistanceOver(E, a, b) <= n
         /\ WalkOver(E, a, b, DistanceOver(E, a, b))
<1> DEFINE S == {k \in Nat : WalkOver(E, a, b, k)}
<1>1. n \in S /\ NB!Lengths = 0..(Cardinality(Hosts) - 1) /\ Cardinality(Hosts) \in Nat
  BY HostCount
<1> HIDE DEF S
<1>2. S \subseteq Nat /\ S # {}
  BY <1>1 DEF S
<1>3. PICK x \in S : \A y \in S : x <= y
  BY <1>2, Smallest
<1>4. x \in Nat /\ x <= n /\ WalkOver(E, a, b, x)
  BY <1>1, <1>3 DEF S
<1>5. \A k \in 0..(x - 1) : ~WalkOver(E, a, b, k)
  BY <1>3, <1>4 DEF S
<1> DEFINE D(m) == WalkOver(E, a, b, m) /\ \A k \in 0..(m - 1) : ~WalkOver(E, a, b, k)
<1>6. x \in NB!Lengths /\ D(x)
  BY <1>1, <1>4, <1>5
<1>7. DistanceOver(E, a, b) = CHOOSE m \in NB!Lengths : D(m)
  BY DEF DistanceOver
<1>8. DistanceOver(E, a, b) \in NB!Lengths /\ D(DistanceOver(E, a, b))
  BY <1>6, <1>7
<1>9. DistanceOver(E, a, b) \in Nat
  BY <1>1, <1>8
<1>10. DistanceOver(E, a, b) <= n
  <2>1. CASE n < DistanceOver(E, a, b)
    <3>1. n \in 0..(DistanceOver(E, a, b) - 1)
      BY <1>1, <1>9, <2>1
    <3> QED
      BY <1>8, <3>1
  <2> QED
    BY <1>1, <1>9, <2>1
<1> QED
  BY <1>8, <1>9, <1>10

-----------------------------------------------------------------------------
(* A search t over the edges E with the levels lv: parents are one level   *)
(* up; the queue is in the order of the levels and spans two at most; the  *)
(* neighbours of those that have left it are at most one level further.    *)
TreeTyped(t, lv) ==
  /\ t = [src |-> t.src, queue |-> t.queue, parent |-> t.parent]
  /\ DOMAIN t.parent \subseteq Hosts /\ t.src \in DOMAIN t.parent
  /\ t.parent[t.src] = 0
  /\ t.queue \in Seq(DOMAIN t.parent)
  /\ lv \in [DOMAIN t.parent -> Nat] /\ lv[t.src] = 0
TreeParents(E, t, lv) ==
  \A v \in DOMAIN t.parent \ {t.src} :
    /\ t.parent[v] \in DOMAIN t.parent /\ <<t.parent[v], v>> \in E
    /\ lv[v] = lv[t.parent[v]] + 1
TreeQueue(t, lv) ==
  /\ \A i, j \in DOMAIN t.queue : i <= j => lv[t.queue[i]] <= lv[t.queue[j]]
  /\ \A v \in DOMAIN t.parent, i \in DOMAIN t.queue : lv[v] <= lv[t.queue[i]] + 1
TreeClosed(E, t, lv) ==
  \A v \in DOMAIN t.parent :
    \/ \E i \in DOMAIN t.queue : t.queue[i] = v
    \/ \A w : <<v, w>> \in E => w \in DOMAIN t.parent /\ lv[w] <= lv[v] + 1
TreeSmall(t, lv) ==
  \A v \in DOMAIN t.parent : lv[v] < Cardinality(DOMAIN t.parent)
Tree(E, t, lv) ==
  /\ TreeTyped(t, lv) /\ TreeParents(E, t, lv) /\ TreeQueue(t, lv)
  /\ TreeClosed(E, t, lv) /\ TreeSmall(t, lv)

LEMMA TreeStart ==
  ASSUME NB!BuilderAssumption, NEW E, NEW a \in Hosts
  PROVE  Tree(E, [src |-> a, queue |-> <<a>>, parent |-> [m \in {a} |-> 0]], [m \in {a} |-> 0])
<1> DEFINE t == [src |-> a, queue |-> <<a>>, parent |-> [m \in {a} |-> 0]]
           lv == [m \in {a} |-> 0]
<1>1. /\ t.src = a /\ t.queue = <<a>> /\ DOMAIN t.parent = {a} /\ t.parent[a] = 0
      /\ t.queue \in Seq({a}) /\ DOMAIN t.queue = {1} /\ t.queue[1] = a
      /\ lv \in [{a} -> Nat] /\ lv[a] = 0
      /\ t = [src |-> t.src, queue |-> t.queue, parent |-> t.parent]
  OBVIOUS
<1>2. Cardinality({a}) = 1
  BY FS_Singleton
<1> HIDE DEF t, lv
<1>3. TreeTyped(t, lv) /\ TreeParents(E, t, lv) /\ TreeQueue(t, lv) /\ TreeClosed(E, t, lv)
  BY <1>1 DEF TreeTyped, TreeParents, TreeQueue, TreeClosed
<1>4. TreeSmall(t, lv)
  BY <1>1, <1>2 DEF TreeSmall
<1> QED
  BY <1>3, <1>4 DEF Tree, t, lv

LEMMA TreeFacts ==
  ASSUME NB!BuilderAssumption, NEW E, NEW t, NEW lv, Tree(E, t, lv)
  PROVE  /\ IsFiniteSet(DOMAIN t.parent) /\ Cardinality(DOMAIN t.parent) \in Nat
         /\ Cardinality(DOMAIN t.parent) <= Cardinality(Hosts)
         /\ \A v \in DOMAIN t.parent : lv[v] \in Nat
         /\ Len(t.queue) \in Nat /\ DOMAIN t.queue = 1..Len(t.queue)
         /\ t.queue # <<>> => /\ 1 \in DOMAIN t.queue /\ Head(t.queue) = t.queue[1]
                              /\ Head(t.queue) \in DOMAIN t.parent
<1>1. /\ DOMAIN t.parent \subseteq Hosts /\ t.queue \in Seq(DOMAIN t.parent)
      /\ lv \in [DOMAIN t.parent -> Nat]
  BY DEF Tree, TreeTyped
<1>2. IsFiniteSet(DOMAIN t.parent) /\ Cardinality(DOMAIN t.parent) <= Cardinality(Hosts)
  BY <1>1, HostCount, FS_Subset
<1>3. Cardinality(DOMAIN t.parent) \in Nat
  BY <1>2, FS_CardinalityType
<1> QED
  BY <1>1, <1>2, <1>3

Visited(t, v) ==
  [src |-> t.src, queue |-> Append(t.queue, v),
   parent |-> [m \in DOMAIN t.parent \cup {v} |-> IF m = v THEN Head(t.queue) ELSE t.parent[m]]]
Popped(t) == [src |-> t.src, queue |-> Tail(t.queue), parent |-> t.parent]

LEMMA TreeVisit ==
  ASSUME NB!BuilderAssumption, NEW E, NEW t, NEW lv, Tree(E, t, lv), t.queue # <<>>,
         NEW v \in Hosts, v \notin DOMAIN t.parent, <<Head(t.queue), v>> \in E,
         NEW u, u = Visited(t, v)
  PROVE  \E l : Tree(E, u, l)
<1> DEFINE D == DOMAIN t.parent
           h == Head(t.queue)
           l == [m \in D \cup {v} |-> IF m = v THEN lv[h] + 1 ELSE lv[m]]
           q == t.queue
           n == Len(t.queue)
<1>1. /\ h \in D /\ h = q[1] /\ n \in Nat \ {0} /\ DOMAIN q = 1..n
      /\ \A m \in D : lv[m] \in Nat
      /\ IsFiniteSet(D) /\ Cardinality(D) \in Nat
      /\ D \subseteq Hosts /\ t.src \in D /\ t.parent[t.src] = 0 /\ lv[t.src] = 0
  BY TreeFacts DEF Tree, TreeTyped
<1>0. q \in Seq(D)
  BY DEF Tree, TreeTyped
<1>2. /\ u.src = t.src /\ u.queue = Append(q, v) /\ DOMAIN u.parent = D \cup {v}
      /\ u.parent[v] = h /\ \A m \in D : u.parent[m] = t.parent[m]
      /\ u = [src |-> u.src, queue |-> u.queue, parent |-> u.parent]
  BY DEF Visited
<1>3. l \in [D \cup {v} -> Nat] /\ l[v] = lv[h] + 1 /\ \A m \in D : l[m] = lv[m]
  BY <1>1
<1>4. /\ u.queue \in Seq(D \cup {v}) /\ DOMAIN u.queue = 1..(n + 1)
      /\ u.queue[n + 1] = v /\ \A i \in 1..n : u.queue[i] = q[i] /\ q[i] \in D
  <2>1. q \in Seq(D \cup {v})
    BY <1>0
  <2>2. \A i \in 1..n : q[i] \in D
    BY <1>0, <1>1
  <2>3. n = Len(q)
    OBVIOUS
  <2> HIDE DEF D, q, n
  <2> QED
    BY <1>1, <1>2, <2>1, <2>2, <2>3
<1> HIDE DEF l, D, h, q, n
<1>5. TreeTyped(u, l)
  BY <1>1, <1>2, <1>3, <1>4 DEF TreeTyped
<1>6. TreeParents(E, u, l)
  <2>1. \A m \in D \ {t.src} : /\ t.parent[m] \in D /\ <<t.parent[m], m>> \in E
                               /\ lv[m] = lv[t.parent[m]] + 1
    BY DEF Tree, TreeParents, D
  <2>2. <<h, v>> \in E
    BY DEF h
  <2> SUFFICES ASSUME NEW m \in (D \cup {v}) \ {t.src}
               PROVE  /\ u.parent[m] \in D \cup {v} /\ <<u.parent[m], m>> \in E
                      /\ l[m] = l[u.parent[m]] + 1
    BY <1>2 DEF TreeParents
  <2>3. CASE m = v
    BY <1>1, <1>2, <1>3, <2>2, <2>3
  <2>4. CASE m \in D
    <3>1. u.parent[m] = t.parent[m]
      BY <1>2, <2>4
    <3> QED
      BY <1>3, <2>1, <2>4, <3>1
  <2> QED
    BY <2>3, <2>4
<1>7. \A m \in D, i \in 1..n : lv[m] <= lv[q[i]] + 1
  BY <1>1 DEF Tree, TreeQueue, D, q
<1>8. \A i, j \in 1..n : i <= j => lv[q[i]] <= lv[q[j]]
  BY <1>1 DEF Tree, TreeQueue, q
<1>9. \A i \in 1..n : lv[h] <= lv[q[i]] /\ lv[q[i]] <= lv[h] + 1
  <2>1. 1 \in 1..n /\ q[1] = h /\ \A i \in 1..n : 1 <= i /\ q[i] \in D
    BY <1>1, <1>4
  <2> QED
    BY <1>7, <1>8, <2>1
<1>10. TreeQueue(u, l)
  <2>1. ASSUME NEW i \in 1..(n + 1), NEW j \in 1..(n + 1), i <= j
        PROVE  l[u.queue[i]] <= l[u.queue[j]]
    <3>1. CASE j \in 1..n
      <4>1. i \in 1..n
        BY <1>1, <2>1, <3>1
      <4>2. l[u.queue[i]] = lv[q[i]] /\ l[u.queue[j]] = lv[q[j]]
        BY <1>3, <1>4, <3>1, <4>1
      <4> QED
        BY <1>8, <2>1, <3>1, <4>1, <4>2
    <3>2. CASE i \in 1..n /\ j = n + 1
      <4>1. l[u.queue[i]] = lv[q[i]] /\ l[u.queue[j]] = lv[h] + 1
        BY <1>3, <1>4, <3>2
      <4> QED
        BY <1>9, <3>2, <4>1
    <3>3. CASE i = n + 1 /\ j = n + 1
      BY <1>1, <1>3, <1>4, <3>3
    <3> QED
      BY <1>1, <2>1, <3>1, <3>2, <3>3
  <2>2. ASSUME NEW m \in D \cup {v}, NEW i \in 1..(n + 1)
        PROVE  l[m] <= l[u.queue[i]] + 1
    <3>1. l[m] <= lv[h] + 1
      <4>1. 1 \in 1..n /\ q[1] = h
        BY <1>1
      <4> QED
        BY <1>3, <1>7, <2>2, <4>1, <1>1
    <3>2. lv[h] <= l[u.queue[i]]
      <4>1. CASE i \in 1..n
        BY <1>3, <1>4, <1>9, <4>1
      <4>2. CASE i = n + 1
        BY <1>1, <1>3, <1>4, <4>2
      <4> QED
        BY <1>1, <2>2, <4>1, <4>2
    <3>3. l[u.queue[i]] \in Nat /\ l[m] \in Nat /\ lv[h] \in Nat
      <4>1. \A k \in D \cup {v} : l[k] \in Nat
        BY <1>3
      <4>2. u.queue[i] \in D \cup {v}
        <5>1. CASE i \in 1..n
          BY <1>4, <5>1
        <5>2. CASE i = n + 1
          BY <1>4, <5>2
        <5> QED
          BY <1>1, <2>2, <5>1, <5>2
      <4> QED
        BY <1>1, <2>2, <4>1, <4>2
    <3> QED
      BY <3>1, <3>2, <3>3
  <2> QED
    BY <1>2, <1>4, <2>1, <2>2 DEF TreeQueue
<1>11. TreeClosed(E, u, l)
  <2> SUFFICES ASSUME NEW m \in D \cup {v}
               PROVE  \/ \E i \in DOMAIN u.queue : u.queue[i] = m
                      \/ \A w : <<m, w>> \in E => w \in D \cup {v} /\ l[w] <= l[m] + 1
    BY <1>2 DEF TreeClosed
  <2>1. CASE m = v
    <3>1. n + 1 \in DOMAIN u.queue
      BY <1>1, <1>4
    <3> QED
      BY <1>4, <2>1, <3>1
  <2>2. CASE m \in D /\ \E i \in 1..n : q[i] = m
    <3>1. PICK i \in 1..n : q[i] = m
      BY <2>2
    <3>2. i \in DOMAIN u.queue
      BY <1>1, <1>4
    <3> QED
      BY <1>4, <3>1, <3>2
  <2>3. CASE m \in D /\ ~\E i \in 1..n : q[i] = m
    <3>1. \A w : <<m, w>> \in E => w \in D /\ lv[w] <= lv[m] + 1
      BY <1>1, <2>3 DEF Tree, TreeClosed, D, q
    <3> QED
      BY <1>3, <2>3, <3>1
  <2> QED
    BY <2>1, <2>2, <2>3
<1>12. TreeSmall(u, l)
  <2>1. Cardinality(D \cup {v}) = Cardinality(D) + 1
    <3>1. IsFiniteSet(D) /\ v \notin D
      BY <1>1 DEF D
    <3> QED
      BY ONLY <3>1, FS_AddElement
  <2>2. \A m \in D : lv[m] < Cardinality(D)
    BY DEF Tree, TreeSmall, D
  <2>3. lv[h] < Cardinality(D) /\ \A m \in D : lv[m] \in Nat
    BY <1>1, <2>2
  <2>4. \A m \in D \cup {v} : l[m] < Cardinality(D) + 1
    BY <1>1, <1>3, <2>2, <2>3
  <2> QED
    BY <1>2, <2>1, <2>4 DEF TreeSmall
<1> QED
  BY <1>5, <1>6, <1>10, <1>11, <1>12 DEF Tree

LEMMA TreePop ==
  ASSUME NB!BuilderAssumption, NEW E, NEW t, NEW lv, Tree(E, t, lv), t.queue # <<>>,
         E \subseteq Hosts \X Hosts,
         \A w : <<Head(t.queue), w>> \in E => w \in DOMAIN t.parent,
         NEW u, u = Popped(t)
  PROVE  Tree(E, u, lv)
<1> DEFINE D == DOMAIN t.parent
           h == Head(t.queue)
           q == t.queue
           n == Len(t.queue)
<1>1. /\ h \in D /\ h = q[1] /\ n \in Nat \ {0} /\ DOMAIN q = 1..n /\ q \in Seq(D)
      /\ \A m \in D : lv[m] \in Nat
  BY TreeFacts DEF Tree, TreeTyped
<1>2. /\ u.src = t.src /\ u.queue = Tail(q) /\ u.parent = t.parent
      /\ u = [src |-> u.src, queue |-> u.queue, parent |-> u.parent]
  BY DEF Popped
<1>0. n = Len(q)
  OBVIOUS
<1>3. /\ u.queue \in Seq(D) /\ DOMAIN u.queue = 1..(n - 1)
      /\ \A i \in 1..(n - 1) : u.queue[i] = q[i + 1] /\ i + 1 \in 1..n
  <2> HIDE DEF D, h, q, n
  <2>1. /\ Tail(q) \in Seq(D) /\ Len(Tail(q)) = n - 1
        /\ \A i \in 1..(n - 1) : Tail(q)[i] = q[i + 1]
    BY <1>0, <1>1
  <2> QED
    BY <1>1, <1>2, <2>1
<1> HIDE DEF D, h, q, n
<1>4. TreeTyped(u, lv)
  BY <1>2, <1>3 DEF Tree, TreeTyped, D
<1>5. TreeParents(E, u, lv)
  BY <1>2 DEF Tree, TreeParents
<1>6. /\ \A i, j \in 1..n : i <= j => lv[q[i]] <= lv[q[j]]
      /\ \A m \in D, i \in 1..n : lv[m] <= lv[q[i]] + 1
  BY <1>1 DEF Tree, TreeQueue, D, q
<1>7. TreeQueue(u, lv)
  <2>1. \A m \in D, i \in 1..(n - 1) : lv[m] <= lv[u.queue[i]] + 1
    BY <1>3, <1>6
  <2>2. ASSUME NEW i \in 1..(n - 1), NEW j \in 1..(n - 1), i <= j
        PROVE  lv[u.queue[i]] <= lv[u.queue[j]]
    <3>1. i + 1 \in 1..n /\ j + 1 \in 1..n /\ i + 1 <= j + 1
      BY <1>1, <2>2
    <3> QED
      BY <1>3, <1>6, <2>2, <3>1
  <2> QED
    BY <1>2, <1>3, <2>1, <2>2 DEF TreeQueue, D
<1>8. TreeClosed(E, u, lv)
  <2> SUFFICES ASSUME NEW m \in D
               PROVE  \/ \E i \in DOMAIN u.queue : u.queue[i] = m
                      \/ \A w : <<m, w>> \in E => w \in D /\ lv[w] <= lv[m] + 1
    BY <1>2 DEF TreeClosed, D
  <2>1. CASE m = h
    <3>1. \A w : <<h, w>> \in E => w \in D
      BY DEF h, D
    <3>2. 1 \in 1..n
      BY <1>1
    <3> QED
      BY <1>1, <1>6, <2>1, <3>1, <3>2
  <2>2. CASE m # h /\ \E i \in 1..n : q[i] = m
    <3>1. PICK i \in 1..n : q[i] = m
      BY <2>2
    <3>2. i - 1 \in 1..(n - 1) /\ (i - 1) + 1 = i
      BY <1>1, <2>2, <3>1
    <3>3. u.queue[i - 1] = m
      BY <1>3, <3>1, <3>2
    <3> QED
      BY <1>3, <3>2, <3>3
  <2>3. CASE ~\E i \in 1..n : q[i] = m
    BY <1>1, <2>3 DEF Tree, TreeClosed, D, q
  <2> QED
    BY <2>1, <2>2, <2>3
<1>9. TreeSmall(u, lv)
  BY <1>2 DEF Tree, TreeSmall
<1> QED
  BY <1>4, <1>5, <1>7, <1>8, <1>9 DEF Tree

(* A walk from the source is not shorter than the level it comes to.       *)
LEMMA LevelsLeast ==
  ASSUME NB!BuilderAssumption, NEW E, NEW t, NEW lv, Tree(E, t, lv), t.queue = <<>>,
         NEW b, NEW n \in Nat, WalkOver(E, t.src, b, n)
  PROVE  b \in DOMAIN t.parent /\ lv[b] <= n
<1> DEFINE D == DOMAIN t.parent
<1>1. PICK w \in [0..n -> Hosts] :
        w[0] = t.src /\ w[n] = b /\ \A i \in 1..n : <<w[i - 1], w[i]>> \in E
  BY DEF WalkOver
<1>2. /\ \A m \in D : lv[m] \in Nat
      /\ t.src \in D /\ lv[t.src] = 0
  BY TreeFacts DEF Tree, TreeTyped
<1>3. \A k : \A m \in D : <<m, k>> \in E => k \in D /\ lv[k] <= lv[m] + 1
  <2>1. DOMAIN t.queue = {}
    OBVIOUS
  <2> QED
    BY <2>1 DEF Tree, TreeClosed
<1> DEFINE S == {i \in 0..n : ~(w[i] \in D /\ lv[w[i]] <= i)}
<1> HIDE DEF D
<1>4. CASE S # {}
  <2>1. S \subseteq Nat
    OBVIOUS
  <2> HIDE DEF S
  <2>2. PICK i \in S : \A j \in S : i <= j
    BY <1>4, <2>1, Smallest
  <2>3. i \in 0..n /\ ~(w[i] \in D /\ lv[w[i]] <= i)
    BY <2>2 DEF S
  <2>4. i # 0
    BY <1>1, <1>2, <2>3
  <2>5. i - 1 \in 0..n /\ i \in 1..n /\ i - 1 \notin S
    BY <2>2, <2>3, <2>4
  <2>6. w[i - 1] \in D /\ lv[w[i - 1]] <= i - 1
    BY <2>5 DEF S
  <2>7. w[i] \in D /\ lv[w[i]] <= lv[w[i - 1]] + 1
    BY <1>1, <1>3, <2>5, <2>6
  <2> QED
    BY <1>2, <2>3, <2>6, <2>7
<1>5. CASE S = {}
  <2>1. n \in 0..n
    OBVIOUS
  <2> QED
    BY <1>1, <1>5, <2>1 DEF D
<1> QED
  BY <1>4, <1>5

(* Climbing from b one comes to c, a neighbour of the source.              *)
ClimbsIn(p, b, c, n) ==
  \E w \in [0..n -> DOMAIN p] :
    /\ w[0] = c /\ w[n] = b
    /\ \A i \in 1..n : p[w[i]] = w[i - 1]

LEMMA ClimbLevel ==
  ASSUME NB!BuilderAssumption, NEW E, NEW t, NEW lv, Tree(E, t, lv),
         NEW b, NEW c \in DOMAIN t.parent, t.parent[c] = t.src,
         NEW n \in Nat, ClimbsIn(t.parent, b, c, n)
  PROVE  lv[b] = n + 1 /\ WalkOver(E, c, b, n)
<1> DEFINE D == DOMAIN t.parent
<1>1. PICK w \in [0..n -> D] :
        w[0] = c /\ w[n] = b /\ \A i \in 1..n : t.parent[w[i]] = w[i - 1]
  BY DEF ClimbsIn
<1>2. /\ \A m \in D : lv[m] \in Nat
      /\ t.src \in D /\ lv[t.src] = 0 /\ t.parent[t.src] = 0 /\ D \subseteq Hosts /\ 0 \notin Hosts
  BY TreeFacts, HostCount DEF Tree, TreeTyped
<1>3. \A m \in D \ {t.src} : <<t.parent[m], m>> \in E /\ lv[m] = lv[t.parent[m]] + 1
  BY DEF Tree, TreeParents
<1> HIDE DEF D
<1>4. \A i \in 1..n : i - 1 \in 0..n /\ i \in 0..n
  OBVIOUS
<1>5. \A i \in 1..n : <<w[i - 1], w[i]>> \in E /\ lv[w[i]] = lv[w[i - 1]] + 1
  <2> SUFFICES ASSUME NEW i \in 1..n
               PROVE  <<w[i - 1], w[i]>> \in E /\ lv[w[i]] = lv[w[i - 1]] + 1
    OBVIOUS
  <2>1. w[i] \in D /\ w[i - 1] \in D /\ t.parent[w[i]] = w[i - 1]
    BY <1>1, <1>4
  <2>2. w[i] # t.src
    BY <1>2, <2>1
  <2> QED
    BY <1>3, <2>1, <2>2
<1>6. lv[c] = 1
  <2>1. c \in D /\ c # t.src
    BY <1>2 DEF D
  <2>2. lv[c] = lv[t.src] + 1
    BY <1>3, <2>1
  <2> QED
    BY ONLY <1>2, <2>2
<1>7. WalkOver(E, c, b, n)
  <2>1. w \in [0..n -> Hosts]
    BY <1>2
  <2> QED
    BY <1>1, <1>5, <2>1 DEF WalkOver
<1> DEFINE S == {i \in 0..n : lv[w[i]] # i + 1}
<1>8. CASE S # {}
  <2>1. S \subseteq Nat
    OBVIOUS
  <2> HIDE DEF S
  <2>2. PICK i \in S : \A j \in S : i <= j
    BY <1>8, <2>1, Smallest
  <2>3. i \in 0..n /\ lv[w[i]] # i + 1
    BY <2>2 DEF S
  <2>4. i # 0
    BY <1>1, <1>6, <2>3
  <2>5. i - 1 \in 0..n /\ i \in 1..n /\ i - 1 \notin S
    BY <2>2, <2>3, <2>4
  <2>6. lv[w[i - 1]] = (i - 1) + 1
    BY <2>5 DEF S
  <2>7. lv[w[i]] = lv[w[i - 1]] + 1
    BY <1>5, <2>5
  <2> QED
    BY <2>3, <2>6, <2>7
<1>9. CASE S = {}
  <2>1. n \in 0..n
    OBVIOUS
  <2> QED
    BY <1>1, <1>7, <1>9, <2>1
<1> QED
  BY <1>8, <1>9

LEMMA ClimbExists ==
  ASSUME NB!BuilderAssumption, NEW E, NEW t, NEW lv, Tree(E, t, lv),
         NEW b \in DOMAIN t.parent, b # t.src
  PROVE  \E c \in DOMAIN t.parent :
           t.parent[c] = t.src /\ \E n \in NB!Lengths : ClimbsIn(t.parent, b, c, n)
<1> DEFINE D == DOMAIN t.parent
           p == t.parent
           P(v) == lv[v] \in Nat \ {0}
                   /\ \E c \in D : p[c] = t.src /\ ClimbsIn(p, v, c, lv[v] - 1)
<1>1. /\ \A m \in D : lv[m] \in Nat
      /\ t.src \in D /\ lv[t.src] = 0
  BY TreeFacts DEF Tree, TreeTyped
<1>2. \A m \in D \ {t.src} : p[m] \in D /\ lv[m] = lv[p[m]] + 1
  BY DEF Tree, TreeParents
<1>3. \A m \in D : lv[m] < Cardinality(D)
  BY DEF Tree, TreeSmall
<1>4. Cardinality(D) <= Cardinality(Hosts) /\ Cardinality(D) \in Nat /\ Cardinality(Hosts) \in Nat
      /\ NB!Lengths = 0..(Cardinality(Hosts) - 1)
  BY TreeFacts, HostCount
<1>5. D = DOMAIN p
  OBVIOUS
<1> HIDE DEF D, p
<1> DEFINE S == {lv[v] : v \in {x \in D \ {t.src} : ~P(x)}}
<1>6. CASE S # {}
  <2>1. S \subseteq Nat
    BY <1>1
  <2> HIDE DEF S
  <2>2. PICK k \in S : \A j \in S : k <= j
    BY <1>6, <2>1, Smallest
  <2>3. PICK v \in D \ {t.src} : ~P(v) /\ lv[v] = k
    BY <2>2 DEF S
  <2>4. p[v] \in D /\ lv[v] = lv[p[v]] + 1 /\ lv[p[v]] \in Nat /\ lv[v] \in Nat \ {0}
    BY <1>1, <1>2, <2>3
  <2>5. CASE p[v] = t.src
    <3>1. lv[v] - 1 = 0
      BY <1>1, <2>4, <2>5
    <3>2. ClimbsIn(p, v, v, 0)
      <4> DEFINE w == [i \in 0..0 |-> v]
      <4>1. w \in [0..0 -> DOMAIN p] /\ w[0] = v /\ \A i \in 1..0 : p[w[i]] = w[i - 1]
        BY <1>5, <2>3
      <4> HIDE DEF w
      <4> QED
        BY <4>1 DEF ClimbsIn
    <3> QED
      BY <2>3, <2>4, <2>5, <3>1, <3>2
  <2>6. CASE p[v] # t.src
    <3>1. lv[p[v]] \notin S
      BY <2>2, <2>3, <2>4
    <3>2. P(p[v])
      BY <2>4, <2>6, <3>1 DEF S
    <3>3. PICK c \in D : p[c] = t.src /\ ClimbsIn(p, p[v], c, lv[p[v]] - 1)
      BY <3>2
    <3> DEFINE n == lv[p[v]] - 1
    <3>4. n \in Nat /\ lv[v] - 1 = n + 1
      BY <2>4, <3>2
    <3>5. PICK w \in [0..n -> D] : w[0] = c /\ w[n] = p[v] /\ \A i \in 1..n : p[w[i]] = w[i - 1]
      BY <1>5, <3>3 DEF ClimbsIn
    <3> HIDE DEF n
    <3> DEFINE u == [i \in 0..(n + 1) |-> IF i = n + 1 THEN v ELSE w[i]]
    <3>6. u \in [0..(n + 1) -> D] /\ u[n + 1] = v /\ \A i \in 0..n : u[i] = w[i]
      <4>1. \A i \in 0..(n + 1) : i = n + 1 \/ i \in 0..n
        BY <3>4
      <4>2. \A i \in 0..n : i \in 0..(n + 1) /\ i # n + 1
        BY <3>4
      <4>3. n + 1 \in 0..(n + 1)
        BY <3>4
      <4> QED
        BY <2>3, <3>5, <4>1, <4>2, <4>3
    <3> HIDE DEF u
    <3>7. \A i \in 1..(n + 1) : p[u[i]] = u[i - 1]
      <4> SUFFICES ASSUME NEW i \in 1..(n + 1)
                   PROVE  p[u[i]] = u[i - 1]
        OBVIOUS
      <4>1. CASE i = n + 1
        <5>1. i - 1 = n /\ n \in 0..n
          BY <3>4, <4>1
        <5> QED
          BY <3>5, <3>6, <4>1, <5>1
      <4>2. CASE i \in 1..n
        <5>1. i - 1 \in 0..n /\ i \in 0..n
          BY <3>4, <4>2
        <5> QED
          BY <3>5, <3>6, <4>2, <5>1
      <4> QED
        BY <3>4, <4>1, <4>2
    <3>8. u[0] = c
      BY <3>4, <3>5, <3>6
    <3>9. ClimbsIn(p, v, c, n + 1)
      BY <1>5, <3>6, <3>7, <3>8 DEF ClimbsIn
    <3> QED
      BY <2>3, <2>4, <3>3, <3>4, <3>9
  <2> QED
    BY <2>5, <2>6
<1>7. CASE S = {}
  <2>1. b \in D \ {t.src}
    BY DEF D
  <2>2. P(b)
    BY <1>7, <2>1
  <2>3. lv[b] - 1 \in NB!Lengths
    BY <1>3, <1>4, <2>1, <2>2
  <2> QED
    BY <2>2, <2>3 DEF D, p
<1> QED
  BY <1>6, <1>7

(* The last node before the source, climbing from b, is a neighbour of the *)
(* source, and closer to b.                                                *)
LEMMA SearchLeads ==
  ASSUME NB!BuilderAssumption, NEW lv, Tree(EdgesIn(segIf), search, lv), search.queue = <<>>,
         NEW b \in DOMAIN search.parent, b # search.src
  PROVE  /\ NB!FirstHop(b) \in NB!Adjacent(search.src)
         /\ b \in NB!Reachable(search.src) =>
              NB!Distance(NB!FirstHop(b), b) < NB!Distance(search.src, b)
<1> DEFINE E == EdgesIn(segIf)
           D == DOMAIN search.parent
           a == search.src
           c == NB!FirstHop(b)
           C(x) == search.parent[x] = a /\ \E n \in NB!Lengths : ClimbsIn(search.parent, b, x, n)
<1>1. \E x \in D : C(x)
  BY ClimbExists
<1>2. c = CHOOSE x \in D : C(x)
  BY DEF NB!FirstHop, NB!Climbs, NB!Lengths, ClimbsIn
<1> HIDE DEF c
<1>3. c \in D /\ C(c)
  BY <1>1, <1>2
<1>4. PICK n \in NB!Lengths : ClimbsIn(search.parent, b, c, n)
  BY <1>3
<1>5. n \in Nat /\ NB!Lengths \subseteq Nat
  BY HostCount
<1>6. lv[b] = n + 1 /\ WalkOver(E, c, b, n)
  BY <1>3, <1>4, <1>5, ClimbLevel
<1>7. c # a /\ a \in Hosts
  <2>1. search.parent[a] = 0 /\ a \in D /\ D \subseteq Hosts
    BY DEF Tree, TreeTyped
  <2> QED
    BY <1>3, <2>1, HostCount
<1>8. c \in NB!Adjacent(a)
  <2>1. <<a, c>> \in E
    BY <1>3, <1>7 DEF Tree, TreeParents
  <2> QED
    BY <1>7, <2>1, Adjacency
<1>9. ASSUME b \in NB!Reachable(a)
      PROVE  NB!Distance(c, b) < NB!Distance(a, b)
  <2> DEFINE d == DistanceOver(E, a, b)
  <2>1. PICK m \in NB!Lengths : WalkOver(E, a, b, m)
    BY <1>9, Distances DEF ReachableOver
  <2>2. d \in Nat /\ WalkOver(E, a, b, d)
    BY <2>1, Shortest
  <2> HIDE DEF d
  <2>3. lv[b] <= d
    BY <2>2, LevelsLeast
  <2>4. DistanceOver(E, c, b) \in Nat /\ DistanceOver(E, c, b) <= n
    BY <1>6, Shortest
  <2>5. DistanceOver(E, c, b) < d
    BY <1>5, <1>6, <2>2, <2>3, <2>4
  <2> QED
    BY <2>5, Distances DEF d
<1> QED
  BY <1>8, <1>9 DEF c

-----------------------------------------------------------------------------
(* r leads from a over hop to b.                                           *)
Leads(r, a, b, hop) ==
  /\ a \in Hosts /\ b \in Hosts /\ addrs[b] # <<>>
  /\ hop \in NB!Adjacent(a)
  /\ \E seg \in NB!Shared(a, hop) : r = NB!RouteVia(a, b, hop, seg)
  /\ b \in NB!Reachable(a) => NB!Distance(hop, b) < NB!Distance(a, b)

SearchInv ==
  search # NB!NoSearch =>
    /\ NB!Connected /\ \E lv : Tree(EdgesIn(segIf), search, lv)

(* Routes are those of the nodes that have looked for theirs.              *)
RouteInv ==
  /\ routed # {} => NB!Connected
  /\ routed = {} => routes = {} /\ packet = NB!NoPacket
  /\ \A r \in routes : \E a, b, hop : Leads(r, a, b, hop)
  /\ \A a \in routed : \A b \in NB!Reachable(a) \ {a} :
       addrs[b] # <<>> => \E r \in routes : \E hop : Leads(r, a, b, hop)

(* What goes to a node is addressed to its first address.                  *)
PacketInv ==
  packet # NB!NoPacket =>
    /\ packet = [at |-> packet.at, to |-> packet.to, dst |-> packet.dst]
    /\ routed = Hosts
    /\ packet.at = 0 \/ packet.at \in Hosts
    /\ packet.to \in Hosts /\ addrs[packet.to] # <<>> /\ packet.dst = Head(addrs[packet.to])

CarriedInv == NetworkInv /\ SearchInv /\ RouteInv /\ PacketInv

LEMMA AdjacencyKept ==
  ASSUME segIf' = segIf, NEW a
  PROVE  NB!Adjacent(a)' = NB!Adjacent(a) /\ \A b : NB!Shared(a, b)' = NB!Shared(a, b)
<1>1. NB!Adjacent(a) = NeighboursIn(segIf, a) /\ \A b : NB!Shared(a, b) = SharedIn(segIf, a, b)
  BY DEF NB!Adjacent, NB!Shared, NeighboursIn, SharedIn
<1>2. NB!Adjacent(a)' = NeighboursIn(segIf', a)
      /\ \A b : NB!Shared(a, b)' = SharedIn(segIf', a, b)
  BY DEF NB!Adjacent, NB!Shared, NeighboursIn, SharedIn
<1> QED
  BY <1>1, <1>2

WalkAlong(s, a, b, n) ==
  \E w \in [0..n -> Hosts] :
    /\ w[0] = a /\ w[n] = b
    /\ \A i \in 1..n : w[i] \in NeighboursIn(s, w[i - 1])
ReachableAlong(s, a) == {b \in Hosts : \E n \in NB!Lengths : WalkAlong(s, a, b, n)}
DistanceAlong(s, a, b) ==
  CHOOSE n \in NB!Lengths : WalkAlong(s, a, b, n) /\ \A k \in 0..(n - 1) : ~WalkAlong(s, a, b, k)

LEMMA DistanceKept ==
  ASSUME segIf' = segIf, NEW a, NEW b
  PROVE  NB!Reachable(a)' = NB!Reachable(a) /\ NB!Distance(a, b)' = NB!Distance(a, b)
<1>1. /\ NB!Reachable(a) = ReachableAlong(segIf, a)
      /\ NB!Distance(a, b) = DistanceAlong(segIf, a, b)
  BY DEF NB!Reachable, NB!Distance, NB!Walk, NB!Adjacent, NB!Shared,
         ReachableAlong, DistanceAlong, WalkAlong, NeighboursIn, SharedIn
<1>2. /\ NB!Reachable(a)' = ReachableAlong(segIf', a)
      /\ NB!Distance(a, b)' = DistanceAlong(segIf', a, b)
  BY DEF NB!Reachable, NB!Distance, NB!Walk, NB!Adjacent, NB!Shared,
         ReachableAlong, DistanceAlong, WalkAlong, NeighboursIn, SharedIn
<1> QED
  BY <1>1, <1>2

LEMMA LeadsKept ==
  ASSUME UNCHANGED <<addrs, segIf>>, NEW r, NEW a, NEW b, NEW hop
  PROVE  Leads(r, a, b, hop)' <=> Leads(r, a, b, hop)
<1>1. /\ NB!Reachable(a)' = NB!Reachable(a)
      /\ NB!Adjacent(a)' = NB!Adjacent(a)
      /\ NB!Shared(a, hop)' = NB!Shared(a, hop)
      /\ NB!Distance(a, b)' = NB!Distance(a, b) /\ NB!Distance(hop, b)' = NB!Distance(hop, b)
  BY DistanceKept, AdjacencyKept
<1>2. \A seg : NB!RouteVia(a, b, hop, seg)' = NB!RouteVia(a, b, hop, seg)
  BY DEF NB!RouteVia
<1> QED
  BY <1>1, <1>2 DEF Leads

LEMMA CarriedInit ==
  ASSUME NB!BuilderAssumption, NB!Init
  PROVE  CarriedInv
BY BuildInit DEF NB!Init, CarriedInv, SearchInv, RouteInv, PacketInv

LEMMA RoutesKept ==
  ASSUME UNCHANGED <<config, built, addrs, segIf, routes, routed>>, RouteInv,
         routed = {} => packet' = packet
  PROVE  RouteInv'
<1>1. \A r, a, b, hop : Leads(r, a, b, hop)' <=> Leads(r, a, b, hop)
  BY LeadsKept
<1>2. NB!Connected' <=> NB!Connected
  BY DEF NB!Connected, NB!Segments, NB!LinkCount
<1>3. \A a : NB!Reachable(a)' = NB!Reachable(a)
  BY DistanceKept
<1> QED
  BY <1>1, <1>2, <1>3 DEF RouteInv, NB!NoPacket

LEMMA SearchKept ==
  ASSUME UNCHANGED <<config, built, segIf, search>>, SearchInv
  PROVE  SearchInv'
<1>1. NB!Connected' <=> NB!Connected
  BY DEF NB!Connected, NB!Segments, NB!LinkCount
<1> QED
  BY <1>1 DEF SearchInv, NB!NoSearch

LEMMA PacketKept ==
  ASSUME UNCHANGED <<addrs, routed, packet>>, PacketInv
  PROVE  PacketInv'
BY DEF PacketInv, NB!NoPacket

(* While the network is built nothing else is there.                       *)
LEMMA BuildCarried ==
  ASSUME NB!BuilderAssumption, CarriedInv, NB!AttachDevice \/ NB!NextSegment
  PROVE  SearchInv' /\ RouteInv' /\ PacketInv'
<1>1. built.segment \in Nat /\ SegmentsOf(config) \in Nat
  BY ConfigTyped DEF CarriedInv, NetworkInv
<1>2. ~NB!Connected
  BY <1>1, Configuration DEF NB!AttachDevice, NB!NextSegment, NB!Connected
<1>3. routed = {} /\ routes = {} /\ packet = NB!NoPacket /\ search = NB!NoSearch
  BY <1>2 DEF CarriedInv, RouteInv, SearchInv
<1>4. UNCHANGED <<search, routes, routed, packet>>
  BY DEF NB!AttachDevice, NB!NextSegment
<1> QED
  BY <1>3, <1>4 DEF SearchInv, RouteInv, PacketInv, NB!NoPacket, NB!NoSearch

LEMMA SearchStarted ==
  ASSUME NB!BuilderAssumption, SearchInv, NEW a \in Hosts, NB!StartSearch(a)
  PROVE  SearchInv'
<1>1. /\ NB!Connected /\ UNCHANGED <<config, built, segIf>>
      /\ search' = [src |-> a, queue |-> <<a>>, parent |-> [m \in {a} |-> 0]]
  BY DEF NB!StartSearch
<1>2. NB!Connected'
  BY <1>1 DEF NB!Connected, NB!Segments, NB!LinkCount
<1> DEFINE E == EdgesIn(segIf)
<1>3. \E lv : Tree(E, search', lv)
  BY <1>1, TreeStart
<1> QED
  BY <1>1, <1>2, <1>3 DEF SearchInv

LEMMA SearchGoesOn ==
  ASSUME NB!BuilderAssumption, SearchInv, NB!Pop \/ \E v \in Hosts : NB!Visit(v)
  PROVE  SearchInv'
<1> DEFINE E == EdgesIn(segIf)
<1>1. search.queue # <<>> /\ UNCHANGED <<config, built, segIf>>
  BY DEF NB!Pop, NB!Visit
<1>2. search # NB!NoSearch
  BY <1>1 DEF NB!NoSearch
<1>3. NB!Connected'
  BY <1>1, <1>2 DEF SearchInv, NB!Connected, NB!Segments, NB!LinkCount
<1>4. PICK lv : Tree(E, search, lv)
  BY <1>2 DEF SearchInv
<1>5. /\ search = [src |-> search.src, queue |-> search.queue, parent |-> search.parent]
      /\ Head(search.queue) \in Hosts /\ E \subseteq Hosts \X Hosts
  <2>1. Head(search.queue) \in DOMAIN search.parent /\ DOMAIN search.parent \subseteq Hosts
    BY <1>1, <1>4, TreeFacts DEF Tree, TreeTyped
  <2>2. E \subseteq Hosts \X Hosts
    BY DEF EdgesIn
  <2> HIDE DEF E
  <2> QED
    BY <1>4, <2>1, <2>2 DEF Tree, TreeTyped
<1>6. CASE NB!Pop
  <2>1. search' = Popped(search) /\ NB!Unvisited = {}
    <3>1. search' = [search EXCEPT !.queue = Tail(@)] /\ NB!Unvisited = {}
      BY <1>6 DEF NB!Pop
    <3> QED
      BY <1>5, <3>1 DEF Popped
  <2>2. \A w : <<Head(search.queue), w>> \in E => w \in DOMAIN search.parent
    BY <1>5, <2>1, Adjacency DEF NB!Unvisited
  <2>3. Tree(E, search', lv)
    BY <1>1, <1>4, <1>5, <2>1, <2>2, TreePop
  <2> QED
    BY <1>1, <1>3, <2>3 DEF SearchInv
<1>7. CASE \E v \in Hosts : NB!Visit(v)
  <2>1. PICK v \in Hosts : NB!Visit(v)
    BY <1>7
  <2>2. /\ search' = Visited(search, v)
        /\ v \in NB!Adjacent(Head(search.queue)) /\ v \notin DOMAIN search.parent
    <3>1. /\ search' = [search EXCEPT
               !.queue = Append(@, v),
               !.parent = [m \in DOMAIN @ \cup {v} |->
                             IF m = v THEN Head(search.queue) ELSE @[m]]]
          /\ v \in NB!Unvisited
      BY <2>1 DEF NB!Visit, NB!Push
    <3> QED
      BY <1>5, <3>1 DEF Visited, NB!Unvisited
  <2>3. <<Head(search.queue), v>> \in E
    BY <1>5, <2>2, Adjacency
  <2>4. \E l : Tree(E, search', l)
    BY <1>1, <1>4, <2>2, <2>3, TreeVisit
  <2> QED
    BY <1>1, <1>3, <2>4 DEF SearchInv
<1> QED
  BY <1>6, <1>7

LEMMA RoutesInstalled ==
  ASSUME NB!BuilderAssumption, SearchInv, RouteInv, NB!InstallRoutes
  PROVE  SearchInv' /\ RouteInv'
<1> DEFINE n == search.src
           E == EdgesIn(segIf)
           D == DOMAIN search.parent
           others == {b \in D \ {n} : addrs[b] # <<>>}
<1>1. /\ n # 0 /\ search.queue = <<>> /\ routed' = routed \cup {n} /\ search' = NB!NoSearch
      /\ UNCHANGED <<config, built, addrs, segIf, packet>>
  BY DEF NB!InstallRoutes
<1>2. PICK seg \in [NB!Adjacent(n) -> 1..NB!Segments] :
        /\ \A c \in NB!Adjacent(n) : seg[c] \in NB!Shared(n, c)
        /\ routes' = routes \cup
             {NB!RouteVia(n, b, NB!FirstHop(b), seg[NB!FirstHop(b)]) : b \in others}
  BY DEF NB!InstallRoutes
<1>3. search # NB!NoSearch
  BY <1>1 DEF NB!NoSearch
<1>4. PICK lv : Tree(E, search, lv)
  BY <1>3 DEF SearchInv
<1>5. n \in Hosts /\ D \subseteq Hosts
  BY <1>4 DEF Tree, TreeTyped
<1>6. NB!Connected'
  BY <1>1, <1>3 DEF SearchInv, NB!Connected, NB!Segments, NB!LinkCount
<1>7. \A r, a, b, c : Leads(r, a, b, c)' <=> Leads(r, a, b, c)
  BY <1>1, LeadsKept
<1>8. \A a : NB!Reachable(a)' = NB!Reachable(a)
  BY <1>1, DistanceKept
<1> DEFINE hop(b) == NB!FirstHop(b)
           route(b) == NB!RouteVia(n, b, hop(b), seg[hop(b)])
<1>9. \A b \in others : Leads(route(b), n, b, hop(b))
  <2> SUFFICES ASSUME NEW b \in others
               PROVE  Leads(route(b), n, b, hop(b))
    OBVIOUS
  <2>1. /\ hop(b) \in NB!Adjacent(n)
        /\ b \in NB!Reachable(n) => NB!Distance(hop(b), b) < NB!Distance(n, b)
    BY <1>1, <1>4, SearchLeads
  <2>2. seg[hop(b)] \in NB!Shared(n, hop(b))
    BY <1>2, <2>1
  <2> QED
    BY <1>5, <2>1, <2>2 DEF Leads
<1> HIDE DEF hop, route
<1>10. routes' = routes \cup {route(b) : b \in others}
  BY <1>2 DEF route, hop
<1>11. \A r \in routes' : \E a, b, c : Leads(r, a, b, c)'
  BY <1>7, <1>9, <1>10 DEF RouteInv
<1>12. \A b \in NB!Reachable(n) \ {n} : addrs[b] # <<>> => b \in others
  <2> SUFFICES ASSUME NEW b \in NB!Reachable(n) \ {n}, addrs[b] # <<>>
               PROVE  b \in D
    OBVIOUS
  <2>1. PICK k \in NB!Lengths : WalkOver(E, n, b, k)
    BY Distances DEF ReachableOver
  <2>2. k \in Nat
    BY HostCount
  <2> QED
    BY <1>1, <1>4, <2>1, <2>2, LevelsLeast
<1>13. ASSUME NEW a \in routed', NEW b \in NB!Reachable(a) \ {a}, addrs[b] # <<>>
       PROVE  \E r \in routes' : \E c : Leads(r, a, b, c)'
  <2>1. CASE a = n
    BY <1>7, <1>9, <1>10, <1>12, <1>13, <2>1
  <2>2. CASE a \in routed
    BY <1>7, <1>10, <1>13, <2>2 DEF RouteInv
  <2> QED
    BY <1>1, <2>1, <2>2
<1>14. RouteInv'
  BY <1>1, <1>6, <1>8, <1>11, <1>13 DEF RouteInv
<1> QED
  BY <1>1, <1>14 DEF SearchInv, NB!NoSearch

LEMMA ForwardPacket ==
  ASSUME NB!BuilderAssumption, PacketInv, NB!Forward
  PROVE  PacketInv' /\ packet # NB!NoPacket
<1>1. packet.at # 0 /\ UNCHANGED <<config, built, addrs, segIf, search, routes, routed>>
  BY DEF NB!Forward
<1>2. packet # NB!NoPacket
  BY <1>1 DEF NB!NoPacket
<1>3. PICK x \in Hosts \cup {0} : packet' = [packet EXCEPT !.at = x]
  BY DEF NB!Forward
<1>4. /\ packet'.at = x /\ packet'.to = packet.to /\ packet'.dst = packet.dst
      /\ packet' = [at |-> packet'.at, to |-> packet'.to, dst |-> packet'.dst]
  <2>1. packet = [at |-> packet.at, to |-> packet.to, dst |-> packet.dst]
    BY <1>2 DEF PacketInv
  <2> QED
    BY <1>3, <2>1
<1> QED
  BY <1>1, <1>2, <1>3, <1>4 DEF PacketInv

LEMMA CarriedStep ==
  ASSUME NB!BuilderAssumption, CarriedInv, [NB!Next]_NB!vars
  PROVE  CarriedInv'
<1>1. NetworkInv'
  BY BuildStep DEF CarriedInv
<1>2. CASE NB!AttachDevice \/ NB!NextSegment
  BY <1>1, <1>2, BuildCarried DEF CarriedInv
<1>3. CASE \E a \in Hosts : NB!StartSearch(a)
  <2>1. UNCHANGED <<config, built, addrs, segIf, routes, routed, packet>> /\ SearchInv'
    BY <1>3, SearchStarted DEF CarriedInv, NB!StartSearch
  <2> QED
    BY <1>1, <2>1, RoutesKept, PacketKept DEF CarriedInv
<1>4. CASE NB!Pop \/ \E v \in Hosts : NB!Visit(v)
  <2>1. UNCHANGED <<config, built, addrs, segIf, routes, routed, packet>>
    BY <1>4 DEF NB!Pop, NB!Visit
  <2>2. SearchInv'
    BY <1>4, SearchGoesOn DEF CarriedInv
  <2> QED
    BY <1>1, <2>1, <2>2, RoutesKept, PacketKept DEF CarriedInv
<1>5. CASE NB!InstallRoutes
  <2>1. SearchInv' /\ RouteInv'
    BY <1>5, RoutesInstalled DEF CarriedInv
  <2>2. search.src \in Hosts
    <3>1. search # NB!NoSearch
      BY <1>5 DEF NB!InstallRoutes, NB!NoSearch
    <3> QED
      BY <3>1 DEF CarriedInv, SearchInv, Tree, TreeTyped
  <2>3. routed' = routed \cup {search.src} /\ UNCHANGED <<addrs, packet>>
    BY <1>5 DEF NB!InstallRoutes
  <2>4. PacketInv'
    BY <2>2, <2>3 DEF CarriedInv, PacketInv, NB!NoPacket
  <2> QED
    BY <1>1, <2>1, <2>4 DEF CarriedInv
<1>6. CASE \E a, b \in Hosts : NB!SendControl(a, b)
  <2>1. PICK a \in Hosts, b \in Hosts : NB!SendControl(a, b)
    BY <1>6
  <2>2. /\ packet' = [at |-> a, to |-> b, dst |-> Head(addrs[b])] /\ addrs[b] # <<>>
        /\ routed = Hosts /\ UNCHANGED <<config, built, addrs, segIf, search, routes, routed>>
    BY <2>1 DEF NB!SendControl
  <2>3. PacketInv'
    BY <2>2 DEF PacketInv
  <2>4. RouteInv' /\ SearchInv'
    BY <2>2, RoutesKept, SearchKept DEF CarriedInv
  <2> QED
    BY <1>1, <2>3, <2>4 DEF CarriedInv
<1>7. CASE NB!Forward
  <2>1. PacketInv' /\ packet # NB!NoPacket
    BY <1>7, ForwardPacket DEF CarriedInv
  <2>2. routed # {} /\ UNCHANGED <<config, built, addrs, segIf, search, routes, routed>>
    BY <1>7, <2>1 DEF CarriedInv, RouteInv, NB!Forward
  <2>3. RouteInv' /\ SearchInv'
    BY <2>2, RoutesKept, SearchKept DEF CarriedInv
  <2> QED
    BY <1>1, <2>1, <2>3 DEF CarriedInv
<1>8. CASE UNCHANGED NB!vars
  <2>1. UNCHANGED <<config, built, addrs, segIf, search, routes, routed, packet>>
    BY <1>8 DEF NB!vars
  <2> QED
    BY <1>1, <2>1, RoutesKept, SearchKept, PacketKept DEF CarriedInv
<1> QED
  BY <1>2, <1>3, <1>4, <1>5, <1>6, <1>7, <1>8 DEF NB!Next

(* A route names a segment of its own node and the address its hop has     *)
(* there.                                                                  *)
LEMMA RouteFields ==
  ASSUME NEW r, NEW a, NEW b, NEW hop, Leads(r, a, b, hop)
  PROVE  /\ r.at = a /\ r.dst = Head(addrs[b]) /\ b \in Hosts /\ addrs[b] # <<>>
         /\ hop \in Hosts /\ r.seg \in DOMAIN segIf[hop] /\ r.via = segIf[hop][r.seg]
<1>1. hop \in Hosts
  BY DEF Leads, NB!Adjacent
<1>2. PICK seg \in NB!Shared(a, hop) : r = NB!RouteVia(a, b, hop, seg)
  BY DEF Leads
<1>3. r = [at |-> a, dst |-> Head(addrs[b]), via |-> segIf[hop][seg], seg |-> seg]
  BY <1>2 DEF NB!RouteVia
<1>4. r.at = a /\ r.dst = Head(addrs[b]) /\ r.via = segIf[hop][seg] /\ r.seg = seg
  BY <1>3
<1> QED
  BY <1>1, <1>2, <1>4 DEF NB!Shared, Leads

LEMMA FirstOwned ==
  ASSUME NetworkInv, NEW b \in Hosts, addrs[b] # <<>>
  PROVE  NB!Owns(b, Head(addrs[b]))
<1>1. addrs[b] \in Seq(Int \X Int)
  BY DEF NetworkInv, GivenInv
<1>2. 1 \in DOMAIN addrs[b] /\ Head(addrs[b]) = addrs[b][1]
  BY <1>1
<1> QED
  BY <1>2 DEF NB!Owns

LEMMA ForwardCloser ==
  ASSUME NB!BuilderAssumption, CarriedInv, NB!Forward, NB!Deliverable
  PROVE  packet'.at # 0 /\ NB!Distance(packet'.at, packet.to) < NB!Distance(packet.at, packet.to)
<1> DEFINE here == packet.at
           to == packet.to
           hops == {r \in routes : r.at = here /\ r.dst = packet.dst}
<1>1. /\ here # 0 /\ ~NB!Owns(here, packet.dst)
      /\ \/ hops = {}
         \/ \E r \in hops, m \in Hosts :
              /\ r.seg \in DOMAIN segIf[m] /\ segIf[m][r.seg] = r.via
              /\ packet' = [packet EXCEPT !.at = m]
  BY DEF NB!Forward
<1>2. packet # NB!NoPacket
  BY <1>1 DEF NB!NoPacket
<1>3. /\ packet = [at |-> here, to |-> to, dst |-> packet.dst]
      /\ routed = Hosts /\ here \in Hosts /\ to \in Hosts /\ addrs[to] # <<>>
      /\ packet.dst = Head(addrs[to])
  BY <1>1, <1>2 DEF CarriedInv, PacketInv
<1>4. to \in NB!Reachable(here) /\ \A m \in Hosts : NB!Owns(m, packet.dst) => m = to
  BY DEF NB!Deliverable
<1>5. here # to
  BY <1>1, <1>3, FirstOwned DEF CarriedInv
<1> HIDE DEF here, to
<1>6. \E r \in routes : \E hop : Leads(r, here, to, hop)
  BY <1>3, <1>4, <1>5 DEF CarriedInv, RouteInv
<1>7. hops # {}
  BY <1>3, <1>6, RouteFields
<1>8. PICK r \in hops, m \in Hosts :
        /\ r.seg \in DOMAIN segIf[m] /\ segIf[m][r.seg] = r.via
        /\ packet' = [packet EXCEPT !.at = m]
  BY <1>1, <1>7
<1>9. PICK a, b, hop : Leads(r, a, b, hop)
  BY <1>8 DEF CarriedInv, RouteInv
<1>10. /\ r.at = a /\ r.dst = Head(addrs[b]) /\ b \in Hosts /\ addrs[b] # <<>>
       /\ hop \in Hosts /\ r.seg \in DOMAIN segIf[hop] /\ r.via = segIf[hop][r.seg]
  BY <1>9, RouteFields
<1>11. a = here /\ b = to
  <2>1. a = here /\ packet.dst = Head(addrs[b])
    BY <1>8, <1>10
  <2>2. NB!Owns(b, packet.dst)
    BY <1>10, <2>1, FirstOwned DEF CarriedInv
  <2> QED
    BY <1>4, <1>10, <2>1, <2>2
<1>12. m = hop
  <2>1. Here(config, r.seg)[segIf[m][r.seg][2]] = m /\ Here(config, r.seg)[segIf[hop][r.seg][2]] = hop
    BY <1>8, <1>10 DEF CarriedInv, NetworkInv, SegmentInv
  <2> QED
    BY <1>8, <1>10, <2>1
<1>13. NB!Distance(m, to) < NB!Distance(here, to)
  BY <1>4, <1>9, <1>11, <1>12 DEF Leads
<1>14. packet'.at = m /\ m # 0
  <2>1. packet'.at = m
    BY <1>3, <1>8
  <2> QED
    BY <2>1, HostCount
<1> QED
  BY <1>13, <1>14 DEF here, to

LEMMA StepCloser ==
  ASSUME NB!BuilderAssumption, CarriedInv, NB!Next
  PROVE  NB!HopCloser
<1> SUFFICES ASSUME NB!Deliverable, packet' # packet
             PROVE  packet'.at # 0
                    /\ NB!Distance(packet'.at, packet.to) < NB!Distance(packet.at, packet.to)
  BY DEF NB!HopCloser
<1>1. NB!Forward
  <2>1. ~NB!AttachDevice /\ ~NB!NextSegment
    BY Zenon DEF NB!AttachDevice, NB!NextSegment
  <2>2. ~NB!Pop /\ ~NB!InstallRoutes
    BY Zenon DEF NB!Pop, NB!InstallRoutes
  <2>3. \A v \in Hosts : ~NB!StartSearch(v) /\ ~NB!Visit(v)
    BY Zenon DEF NB!StartSearch, NB!Visit
  <2>4. \A a, b \in Hosts : ~NB!SendControl(a, b)
    BY DEF NB!SendControl, NB!NoPacket, NB!Deliverable
  <2> QED
    BY <2>1, <2>2, <2>3, <2>4 DEF NB!Next
<1> QED
  BY <1>1, ForwardCloser

-----------------------------------------------------------------------------
(* CongestionHelper: background flows.                                     *)

(* What is installed of a flow.                                            *)
Sender ==
  [node : FlowNames, dst : [node : FlowNames, port : CH!PortNumber, proto : {"udp", "tcp"}],
   kind : {"onoff", "bulk"}, start : Nat, stop : Nat, auto : BOOLEAN]

(* The sinks made are those installed, each made once; a sender whose call *)
(* makes sinks has its own among them; nothing runs before the last call   *)
(* has returned.                                                           *)
SinksInv ==
  /\ specs \in Seq(CH!TrafficSpec)
  /\ sinks \in Seq(installedSinks)
  /\ \A k \in installedSinks : \E i \in DOMAIN sinks : sinks[i] = k
  /\ \A i, j \in DOMAIN sinks : sinks[i] = sinks[j] => i = j
  /\ senders \in Seq(Sender)
  /\ \A i \in DOMAIN senders : senders[i].auto => senders[i].dst \in installedSinks
  /\ running \subseteq DOMAIN senders
  /\ now \in Nat
  /\ specs # <<>> => now = 0 /\ running = {}

LoadInv == SinksInv /\ CH!WindowKept

LEMMA LoadInitInv ==
  ASSUME CH!CongestionAssumption, CH!Init
  PROVE  LoadInv
BY SMTT(60) DEF CH!CongestionAssumption, CH!Init, LoadInv, SinksInv, CH!WindowKept

LEMMA FlowTyped ==
  ASSUME NEW g \in CH!TrafficFlow
  PROVE  /\ g.src \in FlowNames /\ g.dst \in FlowNames /\ g.dstPort \in CH!PortNumber
         /\ g.protocol \in CH!Word /\ g.source \in CH!Word
         /\ g.start \in Int /\ g.stop \in Int
<1>1. g \in CH!TrafficFlow
  OBVIOUS
<1> QED
  BY ONLY <1>1 DEF CH!TrafficFlow

LEMMA SenderTyped ==
  ASSUME NEW g \in CH!TrafficFlow, Head(specs).autoCreateSinks \in BOOLEAN
  PROVE  CH!SenderOf(g) \in Sender
<1>1. CH!ProtoOf(g) \in {"udp", "tcp"} /\ CH!SourceOf(g) \in {"onoff", "bulk"}
  BY DEF CH!ProtoOf, CH!SourceOf
<1>2. CH!SinkOf(g) \in [node : FlowNames, port : CH!PortNumber, proto : {"udp", "tcp"}]
  BY <1>1, FlowTyped DEF CH!SinkOf
<1>3. CH!FromZero(g.start) \in Nat /\ CH!FromZero(g.stop) \in Nat
  BY FlowTyped DEF CH!FromZero
<1>4. g.src \in FlowNames
  BY FlowTyped
<1> QED
  BY <1>1, <1>2, <1>3, <1>4 DEF CH!SenderOf, Sender

LEMMA LoadInstallInv ==
  ASSUME CH!CongestionAssumption, LoadInv, CH!InstallFlow
  PROVE  LoadInv'
<1> DEFINE call == Head(specs)
           f == Head(call.flows)
           makesSink == call.autoCreateSinks /\ CH!SinkKey(f) \notin installedSinks
<1>1. /\ specs # <<>> /\ call.flows # <<>>
      /\ specs \in Seq(CH!TrafficSpec) /\ call \in CH!TrafficSpec
      /\ f \in CH!TrafficFlow /\ call.flows \in Seq(CH!TrafficFlow)
  <2>1. specs # <<>> /\ call.flows # <<>> /\ specs \in Seq(CH!TrafficSpec)
    BY DEF LoadInv, SinksInv, CH!InstallFlow
  <2>2. call \in CH!TrafficSpec
    BY <2>1
  <2>3. call.flows \in Seq(CH!TrafficFlow)
    BY <2>2 DEF CH!TrafficSpec
  <2> QED
    BY <2>1, <2>2, <2>3
<1>2. specs' \in Seq(CH!TrafficSpec)
  <2>1. specs' = [specs EXCEPT ![1].flows = Tail(@)]
    BY DEF CH!InstallFlow
  <2>2. [specs[1] EXCEPT !.flows = Tail(@)] \in CH!TrafficSpec
    <3>1. specs[1] = call /\ Tail(call.flows) \in Seq(CH!TrafficFlow)
      BY <1>1
    <3> HIDE DEF call
    <3> QED
      BY <1>1, <3>1 DEF CH!TrafficSpec
  <2> QED
    BY <1>1, <2>1, <2>2
<1>3. running' = {} /\ now' = 0 /\ running = {} /\ now = 0
  BY <1>1 DEF CH!InstallFlow, LoadInv, SinksInv
<1>4. CASE UNCHANGED <<installedSinks, sinks, senders>>
  <2>1. SinksInv'
    BY <1>2, <1>3, <1>4 DEF LoadInv, SinksInv
  <2>2. CH!WindowKept'
    BY <1>3, <1>4 DEF LoadInv, CH!WindowKept, CH!Over
  <2> QED
    BY <2>1, <2>2 DEF LoadInv
<1>5. CASE /\ sinks' = IF makesSink THEN Append(sinks, CH!SinkOf(f)) ELSE sinks
           /\ installedSinks' = IF makesSink THEN installedSinks \cup {CH!SinkKey(f)}
                                ELSE installedSinks
           /\ senders' = Append(senders, CH!SenderOf(f))
  <2>1. CH!SinkKey(f) = CH!SinkOf(f)
    BY DEF CH!SinkKey, CH!SinkOf
  <2>2. /\ CH!SenderOf(f) \in Sender
        /\ CH!SenderOf(f).auto = call.autoCreateSinks
        /\ CH!SenderOf(f).dst = CH!SinkOf(f)
        /\ call.autoCreateSinks \in BOOLEAN
    <3>1. call.autoCreateSinks \in BOOLEAN
      BY <1>1 DEF CH!TrafficSpec
    <3> QED
      BY <1>1, <3>1, SenderTyped DEF CH!SenderOf
  <2> HIDE DEF call, f
  <2>3. /\ sinks' \in Seq(installedSinks')
        /\ \A k \in installedSinks' : \E i \in DOMAIN sinks' : sinks'[i] = k
        /\ \A i, j \in DOMAIN sinks' : sinks'[i] = sinks'[j] => i = j
    <3> DEFINE key == CH!SinkKey(f)
    <3>1. CASE makesSink
      <4>1. /\ sinks' = Append(sinks, key) /\ installedSinks' = installedSinks \cup {key}
            /\ key \notin installedSinks
        BY <1>5, <2>1, <3>1
      <4>2. /\ sinks \in Seq(installedSinks)
            /\ \A k \in installedSinks : \E i \in DOMAIN sinks : sinks[i] = k
            /\ \A i, j \in DOMAIN sinks : sinks[i] = sinks[j] => i = j
        BY DEF LoadInv, SinksInv
      <4> HIDE DEF key
      <4>3. sinks \in Seq(installedSinks')
        BY <4>1, <4>2
      <4>4. /\ DOMAIN sinks' = DOMAIN sinks \cup {Len(sinks) + 1} /\ Len(sinks) + 1 \notin DOMAIN sinks
            /\ \A i \in DOMAIN sinks : sinks'[i] = sinks[i] /\ sinks[i] \in installedSinks
            /\ sinks'[Len(sinks) + 1] = key
        BY <4>1, <4>2, <4>3
      <4>5. sinks' \in Seq(installedSinks')
        BY <4>1, <4>3
      <4> QED
        BY <4>1, <4>2, <4>4, <4>5
    <3>2. CASE ~makesSink
      BY <1>5, <3>2 DEF LoadInv, SinksInv
    <3> QED
      BY <3>1, <3>2
  <2>4. /\ senders \in Seq(Sender) /\ senders' \in Seq(Sender)
        /\ \A i \in DOMAIN senders' :
             senders'[i] = CH!SenderOf(f) \/ (i \in DOMAIN senders /\ senders'[i] = senders[i])
    <3>1. senders \in Seq(Sender)
      BY DEF LoadInv, SinksInv
    <3> QED
      BY <1>5, <2>2, <3>1
  <2>5. \A i \in DOMAIN senders' : senders'[i].auto => senders'[i].dst \in installedSinks'
    <3>1. CH!SenderOf(f).auto => CH!SenderOf(f).dst \in installedSinks'
      BY <1>5, <2>1, <2>2
    <3>2. \A i \in DOMAIN senders : senders[i].auto => senders[i].dst \in installedSinks'
      BY <1>5 DEF LoadInv, SinksInv
    <3> QED
      BY <2>4, <3>1, <3>2
  <2>6. SinksInv'
    BY <1>2, <1>3, <2>3, <2>4, <2>5 DEF SinksInv
  <2>7. CH!WindowKept'
    <3>1. \A i \in DOMAIN senders' : senders'[i].start \in Nat
      <4>1. \A r \in Sender : r.start \in Nat
        BY DEF Sender
      <4>2. \A i \in DOMAIN senders' : senders'[i] \in Sender
        BY <2>4
      <4> QED
        BY <4>1, <4>2
    <3> QED
      BY <1>3, <3>1 DEF CH!WindowKept
  <2> QED
    BY <2>6, <2>7 DEF LoadInv
<1> QED
  BY <1>4, <1>5 DEF CH!InstallFlow

LEMMA LoadRunInv ==
  ASSUME LoadInv, CH!RunEvents
  PROVE  LoadInv'
<1>1. senders \in Seq(Sender) /\ senders' = senders
  BY DEF LoadInv, SinksInv, CH!RunEvents
<1>2. /\ running \subseteq DOMAIN senders /\ now \in Nat /\ now' = now + 1
      /\ running' = (running \cup CH!Started(now)) \ CH!Stopped(now)
  BY DEF LoadInv, SinksInv, CH!RunEvents
<1>3. ASSUME NEW i \in DOMAIN senders
      PROVE  i \in running' <=> senders[i].start < now' /\ ~CH!Over(senders[i])'
  <2> DEFINE s == senders[i]
  <2>1. s.start \in Nat /\ s.stop \in Nat
    <3>1. \A r \in Sender : r.start \in Nat /\ r.stop \in Nat
      BY DEF Sender
    <3>2. s \in Sender
      BY <1>1
    <3> QED
      BY <3>1, <3>2
  <2>2. i \in running <=> s.start < now /\ ~(s.stop # 0 /\ s.start <= s.stop /\ s.stop < now)
    BY DEF LoadInv, CH!WindowKept, CH!Over
  <2>3. i \in running' <=> (i \in running \/ s.start = now) /\ ~(s.stop # 0 /\ s.stop = now)
    BY <1>2 DEF CH!Started, CH!Stopped
  <2>4. CH!Over(senders[i])' <=> s.stop # 0 /\ s.start <= s.stop /\ s.stop < now + 1
    BY <1>1, <1>2 DEF CH!Over
  <2> HIDE DEF s
  <2>5. s.start < now + 1 /\ ~(s.stop # 0 /\ s.start <= s.stop /\ s.stop < now + 1)
          <=> (i \in running \/ s.start = now) /\ ~(s.stop # 0 /\ s.stop = now)
    BY <1>2, <2>1, <2>2
  <2> QED
    BY <1>2, <2>3, <2>4, <2>5 DEF s
<1>4. CH!WindowKept'
  BY <1>1, <1>3 DEF CH!WindowKept
<1>5. SinksInv'
  BY <1>1, <1>2 DEF LoadInv, SinksInv, CH!RunEvents, CH!Started
<1> QED
  BY <1>4, <1>5 DEF LoadInv

LEMMA LoadNextInv ==
  ASSUME CH!CongestionAssumption, LoadInv, [CH!Next]_CH!vars
  PROVE  LoadInv'
<1>1. CASE CH!InstallFlow
  BY <1>1, LoadInstallInv
<1>2. CASE CH!NextCall
  <2>1. SinksInv'
    BY <1>2 DEF CH!NextCall, LoadInv, SinksInv
  <2>2. CH!WindowKept'
    BY <1>2 DEF CH!NextCall, LoadInv, CH!WindowKept, CH!Over
  <2> QED
    BY <2>1, <2>2 DEF LoadInv
<1>3. CASE CH!RunEvents
  BY <1>3, LoadRunInv
<1>4. CASE UNCHANGED CH!vars
  BY <1>4 DEF CH!vars, LoadInv, SinksInv, CH!WindowKept, CH!Over
<1> QED
  BY <1>1, <1>2, <1>3, <1>4 DEF CH!Next

LEMMA SinkCount ==
  ASSUME NEW S
  PROVE  CH!Cardinality(S) = Cardinality(S)
BY DEF CH!Cardinality, Cardinality

LEMMA LoadInvGives ==
  ASSUME LoadInv
  PROVE  CH!OneSinkEach /\ CH!WindowKept
<1> SUFFICES ASSUME NEW k \in DOMAIN senders, senders[k].auto
             PROVE  Cardinality({i \in DOMAIN sinks : sinks[i] = senders[k].dst}) = 1
  BY SinkCount DEF LoadInv, CH!OneSinkEach
<1>1. PICK i \in DOMAIN sinks : sinks[i] = senders[k].dst
  BY DEF LoadInv, SinksInv
<1>2. {j \in DOMAIN sinks : sinks[j] = senders[k].dst} = {i}
  BY <1>1 DEF LoadInv, SinksInv
<1> QED
  BY <1>2, FS_Singleton

(* One sink for every destination, and a flow keeps to its window.         *)
THEOREM LoadKept ==
  ASSUME CH!CongestionAssumption
  PROVE  CH!Spec => [](CH!OneSinkEach /\ CH!WindowKept)
<1>1. CH!Init => LoadInv
  BY LoadInitInv
<1>2. LoadInv /\ [CH!Next]_CH!vars => LoadInv'
  BY LoadNextInv
<1>3. LoadInv => CH!OneSinkEach /\ CH!WindowKept
  BY LoadInvGives
<1> QED
  BY <1>1, <1>2, <1>3, PTL DEF CH!Spec

-----------------------------------------------------------------------------
(* All helpers.                                                            *)

(* What is true of the part the behaviour is of.                           *)
PartInv ==
  /\ part = "sessions" => InstallInv /\ AddressInv
  /\ part = "swaps" => PlanInv /\ RoleInv
  /\ part = "network" => CarriedInv
  /\ part = "load" => LoadInv

LEMMA PartInit ==
  ASSUME HelpersAssumption, HelpersInit
  PROVE  PartInv
<1>1. CASE part = "sessions" /\ TH!Init
  BY <1>1, InstallInit, AddressInit DEF PartInv, HelpersAssumption
<1>2. CASE part = "swaps" /\ SH!Init
  BY <1>2, SwapInit DEF PartInv, HelpersAssumption
<1>3. CASE part = "network" /\ NB!Init
  BY <1>3, CarriedInit DEF PartInv, HelpersAssumption
<1>4. CASE part = "load" /\ CH!Init
  BY <1>4, LoadInitInv DEF PartInv, HelpersAssumption
<1> QED
  BY <1>1, <1>2, <1>3, <1>4 DEF HelpersInit

LEMMA PartStep ==
  ASSUME HelpersAssumption, PartInv, [HelpersNext]_helperVars
  PROVE  PartInv'
<1>1. /\ TH!HelperAssumption /\ SH!SwapHelperAssumption
      /\ NB!BuilderAssumption /\ CH!CongestionAssumption
  BY DEF HelpersAssumption
<1>2. /\ part' = part
      /\ part = "sessions" => [TH!Next]_TH!vars
      /\ part = "swaps" => [SH!Next]_SH!vars
      /\ part = "network" => [NB!Next]_NB!vars
      /\ part = "load" => [CH!Next]_CH!vars
  BY DEF HelpersNext, helperVars, sessionVars, swapVars, networkVars, loadVars,
         TH!vars, SH!vars, NB!vars, CH!vars
<1>3. CASE part = "sessions"
  BY <1>1, <1>2, <1>3, InstallStep, AddressStep DEF PartInv, InstallInv
<1>4. CASE part = "swaps"
  BY <1>1, <1>2, <1>4, SwapStep DEF PartInv
<1>5. CASE part = "network"
  BY <1>1, <1>2, <1>5, CarriedStep DEF PartInv
<1>6. CASE part = "load"
  BY <1>1, <1>2, <1>6, LoadNextInv DEF PartInv
<1>7. CASE part \notin {"sessions", "swaps", "network", "load"}
  BY <1>2, <1>7 DEF PartInv
<1> QED
  BY <1>3, <1>4, <1>5, <1>6, <1>7

(* What the helpers install agrees, whichever of them a program uses, for  *)
(* every list of nodes, links, sessions, swaps, LANs and flows.  What the  *)
(* helpers leave to their callers is in the properties themselves, each at *)
(* the place it is about: addresses that start again when the subnets are  *)
(* used up, two LANs of IPv4, sinks on one port without a warning, and     *)
(* sessions that share an id or pass a node twice.                         *)
THEOREM HelpersAgreeAlways ==
  ASSUME HelpersAssumption
  PROVE  HelpersSpec => []HelpersAgree
<1>1. HelpersInit => PartInv
  BY PartInit
<1>2. PartInv /\ [HelpersNext]_helperVars => PartInv'
  BY PartStep
<1>3. PartInv => HelpersAgree
  <2>1. AddressInv => TH!AddressesUnique
    BY DEF AddressInv, LinksBuilt, Below, Apart, TH!AddressesUnique
  <2>2. InstallInv => TH!SourceFindsSink /\ TH!ConflictsKnown
    BY ConflictsFollow DEF InstallInv, HelpersAssumption
  <2>3. PlanInv /\ RoleInv => SH!RolesAgree
    BY RolesGive DEF HelpersAssumption
  <2>4. CarriedInv => NB!AddressesUnique
    BY BuiltGives DEF CarriedInv
  <2>5. LoadInv => CH!OneSinkEach /\ CH!WindowKept
    BY LoadInvGives DEF HelpersAssumption
  <2> QED
    BY <2>1, <2>2, <2>3, <2>4, <2>5 DEF PartInv, HelpersAgree
<1> QED
  BY <1>1, <1>2, <1>3, PTL DEF HelpersSpec

(* Every hop over a network that was built takes a packet closer to its    *)
(* destination (helper/q2ns-classical-network-builder.cc:265).             *)
THEOREM HopsLeadAlways ==
  ASSUME HelpersAssumption
  PROVE  HelpersSpec => HopsLead
<1>1. HelpersInit => PartInv
  BY PartInit
<1>2. PartInv /\ [HelpersNext]_helperVars => PartInv'
  BY PartStep
<1>3. PartInv /\ [HelpersNext]_helperVars
        => [part = "network" => NB!HopCloser]_helperVars
  <2> SUFFICES ASSUME PartInv, HelpersNext, part = "network"
               PROVE  NB!HopCloser
    OBVIOUS
  <2>1. CarriedInv
    BY DEF PartInv
  <2>2. NB!Next
    BY DEF HelpersNext
  <2> QED
    BY <2>1, <2>2, StepCloser DEF HelpersAssumption
<1> QED
  BY <1>1, <1>2, <1>3, PTL DEF HelpersSpec, HopsLead

=============================================================================
