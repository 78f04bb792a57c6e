--------------------------- MODULE QChannelProofs ---------------------------
(***************************************************************************)
(* What holds of a channel for every set of devices, every delay, jitter   *)
(* and wiring a script sets, and any number of transmissions.  ChannelInv  *)
(* is the inductive invariant: who is heard is judged by what the calendar *)
(* held before, so it says of every delivery, scheduled or heard, how it   *)
(* was made (Made), and that later numbers were sent no earlier.           *)
(*                                                                         *)
(* The second part is about numbers and their bits: what tells two seeds   *)
(* apart.                                                                  *)
(*                                                                         *)
(* The third part is about the random streams of channels and states, for  *)
(* every number of links, states, draws and assignments that the words of  *)
(* the seeds have room for, any bases and backends, with the inductive     *)
(* invariant StreamsInv. Streams are handed out in increasing order and    *)
(* lie below nextStream (Apart); a number that was drawn came from a       *)
(* stream below nextStream, and if that stream is still in use, from a     *)
(* position that was passed (Spent), or from another backend with the same *)
(* seed (Collides).                                                        *)
(*                                                                         *)
(* The fourth part is about the seeds made of those streams, and the last  *)
(* about the gates of a RandomGateQMap.                                    *)
(***************************************************************************)
EXTENDS QChannel, Streams, SeedDerivation, GateWeights, FiniteSetTheorems, WellFoundedInduction, TLAPS

Made(e) ==
  /\ e.id \in Nat /\ e.id <= sent
  /\ e.sentAt \in Nat /\ e.sentAt <= now
  /\ e.due \in Int /\ e.due >= e.sentAt
  /\ e.elapsed = e.due - e.sentAt
  /\ e.base \in Nat
  /\ e.steady => e.due = e.sentAt + e.base
  /\ e.dst = e.src => e.loop

Tables ==
  /\ delay \in [Directions -> Nat]
  /\ jitter \in [Directions -> Nat]
  /\ now \in Nat
  /\ sent \in Nat

Numbered == \A e, f \in calendar : e.id < f.id => e.sentAt <= f.sentAt

HeardMade ==
  /\ heard.id \in Nat /\ heard.id <= sent
  /\ heard # Quiet => Made(heard)

ChannelInv ==
  /\ Tables
  /\ \A e \in calendar : Made(e)
  /\ NeverInThePast
  /\ Numbered
  /\ HeardMade
  /\ OnlyJitterOvertakes

-----------------------------------------------------------------------------
(* A setter leaves delays and jitters that are not negative.               *)
LEMMA AcceptKeepsNat ==
  ASSUME NEW table \in [Directions -> Nat], NEW directions, NEW v \in Int
  PROVE  Accept(table, directions, v) \in [Directions -> Nat]
  BY DEF Accept

(* A flight time is not negative, and is the delay when there is no jitter. *)
LEMMA FlightTimesNat ==
  ASSUME Tables, NEW d \in Directions, NEW flight \in FlightTimes(d)
  PROVE  /\ flight \in Nat
         /\ jitter[d] = 0 => flight = delay[d]
<1>1. delay[d] \in Nat /\ jitter[d] \in Nat
  BY DEF Tables
<1>2. PICK j \in -jitter[d]..jitter[d] :
        flight = IF delay[d] + j < 0 THEN 0 ELSE delay[d] + j
  BY DEF FlightTimes
<1>3. j \in Int
  BY <1>1, <1>2
<1>4. jitter[d] = 0 => j = 0
  BY <1>1, <1>2
<1> QED
  BY <1>1, <1>2, <1>3, <1>4

(* What was said of a delivery stays true while time and numbers go on.    *)
LEMMA MadeStays ==
  ASSUME NEW e, Made(e), Tables, Tables', sent <= sent', now <= now'
  PROVE  Made(e)'
  BY DEF Made, Tables

-----------------------------------------------------------------------------
LEMMA InitChannel ==
  ASSUME Init PROVE ChannelInv
<1> DEFINE zero == [d \in Directions |-> 0]
<1>1. zero \in [Directions -> Nat]
  OBVIOUS
<1>2. given.Delay \in Int /\ given.Jitter \in Int
  BY ChannelAssumption DEF Init
<1>3. ASSUME NEW v \in Int
      PROVE  ConstructSelf(zero, v, 0) \in [Directions -> Nat]
  BY <1>1, <1>3, AcceptKeepsNat DEF ConstructSelf
<1>4. Tables
  BY <1>2, <1>3 DEF Init, Tables
<1>5. calendar = {} /\ heard = Quiet /\ heard.id = 0 /\ sent = 0
  BY DEF Init, Quiet
<1> QED
  BY <1>4, <1>5 DEF ChannelInv, NeverInThePast, Numbered, HeardMade, OnlyJitterOvertakes

LEMMA ConfigureStep ==
  ASSUME ChannelInv, Configure PROVE ChannelInv'
<1>1. PICK directions \in {{"AB"}, {"BA"}, Directions}, v \in Values :
        SetDelay(directions, v) \/ SetJitter(directions, v)
  BY DEF Configure
<1>2. v \in Int
  BY ChannelAssumption
<1>3. UNCHANGED <<now, calendar, sent, heard>>
  BY DEF Configure, flights
<1>4. Tables'
  BY <1>1, <1>2, <1>3, AcceptKeepsNat DEF ChannelInv, Tables, SetDelay, SetJitter
<1> QED
  BY <1>3, <1>4
  DEF ChannelInv, Made, NeverInThePast, Numbered, HeardMade, OnlyJitterOvertakes

LEMMA TransmitStep ==
  ASSUME ChannelInv, NEW src \in Devices, SendFrom(src) PROVE ChannelInv'
<1> DEFINE d == DirectionOf(src)
<1>1. d \in Directions
  BY DEF SendFrom, DirectionOf, Directions
<1> DEFINE event(flight) ==
      [id |-> sent + 1, src |-> src, dst |-> Peer(src), dir |-> d, sentAt |-> now,
       due |-> now + flight, elapsed |-> Elapsed(d, flight),
       loop |-> aDev = bDev, steady |-> jitter[d] = 0, base |-> delay[d]]
<1>0. PICK flight \in FlightTimes(d) : calendar' = calendar \cup {event(flight)}
  BY DEF SendFrom
<1>2. PICK new : calendar' = calendar \cup {new} /\ new = event(flight)
  BY <1>0
<1>3. Tables /\ delay[d] \in Nat /\ flight \in Nat /\ (jitter[d] = 0 => flight = delay[d])
  BY <1>1, FlightTimesNat DEF ChannelInv, Tables
<1>4. sent' = sent + 1 /\ UNCHANGED <<delay, jitter, now, heard>>
  BY DEF SendFrom, config
<1>5. Tables'
  BY <1>3, <1>4 DEF Tables
<1>6. new.dst = new.src => new.loop
  <2>1. new.dst = Peer(src) /\ new.src = src /\ new.loop = (aDev = bDev)
    BY <1>2
  <2>2. CASE src = aDev
    BY <2>1, <2>2 DEF Peer, DirectionOf
  <2>3. CASE src # aDev
    BY <2>1, <2>3 DEF Peer, DirectionOf
  <2> QED
    BY <2>2, <2>3
<1>7. /\ new.id = sent + 1 /\ new.sentAt = now /\ new.due = now + flight
      /\ new.elapsed = flight /\ new.base = delay[d] /\ new.steady = (jitter[d] = 0)
  BY <1>2 DEF Elapsed
<1>8. Made(new)'
  <2>1. /\ new.id \in Nat /\ new.id <= sent'
        /\ new.sentAt \in Nat /\ new.sentAt <= now'
        /\ new.due \in Int /\ new.due >= new.sentAt
        /\ new.elapsed = new.due - new.sentAt
        /\ new.base \in Nat
    BY <1>3, <1>4, <1>7 DEF Tables
  <2>2. ASSUME new.steady PROVE new.due = new.sentAt + new.base
    <3>1. jitter[d] = 0
      BY <1>7, <2>2, Zenon
    <3> QED
      BY <1>3, <1>7, <3>1
  <2> QED
    BY <1>6, <2>1, <2>2, Zenon DEF Made
<1>9. ASSUME NEW e \in calendar PROVE Made(e)'
  BY <1>3, <1>4, <1>5, MadeStays DEF ChannelInv, Tables
<1>10. NeverInThePast'
  BY <1>2, <1>3, <1>4, <1>7 DEF ChannelInv, NeverInThePast, Tables
<1>11. Numbered'
  <2>1. \A e \in calendar : e.id \in Nat /\ e.id <= sent /\ e.sentAt <= now
    BY DEF ChannelInv, Made
  <2> QED
    BY <1>2, <1>3, <1>7, <2>1 DEF ChannelInv, Numbered, Tables
<1>12. HeardMade'
  BY <1>3, <1>4, <1>5, MadeStays DEF ChannelInv, HeardMade, Tables
<1>13. OnlyJitterOvertakes'
  <2>1. ~(new.id < heard.id)
    BY <1>3, <1>7 DEF ChannelInv, HeardMade, Tables
  <2> QED
    BY <1>2, <1>4, <2>1 DEF ChannelInv, OnlyJitterOvertakes
<1> QED
  BY <1>2, <1>5, <1>8, <1>9, <1>10, <1>11, <1>12, <1>13 DEF ChannelInv

LEMMA ReceiveStep ==
  ASSUME ChannelInv, NEW e \in calendar, ReceiveFromChannel(e) PROVE ChannelInv'
<1>1. /\ heard' = e /\ calendar' = calendar \ {e}
      /\ UNCHANGED <<delay, jitter, now, sent>>
  BY DEF ReceiveFromChannel, config
<1>2. Tables' /\ Made(e) /\ Made(e)'
  BY <1>1 DEF ChannelInv, Tables, Made
<1>3. HeardMade'
  BY <1>1, <1>2 DEF HeardMade, Made
<1>4. (\A f \in calendar : Made(f))' /\ NeverInThePast' /\ Numbered'
  BY <1>1 DEF ChannelInv, Made, NeverInThePast, Numbered
<1>5. OnlyJitterOvertakes'
  <2> SUFFICES ASSUME NEW f \in calendar \ {e}, f.id < e.id, f.steady, e.steady
               PROVE  e.base < f.base
    BY <1>1 DEF OnlyJitterOvertakes
  <2>1. Made(f) /\ f.sentAt <= e.sentAt
    BY DEF ChannelInv, Numbered
  <2>2. e.due < f.due \/ (e.due = f.due /\ e.id <= f.id)
    BY DEF ReceiveFromChannel, First
  <2> QED
    BY <1>2, <2>1, <2>2 DEF Made
<1> QED
  BY <1>2, <1>3, <1>4, <1>5 DEF ChannelInv

LEMMA TickStep ==
  ASSUME ChannelInv, Tick PROVE ChannelInv'
<1>1. now' = now + 1 /\ UNCHANGED <<delay, jitter, calendar, sent, heard>>
  BY DEF Tick, config, flights
<1>2. Tables'
  BY <1>1 DEF ChannelInv, Tables
<1>3. \A e \in calendar : Made(e)'
  BY <1>1, <1>2, MadeStays DEF ChannelInv, Tables
<1>4. NeverInThePast'
  BY <1>1 DEF ChannelInv, Tables, Made, NeverInThePast, Tick
<1>5. HeardMade'
  BY <1>1, <1>2, MadeStays DEF ChannelInv, HeardMade, Tables
<1> QED
  BY <1>1, <1>2, <1>3, <1>4, <1>5 DEF ChannelInv, Numbered, OnlyJitterOvertakes

LEMMA ChannelStep ==
  ASSUME ChannelInv, [Next]_vars PROVE ChannelInv'
<1>1. ASSUME NEW w \in Wirings, Connect(w[1], w[2])
      PROVE  ChannelInv'
  BY <1>1 DEF Connect, config, flights, ChannelInv, Tables, Made, NeverInThePast, Numbered,
              HeardMade, OnlyJitterOvertakes
<1>2. CASE UNCHANGED vars
  BY <1>2 DEF vars, ChannelInv, Tables, Made, NeverInThePast, Numbered, HeardMade,
              OnlyJitterOvertakes
<1> QED
  BY <1>1, <1>2, ConfigureStep, TransmitStep, ReceiveStep, TickStep DEF Next

(* Every reachable state of a channel satisfies ChannelInv.                *)
THEOREM ChannelInvariant == Spec => []ChannelInv
  BY InitChannel, ChannelStep, PTL DEF Spec

(* The time a map is sampled for is the time the delivery took.            *)
THEOREM ElapsedIsFlightAlways == Spec => []ElapsedIsFlight
<1>1. ChannelInv => ElapsedIsFlight
  BY DEF ChannelInv, HeardMade, Made, ElapsedIsFlight
<1> QED
  BY <1>1, ChannelInvariant, PTL

(* No delivery is scheduled for a time that is over.                       *)
THEOREM NeverInThePastAlways == Spec => []NeverInThePast
<1>1. ChannelInv => NeverInThePast
  BY DEF ChannelInv
<1> QED
  BY <1>1, ChannelInvariant, PTL

(* Without jitter a qubit overtakes another of its direction only when the *)
(* delay was lowered in between.                                           *)
THEOREM OnlyJitterOvertakesAlways == Spec => []OnlyJitterOvertakes
<1>1. ChannelInv => OnlyJitterOvertakes
  BY DEF ChannelInv
<1> QED
  BY <1>1, ChannelInvariant, PTL

(* A qubit is not delivered to its sender, whatever is connected meanwhile. *)
THEOREM NeverBackToSenderAlways == Spec => []NeverBackToSender
<1>1. ChannelInv => NeverBackToSender
  BY DEF ChannelInv, HeardMade, Made, NeverBackToSender
<1> QED
  BY <1>1, ChannelInvariant, PTL

(* The four facts together (model/q2ns-qchannel.cc:321): whatever the      *)
(* delays, the jitter and the devices attached, a flight is what the map   *)
(* is told, ends no earlier than it began, and reaches a device other than *)
(* its sender.                                                             *)
THEOREM FlightsKeptAlways == Spec => []FlightsKept
<1>1. ElapsedIsFlight /\ NeverInThePast /\ OnlyJitterOvertakes /\ NeverBackToSender
      => FlightsKept
  BY DEF FlightsKept
<1> QED
  BY <1>1, ElapsedIsFlightAlways, NeverInThePastAlways,
     OnlyJitterOvertakesAlways, NeverBackToSenderAlways, PTL

-----------------------------------------------------------------------------
(* Numbers and their bits.                                                 *)

(* A set of numbers that contains 0 and the successor of each of its       *)
(* elements below n contains all of them.                                  *)
LEMMA Reach ==
  ASSUME NEW n \in Nat, NEW S, 0 \in S, \A i \in 1..n : i - 1 \in S => i \in S
  PROVE  \A i \in 0..n : i \in S
<1> DEFINE T == (0..n) \ S
<1>1. SUFFICES ASSUME T # {}
               PROVE  FALSE
  OBVIOUS
<1>2. T \subseteq Nat
  OBVIOUS
<1>3. PICK x \in T : \A y \in T : <<y, x>> \notin OpToRel(<, Nat)
  <2> HIDE DEF T
  <2> QED
    BY <1>1, <1>2, NatLessThanWellFounded, WFMin, Zenon
<1>4. \A y \in T : ~(y < x)
  BY <1>2, <1>3 DEF OpToRel
<1>5. x \in 1..n /\ x - 1 \in 0..n /\ x - 1 < x
  OBVIOUS
<1>6. x - 1 \in S
  BY <1>4, <1>5
<1> QED
  BY <1>5, <1>6

IsHalving(f, n, k) == f = [i \in 0..k |-> IF i = 0 THEN n ELSE f[i - 1] \div 2]

LEMMA HalvingExists ==
  ASSUME NEW n, NEW k \in Nat
  PROVE  \E f : IsHalving(f, n, k)
<1> DEFINE S == {i \in 0..k : \E f : IsHalving(f, n, i)}
<1>1. 0 \in S
  <2>1. IsHalving([i \in 0..0 |-> n], n, 0)
    BY DEF IsHalving
  <2> QED
    BY <2>1
<1>2. ASSUME NEW i \in 1..k, i - 1 \in S
      PROVE  i \in S
  <2>1. PICK f : IsHalving(f, n, i - 1)
    BY <1>2
  <2> DEFINE g == [j \in 0..i |-> IF j < i THEN f[j] ELSE f[i - 1] \div 2]
  <2>2. ASSUME NEW j \in 0..i
        PROVE  g[j] = IF j = 0 THEN n ELSE g[j - 1] \div 2
    <3>1. CASE j = i
      <4>1. i - 1 \in 0..i /\ i - 1 < i /\ j # 0 /\ ~(j < i)
        BY <3>1
      <4>2. g[i - 1] = f[i - 1] /\ g[j] = f[i - 1] \div 2
        BY <4>1
      <4> QED
        BY <3>1, <4>1, <4>2
    <3>2. CASE j # i
      <4>1. j \in 0..(i - 1) /\ j < i
        BY <3>2
      <4>2. f[j] = IF j = 0 THEN n ELSE f[j - 1] \div 2
        BY <2>1, <4>1 DEF IsHalving
      <4>3. g[j] = f[j] /\ (j # 0 => g[j - 1] = f[j - 1])
        BY <4>1
      <4> QED
        BY <4>2, <4>3
    <3> QED
      BY <3>1, <3>2
  <2>3. IsHalving(g, n, i)
    <3>1. g = [j \in 0..i |-> g[j]]
      OBVIOUS
    <3> HIDE DEF g
    <3> QED
      BY <2>2, <3>1 DEF IsHalving
  <2> QED
    BY <2>3
<1>3. \A i \in 0..k : i \in S
  <2> HIDE DEF S
  <2> QED
    BY <1>1, <1>2, Reach
<1> QED
  BY <1>3

LEMMA HalvedIs ==
  ASSUME NEW n
  PROVE  /\ Halved(n)[0] = n
         /\ \A i \in 1..64 : Halved(n)[i] = Halved(n)[i - 1] \div 2
<1> DEFINE half[i \in 0..Width] == IF i = 0 THEN n ELSE half[i - 1] \div 2
<1>1. Halved(n) = half
  BY DEF Halved
<1>2. IsHalving(half, n, 64)
  <2>1. half = CHOOSE f : f = [i \in 0..64 |-> IF i = 0 THEN n ELSE f[i - 1] \div 2]
    BY DEF Width
  <2>2. half = CHOOSE f : IsHalving(f, n, 64)
    BY <2>1 DEF IsHalving
  <2> HIDE DEF half
  <2> QED
    BY <2>2, HalvingExists
<1> HIDE DEF half
<1> QED
  BY <1>1, <1>2 DEF IsHalving

LEMMA HalvedNat ==
  ASSUME NEW n \in Nat
  PROVE  \A i \in 0..64 : Halved(n)[i] \in Nat
<1> DEFINE S == {i \in 0..64 : Halved(n)[i] \in Nat}
<1>1. 0 \in S
  BY HalvedIs
<1>2. \A i \in 1..64 : i - 1 \in S => i \in S
  BY HalvedIs
<1> HIDE DEF S
<1>3. \A i \in 0..64 : i \in S
  BY <1>1, <1>2, Reach
<1> QED
  BY <1>3 DEF S

(* A number of 64 bits is determined by its bits.                          *)
LEMMA BitsDetermine ==
  ASSUME NEW n \in Word, NEW m \in Word, Bits(n) = Bits(m)
  PROVE  n = m
<1> DEFINE a(i) == Halved(n)[i]
           b(i) == Halved(m)[i]
           S == {i \in 0..64 : a(64 - i) = b(64 - i)}
<1>1. n \in Nat /\ m \in Nat /\ a(64) = 0 /\ b(64) = 0
  BY DEF Word, Width
<1>2. \A i \in 0..64 : a(i) \in Nat /\ b(i) \in Nat
  BY <1>1, HalvedNat
<1>3. \A i \in 0..63 : (a(i) % 2 = 1) <=> (b(i) % 2 = 1)
  BY DEF Bits, Width
<1>4. \A i \in 1..64 : a(i) = a(i - 1) \div 2 /\ b(i) = b(i - 1) \div 2
  BY HalvedIs
<1>5. a(0) = n /\ b(0) = m
  BY HalvedIs
<1> HIDE DEF a, b
<1>6. 0 \in S
  BY <1>1
<1>7. ASSUME NEW i \in 1..64, i - 1 \in S
      PROVE  i \in S
  <2> DEFINE k == 64 - i
  <2>1. k \in 0..63 /\ k + 1 \in 1..64 /\ 64 - (i - 1) = k + 1 /\ (k + 1) - 1 = k
    OBVIOUS
  <2>2. a(k + 1) = b(k + 1)
    BY <1>7, <2>1
  <2>3. a(k) \div 2 = b(k) \div 2
    BY <1>4, <2>1, <2>2
  <2>4. (a(k) % 2 = 1) <=> (b(k) % 2 = 1)
    BY <1>3, <2>1
  <2>5. a(k) \in Nat /\ b(k) \in Nat
    BY <1>2, <2>1
  <2>6. \A x, y \in Nat : x \div 2 = y \div 2 /\ ((x % 2 = 1) <=> (y % 2 = 1)) => x = y
    OBVIOUS
  <2>7. a(k) = b(k)
    BY <2>3, <2>4, <2>5, <2>6
  <2> QED
    BY <2>7
<1>8. 64 \in S
  <2> HIDE DEF S
  <2> QED
    BY <1>6, <1>7, Reach
<1> QED
  BY <1>5, <1>8

(* Smaller numbers do not have more bits.                                  *)
LEMMA WordsBelow ==
  ASSUME NEW m \in Word, NEW n \in Nat, n <= m
  PROVE  n \in Word
<1> DEFINE a(i) == Halved(n)[i]
           b(i) == Halved(m)[i]
           S == {i \in 0..64 : a(i) <= b(i)}
<1>1. m \in Nat /\ b(64) = 0
  BY DEF Word, Width
<1>2. \A i \in 0..64 : a(i) \in Nat /\ b(i) \in Nat
  BY <1>1, HalvedNat
<1>3. \A i \in 1..64 : a(i) = a(i - 1) \div 2 /\ b(i) = b(i - 1) \div 2
  BY HalvedIs
<1>4. a(0) <= b(0)
  BY HalvedIs
<1> HIDE DEF a, b
<1>5. 0 \in S
  BY <1>4
<1>6. \A i \in 1..64 : i - 1 \in S => i \in S
  <2>1. \A x, y \in Nat : x <= y => x \div 2 <= y \div 2
    OBVIOUS
  <2> QED
    BY SMTT(60), <1>2, <1>3, <2>1
<1>7. 64 \in S
  <2> HIDE DEF S
  <2> QED
    BY <1>5, <1>6, Reach
<1>8. a(64) = 0
  BY <1>1, <1>2, <1>7
<1> QED
  BY <1>8 DEF a, Word, Width

LEMMA XorCancels ==
  ASSUME NEW r, NEW a, NEW b
  PROVE  /\ XorBits(r, a) = XorBits(r, b) => a = b
         /\ XorBits(a, r) = XorBits(b, r) => a = b
BY DEF XorBits

(* A seed is a set of the bits a word has.                                 *)
LEMMA SeedsAreBits ==
  ASSUME NEW r, NEW stream, NEW salt
  PROVE  DeriveSeed64(r, stream, salt) \subseteq 0..63
BY DEF DeriveSeed64, XorBits, Bits, Width

(* One backend has another seed for each stream.                           *)
LEMMA StreamsGiveSeeds ==
  ASSUME NEW r, NEW salt, NEW m \in Word, NEW n \in Word,
         DeriveSeed64(r, m, salt) = DeriveSeed64(r, n, salt)
  PROVE  m = n
<1>1. XorBits(XorBits(Bits(r), Bits(m)), Bits(salt)) = XorBits(XorBits(Bits(r), Bits(n)), Bits(salt))
  BY DEF DeriveSeed64
<1>2. Bits(m) = Bits(n)
  BY <1>1, XorCancels
<1> QED
  BY <1>2, BitsDetermine

-----------------------------------------------------------------------------
(* The streams.                                                            *)

Links == DOMAIN channels
Live == DOMAIN states

Kinds ==
  /\ streamsAssigned \in BOOLEAN
  /\ nextStream \in Nat /\ nextId \in Nat \ {0} /\ calls \in Nat
  /\ \E n \in Nat : Links = 1..n
  /\ channels \in [Links -> [stream : Int, pos : Nat]]
  /\ Live \subseteq 1..(nextId - 1)
  /\ states \in [Live -> [backend : Backends, stream : Int]]
  /\ last \in [Backends -> Int]
  /\ prng \in [seed : SUBSET Int, by : {Unseeded} \cup (Backends \X Nat), pos : Nat]

(* Streams are words: there are not more links and states than the bounds. *)
Few ==
  /\ Cardinality(Links) <= MaxLinks /\ nextId <= MaxStates + 1
  /\ \E base \in Bases \cup {0} : nextStream <= base + 2 * Cardinality(Links) + nextId - 1

(* The generator has the seed of the state that seeded it.                 *)
SeedOf(by) == IF by = Unseeded THEN {Width} ELSE DeriveSeed64(Replication, by[2], Salt[by[1]])
OwnSeed == \E by, seed : prng.by = by /\ prng.seed = seed /\ seed = SeedOf(by)

(* Before the first assignment nothing has a stream and none is used up.   *)
Unassigned ==
  /\ streamsAssigned <=> calls # 0
  /\ ~streamsAssigned => nextStream = 0 /\ \A l \in Links : channels[l].stream = -1

(* Two streams of each channel and one of each state, in increasing order. *)
Apart ==
  /\ \A l \in Links : channels[l].stream \in Nat /\ channels[l].stream + 2 <= nextStream
  /\ \A l, k \in Links : l < k => channels[l].stream + 2 <= channels[k].stream
  /\ \A i \in Live : states[i].stream \in Nat /\ states[i].stream < nextStream
  /\ \A i, j \in Live : i < j => states[i].stream < states[j].stream
  /\ \A l \in Links, i \in Live :
       \/ states[i].stream < channels[l].stream
       \/ channels[l].stream + 2 <= states[i].stream

(* The number d was drawn, and not by whom g and the channels let draw it. *)
SpentUnseeded(d, g) ==
  \E p \in Nat : /\ d = [seed |-> {Width}, by |-> Unseeded, pos |-> p]
                 /\ g.by = Unseeded => p < g.pos
SpentState(d, g, next) ==
  \E b \in Backends : \E n, p \in Nat :
    /\ d = [seed |-> DeriveSeed64(Replication, n, Salt[b]), by |-> <<b, n>>, pos |-> p] /\ n < next
    /\ g.by = <<b, n>> => p < g.pos
SpentChannel(d, chans, next) ==
  \E n, p \in Nat :
    /\ d = [seed |-> {-1 - n}, by |-> <<"channel", n>>, pos |-> p] /\ n < next
    /\ \A l \in DOMAIN chans : chans[l].stream = n => p < chans[l].pos
Spent(d, g, chans, next) ==
  SpentUnseeded(d, g) \/ SpentState(d, g, next) \/ SpentChannel(d, chans, next)

SeedUsed ==
  prng.by # Unseeded => \E b \in Backends, n \in Nat : prng.by = <<b, n>> /\ n < nextStream

(* Two streams of two backends, with one seed.                             *)
Collides(pair) ==
  \E b, c \in Backends : \E m, n \in StreamNumbers :
    /\ b # c /\ pair = <<<<b, m>>, <<c, n>>>>
    /\ DeriveSeed64(Replication, m, Salt[b]) = DeriveSeed64(Replication, n, Salt[c])

NothingTwice ==
  /\ \A pair \in replayed : Collides(pair)
  /\ SeedUsed
  /\ \A d \in drawn : Spent(d, prng, channels, nextStream)

OnlyOnce == calls <= 1 => NothingTwice

StreamsInv ==
  Kinds /\ Few /\ OwnSeed /\ Unassigned /\ (streamsAssigned => Apart) /\ OnlyOnce

-----------------------------------------------------------------------------
(* A part of a finite set that lacks an element has fewer elements.        *)
LEMMA SmallerPart ==
  ASSUME NEW T, IsFiniteSet(T), NEW S, S \subseteq T, NEW x \in T, x \notin S
  PROVE  /\ Cardinality(S) \in Nat /\ Cardinality(T) \in Nat
         /\ Cardinality(S) + 1 <= Cardinality(T)
<1>1. IsFiniteSet(S)
  BY FS_Subset
<1>2. Cardinality(S) \in Nat /\ Cardinality(T) \in Nat
  BY <1>1, FS_CardinalityType
<1>3. Cardinality(S \cup {x}) = Cardinality(S) + 1
  BY <1>1, FS_AddElement
<1>4. Cardinality(S \cup {x}) <= Cardinality(T)
  <2>1. S \cup {x} \in SUBSET T
    OBVIOUS
  <2> QED
    BY <2>1, FS_Subset
<1> QED
  BY <1>2, <1>3, <1>4

(* The ids below an id are fewer than those below a later one, and than all. *)
LEMMA CountBelow ==
  ASSUME NEW n \in Nat, NEW D, D \subseteq 1..n
  PROVE  LET below(i) == Cardinality({j \in D : j < i})
         IN  /\ Cardinality(D) \in Nat
             /\ \A i \in D : below(i) \in Nat /\ below(i) + 1 <= Cardinality(D)
             /\ \A i, k \in D : i < k => below(i) + 1 <= below(k)
<1> DEFINE Below(i) == {j \in D : j < i}
<1>1. IsFiniteSet(D) /\ \A i : IsFiniteSet(Below(i))
  <2>1. IsFiniteSet(1..n)
    BY FS_Interval
  <2>2. D \in SUBSET (1..n) /\ \A i : Below(i) \in SUBSET (1..n)
    OBVIOUS
  <2> HIDE DEF Below
  <2> QED
    BY <2>1, <2>2, FS_Subset
<1>2. \A i \in D : Below(i) \subseteq D /\ i \notin Below(i)
  OBVIOUS
<1>3. ASSUME NEW i \in D, NEW k \in D, i < k
      PROVE  Below(i) \subseteq Below(k) /\ i \in Below(k)
  <2>1. \A j \in D : j \in Int
    OBVIOUS
  <2>2. \A j \in D : j < i => j < k
    BY <1>3, <2>1
  <2> QED
    BY <1>3, <2>2
<1> HIDE DEF Below
<1>4. ASSUME NEW i \in D
      PROVE  Cardinality(Below(i)) \in Nat /\ Cardinality(Below(i)) + 1 <= Cardinality(D)
  BY <1>1, <1>2, SmallerPart
<1>5. ASSUME NEW i \in D, NEW k \in D, i < k
      PROVE  Cardinality(Below(i)) + 1 <= Cardinality(Below(k))
  <2>1. IsFiniteSet(Below(k)) /\ Below(i) \subseteq Below(k) /\ i \in Below(k) /\ i \notin Below(i)
    BY <1>1, <1>2, <1>3, <1>5
  <2> QED
    BY <2>1, SmallerPart
<1>6. Cardinality(D) \in Nat
  BY <1>1, FS_CardinalityType
<1> QED
  BY <1>4, <1>5, <1>6 DEF Below

(* A set of ids has a latest one.                                          *)
LEMMA Latest ==
  ASSUME NEW n \in Nat, NEW S, S \subseteq 1..n, S # {}
  PROVE  \E i \in S : \A j \in S : j <= i
<1>0. \A i \in S : i \in Int
  OBVIOUS
<1> DEFINE T == {n - i : i \in S}
<1>1. T \subseteq Nat /\ T # {}
  <2>1. ASSUME NEW x \in T
        PROVE  x \in Nat
    <3>1. PICK i \in S : x = n - i
      OBVIOUS
    <3>2. i \in 1..n
      OBVIOUS
    <3> QED
      BY <3>1, <3>2
  <2>2. PICK i : i \in S
    OBVIOUS
  <2>3. n - i \in T
    BY <2>2
  <2> QED
    BY <2>1, <2>3
<1>2. PICK x \in T : \A y \in T : <<y, x>> \notin OpToRel(<, Nat)
  <2> HIDE DEF T
  <2> QED
    BY <1>1, NatLessThanWellFounded, WFMin, Zenon
<1>3. \A y \in T : ~(y < x)
  BY <1>1, <1>2 DEF OpToRel
<1>4. PICK i \in S : x = n - i
  OBVIOUS
<1>5. ASSUME NEW j \in S
      PROVE  j <= i
  <2>1. n - j \in T
    BY Zenon
  <2>2. i \in Int /\ j \in Int
    BY <1>0
  <2>3. ~(n - j < n - i)
    BY <2>1, <1>3, <1>4
  <2> HIDE DEF T
  <2> QED
    BY <2>2, <2>3
<1> QED
  BY <1>5

(* Seeds that are written differently differ.                              *)
LEMMA SeedsDiffer ==
  /\ \A b, n : <<b, n>> # Unseeded
  /\ \A a, b, m, n : <<a, m>> = <<b, n>> => a = b /\ m = n
  BY DEF Unseeded

-----------------------------------------------------------------------------
(* What is spent stays spent when the generator moves on or takes a stream *)
(* that is new, and when channels keep their streams or get new ones.      *)
LEMMA SpentStays ==
  ASSUME NEW d, NEW g, NEW h, NEW chans, NEW cs, NEW next \in Nat, NEW new \in Nat,
         next <= new, Spent(d, g, chans, next),
         g.pos \in Nat, h.pos \in Nat,
         \/ h.by = g.by /\ g.pos <= h.pos
         \/ \E b \in Backends, n \in Nat : h.by = <<b, n>> /\ next <= n,
         \A l \in DOMAIN cs :
           \/ cs[l].stream = -1 \/ (cs[l].stream \in Nat /\ next <= cs[l].stream)
           \/ /\ l \in DOMAIN chans /\ cs[l].stream = chans[l].stream
              /\ chans[l].pos \in Nat /\ cs[l].pos \in Nat /\ chans[l].pos <= cs[l].pos
  PROVE  Spent(d, h, cs, new)
<1>1. CASE SpentUnseeded(d, g)
  <2>1. PICK p \in Nat : /\ d = [seed |-> {Width}, by |-> Unseeded, pos |-> p]
                         /\ g.by = Unseeded => p < g.pos
    BY <1>1 DEF SpentUnseeded
  <2>2. h.by = Unseeded => p < h.pos
    BY <2>1, SeedsDiffer
  <2> QED
    BY <2>1, <2>2 DEF Spent, SpentUnseeded
<1>2. CASE SpentState(d, g, next)
  <2>1. PICK b \in Backends : \E n, p \in Nat :
          /\ d = [seed |-> DeriveSeed64(Replication, n, Salt[b]), by |-> <<b, n>>, pos |-> p]
          /\ n < next /\ (g.by = <<b, n>> => p < g.pos)
    BY <1>2 DEF SpentState
  <2>2. PICK n \in Nat, p \in Nat :
          /\ d = [seed |-> DeriveSeed64(Replication, n, Salt[b]), by |-> <<b, n>>, pos |-> p]
          /\ n < next /\ (g.by = <<b, n>> => p < g.pos)
    BY <2>1
  <2>3. h.by = <<b, n>> => p < h.pos
    <3>1. \A c \in Backends, m \in Nat : next <= m => <<c, m>> # <<b, n>>
      BY <2>2, SeedsDiffer
    <3> QED
      BY <2>2, <3>1
  <2>4. n < new
    BY <2>2
  <2>5. SpentState(d, h, new)
    BY <2>2, <2>3, <2>4 DEF SpentState
  <2> QED
    BY <2>5 DEF Spent
<1>3. CASE SpentChannel(d, chans, next)
  <2>1. PICK n \in Nat, p \in Nat :
          /\ d = [seed |-> {-1 - n}, by |-> <<"channel", n>>, pos |-> p] /\ n < next
          /\ \A l \in DOMAIN chans : chans[l].stream = n => p < chans[l].pos
    BY <1>3 DEF SpentChannel
  <2>2. ASSUME NEW l \in DOMAIN cs, cs[l].stream = n
        PROVE  p < cs[l].pos
    <3>1. cs[l].stream # -1 /\ ~(next <= cs[l].stream)
      BY <2>1, <2>2
    <3> QED
      BY <2>1, <2>2, <3>1
  <2>3. n < new
    BY <2>1
  <2>4. SpentChannel(d, cs, new)
    BY <2>1, <2>2, <2>3 DEF SpentChannel
  <2> QED
    BY <2>4 DEF Spent
<1> QED
  BY <1>1, <1>2, <1>3 DEF Spent

LEMMA CountLinks == ASSUME Kinds PROVE Cardinality(Links) \in Nat
<1>1. PICK k \in Nat : Links = 1..k
  BY DEF Kinds
<1>2. Cardinality(1..k) = k
  BY FS_Interval
<1> QED
  BY <1>1, <1>2

(* Streams handed out are words.                                           *)
LEMMA StreamsAreWords ==
  ASSUME StreamsAssumption, Kinds, Few, NEW n \in Nat, n < nextStream
  PROVE  n \in StreamNumbers /\ n \in Word
<1>1. PICK base \in Bases \cup {0} : nextStream <= base + 2 * Cardinality(Links) + nextId - 1
  BY DEF Few
<1>2. base \in Nat /\ MaxLinks \in Nat /\ MaxStates \in Nat
  BY DEF StreamsAssumption
<1>3. Cardinality(Links) \in Nat
  BY CountLinks
<1>4. nextStream \in Nat /\ nextId \in Nat
  BY DEF Kinds
<1>5. Cardinality(Links) <= MaxLinks /\ nextId <= MaxStates + 1
  BY DEF Few
<1>6. n \in 0..(base + 2 * MaxLinks + MaxStates)
  BY <1>1, <1>2, <1>3, <1>4, <1>5
<1>7. n \in StreamNumbers
  BY <1>6 DEF StreamNumbers
<1> QED
  BY <1>7 DEF StreamsAssumption

(* A number that is spent and that the generator gives again is one that a *)
(* state of another backend had, with the same seed.                       *)
LEMMA OnlyCollisions ==
  ASSUME StreamsAssumption, Kinds, Few, OwnSeed, SeedUsed,
         NEW d, Spent(d, prng, channels, nextStream), d.seed = prng.seed, d.pos = prng.pos
  PROVE  Collides(<<d.by, prng.by>>)
<1>0. /\ prng.pos \in Nat /\ prng.by \in {Unseeded} \cup (Backends \X Nat)
      /\ prng.seed = SeedOf(prng.by)
  BY DEF Kinds, OwnSeed
<1>1. prng.by # Unseeded =>
        \E c \in Backends, n \in Nat :
          /\ prng.by = <<c, n>> /\ n < nextStream /\ prng.seed = DeriveSeed64(Replication, n, Salt[c])
  BY <1>0, SeedsDiffer DEF SeedUsed, SeedOf
<1>2. prng.by = Unseeded => prng.seed = {64}
  BY <1>0 DEF SeedOf, Width
<1>3. \A r, n, salt : DeriveSeed64(r, n, salt) # {64}
  BY SeedsAreBits
<1>4. ~SpentUnseeded(d, prng)
  <2> SUFFICES ASSUME SpentUnseeded(d, prng)
               PROVE  FALSE
    OBVIOUS
  <2>1. PICK p \in Nat : /\ d = [seed |-> {64}, by |-> Unseeded, pos |-> p]
                         /\ prng.by = Unseeded => p < prng.pos
    BY DEF SpentUnseeded, Width
  <2>2. d.seed = {64} /\ d.pos = p
    BY <2>1
  <2>3. prng.by = Unseeded
    BY <1>1, <1>3, <2>2
  <2> QED
    BY <1>0, <2>1, <2>2, <2>3
<1>5. ~SpentChannel(d, channels, nextStream)
  <2> SUFFICES ASSUME SpentChannel(d, channels, nextStream)
               PROVE  FALSE
    OBVIOUS
  <2>1. PICK n \in Nat, p \in Nat : d = [seed |-> {-1 - n}, by |-> <<"channel", n>>, pos |-> p]
    BY DEF SpentChannel
  <2>2. d.seed = {-1 - n} /\ -1 - n \notin 0..63 /\ -1 - n # 64
    BY <2>1
  <2>3. \A r, m, salt : DeriveSeed64(r, m, salt) # {-1 - n}
    BY <2>2, SeedsAreBits
  <2> QED
    BY <1>1, <1>2, <2>2, <2>3
<1>6. SpentState(d, prng, nextStream)
  BY <1>4, <1>5 DEF Spent
<1>7. PICK b \in Backends : \E m, p \in Nat :
        /\ d = [seed |-> DeriveSeed64(Replication, m, Salt[b]), by |-> <<b, m>>, pos |-> p]
        /\ m < nextStream /\ (prng.by = <<b, m>> => p < prng.pos)
  BY <1>6 DEF SpentState
<1>8. PICK m \in Nat, p \in Nat :
        /\ d = [seed |-> DeriveSeed64(Replication, m, Salt[b]), by |-> <<b, m>>, pos |-> p]
        /\ m < nextStream /\ (prng.by = <<b, m>> => p < prng.pos)
  BY <1>7
<1>9. d.seed = DeriveSeed64(Replication, m, Salt[b]) /\ d.by = <<b, m>> /\ d.pos = p
  BY <1>8
<1>10. prng.by # Unseeded
  BY <1>2, <1>3, <1>9
<1>11. PICK c \in Backends, n \in Nat :
         /\ prng.by = <<c, n>> /\ n < nextStream /\ prng.seed = DeriveSeed64(Replication, n, Salt[c])
  BY <1>1, <1>10
<1>12. /\ m \in StreamNumbers /\ m \in Word /\ n \in StreamNumbers /\ n \in Word
  BY <1>8, <1>11, StreamsAreWords
<1>13. DeriveSeed64(Replication, m, Salt[b]) = DeriveSeed64(Replication, n, Salt[c])
  BY <1>9, <1>11
<1>14. b # c
  <2> SUFFICES ASSUME b = c
               PROVE  FALSE
    OBVIOUS
  <2>1. m = n
    BY <1>12, <1>13, StreamsGiveSeeds
  <2> QED
    BY <1>0, <1>8, <1>9, <1>11, <2>1
<1> QED
  BY <1>9, <1>11, <1>12, <1>13, <1>14 DEF Collides

(* What a state's generator begins with.                                   *)
LEMMA SeededIs ==
  ASSUME NEW b \in Backends, NEW n \in Nat
  PROVE  /\ Seeded(b, n) \in [seed : SUBSET Int, by : {Unseeded} \cup (Backends \X Nat), pos : Nat]
         /\ Seeded(b, n).by = <<b, n>> /\ Seeded(b, n).pos = 0
         /\ Seeded(b, n).seed = SeedOf(<<b, n>>)
<1>1. SeedOf(<<b, n>>) = DeriveSeed64(Replication, n, Salt[b])
  BY SeedsDiffer DEF SeedOf
<1>2. DeriveSeed64(Replication, n, Salt[b]) \in SUBSET Int
  BY SeedsAreBits
<1> QED
  BY <1>1, <1>2 DEF Seeded

-----------------------------------------------------------------------------
(* The steps                                                               *)

LEMMA StreamsInitInv == StreamsAssumption /\ StreamsInit => StreamsInv
<1> SUFFICES ASSUME StreamsAssumption, StreamsInit
             PROVE  StreamsInv
  OBVIOUS
<1>1. Links = {} /\ Live = {} /\ 1..0 = {}
  BY DEF StreamsInit, Links, Live
<1>2. Kinds
  <2>1. Links = 1..0
    BY <1>1
  <2>2. channels \in [Links -> [stream : Int, pos : Nat]]
    BY DEF StreamsInit, Links
  <2>3. states \in [Live -> [backend : Backends, stream : Int]]
    BY DEF StreamsInit, Live
  <2>4. \E n \in Nat : Links = 1..n
    BY <2>1
  <2>5. /\ last \in [Backends -> Int]
        /\ prng \in [seed : SUBSET Int, by : {Unseeded} \cup (Backends \X Nat), pos : Nat]
    BY DEF StreamsInit, FromRandomDevice, Width
  <2>6. streamsAssigned \in BOOLEAN
    BY DEF StreamsInit
  <2>7. nextStream \in Nat /\ nextId \in Nat \ {0} /\ calls \in Nat
    <3>1. nextStream = 0 /\ nextId = 1 /\ calls = 0
      BY DEF StreamsInit
    <3> QED
      BY <3>1
  <2> QED
    BY <1>1, <2>2, <2>3, <2>4, <2>5, <2>6, <2>7 DEF Kinds
<1>3. Unassigned /\ OnlyOnce /\ OwnSeed
  BY <1>1 DEF StreamsInit, FromRandomDevice, Unassigned, OnlyOnce, NothingTwice, SeedUsed, OwnSeed, SeedOf
<1>4. Few
  <2>1. Cardinality(Links) = 0 /\ nextId = 1 /\ nextStream = 0
    BY <1>1, FS_EmptySet DEF StreamsInit
  <2>2. MaxLinks \in Nat /\ MaxStates \in Nat
    BY DEF StreamsAssumption
  <2>3. 0 \in Bases \cup {0} /\ 0 <= 0 + 2 * 0 + 1 - 1
    OBVIOUS
  <2> QED
    BY <2>1, <2>2, <2>3 DEF Few
<1> QED
  BY <1>2, <1>3, <1>4 DEF StreamsInv, StreamsInit

(* Streams stay apart when a link or a state gets the next ones.           *)
LEMMA InstallStep ==
  ASSUME StreamsAssumption, StreamsInv, InstallQuantumLink
  PROVE  StreamsInv'
<1> DEFINE l0 == Cardinality(Links) + 1
           s0 == IF streamsAssigned THEN nextStream ELSE -1
<1>0. Kinds /\ Unassigned
  BY DEF StreamsInv
<1>1. PICK n \in Nat : Links = 1..n
  BY <1>0 DEF Kinds
<1>2. l0 = n + 1 /\ l0 \notin Links /\ Links \cup {l0} = 1..(n + 1) /\ \A l \in Links : l < l0
  <2>1. Cardinality(1..n) = n
    BY FS_Interval
  <2> QED
    BY <1>1, <2>1
<1>3. /\ channels' = [k \in Links \cup {l0} |->
                       IF k # l0 THEN channels[k] ELSE [stream |-> s0, pos |-> 0]]
      /\ nextStream' = IF streamsAssigned THEN nextStream + 2 ELSE nextStream
      /\ UNCHANGED <<streamsAssigned, states, nextId, last, prng, drawn, calls, replayed>>
  BY DEF InstallQuantumLink, ChannelWith, Links
<1> HIDE DEF l0
<1>4. Links' = Links \cup {l0}
  BY <1>3 DEF Links
<1>5. /\ \A k \in Links : channels'[k] = channels[k]
      /\ channels'[l0] = [stream |-> s0, pos |-> 0]
  BY <1>2, <1>3
<1>6. s0 \in Int /\ nextStream' \in Nat /\ nextStream <= nextStream'
  BY <1>0, <1>3 DEF Kinds
<1>7. Kinds'
  <2>1. Links' = 1..(n + 1) /\ n + 1 \in Nat
    BY <1>2, <1>4
  <2>2. channels' \in [Links' -> [stream : Int, pos : Nat]]
    BY <1>0, <1>3, <1>4, <1>6 DEF Kinds
  <2> QED
    BY <1>0, <1>3, <1>6, <2>1, <2>2 DEF Kinds, Live
<1>8. Unassigned'
  BY <1>0, <1>3, <1>4, <1>5 DEF Unassigned
<1>9. ASSUME streamsAssigned'
      PROVE  Apart'
  <2>1. streamsAssigned /\ Apart
    BY <1>3, <1>9 DEF StreamsInv
  <2>2. nextStream \in Nat /\ nextStream' = nextStream + 2 /\ s0 = nextStream
    BY <1>0, <1>3, <2>1 DEF Kinds
  <2>3. \A l \in Links' :
          \/ l \in Links /\ channels'[l] = channels[l]
          \/ l = l0 /\ channels'[l].stream = nextStream
    BY <1>4, <1>5, <2>2
  <2>4. \A l \in Links' : channels'[l].stream \in Nat /\ channels'[l].stream + 2 <= nextStream'
    BY <2>1, <2>2, <2>3 DEF Apart
  <2>5. ASSUME NEW l \in Links', NEW k \in Links', l < k
        PROVE  channels'[l].stream + 2 <= channels'[k].stream
    <3>1. l \in Links /\ channels'[l] = channels[l]
      BY <1>2, <2>3, <2>5, <1>1
    <3>2. CASE k \in Links
      BY <1>5, <2>1, <2>5, <3>1, <3>2 DEF Apart
    <3>3. CASE k = l0
      BY <1>5, <2>1, <2>2, <3>1, <3>3 DEF Apart
    <3> QED
      BY <1>4, <3>2, <3>3
  <2>6. \A i \in Live : states[i].stream \in Nat /\ states[i].stream < nextStream'
    BY <2>1, <2>2 DEF Apart
  <2>7. \A l \in Links', i \in Live :
          \/ states[i].stream < channels'[l].stream
          \/ channels'[l].stream + 2 <= states[i].stream
    BY <2>1, <2>3 DEF Apart
  <2>8. Live' = Live /\ states' = states
    BY <1>3 DEF Live
  <2> QED
    BY <2>1, <2>4, <2>5, <2>6, <2>7, <2>8 DEF Apart
<1>10. OnlyOnce'
  <2> SUFFICES ASSUME calls' <= 1
               PROVE  NothingTwice'
    BY DEF OnlyOnce
  <2>1. NothingTwice
    BY <1>3 DEF StreamsInv, OnlyOnce
  <2>2. SeedUsed'
    <3>1. \A b \in Backends, m \in Nat : m < nextStream => m < nextStream'
      BY <1>0, <1>6 DEF Kinds
    <3> QED
      BY <1>3, <2>1, <3>1 DEF SeedUsed, NothingTwice
  <2>3. \A l \in DOMAIN channels' :
          \/ channels'[l].stream = -1
          \/ channels'[l].stream \in Nat /\ nextStream <= channels'[l].stream
          \/ /\ l \in DOMAIN channels /\ channels'[l].stream = channels[l].stream
             /\ channels[l].pos \in Nat /\ channels'[l].pos \in Nat
             /\ channels[l].pos <= channels'[l].pos
    <3>1. \A l \in Links : channels[l].pos \in Nat
      BY <1>0 DEF Kinds
    <3>2. s0 = -1 \/ (s0 \in Nat /\ nextStream <= s0)
      BY <1>0 DEF Kinds
    <3> HIDE DEF s0
    <3> QED
      BY <1>4, <1>5, <3>1, <3>2 DEF Links
  <2>4. ASSUME NEW d \in drawn
        PROVE  Spent(d, prng, channels', nextStream')
    <3>1. prng.pos \in Nat /\ nextStream \in Nat
      BY <1>0 DEF Kinds
    <3>2. Spent(d, prng, channels, nextStream) /\ prng.pos <= prng.pos
      BY <2>1, <3>1 DEF NothingTwice
    <3> QED
      BY <1>6, <2>3, <3>1, <3>2, SpentStays
  <2> QED
    BY <1>3, <2>1, <2>2, <2>4 DEF NothingTwice
<1>11. Few' /\ OwnSeed'
  <2>1. Cardinality(Links) = n /\ Cardinality(Links') = n + 1 /\ n < MaxLinks
    <3>1. Links' = 1..(n + 1) /\ n + 1 \in Nat
      BY <1>2, <1>4
    <3>2. Cardinality(1..n) = n /\ Cardinality(1..(n + 1)) = n + 1
      BY <3>1, FS_Interval
    <3> QED
      BY <1>1, <3>1, <3>2 DEF InstallQuantumLink, Links
  <2>2. PICK base \in Bases \cup {0} : nextStream <= base + 2 * n + nextId - 1
    BY <2>1 DEF StreamsInv, Few
  <2>3. base \in Nat /\ MaxLinks \in Nat /\ nextId \in Nat /\ nextStream \in Nat
    BY <1>0 DEF StreamsAssumption, Kinds
  <2>4. nextStream' <= base + 2 * (n + 1) + nextId - 1 /\ n + 1 <= MaxLinks
    BY <1>3, <2>1, <2>2, <2>3
  <2> QED
    BY <1>3, <2>1, <2>4 DEF StreamsInv, Few, OwnSeed
<1> QED
  BY <1>7, <1>8, <1>9, <1>10, <1>11 DEF StreamsInv

LEMMA CreateStep ==
  ASSUME StreamsAssumption, StreamsInv, NEW b \in Backends, CreateState(b)
  PROVE  StreamsInv'
<1> DEFINE s0 == IF streamsAssigned THEN nextStream ELSE -1
<1>0. Kinds /\ Unassigned
  BY DEF StreamsInv
<1>1. /\ nextId' = nextId + 1
      /\ states' = [i \in Live \cup {nextId} |->
                     IF i # nextId THEN states[i] ELSE [backend |-> b, stream |-> s0]]
      /\ UNCHANGED <<streamsAssigned, channels, drawn, calls, replayed>>
      /\ streamsAssigned => /\ prng' = Reseed(prng, b, nextStream)
                            /\ last' = [last EXCEPT ![b] = nextStream]
                            /\ nextStream' = nextStream + 1
      /\ ~streamsAssigned => UNCHANGED <<prng, last, nextStream>>
  BY DEF CreateState, AssignerActs, Live
<1>2. nextId \in Nat \ {0} /\ nextStream \in Nat /\ s0 \in Int /\ Live \subseteq 1..(nextId - 1)
  BY <1>0 DEF Kinds
<1>3. nextId \notin Live /\ \A i \in Live : i \in Int /\ i < nextId
  BY <1>2
<1>4. Live' = Live \cup {nextId}
  BY <1>1 DEF Live
<1>5. /\ \A i \in Live : states'[i] = states[i]
      /\ states'[nextId] = [backend |-> b, stream |-> s0]
  BY <1>1, <1>3
<1>6. nextStream' \in Nat /\ nextStream <= nextStream' /\ last' \in [Backends -> Int]
  BY <1>0, <1>1, <1>2 DEF Kinds
<1>7. \/ prng' = prng
      \/ /\ streamsAssigned /\ prng'.by = <<b, nextStream>>
         /\ prng' = Seeded(b, nextStream)
  BY <1>0, <1>1, <1>2, SeededIs DEF Reseed, Kinds
<1>8. /\ prng' \in [seed : SUBSET Int, by : {Unseeded} \cup (Backends \X Nat), pos : Nat]
      /\ OwnSeed'
  <2>1. CASE prng' = prng
    BY <1>0, <2>1 DEF Kinds, StreamsInv, OwnSeed
  <2>2. CASE prng' = Seeded(b, nextStream)
    BY <1>2, <2>2, SeededIs DEF OwnSeed
  <2> QED
    BY <1>7, <2>1, <2>2
<1>9. Kinds'
  <2>1. states' \in [Live' -> [backend : Backends, stream : Int]]
    <3> HIDE DEF s0
    <3> QED
      BY <1>0, <1>1, <1>2, <1>4 DEF Kinds
  <2>2. nextId' \in Nat \ {0} /\ Live' \subseteq 1..(nextId' - 1)
    <3>1. nextId \in Nat \ {0} /\ Live \subseteq 1..(nextId - 1)
      BY <1>2
    <3>2. nextId' = nextId + 1 /\ Live' = Live \cup {nextId}
      BY <1>1, <1>4
    <3> HIDE DEF s0
    <3> QED
      BY <3>1, <3>2
  <2>3. Links' = Links /\ \E n \in Nat : Links' = 1..n
    BY <1>0, <1>1 DEF Kinds, Links
  <2>4. channels' \in [Links' -> [stream : Int, pos : Nat]]
    BY <1>0, <1>1, <2>3 DEF Kinds
  <2> QED
    BY <1>0, <1>1, <1>6, <1>8, <2>1, <2>2, <2>3, <2>4 DEF Kinds
<1>10. Unassigned'
  BY <1>0, <1>1 DEF Unassigned, Links
<1>11. ASSUME streamsAssigned'
       PROVE  Apart'
  <2>1. streamsAssigned /\ Apart
    BY <1>1, <1>11 DEF StreamsInv
  <2>2. nextStream' = nextStream + 1 /\ s0 = nextStream
    BY <1>1, <2>1
  <2>3. \A i \in Live' :
          \/ i \in Live /\ states'[i] = states[i]
          \/ i = nextId /\ states'[i].stream = nextStream
    BY <1>4, <1>5, <2>2
  <2>4. ASSUME NEW i \in Live'
        PROVE  states'[i].stream \in Nat /\ states'[i].stream < nextStream'
    <3>1. nextStream \in Nat /\ nextStream < nextStream'
      BY <1>2, <2>2
    <3>2. CASE i \in Live /\ states'[i] = states[i]
      <4>1. states[i].stream \in Nat /\ states[i].stream < nextStream
        BY <2>1, <3>2 DEF Apart
      <4> QED
        BY <2>2, <3>1, <3>2, <4>1
    <3>3. CASE states'[i].stream = nextStream
      BY <3>1, <3>3
    <3> QED
      BY <2>3, <3>2, <3>3
  <2>5. ASSUME NEW i \in Live', NEW j \in Live', i < j
        PROVE  states'[i].stream < states'[j].stream
    <3>1. i \in Live /\ states'[i] = states[i]
      <4> SUFFICES ASSUME i = nextId
                   PROVE  FALSE
        BY <2>3
      <4>1. nextId \in Int /\ nextId < j
        BY <1>2, <2>5
      <4>2. CASE j \in Live
        BY <1>3, <4>1, <4>2
      <4>3. CASE j = nextId
        BY <4>1, <4>3
      <4> QED
        BY <2>3, <4>2, <4>3
    <3>2. CASE j \in Live
      BY <1>5, <2>1, <2>5, <3>1, <3>2 DEF Apart
    <3>3. CASE j = nextId
      BY <1>5, <2>1, <2>2, <3>1, <3>3 DEF Apart
    <3> QED
      BY <1>4, <3>2, <3>3
  <2>6. \A l \in Links, i \in Live' :
          \/ states'[i].stream < channels[l].stream
          \/ channels[l].stream + 2 <= states'[i].stream
    BY <1>2, <2>1, <2>3 DEF Apart
  <2>7. \A l \in Links : channels[l].stream \in Nat /\ channels[l].stream + 2 <= nextStream'
    BY <1>2, <2>1, <2>2 DEF Apart
  <2>8. Links' = Links /\ channels' = channels
    BY <1>1 DEF Links
  <2> QED
    BY <2>1, <2>4, <2>5, <2>6, <2>7, <2>8 DEF Apart
<1>12. OnlyOnce'
  <2> SUFFICES ASSUME calls' <= 1
               PROVE  NothingTwice'
    BY DEF OnlyOnce
  <2>1. NothingTwice
    BY <1>1 DEF StreamsInv, OnlyOnce
  <2>2. SeedUsed'
    <3>1. \A c \in Backends, m \in Nat : m < nextStream => m < nextStream'
      BY <1>2, <1>6
    <3>2. CASE prng' = prng
      BY <2>1, <3>1, <3>2 DEF SeedUsed, NothingTwice
    <3>3. CASE streamsAssigned /\ prng'.by = <<b, nextStream>>
      <4>1. nextStream < nextStream'
        BY <1>1, <1>2, <3>3
      <4> QED
        BY <1>2, <3>3, <4>1 DEF SeedUsed
    <3> QED
      BY <1>7, <3>2, <3>3
  <2>3. \A l \in DOMAIN channels' :
          /\ l \in DOMAIN channels /\ channels'[l].stream = channels[l].stream
          /\ channels[l].pos \in Nat /\ channels'[l].pos \in Nat
          /\ channels[l].pos <= channels'[l].pos
    BY <1>0, <1>1 DEF Kinds, Links
  <2>4. \/ prng'.by = prng.by /\ prng.pos <= prng'.pos
        \/ \E c \in Backends, n \in Nat : prng'.by = <<c, n>> /\ nextStream <= n
    <3>1. prng.pos \in Nat /\ nextStream <= nextStream
      BY <1>0, <1>2 DEF Kinds
    <3> QED
      BY <1>2, <1>7, <3>1
  <2>5. prng.pos \in Nat /\ prng'.pos \in Nat
    BY <1>0, <1>8 DEF Kinds
  <2>6. ASSUME NEW d \in drawn
        PROVE  Spent(d, prng', channels', nextStream')
    <3>1. Spent(d, prng, channels, nextStream)
      BY <2>1 DEF NothingTwice
    <3> QED
      BY <1>2, <1>6, <2>3, <2>4, <2>5, <3>1, SpentStays
  <2> QED
    BY <1>1, <2>1, <2>2, <2>6 DEF NothingTwice
<1>13. Few'
  <2>1. Links' = Links /\ nextId <= MaxStates
    BY <1>1 DEF CreateState, Links
  <2>2. PICK base \in Bases \cup {0} : nextStream <= base + 2 * Cardinality(Links) + nextId - 1
    BY DEF StreamsInv, Few
  <2>3. Cardinality(Links) \in Nat
    BY <1>0, CountLinks
  <2>4. base \in Nat /\ MaxStates \in Nat
    BY DEF StreamsAssumption
  <2>5. nextStream' <= nextStream + 1
    BY <1>1, <1>2
  <2>6. /\ nextStream' <= base + 2 * Cardinality(Links) + (nextId + 1) - 1
        /\ nextId + 1 <= MaxStates + 1
    BY <1>2, <1>6, <2>1, <2>2, <2>3, <2>4, <2>5
  <2> QED
    BY <1>1, <2>1, <2>6 DEF StreamsInv, Few
<1> QED
  BY <1>8, <1>9, <1>10, <1>11, <1>12, <1>13 DEF StreamsInv

LEMMA RemoveStep ==
  ASSUME StreamsAssumption, StreamsInv, NEW i \in Live, RemoveState(i)
  PROVE  StreamsInv'
<1>1. /\ Live' = Live \ {i} /\ \A j \in Live' : states'[j] = states[j]
      /\ states' = [j \in Live \ {i} |-> states[j]]
      /\ Links' = Links
      /\ UNCHANGED <<streamsAssigned, nextStream, channels, nextId, last, prng, drawn, calls, replayed>>
  BY DEF RemoveState, Live, Links
<1>2. Kinds'
  <2>1. states' \in [Live' -> [backend : Backends, stream : Int]]
    BY <1>1 DEF StreamsInv, Kinds
  <2> QED
    BY <1>1, <2>1 DEF StreamsInv, Kinds
<1>3. Unassigned' /\ (streamsAssigned' => Apart')
  BY <1>1 DEF StreamsInv, Unassigned, Apart
<1>4. OnlyOnce' /\ Few' /\ OwnSeed'
  BY <1>1 DEF StreamsInv, OnlyOnce, NothingTwice, SeedUsed, Few, OwnSeed
<1> QED
  BY <1>2, <1>3, <1>4 DEF StreamsInv

(* The generator is left alone or takes the stream of some state.          *)
LEMMA AssignSeeds ==
  ASSUME Kinds, NEW base \in Nat, AssignStreams(base)
  PROVE  \/ prng' = prng
         \/ \E i \in Live : prng' = Seeded(states[i].backend, StateStream(base, i))
<1> DEFINE of(b) == {i \in Live : states[i].backend = b}
           latest(S) == CHOOSE i \in S : \A j \in S : j <= i
           reseeds == {i \in Live :
             LET before == {j \in of(states[i].backend) : j < i}
             IN  before # {} \/ last[states[i].backend] # StateStream(base, i)}
<1>1. prng' = IF reseeds = {} THEN prng
              ELSE LET i == latest(reseeds)
                   IN  Seeded(states[i].backend, StateStream(base, i))
  BY DEF AssignStreams, Live
<1>2. reseeds \subseteq Live
  OBVIOUS
<1> HIDE DEF reseeds
<1>3. ASSUME reseeds # {}
      PROVE  latest(reseeds) \in Live
  <2>1. reseeds \subseteq 1..(nextId - 1) /\ nextId - 1 \in Nat
    BY <1>2 DEF Kinds
  <2>2. \E i \in reseeds : \A j \in reseeds : j <= i
    BY <1>3, <2>1, Latest
  <2>3. latest(reseeds) \in reseeds
    BY <2>2
  <2> QED
    BY <1>2, <2>3
<1> QED
  BY <1>1, <1>3

LEMMA AssignLast ==
  ASSUME Kinds, NEW base \in Nat, AssignStreams(base),
         \A i \in Live : StateStream(base, i) \in Nat
  PROVE  last' \in [Backends -> Int]
<1> DEFINE of(b) == {i \in Live : states[i].backend = b}
           latest(S) == CHOOSE i \in S : \A j \in S : j <= i
<1>1. last' = [b \in Backends |-> IF of(b) = {} THEN last[b] ELSE StateStream(base, latest(of(b)))]
  BY DEF AssignStreams, Live
<1>2. ASSUME NEW b \in Backends, of(b) # {}
      PROVE  latest(of(b)) \in Live
  <2>1. of(b) \subseteq Live /\ Live \subseteq 1..(nextId - 1) /\ nextId - 1 \in Nat
    BY DEF Kinds
  <2> HIDE DEF of
  <2>2. \E i \in of(b) : \A j \in of(b) : j <= i
    BY <1>2, <2>1, Latest
  <2>3. latest(of(b)) \in of(b)
    BY <2>2
  <2> QED
    BY <2>1, <2>3
<1>3. \A b \in Backends : last[b] \in Int
  BY DEF Kinds
<1> HIDE DEF of, latest
<1> QED
  BY <1>1, <1>2, <1>3

LEMMA AssignStep ==
  ASSUME StreamsAssumption, StreamsInv, NEW base \in Bases \cup {0}, AssignStreams(base)
  PROVE  StreamsInv'
<1> DEFINE n == Cardinality(Links)
           m == Cardinality(Live)
<1>0. Kinds /\ Unassigned /\ base \in Nat
  BY DEF StreamsInv, StreamsAssumption
<1>1. Links = 1..n /\ n \in Nat
  <2>1. PICK k \in Nat : Links = 1..k
    BY <1>0 DEF Kinds
  <2>2. Cardinality(1..k) = k
    BY <2>1, FS_Interval
  <2> QED
    BY <2>1, <2>2
<1>2. /\ m \in Nat
      /\ \A i \in Live : /\ StateStream(base, i) \in Nat
                          /\ base + 2 * n <= StateStream(base, i)
                          /\ StateStream(base, i) < base + 2 * n + m
      /\ \A i, j \in Live : i < j => StateStream(base, i) < StateStream(base, j)
  <2> DEFINE below(i) == Cardinality({j \in Live : j < i})
  <2>1. nextId - 1 \in Nat /\ Live \subseteq 1..(nextId - 1)
    BY <1>0 DEF Kinds
  <2>2. /\ m \in Nat
        /\ \A i \in Live : below(i) \in Nat /\ below(i) + 1 <= m
        /\ \A i, j \in Live : i < j => below(i) + 1 <= below(j)
    BY <2>1, CountBelow
  <2>3. \A i : StateStream(base, i) = base + 2 * n + below(i)
    BY DEF StateStream, Links, Live
  <2> HIDE DEF below, m, n
  <2> QED
    BY <1>0, <1>1, <2>2, <2>3
<1>3. /\ streamsAssigned' = TRUE
      /\ channels' = [l \in Links |-> [stream |-> base + 2 * (l - 1), pos |-> 0]]
      /\ states' = [i \in Live |-> [states[i] EXCEPT !.stream = StateStream(base, i)]]
      /\ nextStream' = base + 2 * n + m
      /\ calls' = calls + 1
      /\ UNCHANGED <<nextId, drawn, replayed>>
  BY DEF AssignStreams, ChannelWith, ChannelStream, Links, Live
<1>4. last' \in [Backends -> Int]
  BY <1>0, <1>2, AssignLast
<1>5. \/ prng' = prng
      \/ \E i \in Live : prng' = Seeded(states[i].backend, StateStream(base, i))
  BY <1>0, AssignSeeds
<1> HIDE DEF n, m
<1>6. Links' = Links /\ Live' = Live
  BY <1>3 DEF Links, Live
<1>7. nextStream' \in Nat /\ calls' \in Nat /\ calls' # 0
  BY <1>0, <1>1, <1>2, <1>3 DEF Kinds
<1>8. \A i \in Live : states[i].backend \in Backends /\ states'[i].stream = StateStream(base, i)
  BY <1>0, <1>3 DEF Kinds
<1>9. \A l \in Links : channels'[l].stream = base + 2 * (l - 1)
  BY <1>3
<1>10. \/ prng' = prng
       \/ \E b \in Backends, s \in Nat :
            s < nextStream' /\ prng' = Seeded(b, s) /\ prng'.by = <<b, s>>
  <2>1. CASE prng' = prng
    BY <2>1
  <2>2. ASSUME NEW i \in Live, prng' = Seeded(states[i].backend, StateStream(base, i))
        PROVE  \E b \in Backends, s \in Nat :
                 s < nextStream' /\ prng' = Seeded(b, s) /\ prng'.by = <<b, s>>
    BY <1>2, <1>3, <1>8, <2>2, SeededIs
  <2> QED
    BY <1>5, <2>1, <2>2
<1>11. Kinds'
  <2>1. channels' \in [Links' -> [stream : Int, pos : Nat]]
    BY <1>0, <1>1, <1>3, <1>6
  <2>2. states' \in [Live' -> [backend : Backends, stream : Int]]
    <3>1. \A i \in Live : /\ states[i] \in [backend : Backends, stream : Int]
                          /\ StateStream(base, i) \in Int
      BY <1>0, <1>2 DEF Kinds
    <3> QED
      BY <1>3, <1>6, <3>1
  <2>3. prng' \in [seed : SUBSET Int, by : {Unseeded} \cup (Backends \X Nat), pos : Nat]
    <3>1. CASE prng' = prng
      BY <1>0, <3>1 DEF Kinds
    <3>2. CASE \E b \in Backends, s \in Nat : prng' = Seeded(b, s)
      BY <3>2, SeededIs
    <3> QED
      BY <1>10, <3>1, <3>2
  <2>4. \E k \in Nat : Links' = 1..k
    BY <1>1, <1>6
  <2>5. nextId' \in Nat \ {0} /\ Live' \subseteq 1..(nextId' - 1)
    BY <1>0, <1>3, <1>6 DEF Kinds
  <2> QED
    BY <1>3, <1>4, <1>7, <2>1, <2>2, <2>3, <2>4, <2>5 DEF Kinds
<1>12. Unassigned'
  BY <1>3, <1>7 DEF Unassigned
<1>13. Apart'
  <2>1. ASSUME NEW l \in Links
        PROVE  /\ channels'[l].stream \in Nat
               /\ channels'[l].stream + 2 <= base + 2 * n
               /\ channels'[l].stream + 2 <= nextStream'
    <3>1. l \in Nat /\ 1 <= l /\ l <= n
      BY <1>1
    <3> QED
      BY <1>0, <1>1, <1>2, <1>3, <1>9, <3>1
  <2>2. ASSUME NEW l \in Links, NEW k \in Links, l < k
        PROVE  channels'[l].stream + 2 <= channels'[k].stream
    <3>1. l \in Int /\ k \in Int /\ l + 1 <= k
      BY <1>1, <2>2
    <3> QED
      BY <1>0, <1>9, <3>1
  <2>3. ASSUME NEW l \in Links, NEW i \in Live
        PROVE  channels'[l].stream + 2 <= states'[i].stream
    BY <1>0, <1>1, <1>2, <1>8, <2>1
  <2> QED
    BY <1>2, <1>3, <1>6, <1>8, <2>1, <2>2, <2>3 DEF Apart
<1>14. OnlyOnce'
  <2> SUFFICES ASSUME calls' <= 1
               PROVE  NothingTwice'
    BY DEF OnlyOnce
  <2>1. calls = 0 /\ nextStream = 0
    BY <1>0, <1>3 DEF Kinds, Unassigned
  <2>2. NothingTwice
    BY <2>1 DEF StreamsInv, OnlyOnce
  <2>3. SeedUsed'
    BY <1>10, <2>1, <2>2 DEF SeedUsed, NothingTwice
  <2>4. ASSUME NEW d \in drawn
        PROVE  Spent(d, prng', channels', nextStream')
    <3>1. SpentUnseeded(d, prng)
      BY <2>1, <2>2 DEF Spent, SpentState, SpentChannel, NothingTwice
    <3>2. SpentUnseeded(d, prng')
      BY <1>10, <3>1, SeedsDiffer DEF SpentUnseeded
    <3> QED
      BY <3>2 DEF Spent
  <2> QED
    BY <1>3, <2>2, <2>3, <2>4 DEF NothingTwice
<1>15. Few' /\ OwnSeed'
  <2>1. m <= nextId - 1
    <3>1. nextId - 1 \in Nat /\ Live \in SUBSET (1..(nextId - 1))
      BY <1>0 DEF Kinds
    <3>2. IsFiniteSet(1..(nextId - 1)) /\ Cardinality(1..(nextId - 1)) = nextId - 1
      BY <3>1, FS_Interval
    <3> QED
      BY <3>1, <3>2, FS_Subset DEF m
  <2>2. nextStream' <= base + 2 * Cardinality(Links') + nextId' - 1
    <3>1. nextId \in Nat /\ Cardinality(Links') = n
      BY <1>0, <1>6 DEF Kinds, n
    <3> QED
      BY <1>0, <1>1, <1>2, <1>3, <2>1, <3>1
  <2>3. Cardinality(Links') <= MaxLinks /\ nextId' <= MaxStates + 1
    BY <1>3, <1>6 DEF StreamsInv, Few
  <2>4. OwnSeed'
    <3>1. CASE prng' = prng
      BY <3>1 DEF StreamsInv, OwnSeed
    <3>2. ASSUME NEW b \in Backends, NEW s \in Nat, prng' = Seeded(b, s)
          PROVE  OwnSeed'
      <4>1. prng'.by = <<b, s>> /\ prng'.seed = SeedOf(<<b, s>>)
        BY <3>2, SeededIs
      <4> QED
        BY <4>1 DEF OwnSeed
    <3> QED
      BY <1>10, <3>1, <3>2
  <2> QED
    BY <2>2, <2>3, <2>4 DEF Few
<1> QED
  BY <1>11, <1>12, <1>13, <1>14, <1>15 DEF StreamsInv

(* The generator moves on; what it gave is spent.                          *)
LEMMA MeasureStep ==
  ASSUME StreamsAssumption, StreamsInv, MeasureDraws
  PROVE  StreamsInv'
<1> DEFINE d0 == prng
           same == {d \in drawn : d.seed = prng.seed /\ d.pos = prng.pos}
<1>0. Kinds /\ Unassigned
  BY DEF StreamsInv
<1>1. /\ drawn' = drawn \cup {d0}
      /\ replayed' = replayed \cup {<<d.by, prng.by>> : d \in same}
      /\ prng' = [prng EXCEPT !.pos = @ + 1]
      /\ UNCHANGED <<streamsAssigned, nextStream, channels, states, nextId, last, calls>>
  BY DEF MeasureDraws, Draw
<1>2. /\ prng.pos \in Nat /\ prng.by \in {Unseeded} \cup (Backends \X Nat) /\ nextStream \in Nat
      /\ prng = [seed |-> prng.seed, by |-> prng.by, pos |-> prng.pos]
      /\ prng.seed = SeedOf(prng.by)
  <2>1. prng \in [seed : SUBSET Int, by : {Unseeded} \cup (Backends \X Nat), pos : Nat]
    BY <1>0 DEF Kinds
  <2>2. prng = [seed |-> prng.seed, by |-> prng.by, pos |-> prng.pos]
    BY <2>1
  <2>3. prng.seed = SeedOf(prng.by)
    BY DEF StreamsInv, OwnSeed
  <2>4. nextStream \in Nat
    BY <1>0 DEF Kinds
  <2> QED
    BY <2>1, <2>2, <2>3, <2>4
<1>3. /\ prng'.by = prng.by /\ prng'.seed = prng.seed /\ prng'.pos = prng.pos + 1
      /\ prng' \in [seed : SUBSET Int, by : {Unseeded} \cup (Backends \X Nat), pos : Nat]
  <2>1. prng.seed \in SUBSET Int
    BY <1>0 DEF Kinds
  <2>2. prng' = [seed |-> prng.seed, by |-> prng.by, pos |-> prng.pos + 1]
    BY <1>1, <1>2
  <2> QED
    BY <1>2, <2>1, <2>2
<1>4. Links' = Links /\ Live' = Live
  BY <1>1 DEF Links, Live
<1>5. Kinds'
  BY <1>0, <1>1, <1>3, <1>4 DEF Kinds
<1>6. Unassigned' /\ (streamsAssigned' => Apart')
  BY <1>1, <1>4 DEF StreamsInv, Unassigned, Apart
<1>7. OnlyOnce'
  <2> SUFFICES ASSUME calls' <= 1
               PROVE  NothingTwice'
    BY DEF OnlyOnce
  <2>1. NothingTwice
    BY <1>1 DEF StreamsInv, OnlyOnce
  <2>2. ASSUME NEW d \in same
        PROVE  Collides(<<d.by, prng.by>>)
    <3>1. Spent(d, prng, channels, nextStream) /\ SeedUsed /\ Few /\ OwnSeed
      BY <2>1 DEF NothingTwice, StreamsInv
    <3> QED
      BY <1>0, <3>1, OnlyCollisions
  <2>3. \A pair \in replayed' : Collides(pair)
    <3> HIDE DEF same
    <3> QED
      BY <1>1, <2>1, <2>2 DEF NothingTwice
  <2>4. SeedUsed'
    BY <1>1, <1>3, <2>1 DEF SeedUsed, NothingTwice
  <2>5. ASSUME NEW d \in drawn
        PROVE  Spent(d, prng', channels, nextStream)
    <3>1. \A l \in DOMAIN channels : channels[l].pos \in Nat /\ channels[l].pos <= channels[l].pos
      BY <1>0 DEF Kinds, Links
    <3>2. nextStream <= nextStream /\ prng'.pos \in Nat /\ prng.pos <= prng'.pos
      BY <1>2, <1>3
    <3> QED
      BY <1>2, <1>3, <2>1, <3>1, <3>2, SpentStays DEF NothingTwice
  <2>6. Spent(d0, prng', channels, nextStream)
    <3>1. prng.pos < prng'.pos
      BY <1>2, <1>3
    <3>2. CASE prng.by = Unseeded
      <4>1. SpentUnseeded(d0, prng')
        BY <1>2, <1>3, <3>1, <3>2 DEF SpentUnseeded, SeedOf
      <4> QED
        BY <4>1 DEF Spent
    <3>3. CASE prng.by # Unseeded
      <4>1. PICK b \in Backends, n \in Nat : prng.by = <<b, n>> /\ n < nextStream
        BY <2>1, <3>3 DEF SeedUsed, NothingTwice
      <4>2. d0 = [seed |-> DeriveSeed64(Replication, n, Salt[b]), by |-> <<b, n>>, pos |-> prng.pos]
        BY <1>2, <4>1, SeedsDiffer DEF SeedOf
      <4> HIDE DEF d0
      <4>3. SpentState(d0, prng', nextStream)
        BY <1>2, <3>1, <4>1, <4>2 DEF SpentState
      <4> QED
        BY <4>3 DEF Spent
    <3> QED
      BY <3>2, <3>3
  <2> QED
    BY <1>1, <2>3, <2>4, <2>5, <2>6 DEF NothingTwice
<1>8. Few' /\ OwnSeed'
  BY <1>1, <1>3, <1>4 DEF StreamsInv, Few, OwnSeed
<1> QED
  BY <1>5, <1>6, <1>7, <1>8 DEF StreamsInv

(* The channel moves on; no other has its stream.                          *)
LEMMA SendStep ==
  ASSUME StreamsAssumption, StreamsInv, NEW l \in Links, SendDraws(l)
  PROVE  StreamsInv'
<1> DEFINE s0 == channels[l].stream
           d0 == [seed |-> {-1 - s0}, by |-> <<"channel", s0>>, pos |-> channels[l].pos]
           same == {d \in drawn : d.seed = {-1 - s0} /\ d.pos = channels[l].pos}
<1>0. Kinds /\ Unassigned
  BY DEF StreamsInv
<1>1. /\ s0 # -1
      /\ drawn' = drawn \cup {d0}
      /\ replayed' = replayed \cup {<<d.by, d0.by>> : d \in same}
      /\ channels' = [channels EXCEPT ![l].pos = @ + 1]
      /\ UNCHANGED <<streamsAssigned, nextStream, states, nextId, last, prng, calls>>
  BY DEF SendDraws, Draw, ChannelNumber
<1>2. \A k \in Links : channels[k] \in [stream : Int, pos : Nat]
  BY <1>0 DEF Kinds
<1>3. Links' = Links /\ Live' = Live
  BY <1>0, <1>1 DEF Links, Live
<1>4. /\ \A k \in Links : /\ channels'[k].stream = channels[k].stream
                           /\ channels'[k] \in [stream : Int, pos : Nat]
      /\ channels'[l].pos = channels[l].pos + 1
      /\ \A k \in Links : k # l => channels'[k].pos = channels[k].pos
      /\ channels' \in [Links' -> [stream : Int, pos : Nat]]
  BY SMTT(60), <1>0, <1>1, <1>2, <1>3 DEF Kinds
<1>5. streamsAssigned /\ Apart
  BY <1>0, <1>1 DEF StreamsInv, Unassigned
<1>6. s0 \in Nat /\ s0 < nextStream /\ \A k \in Links : channels[k].stream = s0 => k = l
  <2>1. \A k \in Links : k \in Int /\ channels[k].stream \in Nat
    BY <1>0, <1>5 DEF Kinds, Apart
  <2>2. s0 \in Nat /\ s0 + 2 <= nextStream /\ nextStream \in Nat
    BY <1>0, <1>5 DEF Kinds, Apart
  <2>3. ASSUME NEW k \in Links, channels[k].stream = s0
        PROVE  k = l
    <3>1. ~(k < l) /\ ~(l < k)
      BY <1>5, <2>1, <2>2, <2>3 DEF Apart
    <3> QED
      BY <2>1, <3>1
  <2> QED
    BY <2>2, <2>3
<1>7. Kinds'
  BY <1>0, <1>1, <1>3, <1>4 DEF Kinds
<1>8. Unassigned' /\ (streamsAssigned' => Apart')
  BY <1>0, <1>1, <1>3, <1>4, <1>5 DEF Unassigned, Apart
<1>9. OnlyOnce'
  <2> SUFFICES ASSUME calls' <= 1
               PROVE  NothingTwice'
    BY DEF OnlyOnce
  <2>1. NothingTwice
    BY <1>1 DEF StreamsInv, OnlyOnce
  <2>2. prng.pos \in Nat /\ nextStream \in Nat
    BY <1>0 DEF Kinds
  <2>3. ASSUME NEW d \in same
        PROVE  FALSE
    <3>1. Spent(d, prng, channels, nextStream) /\ d.seed = {-1 - s0} /\ d.pos = channels[l].pos
      BY <2>1, <2>3 DEF NothingTwice
    <3> HIDE DEF same
    <3>2. s0 \in Nat /\ -1 - s0 \notin 0..63 /\ -1 - s0 # 64
      BY <1>6
    <3>3. ~SpentUnseeded(d, prng)
      BY <3>1, <3>2 DEF SpentUnseeded, Width
    <3>4. ~SpentState(d, prng, nextStream)
      <4>1. \A r, n, salt : DeriveSeed64(r, n, salt) # {-1 - s0}
        BY <3>2, SeedsAreBits
      <4> QED
        BY <3>1, <4>1 DEF SpentState
    <3>5. SpentChannel(d, channels, nextStream)
      BY <3>1, <3>3, <3>4 DEF Spent
    <3>6. PICK n \in Nat, p \in Nat :
            /\ d = [seed |-> {-1 - n}, by |-> <<"channel", n>>, pos |-> p]
            /\ \A k \in Links : channels[k].stream = n => p < channels[k].pos
      BY <3>5 DEF SpentChannel, Links
    <3>7. d.seed = {-1 - n} /\ d.pos = p
      BY <3>6
    <3>8. -1 - n = -1 - s0
      BY <3>1, <3>7
    <3>9. n = s0 /\ p = channels[l].pos
      BY <3>1, <3>2, <3>7, <3>8
    <3> QED
      BY <1>2, <3>6, <3>9
  <2>4. \A pair \in replayed' : Collides(pair)
    BY <1>1, <2>1, <2>3 DEF NothingTwice
  <2>5. SeedUsed'
    BY <1>1, <2>1 DEF SeedUsed, NothingTwice
  <2>6. ASSUME NEW d \in drawn
        PROVE  Spent(d, prng, channels', nextStream)
    <3>1. \A k \in DOMAIN channels' :
            /\ k \in DOMAIN channels /\ channels'[k].stream = channels[k].stream
            /\ channels[k].pos \in Nat /\ channels'[k].pos \in Nat
            /\ channels[k].pos <= channels'[k].pos
      <4>1. \A k \in Links : /\ channels[k].pos \in Nat /\ channels'[k].pos \in Nat
                             /\ channels[k].pos <= channels'[k].pos
        BY <1>2, <1>4
      <4> QED
        BY <1>3, <1>4, <4>1 DEF Links
    <3>2. nextStream <= nextStream /\ prng.pos <= prng.pos
      BY <2>2
    <3>3. Spent(d, prng, channels, nextStream)
      BY <2>1 DEF NothingTwice
    <3> QED
      BY <2>2, <3>1, <3>2, <3>3, SpentStays
  <2>7. Spent(d0, prng, channels', nextStream)
    <3>1. \A k \in DOMAIN channels' : channels'[k].stream = s0 => channels[l].pos < channels'[k].pos
      BY <1>2, <1>3, <1>4, <1>6 DEF Links
    <3>2. channels[l].pos \in Nat
      BY <1>2
    <3>3. SpentChannel(d0, channels', nextStream)
      BY <1>6, <3>1, <3>2 DEF SpentChannel
    <3> QED
      BY <3>3 DEF Spent
  <2> QED
    BY <1>1, <2>4, <2>5, <2>6, <2>7 DEF NothingTwice
<1>10. Few' /\ OwnSeed'
  BY <1>1, <1>3 DEF StreamsInv, Few, OwnSeed
<1> QED
  BY <1>7, <1>8, <1>9, <1>10 DEF StreamsInv

LEMMA StreamsStep ==
  ASSUME StreamsAssumption, StreamsInv, [StreamsNext]_streamVars
  PROVE  StreamsInv'
<1>1. ASSUME NEW base \in Bases, UserAssigns(base)
      PROVE  StreamsInv'
  BY <1>1, AssignStep DEF UserAssigns, StreamsAssumption
<1>2. CASE EnsureStreamsAssigned
  BY <1>2, AssignStep DEF EnsureStreamsAssigned
<1>3. CASE UNCHANGED streamVars
  <2>1. UNCHANGED <<streamsAssigned, nextStream, channels, states, nextId,
                    last, prng, drawn, calls, replayed>>
    BY <1>3 DEF streamVars
  <2> QED
    BY <2>1 DEF StreamsInv, Kinds, Few, OwnSeed, Unassigned, Apart, OnlyOnce, NothingTwice, SeedUsed,
                Links, Live
<1> QED
  BY <1>1, <1>2, <1>3, InstallStep, CreateStep, RemoveStep, MeasureStep, SendStep
  DEF StreamsNext, Links, Live

-----------------------------------------------------------------------------
(* Two ranges of a channel and the streams of the states do not meet.      *)
LEMMA InvDistinct == ASSUME StreamsInv PROVE StreamsDistinct
<1> DEFINE used(l) == {channels[l].stream, channels[l].stream + 1}
<1> SUFFICES ASSUME streamsAssigned
             PROVE  /\ \A l, k \in Links : l # k => used(l) \cap used(k) = {}
                    /\ \A i, j \in Live : i # j => states[i].stream # states[j].stream
                    /\ \A l \in Links, i \in Live : states[i].stream \notin used(l)
  BY DEF StreamsDistinct, Links, Live
<1>0. Apart
  BY DEF StreamsInv
<1>1. (\A l \in Links : l \in Int) /\ \A i \in Live : i \in Int
  BY DEF StreamsInv, Kinds
<1>2. ASSUME NEW l \in Links, NEW k \in Links, l # k
      PROVE  used(l) \cap used(k) = {}
  <2>1. l < k \/ k < l
    BY <1>1, <1>2
  <2>2. channels[l].stream \in Nat /\ channels[k].stream \in Nat
    BY <1>0 DEF Apart
  <2>3. \/ channels[l].stream + 2 <= channels[k].stream
        \/ channels[k].stream + 2 <= channels[l].stream
    BY <1>0, <2>1 DEF Apart
  <2> QED
    BY <2>2, <2>3
<1>3. ASSUME NEW i \in Live, NEW j \in Live, i # j
      PROVE  states[i].stream # states[j].stream
  BY <1>0, <1>1, <1>3 DEF Apart
<1>4. ASSUME NEW l \in Links, NEW i \in Live
      PROVE  states[i].stream \notin used(l)
  BY <1>0 DEF Apart
<1> QED
  BY <1>2, <1>3, <1>4

(* Every reachable state of the counters and generators satisfies the      *)
(* invariant, for any number of links, states, assignments and draws       *)
(* (model/q2ns-netcontroller.cc:54).                                       *)
THEOREM StreamsInvariant ==
  ASSUME StreamsAssumption
  PROVE  StreamsSpec => []StreamsInv
<1>1. StreamsInit => StreamsInv
  BY StreamsInitInv
<1>2. StreamsInv /\ [StreamsNext]_streamVars => StreamsInv'
  BY StreamsStep
<1> QED
  BY <1>1, <1>2, PTL DEF StreamsSpec

(* No two channels and states that exist share a stream, and no backend    *)
(* and no channel draws a random number twice as long as streams are       *)
(* assigned once, with the seeds that DeriveSeed64 makes                   *)
(* (model/q2ns-netcontroller.cc:65, model/q2ns-qstate.h:260).              *)
THEOREM StreamsSoundAlways ==
  ASSUME StreamsAssumption
  PROVE  StreamsSpec => []StreamsSound
<1>1. StreamsInv => StreamsSound
  <2> SUFFICES ASSUME StreamsInv
               PROVE  NothingReplayed
    BY InvDistinct DEF StreamsSound
  <2>1. calls <= 1 => \A pair \in replayed : Collides(pair)
    BY DEF StreamsInv, OnlyOnce, NothingTwice
  <2> QED
    BY <2>1 DEF NothingReplayed, Collides
<1> QED
  BY <1>1, StreamsInvariant, PTL

(* With salts that differ in a bit no stream has, nothing is drawn twice   *)
(* by anyone, while streams are assigned once: the collisions that         *)
(* NothingReplayed leaves to two backends come from the salts alone        *)
(* (doc/design-notes/randomness.md:44).                                    *)
THEOREM SaltsKeepApart ==
  ASSUME StreamsAssumption,
         NEW Low, \A n \in StreamNumbers : Bits(n) \subseteq Low,
         \A b, c \in Backends : b # c => Bits(Salt[b]) \ Low # Bits(Salt[c]) \ Low
  PROVE  StreamsSpec => [](StreamsSound /\ (calls <= 1 => replayed = {}))
<1>1. \A pair : ~Collides(pair)
  <2> SUFFICES ASSUME NEW pair, Collides(pair)
               PROVE  FALSE
    OBVIOUS
  <2>1. PICK b \in Backends, c \in Backends, m \in StreamNumbers, n \in StreamNumbers :
          b # c /\ DeriveSeed64(Replication, m, Salt[b]) = DeriveSeed64(Replication, n, Salt[c])
    BY DEF Collides
  <2> DEFINE r == Bits(Replication)
             bm == Bits(m)
             bn == Bits(n)
             sb == Bits(Salt[b])
             sc == Bits(Salt[c])
  <2>2. XorBits(XorBits(r, bm), sb) = XorBits(XorBits(r, bn), sc)
    BY <2>1 DEF DeriveSeed64
  <2>3. bm \subseteq Low /\ bn \subseteq Low /\ sb \ Low # sc \ Low
    BY <2>1
  <2> HIDE DEF r, bm, bn, sb, sc
  <2> QED
    BY <2>2, <2>3 DEF XorBits
<1>2. StreamsInv => StreamsSound /\ (calls <= 1 => replayed = {})
  <2> SUFFICES ASSUME StreamsInv
               PROVE  StreamsSound /\ (calls <= 1 => replayed = {})
    OBVIOUS
  <2>1. calls <= 1 => replayed = {}
    BY <1>1 DEF StreamsInv, OnlyOnce, NothingTwice
  <2>2. NothingReplayed
    BY <2>1 DEF NothingReplayed
  <2> QED
    BY <2>1, <2>2, InvDistinct DEF StreamsSound
<1> QED
  BY <1>2, StreamsInvariant, PTL

-----------------------------------------------------------------------------
(***************************************************************************)
(* The fourth part is about the seeds the states' generators get, for any  *)
(* salts, number of replications and number of streams of 64 bits.         *)
(***************************************************************************)
(* What was seeded has a stream and a backend of the program, and the seed *)
(* that is derived from them.                                              *)
SeedsInv ==
  /\ counter \in Nat /\ counter <= MaxStreams
  /\ \A s \in seeded :
       /\ s.stream \in Word /\ s.backend \in Salted
       /\ s = [run |-> s.run, stream |-> s.stream, backend |-> s.backend, seed |-> s.seed]
       /\ s.seed = DeriveSeed64(s.run, s.stream, Salt[s.backend])
       /\ s.run = run => s.stream < counter
       /\ s.stream < MaxStreams
       /\ s.run \in Nat /\ s.run <= run
  /\ run \in Nat /\ run <= Runs
  /\ \A s, t \in seeded : s.run = t.run /\ s.stream = t.stream => s = t

LEMMA SeedsInvAlways ==
  ASSUME SeedAssumption
  PROVE  SeedsSpec => []SeedsInv
<1>1. MaxStreams \in Word /\ MaxStreams \in Nat /\ Runs \in Nat /\ 1 <= Runs
  BY DEF SeedAssumption, Word
<1>2. SeedsInit => SeedsInv
  BY <1>1 DEF SeedsInit, SeedsInv
<1>3. SeedsInv /\ [SeedsNext]_seedVars => SeedsInv'
  <2> SUFFICES ASSUME SeedsInv, [SeedsNext]_seedVars
               PROVE  SeedsInv'
    OBVIOUS
  <2>1. ASSUME NEW b \in Salted, AssignStreamsGlobal(b)
        PROVE  SeedsInv'
    <3> DEFINE new == [run |-> run, stream |-> counter, backend |-> b,
                       seed |-> DeriveSeed64(run, counter, Salt[b])]
    <3>1. counter < MaxStreams /\ counter' = counter + 1 /\ seeded' = seeded \cup {new} /\ run' = run
      BY <2>1 DEF AssignStreamsGlobal
    <3>2. counter \in Nat /\ counter <= MaxStreams /\ run \in Nat
      BY DEF SeedsInv
    <3>3. counter \in Word
      BY <1>1, <3>1, <3>2, WordsBelow
    <3>4. /\ new.run = run /\ new.stream = counter /\ new.backend = b
          /\ new.seed = DeriveSeed64(run, counter, Salt[b])
          /\ new = [run |-> new.run, stream |-> new.stream, backend |-> new.backend, seed |-> new.seed]
      OBVIOUS
    <3> HIDE DEF new
    <3>5. \A s \in seeded :
            /\ s.stream \in Word /\ s.backend \in Salted
            /\ s = [run |-> s.run, stream |-> s.stream, backend |-> s.backend, seed |-> s.seed]
            /\ s.seed = DeriveSeed64(s.run, s.stream, Salt[s.backend])
            /\ s.run = run => s.stream < counter
            /\ s.stream < MaxStreams
            /\ s.run \in Nat /\ s.run <= run
      BY DEF SeedsInv
    <3>6. \A s \in seeded : s.stream \in Nat
      BY <3>5 DEF Word
    <3>7. \A s, t \in seeded' : s.run = t.run /\ s.stream = t.stream => s = t
      <4>1. \A s \in seeded : s.run = new.run => s.stream # new.stream
        BY <3>2, <3>4, <3>5, <3>6
      <4> QED
        BY <3>1, <4>1 DEF SeedsInv
    <3>8. \A s \in seeded' :
            /\ s.stream \in Word /\ s.backend \in Salted
            /\ s = [run |-> s.run, stream |-> s.stream, backend |-> s.backend, seed |-> s.seed]
            /\ s.seed = DeriveSeed64(s.run, s.stream, Salt[s.backend])
            /\ s.run = run' => s.stream < counter'
            /\ s.stream < MaxStreams
            /\ s.run \in Nat /\ s.run <= run'
      BY <3>1, <3>2, <3>3, <3>4, <3>5, <3>6
    <3>9. counter' \in Nat /\ counter' <= MaxStreams /\ run' \in Nat /\ run' <= Runs
      BY <1>1, <3>1, <3>2 DEF SeedsInv
    <3> QED
      BY <3>7, <3>8, <3>9 DEF SeedsInv
  <2>2. CASE Replicate
    BY <1>1, <2>2 DEF Replicate, SeedsInv
  <2>3. CASE UNCHANGED seedVars
    BY <2>3 DEF seedVars, SeedsInv
  <2> QED
    BY <2>1, <2>2, <2>3 DEF SeedsNext
<1> QED
  BY <1>2, <1>3, PTL DEF SeedsSpec

(* Neither two streams of a backend, nor two backends with the same stream,*)
(* nor two replications with the same stream have a sequence in common     *)
(* (model/q2ns-qstate.h:184).                                              *)
THEOREM SeedsSeparateAlways ==
  ASSUME SeedAssumption
  PROVE  SeedsSpec => [](SeedsSeparate)
<1>1. SeedsInv => SeedsSeparate
  <2> SUFFICES ASSUME SeedsInv
               PROVE  SeedsSeparate
    OBVIOUS
  <2>1. ASSUME NEW s \in seeded, NEW t \in seeded, s.run = t.run, s.backend = t.backend,
               s.seed = t.seed
        PROVE  s.stream = t.stream
    <3> DEFINE r == Bits(s.run)
               salt == Bits(Salt[s.backend])
               bs == Bits(s.stream)
               bt == Bits(t.stream)
    <3>1. XorBits(XorBits(r, bs), salt) = XorBits(XorBits(r, bt), salt)
      BY <2>1 DEF SeedsInv, DeriveSeed64
    <3>2. s.stream \in Word /\ t.stream \in Word
      BY DEF SeedsInv
    <3> HIDE DEF r, salt, bs, bt
    <3>3. bs = bt
      BY <3>1, XorCancels
    <3> QED
      BY <3>2, <3>3, BitsDetermine DEF bs, bt
  <2>2. ASSUME NEW s \in seeded, NEW b \in Salted \ {s.backend}
        PROVE  DeriveSeed64(s.run, s.stream, Salt[b]) # s.seed
    <3> DEFINE x == XorBits(Bits(s.run), Bits(s.stream))
               own == Bits(Salt[s.backend])
               other == Bits(Salt[b])
    <3>1. s.backend \in DOMAIN Salt /\ b \in DOMAIN Salt /\ b # s.backend
      BY DEF SeedsInv, Salted
    <3>2. Salt[b] \in Word /\ Salt[s.backend] \in Word /\ Salt[b] # Salt[s.backend]
      BY <3>1 DEF SeedAssumption
    <3>3. own # other
      BY <3>2, BitsDetermine
    <3>4. s.seed = XorBits(x, own)
      BY DEF SeedsInv, DeriveSeed64
    <3>5. DeriveSeed64(s.run, s.stream, Salt[b]) = XorBits(x, other)
      BY DEF DeriveSeed64
    <3> HIDE DEF x, own, other
    <3> QED
      BY <3>3, <3>4, <3>5, XorCancels
  <2>3. ASSUME NEW s \in seeded, NEW t \in seeded, s.backend = t.backend, s.seed = t.seed,
               s.stream = t.stream
        PROVE  s.run = t.run
    <3> DEFINE x == Bits(s.stream)
               salt == Bits(Salt[s.backend])
               rs == Bits(s.run)
               rt == Bits(t.run)
    <3>1. XorBits(XorBits(rs, x), salt) = XorBits(XorBits(rt, x), salt)
      BY <2>3 DEF SeedsInv, DeriveSeed64
    <3>2. s.run \in Word /\ t.run \in Word
      <4>1. Runs \in Word /\ Runs \in Nat
        BY DEF SeedAssumption, Word
      <4>2. s.run \in Nat /\ t.run \in Nat /\ s.run <= Runs /\ t.run <= Runs
        BY <4>1 DEF SeedsInv
      <4> QED
        BY <4>1, <4>2, WordsBelow
    <3> HIDE DEF x, salt, rs, rt
    <3>3. rs = rt
      BY <3>1, XorCancels
    <3> QED
      BY <3>2, <3>3, BitsDetermine DEF rs, rt
  <2>4. ReplicationsSeparate
    <3> SUFFICES ASSUME NEW s \in seeded, NEW t \in seeded, s.backend = t.backend, s.seed = t.seed
                 PROVE  s = t \/ (s.run # t.run /\ s.stream # t.stream)
      BY DEF ReplicationsSeparate
    <3>1. s.run = t.run <=> s.stream = t.stream
      BY <2>1, <2>3
    <3> QED
      BY <3>1 DEF SeedsInv
  <2> QED
    BY <2>1, <2>2, <2>4 DEF SeedsSeparate, StreamsSeparate, SaltsSeparate
<1> QED
  BY <1>1, SeedsInvAlways, PTL

(* Salts that differ in a bit no stream has keep all states of a           *)
(* replication apart, also those of two backends with different streams.   *)
(* The salts of ket and dm differ in the lowest four bits only: the        *)
(* streams 0 to 7 leave them one (Low is {0, 1, 2}), and with stream 8     *)
(* comes the collision TLC finds (doc/design-notes/randomness.md:44).      *)
THEOREM BackendsSeparateAlways ==
  ASSUME SeedAssumption,
         NEW Low, \A n \in 0..(MaxStreams - 1) : Bits(n) \subseteq Low,
         \A b, c \in Salted : b # c => Bits(Salt[b]) \ Low # Bits(Salt[c]) \ Low
  PROVE  SeedsSpec => [](BackendsSeparate)
<1>1. SeedsInv => BackendsSeparate
  <2> SUFFICES ASSUME SeedsInv, NEW s \in seeded, NEW t \in seeded, s.run = t.run, s.seed = t.seed
               PROVE  s = t
    BY DEF BackendsSeparate
  <2> DEFINE r == Bits(s.run)
             bs == Bits(s.stream)
             bt == Bits(t.stream)
             saltS == Bits(Salt[s.backend])
             saltT == Bits(Salt[t.backend])
  <2>1. XorBits(XorBits(r, bs), saltS) = XorBits(XorBits(r, bt), saltT)
    BY DEF SeedsInv, DeriveSeed64
  <2>2. bs \subseteq Low /\ bt \subseteq Low
    <3>1. s.stream \in Nat /\ t.stream \in Nat /\ s.stream < MaxStreams /\ t.stream < MaxStreams
      BY DEF SeedsInv, Word
    <3>2. MaxStreams \in Nat
      BY DEF SeedAssumption, Word
    <3>3. s.stream \in 0..(MaxStreams - 1) /\ t.stream \in 0..(MaxStreams - 1)
      BY <3>1, <3>2
    <3> QED
      BY <3>3
  <2>3. s.backend \in Salted /\ t.backend \in Salted
    BY DEF SeedsInv
  <2> HIDE DEF r, bs, bt
  <2>4. saltS \ Low = saltT \ Low
    <3> HIDE DEF saltS, saltT
    <3> QED
      BY <2>1, <2>2 DEF XorBits
  <2>5. s.backend = t.backend
    BY <2>3, <2>4
  <2> HIDE DEF saltS, saltT
  <2>6. saltS = saltT
    BY <2>5 DEF saltS, saltT
  <2>7. bs = bt
    BY <2>1, <2>6, XorCancels
  <2>8. s.stream \in Word /\ t.stream \in Word
    BY DEF SeedsInv
  <2>9. s.stream = t.stream
    BY <2>7, <2>8, BitsDetermine DEF bs, bt
  <2> QED
    BY <2>9 DEF SeedsInv
<1> QED
  BY <1>1, SeedsInvAlways, PTL

-----------------------------------------------------------------------------
(* The gates of a RandomGateQMap.                                          *)

IsSum(f, ws, k) == f = [i \in 0..k |-> IF i = 0 THEN 0 ELSE f[i - 1] + ws[i]]

LEMMA SumExists ==
  ASSUME NEW ws, NEW k \in Nat
  PROVE  \E f : IsSum(f, ws, k)
<1> DEFINE S == {i \in 0..k : \E f : IsSum(f, ws, i)}
<1>1. 0 \in S
  <2>1. IsSum([i \in 0..0 |-> 0], ws, 0)
    BY DEF IsSum
  <2> QED
    BY <2>1
<1>2. ASSUME NEW i \in 1..k, i - 1 \in S
      PROVE  i \in S
  <2>1. PICK f : IsSum(f, ws, i - 1)
    BY <1>2
  <2> DEFINE g == [j \in 0..i |-> IF j < i THEN f[j] ELSE f[i - 1] + ws[i]]
  <2>2. ASSUME NEW j \in 0..i
        PROVE  g[j] = IF j = 0 THEN 0 ELSE g[j - 1] + ws[j]
    <3>1. CASE j = i
      <4>1. i - 1 \in 0..i /\ i - 1 < i /\ j # 0 /\ ~(j < i)
        BY <3>1
      <4>2. g[i - 1] = f[i - 1] /\ g[j] = f[i - 1] + ws[i]
        BY <4>1
      <4> QED
        BY <3>1, <4>1, <4>2
    <3>2. CASE j # i
      <4>1. j \in 0..(i - 1) /\ j < i
        BY <3>2
      <4>2. f[j] = IF j = 0 THEN 0 ELSE f[j - 1] + ws[j]
        BY <2>1, <4>1 DEF IsSum
      <4>3. g[j] = f[j] /\ (j # 0 => g[j - 1] = f[j - 1])
        BY <4>1
      <4> QED
        BY <4>2, <4>3
    <3> QED
      BY <3>1, <3>2
  <2>3. IsSum(g, ws, i)
    <3>1. g = [j \in 0..i |-> g[j]]
      OBVIOUS
    <3> HIDE DEF g
    <3> QED
      BY <2>2, <3>1 DEF IsSum
  <2> QED
    BY <2>3
<1>3. \A i \in 0..k : i \in S
  <2> HIDE DEF S
  <2> QED
    BY <1>1, <1>2, Reach
<1> QED
  BY <1>3

LEMMA SumIs ==
  ASSUME NEW ws \in Seq(Nat)
  PROVE  /\ SumUpTo(ws, 0) = 0
         /\ \A i \in 1..Len(ws) : SumUpTo(ws, i) = SumUpTo(ws, i - 1) + ws[i]
<1> DEFINE sum[k \in 0..Len(ws)] == IF k = 0 THEN 0 ELSE sum[k - 1] + ws[k]
<1>1. \A i : SumUpTo(ws, i) = sum[i]
  BY DEF SumUpTo
<1>2. IsSum(sum, ws, Len(ws))
  <2>1. sum = CHOOSE f : f = [k \in 0..Len(ws) |-> IF k = 0 THEN 0 ELSE f[k - 1] + ws[k]]
    OBVIOUS
  <2>2. sum = CHOOSE f : IsSum(f, ws, Len(ws))
    BY <2>1 DEF IsSum
  <2> HIDE DEF sum
  <2>3. Len(ws) \in Nat
    OBVIOUS
  <2> QED
    BY <2>2, <2>3, SumExists
<1> HIDE DEF sum
<1>3. \A i \in 0..Len(ws) : sum[i] = IF i = 0 THEN 0 ELSE sum[i - 1] + ws[i]
  BY <1>2 DEF IsSum
<1>4. Len(ws) \in Nat
  OBVIOUS
<1> QED
  BY SMTT(60), <1>1, <1>3, <1>4

LEMMA SumNat ==
  ASSUME NEW ws \in Seq(Nat)
  PROVE  \A i \in 0..Len(ws) : SumUpTo(ws, i) \in Nat
<1> DEFINE S == {i \in 0..Len(ws) : SumUpTo(ws, i) \in Nat}
<1>1. 0 \in S
  BY SumIs
<1>2. \A i \in 1..Len(ws) : i - 1 \in S => i \in S
  BY SumIs
<1> HIDE DEF S
<1>3. Len(ws) \in Nat
  OBVIOUS
<1>4. \A i \in 0..Len(ws) : i \in S
  BY <1>1, <1>2, <1>3, Reach
<1> QED
  BY <1>4 DEF S

LEMMA SumGrows ==
  ASSUME NEW ws \in Seq(Nat), NEW i \in 0..Len(ws), NEW j \in i..Len(ws)
  PROVE  SumUpTo(ws, i) <= SumUpTo(ws, j)
<1> DEFINE S == {k \in 0..Len(ws) : i <= k => SumUpTo(ws, i) <= SumUpTo(ws, k)}
<1>1. 0 \in S
  BY SumNat
<1>2. ASSUME NEW k \in 1..Len(ws), k - 1 \in S
      PROVE  k \in S
  <2>1. SumUpTo(ws, k) = SumUpTo(ws, k - 1) + ws[k] /\ ws[k] \in Nat
    BY SumIs
  <2>2. SumUpTo(ws, k) \in Nat /\ SumUpTo(ws, k - 1) \in Nat /\ SumUpTo(ws, i) \in Nat
    BY SumNat
  <2> QED
    BY <1>2, <2>1, <2>2
<1> HIDE DEF S
<1>3. Len(ws) \in Nat
  OBVIOUS
<1>4. \A k \in 0..Len(ws) : k \in S
  BY <1>1, <1>2, <1>3, Reach
<1> QED
  BY <1>4 DEF S

LEMMA SumOfPrefix ==
  ASSUME NEW ws \in Seq(Nat), NEW w \in Nat
  PROVE  \A i \in 0..Len(ws) : SumUpTo(Append(ws, w), i) = SumUpTo(ws, i)
<1> DEFINE more == Append(ws, w)
           S == {i \in 0..Len(ws) : SumUpTo(more, i) = SumUpTo(ws, i)}
<1>1. more \in Seq(Nat) /\ Len(more) = Len(ws) + 1 /\ \A i \in 1..Len(ws) : more[i] = ws[i]
  OBVIOUS
<1> HIDE DEF more
<1>2. 0 \in S
  BY <1>1, SumIs
<1>3. Len(ws) \in Nat
  OBVIOUS
<1>4. ASSUME NEW i \in 1..Len(ws), i - 1 \in S
      PROVE  i \in S
  <2>1. SumUpTo(more, i) = SumUpTo(more, i - 1) + more[i]
    <3>1. i \in 1..Len(more)
      BY <1>1, <1>3
    <3> QED
      BY <1>1, <3>1, SumIs
  <2>2. SumUpTo(ws, i) = SumUpTo(ws, i - 1) + ws[i]
    BY SumIs
  <2> QED
    BY <1>1, <1>3, <1>4, <2>1, <2>2
<1> HIDE DEF S
<1>5. \A i \in 0..Len(ws) : i \in S
  BY <1>2, <1>3, <1>4, Reach
<1> QED
  BY <1>5 DEF S, more

(* The total that is kept is the sum of the weights.                       *)
GatesInv ==
  /\ weights \in Seq(Nat)
  /\ total = SumUpTo(weights, Len(weights))

LEMMA GatesInvAlways ==
  ASSUME GatesAssumption
  PROVE  GatesSpec => []GatesInv
<1>1. <<>> \in Seq(Nat) /\ SumUpTo(<<>>, Len(<<>>)) = 0
  <2>1. <<>> \in Seq(Nat) /\ Len(<<>>) = 0
    OBVIOUS
  <2> QED
    BY <2>1, SumIs
<1>2. GatesInit => GatesInv
  BY <1>1 DEF GatesInit, GatesInv
<1>3. GatesInv /\ [GatesNext]_gateVars => GatesInv'
  <2> SUFFICES ASSUME GatesInv, [GatesNext]_gateVars
               PROVE  GatesInv'
    OBVIOUS
  <2>1. ASSUME NEW w \in Weights, AddGate(w)
        PROVE  GatesInv'
    <3>1. w \in Nat /\ weights \in Seq(Nat) /\ weights' = Append(weights, w)
      BY <2>1 DEF GatesAssumption, GatesInv, AddGate
    <3> DEFINE more == Append(weights, w)
    <3>2. more \in Seq(Nat) /\ Len(more) = Len(weights) + 1 /\ more[Len(more)] = w
          /\ Len(more) - 1 = Len(weights) /\ Len(more) \in 1..Len(more)
          /\ Len(weights) \in 0..Len(weights)
      BY <3>1
    <3>3. SumUpTo(more, Len(weights)) = total
      BY <3>1, <3>2, SumOfPrefix DEF GatesInv
    <3> HIDE DEF more
    <3>4. SumUpTo(more, Len(more)) = total + w
      BY <3>2, <3>3, SumIs
    <3> QED
      BY <2>1, <3>1, <3>2, <3>4 DEF AddGate, GatesInv, more
  <2>2. ASSUME NEW ws \in Distributions, SetDistribution(ws)
        PROVE  GatesInv'
    BY <2>2 DEF GatesAssumption, SetDistribution, GatesInv
  <2>3. CASE Clear
    BY <1>1, <2>3 DEF Clear, GatesInv
  <2>4. CASE UNCHANGED gateVars
    BY <2>4 DEF gateVars, GatesInv
  <2> QED
    BY <2>1, <2>2, <2>3, <2>4 DEF GatesNext
<1> QED
  BY <1>2, <1>3, PTL DEF GatesSpec

LEMMA Smallest ==
  ASSUME NEW S, S \subseteq Nat, S # {}
  PROVE  \E x \in S : \A y \in S : x <= y
<1>1. PICK x \in S : \A y \in S : <<y, x>> \notin OpToRel(<, Nat)
  BY NatLessThanWellFounded, WFMin, Zenon
<1>2. \A y \in S : ~(y < x)
  BY <1>1 DEF OpToRel
<1> QED
  BY <1>2

LEMMA TimesLess ==
  ASSUME NEW a \in Nat, NEW b \in Nat, NEW c \in Nat
  PROVE  /\ a <= b => a * c <= b * c
         /\ a * c \in Nat
         /\ c # 0 => (a * c <= b * c <=> a <= b)
<1>1. a <= b => a * c <= b * c
  <2> SUFFICES ASSUME a <= b
               PROVE  a * c <= b * c
    OBVIOUS
  <2>1. PICK x \in Nat : b = a + x
    <3>1. b - a \in Nat /\ b = a + (b - a)
      OBVIOUS
    <3> QED
      BY <3>1
  <2>2. b * c = a * c + x * c
    BY <2>1
  <2>3. x * c \in Nat /\ a * c \in Nat
    OBVIOUS
  <2> QED
    BY <2>2, <2>3
<1>2. ASSUME b < a, c # 0
      PROVE  b * c < a * c
  <2>1. PICK x \in Nat : a = b + 1 + x
    <3>1. a - b - 1 \in Nat /\ a = b + 1 + (a - b - 1)
      BY <1>2
    <3> QED
      BY <3>1
  <2>2. a * c = b * c + c + x * c
    BY <2>1
  <2>3. x * c \in Nat /\ b * c \in Nat /\ c > 0
    BY <1>2
  <2> QED
    BY <2>2, <2>3
<1>3. a * c \in Nat /\ b * c \in Nat
  OBVIOUS
<1> QED
  BY <1>1, <1>2, <1>3

LEMMA PartsScaled ==
  ASSUME NEW t \in Nat, NEW k \in Nat, NEW x \in Nat
  PROVE  2 * (k * t) * x = (2 * (x * k)) * t
<1>1. (k * t) * x = (x * k) * t
  OBVIOUS
<1>2. k * t \in Nat /\ x * k \in Nat
  OBVIOUS
<1> QED
  BY <1>1, <1>2

LEMMA PartsCompared ==
  ASSUME NEW d \in Nat, NEW s \in Nat, NEW t \in Nat, t # 0
  PROVE  (2 * d + 1) * t <= (2 * s) * t <=> d < s
<1>1. 2 * d + 1 \in Nat /\ 2 * s \in Nat
  OBVIOUS
<1>2. (2 * d + 1) * t <= (2 * s) * t <=> 2 * d + 1 <= 2 * s
  BY <1>1, TimesLess
<1>3. 2 * d + 1 <= 2 * s <=> d < s
  OBVIOUS
<1> QED
  BY <1>2, <1>3

LEMMA Divides ==
  ASSUME NEW g \in Nat \ {0}, NEW t \in Nat, t > 0, g % t = 0
  PROVE  \E k \in Nat \ {0} : g = k * t
<1>1. \E k \in Int : g = t * k
  <2> WITNESS g \div t \in Int
  <2> QED
    OBVIOUS
<1>2. PICK k \in Int : g = t * k
  BY <1>1
<1>3. k > 0
  <2>1. ASSUME k <= 0
        PROVE  FALSE
    <3>1. 0 - k \in Nat /\ t * (0 - k) \in Nat /\ t * k = 0 - (t * (0 - k))
      BY <2>1
    <3> QED
      BY <1>2, <3>1
  <2> QED
    BY <2>1
<1>4. t * k = k * t
  OBVIOUS
<1> QED
  BY <1>2, <1>3, <1>4

(* With k parts of the numbers drawn for a unit of weight, the gate i is   *)
(* picked from k times the weights before it on.                           *)
LEMMA PickedFrom ==
  ASSUME GatesAssumption, GatesInv, total > 0, NEW k \in Nat \ {0}, Grid = k * total,
         NEW d \in 0..(Grid - 1), NEW i \in DOMAIN weights
  PROVE  (PickIndex(weights, total, d) = i)
           <=> (SumUpTo(weights, i - 1) * k <= d /\ d < SumUpTo(weights, i) * k)
<1> DEFINE sum(j) == SumUpTo(weights, j)
           n == Len(weights)
           hit == {j \in DOMAIN weights : (2 * d + 1) * total <= 2 * Grid * sum(j)}
<1>1. /\ weights \in Seq(Nat) /\ n \in Nat /\ DOMAIN weights = 1..n /\ i \in 1..n
      /\ total \in Nat /\ total = sum(n) /\ Grid \in Nat /\ d \in Nat
  BY SumNat DEF GatesInv, GatesAssumption
<1>2. \A j \in 0..n : sum(j) \in Nat /\ sum(j) * k \in Nat
  BY SMTT(60), <1>1, SumNat
<1>3. \A j, m \in 0..n : j <= m => sum(j) <= sum(m)
  BY <1>1, SumGrows
<1> HIDE DEF sum, n
<1>0. d \in Nat /\ total \in Nat /\ total # 0
  BY <1>1
<1> DEFINE edge(j) == sum(j) * k
           reached(j) == (2 * d + 1) * total <= 2 * Grid * sum(j)
<1>4. \A j \in 0..n : edge(j) \in Nat
  BY <1>2
<1>5. \A j, m \in 0..n : j <= m => edge(j) <= edge(m)
  <2> SUFFICES ASSUME NEW j \in 0..n, NEW m \in 0..n, j <= m
               PROVE  sum(j) * k <= sum(m) * k
    OBVIOUS
  <2>1. sum(j) \in Nat /\ sum(m) \in Nat /\ sum(j) <= sum(m)
    BY <1>2, <1>3
  <2> QED
    BY <2>1, TimesLess
<1>6. \A j \in 0..n : reached(j) <=> d < edge(j)
  <2> SUFFICES ASSUME NEW j \in 0..n
               PROVE  reached(j) <=> d < edge(j)
    OBVIOUS
  <2>1. edge(j) \in Nat /\ sum(j) \in Nat
    BY <1>2, <1>4
  <2>2. 2 * Grid * sum(j) = (2 * edge(j)) * total
    <3>1. 2 * (k * total) * sum(j) = (2 * (sum(j) * k)) * total
      BY <1>1, <2>1, PartsScaled
    <3> QED
      BY <3>1
  <2> HIDE DEF edge
  <2>3. (2 * d + 1) * total <= (2 * edge(j)) * total <=> d < edge(j)
    BY ONLY <1>0, <2>1, PartsCompared
  <2> QED
    BY <2>2, <2>3
<1>7. d < edge(n)
  BY <1>1
<1>8. edge(0) = 0
  <2>1. sum(0) = 0
    BY <1>1, SumIs DEF sum
  <2> QED
    BY <2>1
<1>9. DOMAIN weights = 1..n /\ hit = {j \in DOMAIN weights : reached(j)}
  BY <1>1 DEF sum
<1> HIDE DEF edge, reached, hit
<1>10. hit = {j \in 1..n : d < edge(j)} /\ n \in hit
  BY <1>1, <1>6, <1>7, <1>9
<1> DEFINE first == CHOOSE j \in hit : \A m \in hit : j <= m
<1>11. PickIndex(weights, total, d) = first
  BY <1>10 DEF PickIndex, sum, hit
<1>12. first \in hit /\ \A m \in hit : first <= m
  <2>1. hit \subseteq Nat /\ hit # {}
    BY <1>10
  <2>2. \E j \in hit : \A m \in hit : j <= m
    BY <2>1, Smallest
  <2> QED
    BY <2>2
<1> HIDE DEF first
<1>13. ASSUME first = i
       PROVE  edge(i - 1) <= d /\ d < edge(i)
  <2>1. d < edge(i)
    BY <1>10, <1>12, <1>13
  <2>2. CASE i = 1
    BY <1>1, <1>8, <2>1, <2>2
  <2>3. CASE i # 1
    <3>1. i \in Int /\ i - 1 \in 1..n /\ i - 1 \in 0..n
      BY ONLY <1>1, <2>3
    <3> DEFINE below == i - 1
    <3>2. below \notin hit
      <4>1. below < i /\ \A m \in hit : i <= m
        BY <1>12, <1>13, <3>1
      <4>2. below \in Int /\ (below \in hit => i <= below)
        BY ONLY <3>1, <4>1
      <4> HIDE DEF below
      <4> QED
        BY ONLY <3>1, <4>1, <4>2
    <3>3. ~(d < edge(below)) /\ edge(below) \in Nat
      BY ONLY <1>4, <1>10, <3>1, <3>2
    <3> QED
      BY <1>0, <2>1, <3>3
  <2> QED
    BY <2>2, <2>3
<1>14. ASSUME edge(i - 1) <= d, d < edge(i)
       PROVE  first = i
  <2>1. i \in hit
    BY <1>1, <1>10, <1>14
  <2>2. \A m \in 1..n : m < i => m \notin hit
    <3> SUFFICES ASSUME NEW m \in 1..n, m < i
                 PROVE  m \notin hit
      OBVIOUS
    <3>1. m \in 0..n /\ i - 1 \in 0..n /\ m <= i - 1
      BY SMTT(60), <1>1
    <3>2. edge(m) <= edge(i - 1) /\ edge(m) \in Nat /\ edge(i - 1) \in Nat
      BY <1>4, <1>5, <3>1
    <3> QED
      BY <1>1, <1>10, <1>14, <3>2
  <2>3. first \in 1..n /\ first <= i
    BY <1>10, <1>12, <2>1
  <2> QED
    BY <1>1, <1>12, <2>2, <2>3
<1> QED
  BY <1>11, <1>13, <1>14 DEF sum, edge

(* A gate is picked for its share of the numbers drawn, for any number of  *)
(* gates and any weights, set, added and cleared in any order              *)
(* (model/q2ns-qmap.cc:379).                                               *)
THEOREM PickedByWeightAlways ==
  ASSUME GatesAssumption
  PROVE  GatesSpec => []PickedByWeight
<1>1. GatesInv => PickedByWeight
  <2> SUFFICES ASSUME GatesInv, total > 0, Grid % total = 0, NEW i \in DOMAIN weights
               PROVE  Cardinality({d \in 0..(Grid - 1) : PickIndex(weights, total, d) = i}) * total
                        = weights[i] * Grid
    BY DEF PickedByWeight
  <2>1. /\ weights \in Seq(Nat) /\ i \in 1..Len(weights) /\ Len(weights) \in Nat
        /\ total \in Nat /\ Grid \in Nat \ {0} /\ weights[i] \in Nat
    BY SumNat DEF GatesInv, GatesAssumption
  <2>2. PICK k \in Nat \ {0} : Grid = k * total
    BY <2>1, Divides
  <2> DEFINE low == SumUpTo(weights, i - 1) * k
             high == SumUpTo(weights, i) * k
  <2>3. /\ SumUpTo(weights, i) \in Nat /\ SumUpTo(weights, i - 1) \in Nat
        /\ SumUpTo(weights, i) = SumUpTo(weights, i - 1) + weights[i]
        /\ SumUpTo(weights, i) <= total
    <3>1. i \in 0..Len(weights) /\ i - 1 \in 0..Len(weights) /\ Len(weights) \in i..Len(weights)
      BY <2>1
    <3> QED
      BY <2>1, <3>1, SumIs, SumNat, SumGrows DEF GatesInv
  <2>4. low \in Nat /\ high \in Nat /\ high - low = weights[i] * k /\ high <= Grid
    <3>1. high <= total * k
      BY <2>1, <2>3, TimesLess
    <3>2. (SumUpTo(weights, i - 1) + weights[i]) * k = SumUpTo(weights, i - 1) * k + weights[i] * k
      BY <2>1, <2>3
    <3>3. weights[i] * k \in Nat /\ low \in Nat /\ high \in Nat
      BY <2>1, <2>3
    <3>4. high - low = weights[i] * k
      <4>1. high = low + weights[i] * k
        BY <2>3, <3>2
      <4> HIDE DEF low, high
      <4> QED
        BY <3>3, <4>1
    <3>5. high <= Grid
      <4>1. total * k = k * total
        BY <2>1
      <4> QED
        BY <2>2, <3>1, <4>1
    <3> QED
      BY <3>3, <3>4, <3>5
  <2>5. weights[i] * k \in Nat
    BY <2>1
  <2>6. {d \in 0..(Grid - 1) : PickIndex(weights, total, d) = i} = low..(high - 1)
    <3>1. \A d \in 0..(Grid - 1) :
            (PickIndex(weights, total, d) = i) <=> (low <= d /\ d < high)
      BY <2>2, PickedFrom
    <3> HIDE DEF low, high
    <3> QED
      BY <2>1, <2>4, <3>1
  <2> HIDE DEF low, high
  <2>7. Cardinality(low..(high - 1)) = weights[i] * k
    <3>1. high - 1 \in Int /\ low \in Int
      BY <2>4
    <3> QED
      BY <2>4, <2>5, <3>1, FS_Interval
  <2>8. (weights[i] * k) * total = weights[i] * (k * total)
    BY <2>1
  <2> QED
    BY <2>2, <2>6, <2>7, <2>8
<1> QED
  BY <1>1, GatesInvAlways, PTL

=============================================================================
