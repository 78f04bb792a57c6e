------------------------------ MODULE Streams -------------------------------
(***************************************************************************)
(* Random streams (model/q2ns-netcontroller.cc, model/q2ns-qstate.h and    *)
(* doc/design-notes/randomness.md): every channel has two random variables *)
(* with streams of their own; the states of a backend have none, so a      *)
(* state's stream reseeds the backend's generator, which is global.        *)
(*                                                                         *)
(* A generator is the seed it was given (SeedDerivation), by which backend *)
(* and stream, and how many numbers it has drawn.  DeriveSeed64 keeps the  *)
(* streams of one backend apart, but the streams 7 of ket and 8 of dm, for *)
(* example, begin the same sequence.                                       *)
(***************************************************************************)
EXTENDS SeedDerivation, FiniteSets

CONSTANTS
  Backends,   \* backends that share one generator, each with a salt
  Replication, \* the ns-3 run number of this replication
  Bases,      \* arguments of AssignStreams
  MaxCalls,   \* bound on the assignments that the user may add to
  MaxLinks, MaxStates, MaxDraws  \* bounds

\* Bound on the streams: nothing hands out more.
StreamNumbers == UNION {0..(base + 2 * MaxLinks + MaxStates) : base \in Bases \cup {0}}

StreamsAssumption ==
  /\ Backends \subseteq Salted /\ "channel" \notin Backends
  /\ Bases \subseteq Nat /\ {MaxCalls, MaxLinks, MaxStates, MaxDraws} \subseteq Nat
  /\ Replication \in Word /\ StreamNumbers \subseteq Word

VARIABLES
  streamsAssigned,  \* streamsAssigned_
  nextStream,       \* nextStream_
  channels,         \* for each link, its first stream (-1: none) and numbers drawn
  states,           \* for each registered state id, [backend, stream]
  nextId,           \* the registry's next state id
  last,             \* for each salt, the stream ShouldReseed remembers (-1: none)
  prng,             \* the generator, [seed, by, pos]
  drawn,            \* the numbers drawn: what their generator was before
  calls,            \* the calls of AssignStreams so far
  replayed          \* the pairs that drew one number, first and second

streamVars == <<streamsAssigned, nextStream, channels, states, nextId, last, prng,
                drawn, calls, replayed>>

\* No seed has a bit that no number of 64 bits has.
Unseeded == <<"unseeded">>
FromRandomDevice == [seed |-> {Width}, by |-> Unseeded, pos |-> 0]

StreamsInit ==
  /\ streamsAssigned = FALSE
  /\ nextStream = 0
  /\ channels = <<>>
  /\ states = <<>>
  /\ nextId = 1
  /\ last = [b \in Backends |-> -1]
  /\ prng = FromRandomDevice
  /\ drawn = {}
  /\ calls = 0
  /\ replayed = {}

-----------------------------------------------------------------------------
\* QChannel::AssignStreams: SetStream of both variables begins their streams.
ChannelWith(stream) == [stream |-> stream, pos |-> 0]

Seeded(b, stream) ==
  [seed |-> DeriveSeed64(Replication, stream, Salt[b]), by |-> <<b, stream>>, pos |-> 0]

\* AssignStreamsGlobal of a state: reseed unless the salt's stream is the same.
Reseed(g, b, stream) == IF last[b] = stream THEN g ELSE Seeded(b, stream)

InstallQuantumLink ==
  /\ Cardinality(DOMAIN channels) < MaxLinks
  /\ LET l == Cardinality(DOMAIN channels) + 1
     IN  channels' = [k \in DOMAIN channels \cup {l} |->
           IF k # l THEN channels[k] ELSE ChannelWith(IF streamsAssigned THEN nextStream ELSE -1)]
  /\ nextStream' = IF streamsAssigned THEN nextStream + 2 ELSE nextStream
  /\ UNCHANGED <<streamsAssigned, states, nextId, last, prng, drawn, calls, replayed>>

\* The hook of the registry: a state that is registered gets the next stream.
Mutant_AssignerActs == TRUE
AssignerActs == streamsAssigned

CreateState(b) ==
  /\ nextId <= MaxStates
  /\ nextId' = nextId + 1
  /\ states' = [i \in DOMAIN states \cup {nextId} |->
       IF i # nextId THEN states[i]
       ELSE [backend |-> b, stream |-> IF AssignerActs THEN nextStream ELSE -1]]
  /\ IF AssignerActs
     THEN /\ prng' = Reseed(prng, b, nextStream)
          /\ last' = [last EXCEPT ![b] = nextStream]
          /\ nextStream' = nextStream + 1
     ELSE UNCHANGED <<prng, last, nextStream>>
  /\ UNCHANGED <<streamsAssigned, channels, drawn, calls, replayed>>

RemoveState(i) ==
  /\ states' = [j \in DOMAIN states \ {i} |-> states[j]]
  /\ UNCHANGED <<streamsAssigned, nextStream, channels, nextId, last, prng, drawn, calls, replayed>>

(***************************************************************************)
(* AssignStreams: the channels in the order of their nodes, then the       *)
(* states by id.  What stays of the reseeds is the last one.               *)
(***************************************************************************)
ChannelStream(base, l) == base + 2 * (l - 1)
StateStream(base, i) ==
  base + 2 * Cardinality(DOMAIN channels) + Cardinality({j \in DOMAIN states : j < i})

AssignStreams(base) ==
  /\ streamsAssigned' = TRUE
  /\ channels' = [l \in DOMAIN channels |-> ChannelWith(ChannelStream(base, l))]
  /\ states' = [i \in DOMAIN states |-> [states[i] EXCEPT !.stream = StateStream(base, i)]]
  /\ nextStream' = base + 2 * Cardinality(DOMAIN channels) + Cardinality(DOMAIN states)
  /\ LET of(b) == {i \in DOMAIN states : states[i].backend = b}
         latest(S) == CHOOSE i \in S : \A j \in S : j <= i
         reseeds == {i \in DOMAIN states :
           LET before == {j \in of(states[i].backend) : j < i}
           IN  before # {} \/ last[states[i].backend] # StateStream(base, i)}
     IN  /\ last' = [b \in Backends |->
                       IF of(b) = {} THEN last[b] ELSE StateStream(base, latest(of(b)))]
         /\ prng' = IF reseeds = {} THEN prng
                    ELSE LET i == latest(reseeds)
                         IN  Seeded(states[i].backend, StateStream(base, i))
  /\ calls' = calls + 1
  /\ UNCHANGED <<nextId, drawn, replayed>>

\* By hand, as immediate mode asks for, at any time and more than once.
UserAssigns(base) == calls < MaxCalls /\ AssignStreams(base)

\* At time 0 of the simulation, if nobody has.
EnsureStreamsAssigned == ~streamsAssigned /\ AssignStreams(0)

-----------------------------------------------------------------------------
\* Two sequences that begin with the same seed have the same numbers.
Draw(number) ==
  /\ LET same == {d \in drawn : d.seed = number.seed /\ d.pos = number.pos}
     IN  replayed' = replayed \cup {<<d.by, number.by>> : d \in same}
  /\ drawn' = drawn \cup {number}

MeasureDraws ==
  /\ DOMAIN states # {}
  /\ Cardinality(drawn) < MaxDraws
  /\ Draw(prng)
  /\ prng' = [prng EXCEPT !.pos = @ + 1]
  /\ UNCHANGED <<streamsAssigned, nextStream, channels, states, nextId, last, calls>>

\* ns-3 has a generator of another kind for each stream, -1 - s for stream s.
ChannelNumber(c) == [seed |-> {-1 - c.stream}, by |-> <<"channel", c.stream>>, pos |-> c.pos]

SendDraws(l) ==
  /\ Cardinality(drawn) < MaxDraws
  /\ channels[l].stream # -1
  /\ Draw(ChannelNumber(channels[l]))
  /\ channels' = [channels EXCEPT ![l].pos = @ + 1]
  /\ UNCHANGED <<streamsAssigned, nextStream, states, nextId, last, prng, calls>>

StreamsNext ==
  \/ InstallQuantumLink
  \/ \E b \in Backends : CreateState(b)
  \/ \E i \in DOMAIN states : RemoveState(i)
  \/ \E base \in Bases : UserAssigns(base)
  \/ EnsureStreamsAssigned
  \/ MeasureDraws
  \/ \E l \in DOMAIN channels : SendDraws(l)

StreamsSpec == StreamsInit /\ [][StreamsNext]_streamVars

-----------------------------------------------------------------------------
(* No two channels and states that exist have a stream in common, whenever *)
(* they were made and however often the streams were assigned              *)
(* (model/q2ns-netcontroller.cc:65).                                       *)
StreamsDistinct ==
  LET used(l) == {channels[l].stream, channels[l].stream + 1}
  IN  streamsAssigned =>
        /\ \A l, k \in DOMAIN channels : l # k => used(l) \cap used(k) = {}
        /\ \A i, j \in DOMAIN states : i # j => states[i].stream # states[j].stream
        /\ \A l \in DOMAIN channels, i \in DOMAIN states : states[i].stream \notin used(l)

(* As long as streams are assigned once, by hand or at time 0, no channel  *)
(* and no backend draws a random number twice: the reseeding that each new *)
(* state causes never goes back to a sequence the backend has used         *)
(* (model/q2ns-qstate.h:260).  Two backends may draw the same numbers, and *)
(* a second assignment begins sequences again, also with the same base.    *)
NothingReplayed ==
  calls <= 1 => \A pair \in replayed :
    /\ pair[1][1] \in Backends /\ pair[2][1] \in Backends
    /\ pair[1][1] # pair[2][1]

(* Streams are distinct and a backend or channel draws from each once      *)
(* (model/q2ns-netcontroller.cc:65).                                       *)
StreamsSound == StreamsDistinct /\ NothingReplayed

=============================================================================
