-------------------------- MODULE CongestionHelper --------------------------
(***************************************************************************)
(* CongestionHelper::Install (helper/q2ns-congestion-helper.cc): flows of  *)
(* background traffic become sending apps, and sinks where none was made   *)
(* before, over all calls of one helper.  Then the apps start and stop.    *)
(***************************************************************************)
EXTENDS Integers, Sequences, FiniteSets

CONSTANTS
  Names,    \* names a flow may have
  Known,    \* those that have a node
  Specs,    \* the TrafficSpecs of the calls: sequences of [flows, autoCreateSinks]
  Horizon   \* bound on the time

PortNumber == 0..65535

\* A word as the user spells it and in lower case, which std::tolower gives.
Word == [spelled : STRING, lower : STRING]

TrafficFlow ==
  [src : Names, dst : Names, protocol : Word, source : Word, dstPort : PortNumber,
   start : Int, stop : Int]
TrafficSpec == [flows : Seq(TrafficFlow), autoCreateSinks : BOOLEAN]

CongestionAssumption ==
  /\ Horizon \in Nat
  /\ Known \subseteq Names
  /\ Specs \subseteq Seq(TrafficSpec)

VARIABLES
  specs,           \* the calls to come; the first is under way
  installedSinks,  \* m_installedSinks
  sinks,           \* the PacketSinks made, in order
  senders,         \* the OnOff and BulkSend apps, in order
  now,             \* Simulator::Now
  running          \* which of the senders have started and not stopped

vars == <<specs, installedSinks, sinks, senders, now, running>>

Init ==
  /\ specs \in Specs
  /\ installedSinks = {}
  /\ sinks = <<>>
  /\ senders = <<>>
  /\ now = 0
  /\ running = {}

\* An unknown protocol is UDP; an unknown source is OnOff, and so is bulk
\* over UDP.
ProtoOf(f) == IF f.protocol.lower \in {"udp", "tcp"} THEN f.protocol.lower ELSE "udp"
SourceOf(f) == IF f.source.lower = "bulk" /\ ProtoOf(f) = "tcp" THEN "bulk" ELSE "onoff"

SinkKey(f) == [node |-> f.dst, port |-> f.dstPort, proto |-> ProtoOf(f)]
SinkOf(f) == [node |-> f.dst, port |-> f.dstPort, proto |-> ProtoOf(f)]

\* A negative start is 0; a stop that is not positive is none, here 0.
FromZero(t) == IF t < 0 THEN 0 ELSE t

SenderOf(f) ==
  [node |-> f.src, dst |-> SinkOf(f), kind |-> SourceOf(f),
   start |-> FromZero(f.start), stop |-> FromZero(f.stop), auto |-> Head(specs).autoCreateSinks]

InstallFlow ==
  /\ specs # <<>> /\ Head(specs).flows # <<>>
  /\ LET f == Head(Head(specs).flows)
         wanted == Head(specs).autoCreateSinks /\ SinkKey(f) \notin installedSinks
     IN  IF {f.src, f.dst} \subseteq Known
         THEN /\ sinks' = IF wanted THEN Append(sinks, SinkOf(f)) ELSE sinks
              /\ installedSinks' = IF wanted THEN installedSinks \cup {SinkKey(f)} ELSE installedSinks
              /\ senders' = Append(senders, SenderOf(f))
         ELSE UNCHANGED <<installedSinks, sinks, senders>>
  /\ specs' = [specs EXCEPT ![1].flows = Tail(@)]
  /\ UNCHANGED <<now, running>>

NextCall ==
  /\ specs # <<>> /\ Head(specs).flows = <<>>
  /\ specs' = Tail(specs)
  /\ UNCHANGED <<installedSinks, sinks, senders, now, running>>

-----------------------------------------------------------------------------
\* The events of one time: apps start, then apps stop; a stop of 0 is none.
Started(at) == {i \in DOMAIN senders : senders[i].start = at}
Stopped(at) == {i \in DOMAIN senders : senders[i].stop # 0 /\ senders[i].stop = at}

RunEvents ==
  /\ specs = <<>>
  /\ now < Horizon
  /\ running' = (running \cup Started(now)) \ Stopped(now)
  /\ now' = now + 1
  /\ UNCHANGED <<specs, installedSinks, sinks, senders>>

Next == InstallFlow \/ NextCall \/ RunEvents

Spec == Init /\ [][Next]_vars

-----------------------------------------------------------------------------
(* However often flows share a destination, a port and a protocol, spelled *)
(* as the user likes and over several calls, there is exactly one sink for *)
(* them: a second would not bind (helper/q2ns-congestion-helper.cc:105).   *)
OneSinkEach ==
  \A i \in DOMAIN senders : senders[i].auto =>
    Cardinality({k \in DOMAIN sinks : sinks[k] = senders[i].dst}) = 1

(* A flow sends from its start to its stop, or to the end of the program   *)
(* when it has no stop or one that comes before its start, which has       *)
(* nothing to stop (helper/q2ns-congestion-helper.cc:142).                 *)
Over(s) == s.stop # 0 /\ s.start <= s.stop /\ s.stop < now
WindowKept ==
  \A i \in DOMAIN senders : i \in running <=> senders[i].start < now /\ ~Over(senders[i])

=============================================================================
