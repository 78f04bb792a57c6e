--------------------------- MODULE SeedDerivation ---------------------------
(***************************************************************************)
(* The seeds of the backends' generators (model/q2ns-qstate.h): each state *)
(* of each replication has a stream, from which DeriveSeed64 makes a seed  *)
(* with the ns-3 run number and the salt of the backend.                   *)
(*                                                                         *)
(* SplitMix64 permutes the 64-bit numbers, so two seeds are equal if and   *)
(* only if what it mixes is; the ns-3 seed is above the other bits and is  *)
(* the same for all, and is left out.                                      *)
(***************************************************************************)
EXTENDS Integers

CONSTANTS
  Salt,        \* the salt of each backend
  Runs,        \* bound on the replications
  MaxStreams   \* bound on the streams of a replication

Width == 64 \* uint64_t

\* n, halved again and again.
Halved(n) ==
  LET half[i \in 0..Width] == IF i = 0 THEN n ELSE half[i - 1] \div 2
  IN  half
Bits(n) ==
  LET half == Halved(n)
  IN  {i \in 0..(Width - 1) : half[i] % 2 = 1}
Word == {n \in Nat : Halved(n)[Width] = 0}

\* Every backend has a salt of its own (doc/design-notes/randomness.md:44).
SeedAssumption ==
  /\ {Runs, MaxStreams} \subseteq Word \ {0}
  /\ \A b \in DOMAIN Salt : Salt[b] \in Word
  /\ \A b, c \in DOMAIN Salt : b # c => Salt[b] # Salt[c]

VARIABLES
  run,         \* RngSeedManager::GetRun
  counter,     \* nextStream_ of the replication's controller
  seeded       \* the states seeded so far: [run, stream, backend, seed]

seedVars == <<run, counter, seeded>>

Salted == DOMAIN Salt

\* A seed is the set of the bits of what is mixed.
XorBits(a, b) == (a \ b) \cup (b \ a)
Mutant_WithoutSalt(r, stream, salt) == XorBits(Bits(r), Bits(stream))
DeriveSeed64(r, stream, salt) == XorBits(XorBits(Bits(r), Bits(stream)), Bits(salt))

\* Runs are numbered from 1: CheckSeedRunNonZero.
SeedsInit ==
  /\ run = 1
  /\ counter = 0
  /\ seeded = {}

AssignStreamsGlobal(b) ==
  /\ counter < MaxStreams
  /\ counter' = counter + 1
  /\ seeded' = seeded \cup {[run |-> run, stream |-> counter, backend |-> b,
                             seed |-> DeriveSeed64(run, counter, Salt[b])]}
  /\ UNCHANGED run

\* The next replication has the next run, and a controller of its own.
Replicate ==
  /\ run < Runs
  /\ run' = run + 1
  /\ counter' = 0
  /\ UNCHANGED seeded

SeedsNext == (\E b \in Salted : AssignStreamsGlobal(b)) \/ Replicate

SeedsSpec == SeedsInit /\ [][SeedsNext]_seedVars

-----------------------------------------------------------------------------
(* The states of one backend in one replication all have sequences of      *)
(* their own (model/q2ns-qstate.h:184).                                    *)
StreamsSeparate ==
  \A s, t \in seeded :
    s.run = t.run /\ s.backend = t.backend /\ s.stream # t.stream => s.seed # t.seed

(* Different backends do not share a sequence when all other parameters    *)
(* are identical (doc/design-notes/randomness.md:44).                      *)
SaltsSeparate ==
  \A s \in seeded : \A b \in Salted \ {s.backend} :
    DeriveSeed64(s.run, s.stream, Salt[b]) # s.seed

(* Two states of a backend begin one sequence only in replications and     *)
(* with streams that both differ, as run 1 with stream 2 and run 2 with    *)
(* stream 1 do: the state that has the same stream in every replication    *)
(* always has another sequence (doc/tutorials/tutorial-04.md:511).         *)
ReplicationsSeparate ==
  \A s, t \in seeded :
    s.backend = t.backend /\ s.seed = t.seed => s = t \/ (s.run # t.run /\ s.stream # t.stream)

(* Neither two streams of a backend, nor two backends, nor a stream in two *)
(* replications have a sequence in common (model/q2ns-qstate.h:184).       *)
SeedsSeparate == StreamsSeparate /\ SaltsSeparate /\ ReplicationsSeparate

(* Salts keep the backends apart, whatever the streams of their states:    *)
(* no two states of a replication have the same sequence                   *)
(* (doc/design-notes/randomness.md:44).                                    *)
BackendsSeparate ==
  \A s, t \in seeded : s.run = t.run /\ s # t => s.seed # t.seed

=============================================================================
