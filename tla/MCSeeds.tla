------------------------------ MODULE MCSeeds -------------------------------
(***************************************************************************)
(* The seeds of one replication for TLC, with the salts of the code.       *)
(***************************************************************************)
EXTENDS SeedDerivation

\* "QPPK", "QPPD" and "STAB".
MCSalt == [ket |-> 1364217931, dm |-> 1364217924, stab |-> 1398030658]

=============================================================================
