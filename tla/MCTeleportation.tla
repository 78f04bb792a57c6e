--------------------------- MODULE MCTeleportation --------------------------
(* Three sessions: s1 has a destination of its own, s2 and s3 have one in  *)
(* common.                                                                 *)
EXTENDS Teleportation, TLC

CONSTANTS s1, s2, s3, n1, n2

MCDest == s1 :> n1 @@ s2 :> n2 @@ s3 :> n2
MCProto == s1 :> "tcp" @@ s2 :> "udp" @@ s3 :> "udp"

\* Next to the end of the 16-bit ports: the first two wrap.
MCSessionId == s1 :> 5535 @@ s2 :> 5537 @@ s3 :> 15538

=============================================================================
