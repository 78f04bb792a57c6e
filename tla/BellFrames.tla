----------------------------- MODULE BellFrames -----------------------------
(***************************************************************************)
(* Bell pairs with a Pauli frame.  The Bell pairs a program makes with     *)
(* CreateBellPair, corrects with X and Z and joins with MeasureBell        *)
(* (model/q2ns-qprocessor.cc) are always |Phi+> with an X and a Z on one   *)
(* half, or not; <<x, z>> says which.  A frame is all the applications of  *)
(* model/ depend on; JoinedPairs checks it against the stabilizers.       *)
(***************************************************************************)
EXTENDS Naturals

Bit == {0, 1}
Frame == Bit \X Bit

\* CreateBellPair: |Phi+> as it is.
NoFrame == <<0, 0>>

XorBit(a, b) == IF a = b THEN 0 ELSE 1
XorFrame(f, g) == <<XorBit(f[1], g[1]), XorBit(f[2], g[2])>>

\* X or Z on either half.
AfterX(f) == XorFrame(f, <<1, 0>>)
AfterZ(f) == XorFrame(f, <<0, 1>>)

\* MeasureBell on one half of each of two pairs returned m1 and m2: the
\* other halves are a pair.
Mutant_JoinSwapsBits(f, g, m1, m2) == XorFrame(XorFrame(f, g), <<m1, m2>>)
AfterMeasureBell(f, g, m1, m2) == XorFrame(XorFrame(f, g), <<m2, m1>>)

=============================================================================
