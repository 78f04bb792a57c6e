------------------------------- MODULE QGate --------------------------------
(***************************************************************************)
(* Built-in gates (model/q2ns-qgate.h) as matrices of Gaussian integers.   *)
(* A matrix is kept up to a positive factor: MatrixH is written without    *)
(* its 1/sqrt(2).  Rows and columns of a matrix over k targets are         *)
(* numbered by the values of the targets, first target most significant.   *)
(***************************************************************************)
EXTENDS Integers, Sequences

\* A complex amplitude with integer parts.
Complex == Int \X Int
Zero == <<0, 0>>
One == <<1, 0>>
Imag == <<0, 1>>
Plus(a, b) == <<a[1] + b[1], a[2] + b[2]>>
Times(a, b) == <<a[1] * b[1] - a[2] * b[2], a[1] * b[2] + a[2] * b[1]>>
Conj(a) == <<a[1], -a[2]>>
Minus(a) == <<-a[1], -a[2]>>
Norm(a) == a[1] * a[1] + a[2] * a[2]

\* Powers of the imaginary unit.
PowerOfI(k) == <<One, Imag, Minus(One), Minus(Imag)>>[(k % 4) + 1]

-----------------------------------------------------------------------------
QGateKind == {"I", "X", "Y", "Z", "H", "S", "SDG", "CNOT", "CZ", "SWAP"}

MatrixI == <<<<One, Zero>>, <<Zero, One>>>>
MatrixX == <<<<Zero, One>>, <<One, Zero>>>>
MatrixY == <<<<Zero, Minus(Imag)>>, <<Imag, Zero>>>>
MatrixZ == <<<<One, Zero>>, <<Zero, Minus(One)>>>>
MatrixH == <<<<One, One>>, <<One, Minus(One)>>>>
MatrixS == <<<<One, Zero>>, <<Zero, Imag>>>>
MatrixSDG == <<<<One, Zero>>, <<Zero, Minus(Imag)>>>>

\* A 4 x 4 matrix that sends each basis state to another, times a sign.
Permuting(image, sign) ==
  [r \in 1..4 |-> [c \in 1..4 |-> IF image[c] = r THEN sign[c] ELSE Zero]]
Unsigned == <<One, One, One, One>>

MatrixCNOT == Permuting(<<1, 2, 4, 3>>, Unsigned)
MatrixCZ == Permuting(<<1, 2, 3, 4>>, <<One, One, One, Minus(One)>>)
MatrixSWAP == Permuting(<<1, 3, 2, 4>>, Unsigned)

MatrixOf(k) ==
  CASE k = "I" -> MatrixI
    [] k = "X" -> MatrixX
    [] k = "Y" -> MatrixY
    [] k = "Z" -> MatrixZ
    [] k = "H" -> MatrixH
    [] k = "S" -> MatrixS
    [] k = "SDG" -> MatrixSDG
    [] k = "CNOT" -> MatrixCNOT
    [] k = "CZ" -> MatrixCZ
    [] k = "SWAP" -> MatrixSWAP

\* Number of targets of the descriptor gates::k().
Arity(k) == IF k \in {"CNOT", "CZ", "SWAP"} THEN 2 ELSE 1

=============================================================================
