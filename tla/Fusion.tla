------------------------------- MODULE Fusion -------------------------------
(***************************************************************************)
(* The attitude filter of the composite sensors Gravity and                *)
(* LinearAcceleration (core/CompositeSensors.cpp) and the vector, matrix   *)
(* and quaternion templates it is written with (core/utils).               *)
(*                                                                         *)
(* Everything is exact.  A unit quaternion is q/|q| for an integer q, a    *)
(* unit vector v/|v| for an integer v of integer length, an angle one of   *)
(* a Pythagorean triple; results are integers scaled by the square of the  *)
(* length, which takes the place of the 1 of the formulas.  invert()       *)
(* computes with fractions <<numerator, denominator>>.                     *)
(*                                                                         *)
(* A vector is a sequence <<x, y, z>> or <<x, y, z, w>>; a matrix is the   *)
(* sequence of its COLUMNS, so m[c][r] is the code's m[c-1][r-1].          *)
(***************************************************************************)
EXTENDS Integers, Sequences, FiniteSetsExt, SequencesExt

Abs(n) == IF n < 0 THEN -n ELSE n

(* The square root of a perfect square.                                    *)
Isqrt(n) == CHOOSE r \in 0..n : r * r = n

-----------------------------------------------------------------------------
(* core/utils/vec.h                                                        *)
Plus(u, v) == [i \in DOMAIN u |-> u[i] + v[i]]
Minus(u, v) == [i \in DOMAIN u |-> u[i] - v[i]]
Scaled(k, v) == [i \in DOMAIN v |-> k * v[i]]
Negated(v) == [i \in DOMAIN v |-> -v[i]]
DotProduct(u, v) == MapThenSumSet(LAMBDA i : u[i] * v[i], DOMAIN u)
LengthSquared(v) == DotProduct(v, v)
Length(v) == Isqrt(LengthSquared(v))

CrossProduct(u, v) ==
  <<u[2] * v[3] - u[3] * v[2], u[3] * v[1] - u[1] * v[3], u[1] * v[2] - u[2] * v[1]>>

(* core/utils/mat.h                                                        *)
Diagonal(d) == [c \in 1..3 |-> [r \in 1..3 |-> IF c = r THEN d ELSE 0]]
MatrixPlus(A, B) == [c \in DOMAIN A |-> Plus(A[c], B[c])]
MatrixScaled(k, A) == [c \in DOMAIN A |-> Scaled(k, A[c])]
Transpose(A) == [r \in DOMAIN A[1] |-> [c \in DOMAIN A |-> A[c][r]]]
Apply(A, v) == [r \in DOMAIN A[1] |-> DotProduct([k \in DOMAIN v |-> A[k][r]], v)]
Times(A, B) == [c \in DOMAIN B |-> Apply(A, B[c])]

-----------------------------------------------------------------------------
(* core/utils/quat.h.  products[i][j] is q[i]*q[j], one the square of |q|.  *)
QuatToMatrix(products, one) ==
  LET p(i, j) == 2 * products[i][j]
  IN << <<one - p(2, 2) - p(3, 3), p(1, 2) - p(3, 4), p(1, 3) + p(2, 4)>>,
        <<p(1, 2) + p(3, 4), one - p(1, 1) - p(3, 3), p(2, 3) - p(1, 4)>>,
        <<p(1, 3) - p(2, 4), p(2, 3) + p(1, 4), one - p(1, 1) - p(2, 2)>> >>

Products(q) == [i \in 1..4 |-> [j \in 1..4 |-> q[i] * q[j]]]

Attitude(q) == QuatToMatrix(Products(q), LengthSquared(q))

Clamp(v) == IF v < 0 THEN 0 ELSE v

(* copysignf; the difference of two equal elements is a zero of either     *)
(* sign, of which zero[i] is one.                                          *)
SignOf(difference, zero) == IF difference = 0 THEN zero ELSE IF difference < 0 THEN -1 ELSE 1

MatrixToQuat_Transposed(R, one, zero) ==
  [square |-> <<Clamp(R[1][1] - R[2][2] - R[3][3] + one), Clamp(-R[1][1] + R[2][2] - R[3][3] + one),
                Clamp(-R[1][1] - R[2][2] + R[3][3] + one), Clamp(R[1][1] + R[2][2] + R[3][3] + one)>>,
   sign |-> <<SignOf(R[2][3] - R[3][2], zero[1]), SignOf(R[3][1] - R[1][3], zero[2]),
              SignOf(R[1][2] - R[2][1], zero[3]), 1>>]

(* Four times the squares of the components, and their signs.              *)
MatrixToQuat(R, one, zero) ==
  [square |-> <<Clamp(R[1][1] - R[2][2] - R[3][3] + one), Clamp(-R[1][1] + R[2][2] - R[3][3] + one),
                Clamp(-R[1][1] - R[2][2] + R[3][3] + one), Clamp(R[1][1] + R[2][2] + R[3][3] + one)>>,
   sign |-> <<SignOf(R[3][2] - R[2][3], zero[1]), SignOf(R[1][3] - R[3][1], zero[2]),
              SignOf(R[2][1] - R[1][2], zero[3]), 1>>]

-----------------------------------------------------------------------------
(* core/CompositeSensors.cpp                                               *)
CrossMatrix(p, diag) ==
  << <<diag, p[3], -p[2]>>, <<-p[3], diag, p[1]>>, <<p[2], -p[1], diag>> >>

(* scaleCovariance: twice the result, so that its 0.5 stays an integer.    *)
ScaleCovariance(A, P) ==
  LET v(r, c) == A[c][r] * P[c][c] + 2 * DotProduct([k \in (c + 1)..3 |-> A[k][r]], P[c])
      apat(r, j) == 2 * DotProduct([c \in 1..3 |-> v(r, c)], [c \in 1..3 |-> A[c][j]])
  IN [c \in 1..3 |-> [r \in 1..3 |-> apat(Min({c, r}), Max({c, r}))]]

GetF(q) ==
  << <<q[4], q[3], -q[2], -q[1]>>, <<-q[3], q[4], q[1], -q[2]>>, <<q[2], -q[1], q[4], -q[3]>> >>

GetOrthogonal(v) ==
  IF Abs(v[1]) <= Abs(v[2]) /\ Abs(v[1]) <= Abs(v[3]) THEN <<0, v[3], -v[2]>>
  ELSE IF Abs(v[2]) <= Abs(v[3]) THEN <<v[3], 0, -v[1]>>
  ELSE <<v[2], -v[1], 0>>

(* initRodrParams: the columns east, north, up, scaled by the lengths of   *)
(* acc and of the vector getOrthogonal() normalises.                       *)
InitRodrParams(acc) ==
  LET east == GetOrthogonal(acc)
  IN << Scaled(Length(acc), east), CrossProduct(acc, east), Scaled(Length(east), acc) >>

(* predict(): O for a rotation about axis a by twice the angle whose       *)
(* cosine and sine are cos/h and sin/h, scaled by h and the length of a.   *)
PredictO(a, cos, sin) ==
  LET psi == Scaled(sin, a)
      k2 == cos * Length(a)
      O33 == CrossMatrix(Negated(psi), k2)
  IN << O33[1] \o <<-psi[1]>>, O33[2] \o <<-psi[2]>>, O33[3] \o <<-psi[3]>>, psi \o <<k2>> >>

Predict(q, a, cos, sin) ==
  LET p == Apply(PredictO(a, cos, sin), q) IN IF p[4] < 0 THEN Negated(p) ELSE p

(* mPhi[0][0] = I33 - wx*(k1*ilwe) + wx2*k0, scaled by the square of that. *)
PredictPhi00(a, cos, sin) ==
  LET wx == CrossMatrix(a, 0)
  IN MatrixPlus(Diagonal((cos * cos + sin * sin) * LengthSquared(a)),
       MatrixPlus(MatrixScaled(-2 * sin * cos * Length(a), wx), MatrixScaled(2 * sin * sin, Times(wx, wx))))

-----------------------------------------------------------------------------
(* invert() of mat.h, with fractions in lowest terms.                      *)
Fraction(n, d) ==
  LET g == Max({k \in 1..Max({Abs(n), Abs(d)}) : n % k = 0 /\ Abs(d) % k = 0})
      s == IF d < 0 THEN -1 ELSE 1
  IN <<(s * n) \div g, Abs(d) \div g>>

FractionMinusTimes(a, b, t) ==
  Fraction(a[1] * b[2] * t[2] - b[1] * t[1] * a[2], a[2] * b[2] * t[2])

FractionOver(a, b) == Fraction(a[1] * b[2], a[2] * b[1])

LargerThan(a, b) == Abs(a[1]) * b[2] > Abs(b[1]) * a[2]

Identity == [i \in 1..3 |-> [k \in 1..3 |-> <<IF i = k THEN 1 ELSE 0, 1>>]]

(* The row to swap with: the last one larger than the diagonal element.    *)
SwapWith(tmp, i) == Max({i} \union {j \in (i + 1)..3 : LargerThan(tmp[j][i], tmp[i][i])})

Swapped(m, i, j) == [m EXCEPT ![i] = m[j], ![j] = m[i]]

InvertStep(m, i) ==
  LET swap == SwapWith(m.tmp, i)
      tmp == Swapped(m.tmp, i, swap)
      inverse == Swapped(m.inverse, i, swap)
      row(x) == [k \in 1..3 |-> FractionOver(x[i][k], tmp[i][i])]
      eliminated(x) == [j \in 1..3 |->
        IF j = i THEN row(x) ELSE [k \in 1..3 |-> FractionMinusTimes(x[j][k], row(x)[k], tmp[j][i])]]
  IN [tmp |-> eliminated(tmp), inverse |-> eliminated(inverse)]

Invert(src) == FoldLeft(InvertStep, [tmp |-> src, inverse |-> Identity], <<1, 2, 3>>)

-----------------------------------------------------------------------------
(* Inputs                                                                  *)
Quaternions == [1..4 -> -1..1] \ {[i \in 1..4 |-> 0]}
Basis == {<<1, 0, 0>>, <<0, 1, 0>>, <<0, 0, 1>>}   (* mBm and mBa are two of them *)

(* Accelerations whose lengths and those of their orthogonals are whole.   *)
Accelerations ==
  {[i \in 1..3 |-> s[i] * v[f[i]]] :
     s \in [1..3 -> {-1, 1}], f \in Bijection(1..3, 1..3), v \in {<<0, 0, 1>>, <<0, 3, 4>>, <<8, 9, 12>>}}

Axes == {<<0, 0, 1>>, <<1, 2, 2>>, <<-2, 3, 6>>}
HalfAngles == {<<4, 3>>, <<-3, 4>>, <<0, 1>>, <<5, -12>>}

SymmetricMatrices ==
  {[c \in 1..3 |-> [r \in 1..3 |-> <<IF c = r THEN d[c] ELSE o[c + r - 2], 1>>]] :
     d \in [1..3 -> -1..1], o \in [1..3 -> -1..1]}

Determinant(m) ==
  LET e(c, r) == m[c][r][1]
  IN e(1, 1) * (e(2, 2) * e(3, 3) - e(2, 3) * e(3, 2)) - e(1, 2) * (e(2, 1) * e(3, 3) - e(2, 3) * e(3, 1))
     + e(1, 3) * (e(2, 1) * e(3, 2) - e(2, 2) * e(3, 1))

-----------------------------------------------------------------------------
(* Properties                                                              *)

(* initRodrParams() through matrixToQuat() and quatToMatrix(): the first   *)
(* gravity reported has the direction of the first acceleration, also for  *)
(* a device lying upside down, where the signs of the quaternion are those *)
(* of float zeros.                                                         *)
StartsAtTheAcceleration ==
  \A acc \in Accelerations, zero \in [1..3 -> {-1, 1}] :
    LET one == Length(acc) * Length(GetOrthogonal(acc))
        q == MatrixToQuat(InitRodrParams(acc), one, zero)
        products == [i \in 1..4 |-> [j \in 1..4 |-> q.sign[i] * q.sign[j] * Isqrt(q.square[i] * q.square[j])]]
    IN QuatToMatrix(products, 4 * one)[3] = Scaled(4 * Length(GetOrthogonal(acc)), acc)

(* update(): the sensitivity L = [Bb]x of the predicted measurement is its *)
(* derivative along the correction q += F(q)*0.5*dq, so that the filter    *)
(* moves towards what was measured and not away from it.                   *)
CorrectsAlongTheError ==
  \A q \in Quaternions, B \in Basis, v \in Basis :
    LET d == Apply(GetF(q), v)
        one == LengthSquared(q)
        h(x) == Apply(QuatToMatrix(Products(x), one), B)
        L == CrossMatrix(Apply(Attitude(q), B), 0)
    IN Minus(h(Plus(q, d)), h(Minus(q, d))) = Scaled(4, Apply(L, v))

(* predict(): the attitude and its error are propagated by one and the     *)
(* same rotation, O for the quaternion and Phi00 for the covariance.       *)
PredictsAlike ==
  \A q \in Quaternions, a \in Axes, angle \in HalfAngles :
    Attitude(Predict(q, a, angle[1], angle[2])) = Times(PredictPhi00(a, angle[1], angle[2]), Attitude(q))

(* invert(): the inverse of every non-singular symmetric matrix, those     *)
(* with zeros on the diagonal included.                                    *)
InverseIsExact ==
  \A m \in SymmetricMatrices : Determinant(m) # 0 =>
    LET i == Invert(m).inverse
    IN \A c, r \in 1..3 :
         FoldLeft(LAMBDA s, k : FractionMinusTimes(s, i[k][r], <<-m[c][k][1], 1>>), <<0, 1>>, <<1, 2, 3>>)
           = Identity[c][r]

(* scaleCovariance(): A*P*transpose(A) as long as the errors of the three  *)
(* axes are independent (P diagonal, as initFusion's noise makes it).      *)
ScalesIndependentErrors ==
  \A p \in Basis, b \in Axes :
    LET P == [c \in 1..3 |-> [r \in 1..3 |-> IF c = r THEN p[c] ELSE 0]]
        A == CrossMatrix(b, 0)
    IN ScaleCovariance(A, P) = MatrixScaled(2, Times(A, Times(P, Transpose(A))))

(* The conventions of vec.h, mat.h, quat.h and CompositeSensors.cpp        *)
(* (handedness, column order, signs) fit together.                         *)
ConventionsAgree ==
  /\ StartsAtTheAcceleration
  /\ CorrectsAlongTheError
  /\ PredictsAlike
  /\ InverseIsExact
  /\ ScalesIndependentErrors
=============================================================================
