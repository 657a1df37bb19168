---------------------------- MODULE FusionProofs ----------------------------
(***************************************************************************)
(* The algebra of the gravity filter (Fusion), for all integers.           *)
(***************************************************************************)
EXTENDS MCImuArbitration, ImuArbitrationProofs, SequenceTheorems, TLAPS

-----------------------------------------------------------------------------
(* Sums: MapThenSumSet over a set of at most four indices                  *)

Sum4(w, S) == (IF 1 \in S THEN w[1] ELSE 0) + (IF 2 \in S THEN w[2] ELSE 0)
              + (IF 3 \in S THEN w[3] ELSE 0) + (IF 4 \in S THEN w[4] ELSE 0)

(* The function a fold over S is defined by.                               *)
Folds(w, S, iter) ==
  iter = [s \in SUBSET S |->
            IF s = {} THEN 0
            ELSE w[CHOOSE x \in s : TRUE] + iter[s \ {CHOOSE x \in s : TRUE}]]

(* An element that is taken out is counted once.                           *)
LEMMA Removed ==
  ASSUME NEW w \in [1..4 -> Int], NEW s \in SUBSET (1..4), NEW x \in s
  PROVE  Sum4(w, s) = w[x] + Sum4(w, s \ {x})
<1>1. x = 1 \/ x = 2 \/ x = 3 \/ x = 4
  OBVIOUS
<1>2. w[1] \in Int /\ w[2] \in Int /\ w[3] \in Int /\ w[4] \in Int
  OBVIOUS
<1>3. CASE x = 1
  BY <1>2, <1>3 DEF Sum4
<1>4. CASE x = 2
  BY <1>2, <1>4 DEF Sum4
<1>5. CASE x = 3
  BY <1>2, <1>5 DEF Sum4
<1>6. CASE x = 4
  BY <1>2, <1>6 DEF Sum4
<1> QED BY <1>1, <1>3, <1>4, <1>5, <1>6

(* There is such a function: the sums over the subsets.                    *)
LEMMA FoldsExist ==
  ASSUME NEW w \in [1..4 -> Int], NEW S \in SUBSET (1..4)
  PROVE  \E iter : Folds(w, S, iter)
<1> DEFINE g == [s \in SUBSET S |-> Sum4(w, s)]
<1>1. ASSUME NEW s \in SUBSET S
      PROVE  g[s] = IF s = {} THEN 0 ELSE w[CHOOSE x \in s : TRUE] + g[s \ {CHOOSE x \in s : TRUE}]
  <2>1. CASE s = {}
    BY <2>1 DEF Sum4
  <2>2. CASE s # {}
    <3> DEFINE x == CHOOSE x \in s : TRUE
    <3>1. x \in s
      BY <2>2
    <3> HIDE DEF x
    <3>2. s \in SUBSET (1..4) /\ s \ {x} \in SUBSET S
      OBVIOUS
    <3>3. Sum4(w, s) = w[x] + Sum4(w, s \ {x})
      BY <3>1, <3>2, Removed
    <3>4. g[s] = w[x] + g[s \ {x}]
      BY <3>2, <3>3
    <3> QED BY <3>4, <2>2 DEF x
  <2> QED BY <2>1, <2>2
<1> HIDE DEF g
<1>2. g = [s \in SUBSET S |-> g[s]]
  BY DEF g
<1>3. Folds(w, S, g)
  BY <1>1, <1>2 DEF Folds
<1> QED BY <1>3

(* How many elements a set of indices has.                                 *)
Size(s) == Sum4([i \in 1..4 |-> 1], s)

(* Every such function gives the sum.                                      *)
LEMMA FoldsIsSum ==
  ASSUME NEW w \in [1..4 -> Int], NEW S \in SUBSET (1..4), NEW iter, Folds(w, S, iter)
  PROVE  iter[S] = Sum4(w, S)
<1> DEFINE Good(n) == \A s \in SUBSET S : Size(s) = n => iter[s] = Sum4(w, s)
<1>1. Good(0)
  <2> SUFFICES ASSUME NEW s \in SUBSET S, Size(s) = 0 PROVE iter[s] = Sum4(w, s)
    OBVIOUS
  <2>1. s = {}
    BY DEF Size, Sum4
  <2> QED BY <2>1 DEF Folds, Sum4
<1>2. ASSUME NEW n \in Nat, Good(n) PROVE Good(n + 1)
  <2> SUFFICES ASSUME NEW s \in SUBSET S, Size(s) = n + 1 PROVE iter[s] = Sum4(w, s)
    OBVIOUS
  <2>1. s # {}
    BY DEF Size, Sum4
  <2> DEFINE x == CHOOSE x \in s : TRUE
  <2>2. x \in s /\ x \in 1..4
    BY <2>1
  <2>3. iter[s] = w[x] + iter[s \ {x}]
    BY <2>1 DEF Folds
  <2> HIDE DEF x
  <2>4. Size(s) = 1 + Size(s \ {x})
    BY <2>2, Removed DEF Size
  <2>5. Size(s \ {x}) \in Int
    BY DEF Size, Sum4
  <2>6. Size(s \ {x}) = n
    BY <2>4, <2>5
  <2>7. iter[s \ {x}] = Sum4(w, s \ {x})
    BY <1>2, <2>6
  <2> QED BY <2>2, <2>3, <2>7, Removed
<1> HIDE DEF Good
<1>3. Good(0) /\ Good(1) /\ Good(2) /\ Good(3) /\ Good(4)
  <2>1. Good(0 + 1)
    BY <1>1, <1>2
  <2>2. Good(0 + 1 + 1)
    BY <2>1, <1>2
  <2>3. Good(0 + 1 + 1 + 1)
    BY <2>2, <1>2
  <2>4. Good(0 + 1 + 1 + 1 + 1)
    BY <2>3, <1>2
  <2> QED BY <1>1, <2>1, <2>2, <2>3, <2>4
<1>4. Size(S) \in 0..4
  BY DEF Size, Sum4
<1> QED BY <1>3, <1>4 DEF Good

-----------------------------------------------------------------------------
(* Vectors and matrices, element by element                                *)

(* Vectors of n numbers, matrices of n columns of m.                       *)
Vectors(n) == [1..n -> Int]
Matrices(n, m) == [1..n -> Vectors(m)]

(* A dot product over the indices S is its products added up.              *)
LEMMA DotProducts ==
  ASSUME NEW S \in SUBSET (1..4), NEW u \in [S -> Int], NEW v, \A i \in S : v[i] \in Int
  PROVE  DotProduct(u, v) = (IF 1 \in S THEN u[1] * v[1] ELSE 0) + (IF 2 \in S THEN u[2] * v[2] ELSE 0)
                            + (IF 3 \in S THEN u[3] * v[3] ELSE 0) + (IF 4 \in S THEN u[4] * v[4] ELSE 0)
<1> DEFINE w == [i \in 1..4 |-> IF i \in S THEN u[i] * v[i] ELSE 0]
           P(iter) == iter = [s \in SUBSET DOMAIN u |->
                                IF s = {} THEN 0
                                ELSE u[CHOOSE x \in s : TRUE] * v[CHOOSE x \in s : TRUE]
                                       + iter[s \ {CHOOSE x \in s : TRUE}]]
<1>1. DotProduct(u, v) = (CHOOSE iter : P(iter))[DOMAIN u]
  BY DEF DotProduct, MapThenSumSet, MapThenFoldSet
<1>2. DOMAIN u = S /\ w \in [1..4 -> Int]
  OBVIOUS
<1>3. ASSUME NEW s \in SUBSET S, s # {}
      PROVE  w[CHOOSE x \in s : TRUE] = u[CHOOSE x \in s : TRUE] * v[CHOOSE x \in s : TRUE]
  <2> DEFINE x == CHOOSE x \in s : TRUE
  <2>1. x \in s
    BY <1>3
  <2> HIDE DEF x
  <2>2. w[x] = u[x] * v[x]
    BY <2>1, <1>2
  <2> QED BY <2>2 DEF x
<1> HIDE DEF w
<1>4. ASSUME NEW iter PROVE P(iter) <=> Folds(w, S, iter)
  <2> DEFINE A(s) == IF s = {} THEN 0
                     ELSE u[CHOOSE x \in s : TRUE] * v[CHOOSE x \in s : TRUE] + iter[s \ {CHOOSE x \in s : TRUE}]
             B(s) == IF s = {} THEN 0 ELSE w[CHOOSE x \in s : TRUE] + iter[s \ {CHOOSE x \in s : TRUE}]
  <2>1. \A s \in SUBSET S : A(s) = B(s)
    BY <1>3
  <2>2. P(iter) <=> iter = [s \in SUBSET S |-> A(s)]
    BY <1>2
  <2>3. Folds(w, S, iter) <=> iter = [s \in SUBSET S |-> B(s)]
    BY DEF Folds
  <2> HIDE DEF A, B, P
  <2>4. [s \in SUBSET S |-> A(s)] = [s \in SUBSET S |-> B(s)]
    BY <2>1
  <2> QED BY <2>2, <2>3, <2>4
<1>5. \E iter : P(iter)
  <2> HIDE DEF P
  <2>1. PICK iter : Folds(w, S, iter)
    BY <1>2, FoldsExist
  <2> QED BY <2>1, <1>4
<1> DEFINE g == CHOOSE iter : P(iter)
<1>6. P(g)
  <2> HIDE DEF P
  <2> QED BY <1>5
<1>7. Folds(w, S, g)
  BY <1>6, <1>4
<1> HIDE DEF g, P
<1>8. g[S] = Sum4(w, S)
  BY <1>7, <1>2, FoldsIsSum
<1>9. DotProduct(u, v) = g[S]
  BY <1>1, <1>2 DEF g
<1> QED BY <1>8, <1>9 DEF Sum4, w

(* The dot product of two vectors of three, ...                            *)
LEMMA Dot3 ==
  ASSUME NEW u \in Vectors(3), NEW v \in Vectors(3)
  PROVE  DotProduct(u, v) = u[1] * v[1] + u[2] * v[2] + u[3] * v[3]
<1>1. 1..3 \in SUBSET (1..4) /\ u \in [1..3 -> Int] /\ \A i \in 1..3 : v[i] \in Int
  BY DEF Vectors
<1>2. DotProduct(u, v) = (IF 1 \in 1..3 THEN u[1] * v[1] ELSE 0) + (IF 2 \in 1..3 THEN u[2] * v[2] ELSE 0)
                         + (IF 3 \in 1..3 THEN u[3] * v[3] ELSE 0) + (IF 4 \in 1..3 THEN u[4] * v[4] ELSE 0)
  BY <1>1, DotProducts
<1> QED BY <1>1, <1>2

(* ... and of four.                                                        *)
LEMMA Dot4 ==
  ASSUME NEW u \in Vectors(4), NEW v \in Vectors(4)
  PROVE  DotProduct(u, v) = u[1] * v[1] + u[2] * v[2] + u[3] * v[3] + u[4] * v[4]
<1>1. 1..4 \in SUBSET (1..4) /\ u \in [1..4 -> Int] /\ \A i \in 1..4 : v[i] \in Int
  BY DEF Vectors
<1>2. DotProduct(u, v) = (IF 1 \in 1..4 THEN u[1] * v[1] ELSE 0) + (IF 2 \in 1..4 THEN u[2] * v[2] ELSE 0)
                         + (IF 3 \in 1..4 THEN u[3] * v[3] ELSE 0) + (IF 4 \in 1..4 THEN u[4] * v[4] ELSE 0)
  BY <1>1, DotProducts
<1> QED BY <1>1, <1>2

(* A matrix of three or four columns applied to a vector.                  *)
LEMMA Apply3 ==
  ASSUME NEW m \in {3, 4}, NEW A \in Matrices(3, m), NEW v \in Vectors(3)
  PROVE  /\ Apply(A, v) \in Vectors(m)
         /\ \A r \in 1..m : Apply(A, v)[r] = A[1][r] * v[1] + A[2][r] * v[2] + A[3][r] * v[3]
<1>1. /\ DOMAIN A[1] = 1..m /\ DOMAIN v = 1..3 /\ v \in [1..3 -> Int]
      /\ \A k \in 1..3, r \in 1..m : A[k][r] \in Int
  <2>1. \A k \in 1..3 : A[k] \in [1..m -> Int]
    BY DEF Matrices, Vectors
  <2>2. DOMAIN A[1] = 1..m
    BY <2>1
  <2>3. ASSUME NEW k \in 1..3, NEW r \in 1..m PROVE A[k][r] \in Int
    <3>1. A[k] \in [1..m -> Int]
      BY <2>1
    <3> QED BY <3>1
  <2> QED BY <2>2, <2>3 DEF Vectors
<1>2. ASSUME NEW r \in 1..m
      PROVE  /\ Apply(A, v)[r] = A[1][r] * v[1] + A[2][r] * v[2] + A[3][r] * v[3]
             /\ Apply(A, v)[r] \in Int
  <2> DEFINE u == [k \in 1..3 |-> A[k][r]]
  <2>1. u \in Vectors(3)
    BY <1>1 DEF Vectors
  <2>2. Apply(A, v)[r] = DotProduct(u, v)
    BY <1>1 DEF Apply
  <2>3. u[1] = A[1][r] /\ u[2] = A[2][r] /\ u[3] = A[3][r]
    OBVIOUS
  <2> HIDE DEF u
  <2>4. Apply(A, v)[r] = A[1][r] * v[1] + A[2][r] * v[2] + A[3][r] * v[3]
    BY <2>1, <2>2, <2>3, Dot3
  <2>5. /\ A[1][r] \in Int /\ A[2][r] \in Int /\ A[3][r] \in Int
        /\ v[1] \in Int /\ v[2] \in Int /\ v[3] \in Int
    BY <1>1
  <2> QED BY <2>4, <2>5
<1>3. Apply(A, v) \in Vectors(m)
  BY <1>1, <1>2 DEF Apply, Vectors
<1> QED BY <1>2, <1>3

(* The same of a matrix of four columns.                                   *)
LEMMA Apply4 ==
  ASSUME NEW A \in Matrices(4, 4), NEW v \in Vectors(4)
  PROVE  /\ Apply(A, v) \in Vectors(4)
         /\ \A r \in 1..4 : Apply(A, v)[r] = A[1][r] * v[1] + A[2][r] * v[2] + A[3][r] * v[3] + A[4][r] * v[4]
<1>1. DOMAIN A[1] = 1..4 /\ DOMAIN v = 1..4 /\ v \in [1..4 -> Int]
      /\ \A k \in 1..4, r \in 1..4 : A[k][r] \in Int
  BY DEF Matrices, Vectors
<1>2. ASSUME NEW r \in 1..4
      PROVE  /\ Apply(A, v)[r] = A[1][r] * v[1] + A[2][r] * v[2] + A[3][r] * v[3] + A[4][r] * v[4]
             /\ Apply(A, v)[r] \in Int
  <2> DEFINE u == [k \in 1..4 |-> A[k][r]]
  <2>1. u \in Vectors(4)
    BY <1>1 DEF Vectors
  <2>2. Apply(A, v)[r] = DotProduct(u, v)
    BY <1>1 DEF Apply
  <2>3. u[1] = A[1][r] /\ u[2] = A[2][r] /\ u[3] = A[3][r] /\ u[4] = A[4][r]
    OBVIOUS
  <2> HIDE DEF u
  <2>4. Apply(A, v)[r] = A[1][r] * v[1] + A[2][r] * v[2] + A[3][r] * v[3] + A[4][r] * v[4]
    BY <2>1, <2>2, <2>3, Dot4
  <2> QED BY <2>4, <1>1
<1>3. Apply(A, v) \in Vectors(4)
  BY <1>1, <1>2 DEF Apply, Vectors
<1> QED BY <1>2, <1>3

(* A product of 3 by 3 matrices.                                           *)
LEMMA Times3 ==
  ASSUME NEW A \in Matrices(3, 3), NEW B \in Matrices(3, 3)
  PROVE  /\ Times(A, B) \in Matrices(3, 3)
         /\ \A c, r \in 1..3 : Times(A, B)[c][r] = A[1][r] * B[c][1] + A[2][r] * B[c][2] + A[3][r] * B[c][3]
<1>1. DOMAIN B = 1..3 /\ \A c \in 1..3 : B[c] \in Vectors(3)
  BY DEF Matrices
<1>2. \A c \in 1..3 : Times(A, B)[c] = Apply(A, B[c])
  BY <1>1 DEF Times
<1>3. \A c \in 1..3 : Apply(A, B[c]) \in Vectors(3)
  BY <1>1, Apply3
<1>4. Times(A, B) \in Matrices(3, 3)
  BY <1>1, <1>3 DEF Times, Matrices
<1>5. \A c, r \in 1..3 : Apply(A, B[c])[r] = A[1][r] * B[c][1] + A[2][r] * B[c][2] + A[3][r] * B[c][3]
  BY <1>1, Apply3
<1> QED BY <1>2, <1>4, <1>5

-----------------------------------------------------------------------------
(* Rotations and corrections in coordinates                                *)

(* The elements of quatToMatrix(), for any products and any one.           *)
LEMMA RotationOf ==
  ASSUME NEW q \in Vectors(4), NEW one \in Int
  PROVE  LET R == QuatToMatrix(Products(q), one)
         IN /\ R \in Matrices(3, 3)
            /\ R[1][1] = one - 2 * (q[2] * q[2]) - 2 * (q[3] * q[3])
            /\ R[1][2] = 2 * (q[1] * q[2]) - 2 * (q[3] * q[4])
            /\ R[1][3] = 2 * (q[1] * q[3]) + 2 * (q[2] * q[4])
            /\ R[2][1] = 2 * (q[1] * q[2]) + 2 * (q[3] * q[4])
            /\ R[2][2] = one - 2 * (q[1] * q[1]) - 2 * (q[3] * q[3])
            /\ R[2][3] = 2 * (q[2] * q[3]) - 2 * (q[1] * q[4])
            /\ R[3][1] = 2 * (q[1] * q[3]) - 2 * (q[2] * q[4])
            /\ R[3][2] = 2 * (q[2] * q[3]) + 2 * (q[1] * q[4])
            /\ R[3][3] = one - 2 * (q[1] * q[1]) - 2 * (q[2] * q[2])
<1> DEFINE R == QuatToMatrix(Products(q), one)
           p(i, j) == 2 * Products(q)[i][j]
<1>1. \A i, j \in 1..4 : p(i, j) = 2 * (q[i] * q[j]) /\ p(i, j) \in Int
  BY DEF Products, Vectors
<1> HIDE DEF p
<1>2. R = << <<one - p(2, 2) - p(3, 3), p(1, 2) - p(3, 4), p(1, 3) + p(2, 4)>>,
             <<p(1, 2) + p(3, 4), one - p(1, 1) - p(3, 3), p(2, 3) - p(1, 4)>>,
             <<p(1, 3) - p(2, 4), p(2, 3) + p(1, 4), one - p(1, 1) - p(2, 2)>> >>
  BY DEF QuatToMatrix, p
<1>3. R \in Matrices(3, 3)
  <2>1. /\ <<one - p(2, 2) - p(3, 3), p(1, 2) - p(3, 4), p(1, 3) + p(2, 4)>> \in [1..3 -> Int]
        /\ <<p(1, 2) + p(3, 4), one - p(1, 1) - p(3, 3), p(2, 3) - p(1, 4)>> \in [1..3 -> Int]
        /\ <<p(1, 3) - p(2, 4), p(2, 3) + p(1, 4), one - p(1, 1) - p(2, 2)>> \in [1..3 -> Int]
    BY <1>1
  <2> QED BY <2>1, <1>2 DEF Matrices, Vectors
<1> HIDE DEF R
<1>4. /\ R[1][1] = one - p(2, 2) - p(3, 3) /\ R[1][2] = p(1, 2) - p(3, 4) /\ R[1][3] = p(1, 3) + p(2, 4)
      /\ R[2][1] = p(1, 2) + p(3, 4) /\ R[2][2] = one - p(1, 1) - p(3, 3) /\ R[2][3] = p(2, 3) - p(1, 4)
      /\ R[3][1] = p(1, 3) - p(2, 4) /\ R[3][2] = p(2, 3) + p(1, 4) /\ R[3][3] = one - p(1, 1) - p(2, 2)
  BY <1>2
<1>5. /\ p(1, 1) = 2 * (q[1] * q[1]) /\ p(2, 2) = 2 * (q[2] * q[2]) /\ p(3, 3) = 2 * (q[3] * q[3])
      /\ p(1, 2) = 2 * (q[1] * q[2]) /\ p(1, 3) = 2 * (q[1] * q[3]) /\ p(1, 4) = 2 * (q[1] * q[4])
      /\ p(2, 3) = 2 * (q[2] * q[3]) /\ p(2, 4) = 2 * (q[2] * q[4]) /\ p(3, 4) = 2 * (q[3] * q[4])
  BY <1>1
<1>6. /\ R[1][1] = one - 2 * (q[2] * q[2]) - 2 * (q[3] * q[3])
      /\ R[1][2] = 2 * (q[1] * q[2]) - 2 * (q[3] * q[4])
      /\ R[1][3] = 2 * (q[1] * q[3]) + 2 * (q[2] * q[4])
      /\ R[2][1] = 2 * (q[1] * q[2]) + 2 * (q[3] * q[4])
      /\ R[2][2] = one - 2 * (q[1] * q[1]) - 2 * (q[3] * q[3])
      /\ R[2][3] = 2 * (q[2] * q[3]) - 2 * (q[1] * q[4])
      /\ R[3][1] = 2 * (q[1] * q[3]) - 2 * (q[2] * q[4])
      /\ R[3][2] = 2 * (q[2] * q[3]) + 2 * (q[1] * q[4])
      /\ R[3][3] = one - 2 * (q[1] * q[1]) - 2 * (q[2] * q[2])
  BY <1>4, <1>5, Zenon
<1> QED BY <1>3, <1>6 DEF R

(* The vector a quaternion turns B to, element by element.                 *)
LEMMA Rotated ==
  ASSUME NEW q \in Vectors(4), NEW one \in Int, NEW v \in Vectors(3)
  PROVE  LET r == Apply(QuatToMatrix(Products(q), one), v)
         IN /\ r \in Vectors(3)
            /\ r[1] = (one - 2 * (q[2] * q[2]) - 2 * (q[3] * q[3])) * v[1]
                        + (2 * (q[1] * q[2]) + 2 * (q[3] * q[4])) * v[2]
                        + (2 * (q[1] * q[3]) - 2 * (q[2] * q[4])) * v[3]
            /\ r[2] = (2 * (q[1] * q[2]) - 2 * (q[3] * q[4])) * v[1]
                        + (one - 2 * (q[1] * q[1]) - 2 * (q[3] * q[3])) * v[2]
                        + (2 * (q[2] * q[3]) + 2 * (q[1] * q[4])) * v[3]
            /\ r[3] = (2 * (q[1] * q[3]) + 2 * (q[2] * q[4])) * v[1]
                        + (2 * (q[2] * q[3]) - 2 * (q[1] * q[4])) * v[2]
                        + (one - 2 * (q[1] * q[1]) - 2 * (q[2] * q[2])) * v[3]
<1> DEFINE R == QuatToMatrix(Products(q), one)
           r == Apply(R, v)
<1>1. R \in Matrices(3, 3)
  BY RotationOf
<1>2. /\ R[1][1] = one - 2 * (q[2] * q[2]) - 2 * (q[3] * q[3])
      /\ R[1][2] = 2 * (q[1] * q[2]) - 2 * (q[3] * q[4])
      /\ R[1][3] = 2 * (q[1] * q[3]) + 2 * (q[2] * q[4])
      /\ R[2][1] = 2 * (q[1] * q[2]) + 2 * (q[3] * q[4])
      /\ R[2][2] = one - 2 * (q[1] * q[1]) - 2 * (q[3] * q[3])
      /\ R[2][3] = 2 * (q[2] * q[3]) - 2 * (q[1] * q[4])
      /\ R[3][1] = 2 * (q[1] * q[3]) - 2 * (q[2] * q[4])
      /\ R[3][2] = 2 * (q[2] * q[3]) + 2 * (q[1] * q[4])
      /\ R[3][3] = one - 2 * (q[1] * q[1]) - 2 * (q[2] * q[2])
  BY RotationOf, Zenon
<1> HIDE DEF R
<1>3. /\ r \in Vectors(3)
      /\ \A k \in 1..3 : r[k] = R[1][k] * v[1] + R[2][k] * v[2] + R[3][k] * v[3]
  BY <1>1, Apply3
<1> HIDE DEF r
<1>4. /\ r[1] = R[1][1] * v[1] + R[2][1] * v[2] + R[3][1] * v[3]
      /\ r[2] = R[1][2] * v[1] + R[2][2] * v[2] + R[3][2] * v[3]
      /\ r[3] = R[1][3] * v[1] + R[2][3] * v[2] + R[3][3] * v[3]
  BY <1>3
<1>5. /\ r[1] = (one - 2 * (q[2] * q[2]) - 2 * (q[3] * q[3])) * v[1]
                  + (2 * (q[1] * q[2]) + 2 * (q[3] * q[4])) * v[2]
                  + (2 * (q[1] * q[3]) - 2 * (q[2] * q[4])) * v[3]
      /\ r[2] = (2 * (q[1] * q[2]) - 2 * (q[3] * q[4])) * v[1]
                  + (one - 2 * (q[1] * q[1]) - 2 * (q[3] * q[3])) * v[2]
                  + (2 * (q[2] * q[3]) + 2 * (q[1] * q[4])) * v[3]
      /\ r[3] = (2 * (q[1] * q[3]) + 2 * (q[2] * q[4])) * v[1]
                  + (2 * (q[2] * q[3]) - 2 * (q[1] * q[4])) * v[2]
                  + (one - 2 * (q[1] * q[1]) - 2 * (q[2] * q[2])) * v[3]
  BY <1>2, <1>4
<1> QED BY <1>3, <1>5, Zenon DEF r, R

(* The square of a quaternion's length.                                    *)
LEMMA LengthOf ==
  ASSUME NEW q \in Vectors(4)
  PROVE  /\ LengthSquared(q) = q[1] * q[1] + q[2] * q[2] + q[3] * q[3] + q[4] * q[4]
         /\ LengthSquared(q) \in Int
<1>1. q[1] \in Int /\ q[2] \in Int /\ q[3] \in Int /\ q[4] \in Int
  BY DEF Vectors
<1>2. LengthSquared(q) = q[1] * q[1] + q[2] * q[2] + q[3] * q[3] + q[4] * q[4]
  BY Dot4 DEF LengthSquared
<1> QED BY <1>1, <1>2

(* The correction of a quaternion, 0.5 and the gain apart.                 *)
LEMMA CorrectionOf ==
  ASSUME NEW q \in Vectors(4), NEW v \in Vectors(3)
  PROVE  LET d == Apply(GetF(q), v)
         IN /\ d \in Vectors(4)
            /\ d[1] = q[4] * v[1] + (-q[3]) * v[2] + q[2] * v[3]
            /\ d[2] = q[3] * v[1] + q[4] * v[2] + (-q[1]) * v[3]
            /\ d[3] = (-q[2]) * v[1] + q[1] * v[2] + q[4] * v[3]
            /\ d[4] = (-q[1]) * v[1] + (-q[2]) * v[2] + (-q[3]) * v[3]
<1> DEFINE F == GetF(q)
           d == Apply(F, v)
<1>1. F \in Matrices(3, 4)
  <2>1. \A a, b, c, e \in Int : <<a, b, c, e>> \in [1..4 -> Int]
    OBVIOUS
  <2>2. q[1] \in Int /\ q[2] \in Int /\ q[3] \in Int /\ q[4] \in Int
    BY DEF Vectors
  <2>3. -q[1] \in Int /\ -q[2] \in Int /\ -q[3] \in Int
    BY <2>2
  <2>4. /\ <<q[4], q[3], -q[2], -q[1]>> \in Vectors(4) /\ <<-q[3], q[4], q[1], -q[2]>> \in Vectors(4)
        /\ <<q[2], -q[1], q[4], -q[3]>> \in Vectors(4)
    BY <2>1, <2>2, <2>3 DEF Vectors
  <2> QED BY <2>4 DEF GetF, Matrices
<1>2. /\ F[1][1] = q[4] /\ F[1][2] = q[3] /\ F[1][3] = -q[2] /\ F[1][4] = -q[1]
      /\ F[2][1] = -q[3] /\ F[2][2] = q[4] /\ F[2][3] = q[1] /\ F[2][4] = -q[2]
      /\ F[3][1] = q[2] /\ F[3][2] = -q[1] /\ F[3][3] = q[4] /\ F[3][4] = -q[3]
  BY DEF GetF
<1> HIDE DEF F
<1>3. d \in Vectors(4) /\ \A r \in 1..4 : d[r] = F[1][r] * v[1] + F[2][r] * v[2] + F[3][r] * v[3]
  BY <1>1, Apply3
<1> HIDE DEF d
<1>4. /\ d[1] = q[4] * v[1] + (-q[3]) * v[2] + q[2] * v[3]
      /\ d[2] = q[3] * v[1] + q[4] * v[2] + (-q[1]) * v[3]
      /\ d[3] = (-q[2]) * v[1] + q[1] * v[2] + q[4] * v[3]
      /\ d[4] = (-q[1]) * v[1] + (-q[2]) * v[2] + (-q[3]) * v[3]
  BY <1>2, <1>3
<1> QED BY <1>3, <1>4 DEF d, F

(* Vectors added and subtracted.                                           *)
LEMMA SumsOf ==
  ASSUME NEW n \in Nat, NEW u \in Vectors(n), NEW v \in Vectors(n)
  PROVE  /\ Plus(u, v) \in Vectors(n) /\ \A i \in 1..n : Plus(u, v)[i] = u[i] + v[i]
         /\ Minus(u, v) \in Vectors(n) /\ \A i \in 1..n : Minus(u, v)[i] = u[i] - v[i]
BY DEF Plus, Minus, Vectors

(* A cross matrix applied to a vector.                                     *)
LEMMA CrossOf ==
  ASSUME NEW g \in Vectors(3), NEW v \in Vectors(3)
  PROVE  LET c == Apply(CrossMatrix(g, 0), v)
         IN /\ c \in Vectors(3)
            /\ c[1] = g[2] * v[3] - g[3] * v[2]
            /\ c[2] = g[3] * v[1] - g[1] * v[3]
            /\ c[3] = g[1] * v[2] - g[2] * v[1]
<1> DEFINE C == CrossMatrix(g, 0)
           c == Apply(C, v)
<1>1. C \in Matrices(3, 3)
  <2>1. \A a, b, e \in Int : <<a, b, e>> \in [1..3 -> Int]
    OBVIOUS
  <2>2. g[1] \in Int /\ g[2] \in Int /\ g[3] \in Int
    BY DEF Vectors
  <2>3. -g[1] \in Int /\ -g[2] \in Int /\ -g[3] \in Int
    BY <2>2
  <2>4. /\ <<0, g[3], -g[2]>> \in Vectors(3) /\ <<-g[3], 0, g[1]>> \in Vectors(3)
        /\ <<g[2], -g[1], 0>> \in Vectors(3)
    BY <2>1, <2>2, <2>3 DEF Vectors
  <2> QED BY <2>4 DEF CrossMatrix, Matrices
<1>2. /\ C[1][1] = 0 /\ C[1][2] = g[3] /\ C[1][3] = -g[2] /\ C[2][1] = -g[3] /\ C[2][2] = 0 /\ C[2][3] = g[1]
      /\ C[3][1] = g[2] /\ C[3][2] = -g[1] /\ C[3][3] = 0
  BY DEF CrossMatrix
<1> HIDE DEF C
<1>3. c \in Vectors(3) /\ \A r \in 1..3 : c[r] = C[1][r] * v[1] + C[2][r] * v[2] + C[3][r] * v[3]
  BY <1>1, Apply3
<1> HIDE DEF c
<1>4. /\ c[1] = 0 * v[1] + (-g[3]) * v[2] + g[2] * v[3]
      /\ c[2] = g[3] * v[1] + 0 * v[2] + (-g[1]) * v[3]
      /\ c[3] = (-g[2]) * v[1] + g[1] * v[2] + 0 * v[3]
  BY <1>2, <1>3
<1>5. \A a, b, e, x, y, z \in Int : /\ 0 * x + (-e) * y + b * z = b * z - e * y
                                    /\ e * x + 0 * y + (-a) * z = e * x - a * z
                                    /\ (-b) * x + a * y + 0 * z = a * y - b * x
  OBVIOUS
<1>6. /\ g[1] \in Int /\ g[2] \in Int /\ g[3] \in Int /\ v[1] \in Int /\ v[2] \in Int /\ v[3] \in Int
  BY DEF Vectors
<1>7. c[1] = g[2] * v[3] - g[3] * v[2] /\ c[2] = g[3] * v[1] - g[1] * v[3] /\ c[3] = g[1] * v[2] - g[2] * v[1]
  BY <1>4, <1>5, <1>6
<1> QED BY <1>3, <1>7 DEF c, C

(* The sensitivity L moves the predicted measurement as the correction of  *)
(* the quaternion does: CorrectsAlongTheError for any attitude, reference  *)
(* direction and correction.                                               *)
THEOREM CorrectionsFollowTheError ==
  ASSUME NEW q \in Vectors(4), NEW B \in Vectors(3), NEW v \in Vectors(3)
  PROVE  LET d == Apply(GetF(q), v)
             one == LengthSquared(q)
             h(p) == Apply(QuatToMatrix(Products(p), one), B)
             L == CrossMatrix(Apply(Attitude(q), B), 0)
         IN Minus(h(Plus(q, d)), h(Minus(q, d))) = Scaled(4, Apply(L, v))
<1> DEFINE d == Apply(GetF(q), v)
           one == LengthSquared(q)
           h(p) == Apply(QuatToMatrix(Products(p), one), B)
           g == Apply(Attitude(q), B)
           c == Apply(CrossMatrix(g, 0), v)
           H1(n, p1, p2, p3, p4, b1, b2, b3) ==
             (n - 2 * (p2 * p2) - 2 * (p3 * p3)) * b1 + (2 * (p1 * p2) + 2 * (p3 * p4)) * b2
               + (2 * (p1 * p3) - 2 * (p2 * p4)) * b3
           H2(n, p1, p2, p3, p4, b1, b2, b3) ==
             (2 * (p1 * p2) - 2 * (p3 * p4)) * b1 + (n - 2 * (p1 * p1) - 2 * (p3 * p3)) * b2
               + (2 * (p2 * p3) + 2 * (p1 * p4)) * b3
           H3(n, p1, p2, p3, p4, b1, b2, b3) ==
             (2 * (p1 * p3) + 2 * (p2 * p4)) * b1 + (2 * (p2 * p3) - 2 * (p1 * p4)) * b2
               + (n - 2 * (p1 * p1) - 2 * (p2 * p2)) * b3
<1>1. one \in Int /\ one = q[1] * q[1] + q[2] * q[2] + q[3] * q[3] + q[4] * q[4]
  BY LengthOf
<1>2. \A p \in Vectors(4) : /\ h(p) \in Vectors(3)
                            /\ h(p)[1] = H1(one, p[1], p[2], p[3], p[4], B[1], B[2], B[3])
                            /\ h(p)[2] = H2(one, p[1], p[2], p[3], p[4], B[1], B[2], B[3])
                            /\ h(p)[3] = H3(one, p[1], p[2], p[3], p[4], B[1], B[2], B[3])
  <2> HIDE DEF one
  <2> QED BY <1>1, Rotated, ZenonT(40)
<1>3. g \in Vectors(3) /\ g = h(q)
  BY <1>2 DEF Attitude
<1>4. d \in Vectors(4)
  BY CorrectionOf
<1>5. /\ d[1] = q[4] * v[1] + (-q[3]) * v[2] + q[2] * v[3] /\ d[2] = q[3] * v[1] + q[4] * v[2] + (-q[1]) * v[3]
      /\ d[3] = (-q[2]) * v[1] + q[1] * v[2] + q[4] * v[3]
      /\ d[4] = (-q[1]) * v[1] + (-q[2]) * v[2] + (-q[3]) * v[3]
  BY CorrectionOf, Zenon
<1>6. /\ Plus(q, d) \in Vectors(4) /\ \A i \in 1..4 : Plus(q, d)[i] = q[i] + d[i]
      /\ Minus(q, d) \in Vectors(4) /\ \A i \in 1..4 : Minus(q, d)[i] = q[i] - d[i]
  BY <1>4, SumsOf
<1>7. /\ c \in Vectors(3) /\ c[1] = g[2] * v[3] - g[3] * v[2] /\ c[2] = g[3] * v[1] - g[1] * v[3]
      /\ c[3] = g[1] * v[2] - g[2] * v[1]
  BY <1>3, CrossOf, Zenon
<1> HIDE DEF d, g, c
<1>8. /\ h(Plus(q, d)) \in Vectors(3) /\ h(Minus(q, d)) \in Vectors(3)
      /\ h(Plus(q, d))[1] = H1(one, q[1] + d[1], q[2] + d[2], q[3] + d[3], q[4] + d[4], B[1], B[2], B[3])
      /\ h(Minus(q, d))[1] = H1(one, q[1] - d[1], q[2] - d[2], q[3] - d[3], q[4] - d[4], B[1], B[2], B[3])
      /\ h(Plus(q, d))[2] = H2(one, q[1] + d[1], q[2] + d[2], q[3] + d[3], q[4] + d[4], B[1], B[2], B[3])
      /\ h(Minus(q, d))[2] = H2(one, q[1] - d[1], q[2] - d[2], q[3] - d[3], q[4] - d[4], B[1], B[2], B[3])
      /\ h(Plus(q, d))[3] = H3(one, q[1] + d[1], q[2] + d[2], q[3] + d[3], q[4] + d[4], B[1], B[2], B[3])
      /\ h(Minus(q, d))[3] = H3(one, q[1] - d[1], q[2] - d[2], q[3] - d[3], q[4] - d[4], B[1], B[2], B[3])
  <2> HIDE DEF H1, H2, H3, h, one
  <2> QED BY <1>2, <1>6
<1>9. /\ g[1] = H1(one, q[1], q[2], q[3], q[4], B[1], B[2], B[3])
      /\ g[2] = H2(one, q[1], q[2], q[3], q[4], B[1], B[2], B[3])
      /\ g[3] = H3(one, q[1], q[2], q[3], q[4], B[1], B[2], B[3])
  <2> HIDE DEF H1, H2, H3, h, one
  <2> QED BY <1>2, <1>3
<1>10. /\ h(Plus(q, d))[1] - h(Minus(q, d))[1] = 4 * (g[2] * v[3] - g[3] * v[2])
       /\ h(Plus(q, d))[2] - h(Minus(q, d))[2] = 4 * (g[3] * v[1] - g[1] * v[3])
       /\ h(Plus(q, d))[3] - h(Minus(q, d))[3] = 4 * (g[1] * v[2] - g[2] * v[1])
  <2> DEFINE q1 == q[1]
             q2 == q[2]
             q3 == q[3]
             q4 == q[4]
             x == v[1]
             y == v[2]
             z == v[3]
             b1 == B[1]
             b2 == B[2]
             b3 == B[3]
             d1 == d[1]
             d2 == d[2]
             d3 == d[3]
             d4 == d[4]
  <2>1. /\ q1 \in Int /\ q2 \in Int /\ q3 \in Int /\ q4 \in Int /\ x \in Int /\ y \in Int /\ z \in Int
        /\ b1 \in Int /\ b2 \in Int /\ b3 \in Int
    BY DEF Vectors
  <2>2. /\ d1 = q4 * x + (-q3) * y + q2 * z /\ d2 = q3 * x + q4 * y + (-q1) * z
        /\ d3 = (-q2) * x + q1 * y + q4 * z /\ d4 = (-q1) * x + (-q2) * y + (-q3) * z
    BY <1>5
  <2>3. one = q1 * q1 + q2 * q2 + q3 * q3 + q4 * q4
    BY <1>1
  <2> DEFINE G1 == H1(one, q1, q2, q3, q4, b1, b2, b3)
             G2 == H2(one, q1, q2, q3, q4, b1, b2, b3)
             G3 == H3(one, q1, q2, q3, q4, b1, b2, b3)
  <2> HIDE DEF q1, q2, q3, q4, x, y, z, b1, b2, b3, d1, d2, d3, d4, one
  <2>4. /\ H1(one, q1 + d1, q2 + d2, q3 + d3, q4 + d4, b1, b2, b3)
             - H1(one, q1 - d1, q2 - d2, q3 - d3, q4 - d4, b1, b2, b3) = 4 * (G2 * z - G3 * y)
        /\ H2(one, q1 + d1, q2 + d2, q3 + d3, q4 + d4, b1, b2, b3)
             - H2(one, q1 - d1, q2 - d2, q3 - d3, q4 - d4, b1, b2, b3) = 4 * (G3 * x - G1 * z)
        /\ H3(one, q1 + d1, q2 + d2, q3 + d3, q4 + d4, b1, b2, b3)
             - H3(one, q1 - d1, q2 - d2, q3 - d3, q4 - d4, b1, b2, b3) = 4 * (G1 * y - G2 * x)
    BY <2>1, <2>2, <2>3
  <2> HIDE DEF H1, H2, H3, h
  <2> QED BY <2>4, <1>8, <1>9, Zenon DEF q1, q2, q3, q4, x, y, z, b1, b2, b3, d1, d2, d3, d4
<1> HIDE DEF h
<1>11. \A i \in 1..3 : h(Plus(q, d))[i] - h(Minus(q, d))[i] = 4 * c[i]
  BY <1>7, <1>10
<1>12. Minus(h(Plus(q, d)), h(Minus(q, d))) = [i \in 1..3 |-> 4 * c[i]]
  BY <1>8, <1>11 DEF Minus, Vectors
<1>13. Scaled(4, c) = [i \in 1..3 |-> 4 * c[i]]
  BY <1>7 DEF Scaled, Vectors
<1> QED BY <1>12, <1>13 DEF h, c, g, d, one

-----------------------------------------------------------------------------
(* predict()                                                               *)

(* Isqrt() finds the root of a square.                                     *)
LEMMA RootOf ==
  ASSUME NEW n \in Nat, NEW r \in Nat, r * r = n
  PROVE  Isqrt(n) = r
<1>1. r \in 0..n
  BY r * r >= r
<1>2. \A k \in 0..n : k * k = n => k = r
  <2> SUFFICES ASSUME NEW k \in 0..n, k * k = r * r PROVE k = r
    OBVIOUS
  <2>1. k \in Nat /\ (k - r) * (k + r) = 0
    OBVIOUS
  <2>2. k - r = 0 \/ k + r = 0
    BY <2>1
  <2> QED BY <2>1, <2>2
<1> QED BY <1>1, <1>2 DEF Isqrt

(* A fourth element for a vector of three.                                 *)
LEMMA Appended ==
  ASSUME NEW s \in Vectors(3), NEW e \in Int
  PROVE  /\ s \o <<e>> \in Vectors(4)
         /\ (s \o <<e>>)[1] = s[1] /\ (s \o <<e>>)[2] = s[2] /\ (s \o <<e>>)[3] = s[3] /\ (s \o <<e>>)[4] = e
<1>1. s \in Seq(Int) /\ Len(s) = 3
  <2>1. s = <<s[1], s[2], s[3]>> /\ s[1] \in Int /\ s[2] \in Int /\ s[3] \in Int
    BY DEF Vectors
  <2>2. \A a, b, c \in Int : <<a, b, c>> \in Seq(Int) /\ Len(<<a, b, c>>) = 3
    OBVIOUS
  <2>3. <<s[1], s[2], s[3]>> \in Seq(Int) /\ Len(<<s[1], s[2], s[3]>>) = 3
    BY <2>1, <2>2
  <2> QED BY <2>1, <2>3, Zenon
<1> DEFINE u == <<e>>
<1>2. u \in Seq(Int) /\ Len(u) = 1 /\ u[1] = e
  OBVIOUS
<1> HIDE DEF u
<1>6. /\ s \o u \in Seq(Int)
      /\ Len(s \o u) = Len(s) + Len(u)
      /\ \A i \in 1 .. Len(s) + Len(u) : (s \o u)[i] = IF i <= Len(s) THEN s[i] ELSE u[i - Len(s)]
  <2>1. s \in Seq(Int) /\ u \in Seq(Int)
    BY <1>1, <1>2
  <2> QED BY <2>1, ConcatProperties, Zenon
<1> DEFINE t == s \o u
<1> HIDE DEF t
<1>3. /\ t \in Seq(Int) /\ Len(t) = 4
      /\ \A i \in 1..4 : t[i] = IF i <= 3 THEN s[i] ELSE u[i - 3]
  <2>1. Len(s) = 3 /\ Len(u) = 1 /\ t \in Seq(Int) /\ Len(t) = Len(s) + Len(u)
    BY <1>1, <1>2, <1>6, Zenon DEF t
  <2>2. \A i \in 1 .. Len(s) + Len(u) : t[i] = IF i <= Len(s) THEN s[i] ELSE u[i - Len(s)]
    BY <1>6, Zenon DEF t
  <2>3. Len(s) + Len(u) = 4
    BY <2>1
  <2> QED BY <2>1, <2>2, <2>3, Zenon
<1>4. t \in [1..4 -> Int]
  BY <1>3, LenProperties
<1>5. t[1] = s[1] /\ t[2] = s[2] /\ t[3] = s[3] /\ t[4] = e
  BY <1>2, <1>3
<1> QED BY <1>4, <1>5 DEF t, u, Vectors

(* predict() applies its matrix O to the quaternion.                       *)
LEMMA Transformed ==
  ASSUME NEW q \in Vectors(4), NEW psi \in Vectors(3), NEW k2 \in Int
  PROVE  LET O33 == CrossMatrix(Negated(psi), k2)
             p == Apply(<< O33[1] \o <<-psi[1]>>, O33[2] \o <<-psi[2]>>, O33[3] \o <<-psi[3]>>, psi \o <<k2>> >>, q)
         IN /\ p \in Vectors(4)
            /\ p[1] = k2 * q[1] + psi[3] * q[2] + (-psi[2]) * q[3] + psi[1] * q[4]
            /\ p[2] = (-psi[3]) * q[1] + k2 * q[2] + psi[1] * q[3] + psi[2] * q[4]
            /\ p[3] = psi[2] * q[1] + (-psi[1]) * q[2] + k2 * q[3] + psi[3] * q[4]
            /\ p[4] = (-psi[1]) * q[1] + (-psi[2]) * q[2] + (-psi[3]) * q[3] + k2 * q[4]
<1> DEFINE O33 == CrossMatrix(Negated(psi), k2)
           O == << O33[1] \o <<-psi[1]>>, O33[2] \o <<-psi[2]>>, O33[3] \o <<-psi[3]>>, psi \o <<k2>> >>
           p == Apply(O, q)
<1>1. psi[1] \in Int /\ psi[2] \in Int /\ psi[3] \in Int /\ psi = <<psi[1], psi[2], psi[3]>>
  BY DEF Vectors
<1>2. -psi[1] \in Int /\ -psi[2] \in Int /\ -psi[3] \in Int
  BY <1>1
<1>3. Negated(psi)[1] = -psi[1] /\ Negated(psi)[2] = -psi[2] /\ Negated(psi)[3] = -psi[3]
  BY DEF Negated, Vectors
<1>4. -(-psi[1]) = psi[1] /\ -(-psi[2]) = psi[2] /\ -(-psi[3]) = psi[3]
  BY <1>1
<1>5. O33 = << <<k2, -psi[3], psi[2]>>, <<psi[3], k2, -psi[1]>>, <<-psi[2], psi[1], k2>> >>
  BY <1>3, <1>4 DEF CrossMatrix
<1>6. O33[1] \in Vectors(3) /\ O33[2] \in Vectors(3) /\ O33[3] \in Vectors(3)
  <2>1. \A a, b, c \in Int : <<a, b, c>> \in [1..3 -> Int]
    OBVIOUS
  <2> QED BY <2>1, <1>1, <1>2, <1>5 DEF Vectors
<1>7. /\ O33[1][1] = k2 /\ O33[1][2] = -psi[3] /\ O33[1][3] = psi[2]
      /\ O33[2][1] = psi[3] /\ O33[2][2] = k2 /\ O33[2][3] = -psi[1]
      /\ O33[3][1] = -psi[2] /\ O33[3][2] = psi[1] /\ O33[3][3] = k2
  BY <1>5
<1> HIDE DEF O33
<1> DEFINE o1 == O33[1] \o <<-psi[1]>>
           o2 == O33[2] \o <<-psi[2]>>
           o3 == O33[3] \o <<-psi[3]>>
           o4 == psi \o <<k2>>
<1>8. /\ o1 \in Vectors(4) /\ o1[1] = k2 /\ o1[2] = -psi[3] /\ o1[3] = psi[2] /\ o1[4] = -psi[1]
      /\ o2 \in Vectors(4) /\ o2[1] = psi[3] /\ o2[2] = k2 /\ o2[3] = -psi[1] /\ o2[4] = -psi[2]
      /\ o3 \in Vectors(4) /\ o3[1] = -psi[2] /\ o3[2] = psi[1] /\ o3[3] = k2 /\ o3[4] = -psi[3]
      /\ o4 \in Vectors(4) /\ o4[1] = psi[1] /\ o4[2] = psi[2] /\ o4[3] = psi[3] /\ o4[4] = k2
  <2>1. o1 \in Vectors(4) /\ o1[1] = k2 /\ o1[2] = -psi[3] /\ o1[3] = psi[2] /\ o1[4] = -psi[1]
    BY <1>2, <1>6, <1>7, Appended
  <2>2. o2 \in Vectors(4) /\ o2[1] = psi[3] /\ o2[2] = k2 /\ o2[3] = -psi[1] /\ o2[4] = -psi[2]
    BY <1>2, <1>6, <1>7, Appended
  <2>3. o3 \in Vectors(4) /\ o3[1] = -psi[2] /\ o3[2] = psi[1] /\ o3[3] = k2 /\ o3[4] = -psi[3]
    BY <1>2, <1>6, <1>7, Appended
  <2>4. o4 \in Vectors(4) /\ o4[1] = psi[1] /\ o4[2] = psi[2] /\ o4[3] = psi[3] /\ o4[4] = k2
    BY Appended
  <2> QED BY <2>1, <2>2, <2>3, <2>4
<1>9. O = <<o1, o2, o3, o4>>
  OBVIOUS
<1> HIDE DEF o1, o2, o3, o4, O
<1>12. O \in Matrices(4, 4)
  BY <1>8, <1>9 DEF Matrices
<1>13. O[1] = o1 /\ O[2] = o2 /\ O[3] = o3 /\ O[4] = o4
  BY <1>9
<1>10. /\ p \in Vectors(4)
       /\ \A r \in 1..4 : p[r] = O[1][r] * q[1] + O[2][r] * q[2] + O[3][r] * q[3] + O[4][r] * q[4]
  BY <1>12, Apply4
<1> HIDE DEF p
<1>11. /\ p[1] = k2 * q[1] + psi[3] * q[2] + (-psi[2]) * q[3] + psi[1] * q[4]
       /\ p[2] = (-psi[3]) * q[1] + k2 * q[2] + psi[1] * q[3] + psi[2] * q[4]
       /\ p[3] = psi[2] * q[1] + (-psi[1]) * q[2] + k2 * q[3] + psi[3] * q[4]
       /\ p[4] = (-psi[1]) * q[1] + (-psi[2]) * q[2] + (-psi[3]) * q[3] + k2 * q[4]
  BY <1>8, <1>10, <1>13
<1> QED BY <1>10, <1>11 DEF p, O, O33

(* A quaternion and its negative are the same attitude.                    *)
LEMMA SameAttitude ==
  ASSUME NEW p \in Vectors(4)
  PROVE  Negated(p) \in Vectors(4) /\ Attitude(Negated(p)) = Attitude(p)
<1>1. Negated(p) \in Vectors(4) /\ \A i \in 1..4 : Negated(p)[i] = -p[i]
  BY DEF Negated, Vectors
<1>2. \A x, y \in Int : (-x) * (-y) = x * y
  OBVIOUS
<1>3. \A i, j \in 1..4 : Negated(p)[i] * Negated(p)[j] = p[i] * p[j]
  BY <1>1, <1>2 DEF Vectors
<1>4. LengthSquared(Negated(p)) = LengthSquared(p)
  BY <1>1, <1>3, LengthOf
<1>5. Products(Negated(p)) = Products(p)
  BY <1>3 DEF Products
<1> QED BY <1>1, <1>4, <1>5 DEF Attitude

(* The elements of a quaternion's matrix.                                  *)
LEMMA AttitudeOf ==
  ASSUME NEW q \in Vectors(4)
  PROVE  LET R == Attitude(q)
             one == q[1] * q[1] + q[2] * q[2] + q[3] * q[3] + q[4] * q[4]
         IN /\ R \in Matrices(3, 3)
            /\ R[1][1] = one - 2 * (q[2] * q[2]) - 2 * (q[3] * q[3])
            /\ R[1][2] = 2 * (q[1] * q[2]) - 2 * (q[3] * q[4])
            /\ R[1][3] = 2 * (q[1] * q[3]) + 2 * (q[2] * q[4])
            /\ R[2][1] = 2 * (q[1] * q[2]) + 2 * (q[3] * q[4])
            /\ R[2][2] = one - 2 * (q[1] * q[1]) - 2 * (q[3] * q[3])
            /\ R[2][3] = 2 * (q[2] * q[3]) - 2 * (q[1] * q[4])
            /\ R[3][1] = 2 * (q[1] * q[3]) - 2 * (q[2] * q[4])
            /\ R[3][2] = 2 * (q[2] * q[3]) + 2 * (q[1] * q[4])
            /\ R[3][3] = one - 2 * (q[1] * q[1]) - 2 * (q[2] * q[2])
<1>1. LengthSquared(q) = q[1] * q[1] + q[2] * q[2] + q[3] * q[3] + q[4] * q[4] /\ LengthSquared(q) \in Int
  BY LengthOf
<1> QED BY <1>1, RotationOf, ZenonT(30) DEF Attitude

(* Two matrices are the same if their columns are.                         *)
LEMMA SameMatrix ==
  ASSUME NEW A \in Matrices(3, 3), NEW B \in Matrices(3, 3), \A c, r \in 1..3 : A[c][r] = B[c][r]
  PROVE  A = B
<1>1. \A c \in 1..3 : A[c] \in [1..3 -> Int] /\ B[c] \in [1..3 -> Int]
  BY DEF Matrices, Vectors
<1>2. \A c \in 1..3 : A[c] = B[c]
  <2> SUFFICES ASSUME NEW c \in 1..3 PROVE A[c] = B[c]
    OBVIOUS
  <2> DEFINE a == A[c]
             b == B[c]
  <2>1. a \in [1..3 -> Int] /\ b \in [1..3 -> Int] /\ \A r \in 1..3 : a[r] = b[r]
    BY <1>1
  <2> HIDE DEF a, b
  <2>2. a = b
    BY <2>1
  <2> QED BY <2>2 DEF a, b
<1> QED BY <1>2 DEF Matrices

(* The elements of a cross matrix without a diagonal.                      *)
LEMMA CrossMatrixOf ==
  ASSUME NEW a \in Vectors(3)
  PROVE  LET wx == CrossMatrix(a, 0)
         IN /\ wx \in Matrices(3, 3)
            /\ wx[1][1] = 0 /\ wx[1][2] = a[3] /\ wx[1][3] = -a[2]
            /\ wx[2][1] = -a[3] /\ wx[2][2] = 0 /\ wx[2][3] = a[1]
            /\ wx[3][1] = a[2] /\ wx[3][2] = -a[1] /\ wx[3][3] = 0
<1>1. \A x, y, z \in Int : <<x, y, z>> \in [1..3 -> Int]
  OBVIOUS
<1>2. a[1] \in Int /\ a[2] \in Int /\ a[3] \in Int
  BY DEF Vectors
<1>3. -a[1] \in Int /\ -a[2] \in Int /\ -a[3] \in Int
  BY <1>2
<1>4. /\ <<0, a[3], -a[2]>> \in Vectors(3) /\ <<-a[3], 0, a[1]>> \in Vectors(3) /\ <<a[2], -a[1], 0>> \in Vectors(3)
  BY <1>1, <1>2, <1>3 DEF Vectors
<1> QED BY <1>4 DEF CrossMatrix, Matrices

(* The elements of predict()'s Phi00.                                      *)
LEMMA Phi00Of ==
  ASSUME NEW a \in Vectors(3), NEW cos \in Int, NEW sin \in Int, NEW len \in Nat,
         len * len = a[1] * a[1] + a[2] * a[2] + a[3] * a[3]
  PROVE  LET Phi == PredictPhi00(a, cos, sin)
             d == (cos * cos + sin * sin) * (len * len)
             k1 == -2 * sin * cos * len
             k0 == 2 * sin * sin
         IN /\ Phi \in Matrices(3, 3)
            /\ Phi[1][1] = d + k0 * (0 - a[2] * a[2] - a[3] * a[3])
            /\ Phi[1][2] = k1 * a[3] + k0 * (a[1] * a[2])
            /\ Phi[1][3] = k0 * (a[1] * a[3]) - k1 * a[2]
            /\ Phi[2][1] = k0 * (a[1] * a[2]) - k1 * a[3]
            /\ Phi[2][2] = d + k0 * (0 - a[1] * a[1] - a[3] * a[3])
            /\ Phi[2][3] = k1 * a[1] + k0 * (a[2] * a[3])
            /\ Phi[3][1] = k1 * a[2] + k0 * (a[1] * a[3])
            /\ Phi[3][2] = k0 * (a[2] * a[3]) - k1 * a[1]
            /\ Phi[3][3] = d + k0 * (0 - a[1] * a[1] - a[2] * a[2])
<1> DEFINE wx == CrossMatrix(a, 0)
           w2 == Times(wx, wx)
           d == (cos * cos + sin * sin) * (len * len)
           k1 == -2 * sin * cos * len
           k0 == 2 * sin * sin
<1>1. a[1] \in Int /\ a[2] \in Int /\ a[3] \in Int
  BY DEF Vectors
<1>2. /\ wx \in Matrices(3, 3)
      /\ wx[1][1] = 0 /\ wx[1][2] = a[3] /\ wx[1][3] = -a[2]
      /\ wx[2][1] = -a[3] /\ wx[2][2] = 0 /\ wx[2][3] = a[1]
      /\ wx[3][1] = a[2] /\ wx[3][2] = -a[1] /\ wx[3][3] = 0
  BY CrossMatrixOf, Zenon
<1> HIDE DEF wx
<1>3. /\ w2 \in Matrices(3, 3)
      /\ \A c, r \in 1..3 : w2[c][r] = wx[1][r] * wx[c][1] + wx[2][r] * wx[c][2] + wx[3][r] * wx[c][3]
  BY <1>2, Times3
<1> HIDE DEF w2
<1>4. LengthSquared(a) = len * len
  BY Dot3 DEF LengthSquared
<1>5. Length(a) = len
  <2>1. len * len \in Nat
    OBVIOUS
  <2> QED BY <2>1, <1>4, RootOf DEF Length
<1>6. d \in Int /\ k1 \in Int /\ k0 \in Int
  OBVIOUS
<1>7. PredictPhi00(a, cos, sin) = MatrixPlus(Diagonal(d), MatrixPlus(MatrixScaled(k1, wx), MatrixScaled(k0, w2)))
  BY <1>4, <1>5 DEF PredictPhi00, w2, wx
<1> HIDE DEF d, k1, k0
<1> DEFINE Phi == MatrixPlus(Diagonal(d), MatrixPlus(MatrixScaled(k1, wx), MatrixScaled(k0, w2)))
<1>8. /\ Phi \in Matrices(3, 3)
      /\ \A c, r \in 1..3 : Phi[c][r] = (IF c = r THEN d ELSE 0) + (k1 * wx[c][r] + k0 * w2[c][r])
  <2>1. \A c, r \in 1..3 : wx[c][r] \in Int /\ w2[c][r] \in Int
    <3>1. \A c \in 1..3 : wx[c] \in [1..3 -> Int] /\ w2[c] \in [1..3 -> Int]
      BY <1>2, <1>3 DEF Matrices, Vectors
    <3> QED BY <3>1
  <2>2. \A c \in 1..3 : DOMAIN wx[c] = 1..3 /\ DOMAIN w2[c] = 1..3
    BY <1>2, <1>3 DEF Matrices, Vectors
  <2>3. DOMAIN wx = 1..3 /\ DOMAIN w2 = 1..3
    BY <1>2, <1>3 DEF Matrices
  <2> DEFINE S == MatrixPlus(MatrixScaled(k1, wx), MatrixScaled(k0, w2))
  <2>4. S = [c \in 1..3 |-> [r \in 1..3 |-> k1 * wx[c][r] + k0 * w2[c][r]]]
    BY <2>2, <2>3 DEF MatrixPlus, MatrixScaled, Plus, Scaled
  <2> HIDE DEF S
  <2>5. Phi = [c \in 1..3 |-> [r \in 1..3 |-> (IF c = r THEN d ELSE 0) + (k1 * wx[c][r] + k0 * w2[c][r])]]
    BY <2>4 DEF MatrixPlus, Plus, Diagonal, S
  <2>6. \A c, r \in 1..3 : (IF c = r THEN d ELSE 0) + (k1 * wx[c][r] + k0 * w2[c][r]) \in Int
    BY <1>6, <2>1
  <2> HIDE DEF Phi
  <2> QED BY <2>5, <2>6 DEF Matrices, Vectors
<1>9. /\ w2[1][1] = 0 - a[2] * a[2] - a[3] * a[3] /\ w2[1][2] = a[1] * a[2] /\ w2[1][3] = a[1] * a[3]
      /\ w2[2][1] = a[1] * a[2] /\ w2[2][2] = 0 - a[1] * a[1] - a[3] * a[3] /\ w2[2][3] = a[2] * a[3]
      /\ w2[3][1] = a[1] * a[3] /\ w2[3][2] = a[2] * a[3] /\ w2[3][3] = 0 - a[1] * a[1] - a[2] * a[2]
  <2> DEFINE x == a[1]
             y == a[2]
             z == a[3]
  <2>1. x \in Int /\ y \in Int /\ z \in Int
    BY <1>1
  <2>2. /\ w2[1][1] = 0 * 0 + (-z) * z + y * (-y) /\ w2[1][2] = z * 0 + 0 * z + (-x) * (-y)
        /\ w2[1][3] = (-y) * 0 + x * z + 0 * (-y)
        /\ w2[2][1] = 0 * (-z) + (-z) * 0 + y * x /\ w2[2][2] = z * (-z) + 0 * 0 + (-x) * x
        /\ w2[2][3] = (-y) * (-z) + x * 0 + 0 * x
        /\ w2[3][1] = 0 * y + (-z) * (-x) + y * 0 /\ w2[3][2] = z * y + 0 * (-x) + (-x) * 0
        /\ w2[3][3] = (-y) * y + x * (-x) + 0 * 0
    BY <1>2, <1>3
  <2> HIDE DEF x, y, z
  <2>3. /\ 0 * 0 + (-z) * z + y * (-y) = 0 - y * y - z * z /\ z * 0 + 0 * z + (-x) * (-y) = x * y
        /\ (-y) * 0 + x * z + 0 * (-y) = x * z
        /\ 0 * (-z) + (-z) * 0 + y * x = x * y /\ z * (-z) + 0 * 0 + (-x) * x = 0 - x * x - z * z
        /\ (-y) * (-z) + x * 0 + 0 * x = y * z
        /\ 0 * y + (-z) * (-x) + y * 0 = x * z /\ z * y + 0 * (-x) + (-x) * 0 = y * z
        /\ (-y) * y + x * (-x) + 0 * 0 = 0 - x * x - y * y
    BY <2>1
  <2> QED BY <2>2, <2>3 DEF x, y, z
<1> HIDE DEF Phi
<1>10. /\ Phi[1][1] = d + (k1 * 0 + k0 * (0 - a[2] * a[2] - a[3] * a[3]))
       /\ Phi[1][2] = 0 + (k1 * a[3] + k0 * (a[1] * a[2]))
       /\ Phi[1][3] = 0 + (k1 * (-a[2]) + k0 * (a[1] * a[3]))
       /\ Phi[2][1] = 0 + (k1 * (-a[3]) + k0 * (a[1] * a[2]))
       /\ Phi[2][2] = d + (k1 * 0 + k0 * (0 - a[1] * a[1] - a[3] * a[3]))
       /\ Phi[2][3] = 0 + (k1 * a[1] + k0 * (a[2] * a[3]))
       /\ Phi[3][1] = 0 + (k1 * a[2] + k0 * (a[1] * a[3]))
       /\ Phi[3][2] = 0 + (k1 * (-a[1]) + k0 * (a[2] * a[3]))
       /\ Phi[3][3] = d + (k1 * 0 + k0 * (0 - a[1] * a[1] - a[2] * a[2]))
  BY <1>2, <1>8, <1>9
<1>11. /\ Phi[1][1] = d + k0 * (0 - a[2] * a[2] - a[3] * a[3])
       /\ Phi[1][2] = k1 * a[3] + k0 * (a[1] * a[2])
       /\ Phi[1][3] = k0 * (a[1] * a[3]) - k1 * a[2]
       /\ Phi[2][1] = k0 * (a[1] * a[2]) - k1 * a[3]
       /\ Phi[2][2] = d + k0 * (0 - a[1] * a[1] - a[3] * a[3])
       /\ Phi[2][3] = k1 * a[1] + k0 * (a[2] * a[3])
       /\ Phi[3][1] = k1 * a[2] + k0 * (a[1] * a[3])
       /\ Phi[3][2] = k0 * (a[2] * a[3]) - k1 * a[1]
       /\ Phi[3][3] = d + k0 * (0 - a[1] * a[1] - a[2] * a[2])
  <2> DEFINE x == a[1]
             y == a[2]
             z == a[3]
  <2>1. x \in Int /\ y \in Int /\ z \in Int
    BY <1>1
  <2> HIDE DEF x, y, z
  <2>2. /\ d + (k1 * 0 + k0 * (0 - y * y - z * z)) = d + k0 * (0 - y * y - z * z)
        /\ 0 + (k1 * z + k0 * (x * y)) = k1 * z + k0 * (x * y)
        /\ 0 + (k1 * (-y) + k0 * (x * z)) = k0 * (x * z) - k1 * y
        /\ 0 + (k1 * (-z) + k0 * (x * y)) = k0 * (x * y) - k1 * z
        /\ d + (k1 * 0 + k0 * (0 - x * x - z * z)) = d + k0 * (0 - x * x - z * z)
        /\ 0 + (k1 * x + k0 * (y * z)) = k1 * x + k0 * (y * z)
        /\ 0 + (k1 * y + k0 * (x * z)) = k1 * y + k0 * (x * z)
        /\ 0 + (k1 * (-x) + k0 * (y * z)) = k0 * (y * z) - k1 * x
        /\ d + (k1 * 0 + k0 * (0 - x * x - y * y)) = d + k0 * (0 - x * x - y * y)
    BY <2>1, <1>6
  <2> QED BY <2>2, <1>10 DEF x, y, z
<1>12. PredictPhi00(a, cos, sin) = Phi
  BY <1>7 DEF Phi
<1> QED BY <1>8, <1>11, <1>12, Zenon DEF d, k0, k1

(* predict(): quaternion and covariance are turned by one rotation:        *)
(* PredictsAlike for any quaternion, any axis of integer length and any    *)
(* angle.                                                                  *)
THEOREM PredictionsTurnAlike ==
  ASSUME NEW q \in Vectors(4), NEW a \in Vectors(3), NEW cos \in Int, NEW sin \in Int, NEW len \in Nat,
         len * len = LengthSquared(a)
  PROVE  Attitude(Predict(q, a, cos, sin)) = Times(PredictPhi00(a, cos, sin), Attitude(q))
<1> DEFINE psi == Scaled(sin, a)
           k2 == cos * len
           p == Apply(PredictO(a, cos, sin), q)
           Phi == PredictPhi00(a, cos, sin)
           R == Attitude(q)
           T == Times(Phi, R)
           d == (cos * cos + sin * sin) * (len * len)
           k1 == -2 * sin * cos * len
           k0 == 2 * sin * sin
<1>1. /\ q[1] \in Int /\ q[2] \in Int /\ q[3] \in Int /\ q[4] \in Int /\ a[1] \in Int /\ a[2] \in Int /\ a[3] \in Int
      /\ k2 \in Int
  BY DEF Vectors
<1>2. len * len = a[1] * a[1] + a[2] * a[2] + a[3] * a[3]
  BY Dot3 DEF LengthSquared
<1>3. Length(a) = len
  <2>1. len * len \in Nat
    OBVIOUS
  <2> QED BY <2>1, RootOf DEF Length
<1>4. psi \in Vectors(3) /\ psi[1] = sin * a[1] /\ psi[2] = sin * a[2] /\ psi[3] = sin * a[3]
  BY DEF Scaled, Vectors
<1>5. /\ p \in Vectors(4)
      /\ p[1] = k2 * q[1] + psi[3] * q[2] + (-psi[2]) * q[3] + psi[1] * q[4]
      /\ p[2] = (-psi[3]) * q[1] + k2 * q[2] + psi[1] * q[3] + psi[2] * q[4]
      /\ p[3] = psi[2] * q[1] + (-psi[1]) * q[2] + k2 * q[3] + psi[3] * q[4]
      /\ p[4] = (-psi[1]) * q[1] + (-psi[2]) * q[2] + (-psi[3]) * q[3] + k2 * q[4]
  <2> HIDE DEF psi, k2
  <2> QED BY <1>1, <1>3, <1>4, Transformed, ZenonT(40) DEF PredictO, psi, k2
<1>6. Attitude(Predict(q, a, cos, sin)) = Attitude(p)
  BY <1>5, SameAttitude DEF Predict
<1> HIDE DEF p
<1> DEFINE P == Attitude(p)
           one == p[1] * p[1] + p[2] * p[2] + p[3] * p[3] + p[4] * p[4]
           n == q[1] * q[1] + q[2] * q[2] + q[3] * q[3] + q[4] * q[4]
<1>7. /\ P \in Matrices(3, 3)
      /\ P[1][1] = one - 2 * (p[2] * p[2]) - 2 * (p[3] * p[3])
      /\ P[1][2] = 2 * (p[1] * p[2]) - 2 * (p[3] * p[4])
      /\ P[1][3] = 2 * (p[1] * p[3]) + 2 * (p[2] * p[4])
      /\ P[2][1] = 2 * (p[1] * p[2]) + 2 * (p[3] * p[4])
      /\ P[2][2] = one - 2 * (p[1] * p[1]) - 2 * (p[3] * p[3])
      /\ P[2][3] = 2 * (p[2] * p[3]) - 2 * (p[1] * p[4])
      /\ P[3][1] = 2 * (p[1] * p[3]) - 2 * (p[2] * p[4])
      /\ P[3][2] = 2 * (p[2] * p[3]) + 2 * (p[1] * p[4])
      /\ P[3][3] = one - 2 * (p[1] * p[1]) - 2 * (p[2] * p[2])
  BY <1>5, AttitudeOf, Zenon
<1>8. /\ R \in Matrices(3, 3)
      /\ R[1][1] = n - 2 * (q[2] * q[2]) - 2 * (q[3] * q[3])
      /\ R[1][2] = 2 * (q[1] * q[2]) - 2 * (q[3] * q[4])
      /\ R[1][3] = 2 * (q[1] * q[3]) + 2 * (q[2] * q[4])
      /\ R[2][1] = 2 * (q[1] * q[2]) + 2 * (q[3] * q[4])
      /\ R[2][2] = n - 2 * (q[1] * q[1]) - 2 * (q[3] * q[3])
      /\ R[2][3] = 2 * (q[2] * q[3]) - 2 * (q[1] * q[4])
      /\ R[3][1] = 2 * (q[1] * q[3]) - 2 * (q[2] * q[4])
      /\ R[3][2] = 2 * (q[2] * q[3]) + 2 * (q[1] * q[4])
      /\ R[3][3] = n - 2 * (q[1] * q[1]) - 2 * (q[2] * q[2])
  BY AttitudeOf, Zenon
<1>9. /\ Phi \in Matrices(3, 3)
      /\ Phi[1][1] = d + k0 * (0 - a[2] * a[2] - a[3] * a[3])
      /\ Phi[1][2] = k1 * a[3] + k0 * (a[1] * a[2])
      /\ Phi[1][3] = k0 * (a[1] * a[3]) - k1 * a[2]
      /\ Phi[2][1] = k0 * (a[1] * a[2]) - k1 * a[3]
      /\ Phi[2][2] = d + k0 * (0 - a[1] * a[1] - a[3] * a[3])
      /\ Phi[2][3] = k1 * a[1] + k0 * (a[2] * a[3])
      /\ Phi[3][1] = k1 * a[2] + k0 * (a[1] * a[3])
      /\ Phi[3][2] = k0 * (a[2] * a[3]) - k1 * a[1]
      /\ Phi[3][3] = d + k0 * (0 - a[1] * a[1] - a[2] * a[2])
  BY <1>2, Phi00Of, Zenon
<1> HIDE DEF P, R, Phi
<1>10. /\ T \in Matrices(3, 3)
       /\ \A c, r \in 1..3 : T[c][r] = Phi[1][r] * R[c][1] + Phi[2][r] * R[c][2] + Phi[3][r] * R[c][3]
  BY <1>8, <1>9, Times3
<1> HIDE DEF T
<1>11. \A c, r \in 1..3 : P[c][r] = T[c][r]
  <2> DEFINE q1 == q[1]
             q2 == q[2]
             q3 == q[3]
             q4 == q[4]
             x == a[1]
             y == a[2]
             z == a[3]
             p1 == p[1]
             p2 == p[2]
             p3 == p[3]
             p4 == p[4]
             k == cos * len
             e == p1 * p1 + p2 * p2 + p3 * p3 + p4 * p4
             m == q1 * q1 + q2 * q2 + q3 * q3 + q4 * q4
  <2>1. /\ q1 \in Int /\ q2 \in Int /\ q3 \in Int /\ q4 \in Int /\ x \in Int /\ y \in Int /\ z \in Int /\ k \in Int
    BY <1>1
  <2>2. /\ p1 = k * q1 + sin * z * q2 - sin * y * q3 + sin * x * q4
        /\ p2 = -(sin * z * q1) + k * q2 + sin * x * q3 + sin * y * q4
        /\ p3 = sin * y * q1 - sin * x * q2 + k * q3 + sin * z * q4
        /\ p4 = -(sin * x * q1) - sin * y * q2 - sin * z * q3 + k * q4
    <3>1. /\ p1 = k * q1 + sin * z * q2 + (-(sin * y)) * q3 + sin * x * q4
          /\ p2 = (-(sin * z)) * q1 + k * q2 + sin * x * q3 + sin * y * q4
          /\ p3 = sin * y * q1 + (-(sin * x)) * q2 + k * q3 + sin * z * q4
          /\ p4 = (-(sin * x)) * q1 + (-(sin * y)) * q2 + (-(sin * z)) * q3 + k * q4
      BY <1>4, <1>5
    <3> HIDE DEF q1, q2, q3, q4, x, y, z, p1, p2, p3, p4, k
    <3> QED BY <3>1, <2>1
  <2>3. d = k * k + sin * sin * (x * x + y * y + z * z) /\ k1 = -2 * sin * k /\ k0 = 2 * sin * sin
    <3>1. len * len = x * x + y * y + z * z
      BY <1>2
    <3> HIDE DEF x, y, z
    <3>2. (cos * cos + sin * sin) * (len * len) = (cos * len) * (cos * len) + sin * sin * (len * len)
      OBVIOUS
    <3>3. -2 * sin * cos * len = -2 * sin * (cos * len)
      OBVIOUS
    <3> QED BY <3>1, <3>2, <3>3
  <2> HIDE DEF q1, q2, q3, q4, x, y, z, p1, p2, p3, p4, k, d, k1, k0
  <2>4. P[1][1] = T[1][1]
    <3>1. P[1][1] = e - 2 * (p2 * p2) - 2 * (p3 * p3)
      BY <1>7 DEF p1, p2, p3, p4
    <3>2. T[1][1] = (d + k0 * (0 - y * y - z * z)) * (m - 2 * (q2 * q2) - 2 * (q3 * q3))
                    + (k0 * (x * y) - k1 * z) * (2 * (q1 * q2) - 2 * (q3 * q4))
                    + (k1 * y + k0 * (x * z)) * (2 * (q1 * q3) + 2 * (q2 * q4))
      BY <1>8, <1>9, <1>10 DEF q1, q2, q3, q4, x, y, z
    <3> QED BY <2>1, <2>2, <2>3, <3>1, <3>2
  <2>5. P[1][2] = T[1][2]
    <3>1. P[1][2] = 2 * (p1 * p2) - 2 * (p3 * p4)
      BY <1>7 DEF p1, p2, p3, p4
    <3>2. T[1][2] = (k1 * z + k0 * (x * y)) * (m - 2 * (q2 * q2) - 2 * (q3 * q3))
                    + (d + k0 * (0 - x * x - z * z)) * (2 * (q1 * q2) - 2 * (q3 * q4))
                    + (k0 * (y * z) - k1 * x) * (2 * (q1 * q3) + 2 * (q2 * q4))
      BY <1>8, <1>9, <1>10 DEF q1, q2, q3, q4, x, y, z
    <3> QED BY <2>1, <2>2, <2>3, <3>1, <3>2
  <2>6. P[1][3] = T[1][3]
    <3>1. P[1][3] = 2 * (p1 * p3) + 2 * (p2 * p4)
      BY <1>7 DEF p1, p2, p3, p4
    <3>2. T[1][3] = (k0 * (x * z) - k1 * y) * (m - 2 * (q2 * q2) - 2 * (q3 * q3))
                    + (k1 * x + k0 * (y * z)) * (2 * (q1 * q2) - 2 * (q3 * q4))
                    + (d + k0 * (0 - x * x - y * y)) * (2 * (q1 * q3) + 2 * (q2 * q4))
      BY <1>8, <1>9, <1>10 DEF q1, q2, q3, q4, x, y, z
    <3> QED BY <2>1, <2>2, <2>3, <3>1, <3>2
  <2>7. P[2][1] = T[2][1]
    <3>1. P[2][1] = 2 * (p1 * p2) + 2 * (p3 * p4)
      BY <1>7 DEF p1, p2, p3, p4
    <3>2. T[2][1] = (d + k0 * (0 - y * y - z * z)) * (2 * (q1 * q2) + 2 * (q3 * q4))
                    + (k0 * (x * y) - k1 * z) * (m - 2 * (q1 * q1) - 2 * (q3 * q3))
                    + (k1 * y + k0 * (x * z)) * (2 * (q2 * q3) - 2 * (q1 * q4))
      BY <1>8, <1>9, <1>10 DEF q1, q2, q3, q4, x, y, z
    <3> QED BY <2>1, <2>2, <2>3, <3>1, <3>2
  <2>8. P[2][2] = T[2][2]
    <3>1. P[2][2] = e - 2 * (p1 * p1) - 2 * (p3 * p3)
      BY <1>7 DEF p1, p2, p3, p4
    <3>2. T[2][2] = (k1 * z + k0 * (x * y)) * (2 * (q1 * q2) + 2 * (q3 * q4))
                    + (d + k0 * (0 - x * x - z * z)) * (m - 2 * (q1 * q1) - 2 * (q3 * q3))
                    + (k0 * (y * z) - k1 * x) * (2 * (q2 * q3) - 2 * (q1 * q4))
      BY <1>8, <1>9, <1>10 DEF q1, q2, q3, q4, x, y, z
    <3>3. P[2][2] = p2 * p2 + p4 * p4 - p1 * p1 - p3 * p3
      BY <2>1, <2>2, <3>1
    <3>4. m - 2 * (q1 * q1) - 2 * (q3 * q3) = q2 * q2 + q4 * q4 - q1 * q1 - q3 * q3
      BY <2>1
    <3> QED BY <2>1, <2>2, <2>3, <3>2, <3>3, <3>4
  <2>9. P[2][3] = T[2][3]
    <3>1. P[2][3] = 2 * (p2 * p3) - 2 * (p1 * p4)
      BY <1>7 DEF p1, p2, p3, p4
    <3>2. T[2][3] = (k0 * (x * z) - k1 * y) * (2 * (q1 * q2) + 2 * (q3 * q4))
                    + (k1 * x + k0 * (y * z)) * (m - 2 * (q1 * q1) - 2 * (q3 * q3))
                    + (d + k0 * (0 - x * x - y * y)) * (2 * (q2 * q3) - 2 * (q1 * q4))
      BY <1>8, <1>9, <1>10 DEF q1, q2, q3, q4, x, y, z
    <3> QED BY <2>1, <2>2, <2>3, <3>1, <3>2
  <2>10. P[3][1] = T[3][1]
    <3>1. P[3][1] = 2 * (p1 * p3) - 2 * (p2 * p4)
      BY <1>7 DEF p1, p2, p3, p4
    <3>2. T[3][1] = (d + k0 * (0 - y * y - z * z)) * (2 * (q1 * q3) - 2 * (q2 * q4))
                    + (k0 * (x * y) - k1 * z) * (2 * (q2 * q3) + 2 * (q1 * q4))
                    + (k1 * y + k0 * (x * z)) * (m - 2 * (q1 * q1) - 2 * (q2 * q2))
      BY <1>8, <1>9, <1>10 DEF q1, q2, q3, q4, x, y, z
    <3> QED BY <2>1, <2>2, <2>3, <3>1, <3>2
  <2>11. P[3][2] = T[3][2]
    <3>1. P[3][2] = 2 * (p2 * p3) + 2 * (p1 * p4)
      BY <1>7 DEF p1, p2, p3, p4
    <3>2. T[3][2] = (k1 * z + k0 * (x * y)) * (2 * (q1 * q3) - 2 * (q2 * q4))
                    + (d + k0 * (0 - x * x - z * z)) * (2 * (q2 * q3) + 2 * (q1 * q4))
                    + (k0 * (y * z) - k1 * x) * (m - 2 * (q1 * q1) - 2 * (q2 * q2))
      BY <1>8, <1>9, <1>10 DEF q1, q2, q3, q4, x, y, z
    <3> QED BY <2>1, <2>2, <2>3, <3>1, <3>2
  <2>12. P[3][3] = T[3][3]
    <3>1. P[3][3] = e - 2 * (p1 * p1) - 2 * (p2 * p2)
      BY <1>7 DEF p1, p2, p3, p4
    <3>2. T[3][3] = (k0 * (x * z) - k1 * y) * (2 * (q1 * q3) - 2 * (q2 * q4))
                    + (k1 * x + k0 * (y * z)) * (2 * (q2 * q3) + 2 * (q1 * q4))
                    + (d + k0 * (0 - x * x - y * y)) * (m - 2 * (q1 * q1) - 2 * (q2 * q2))
      BY <1>8, <1>9, <1>10 DEF q1, q2, q3, q4, x, y, z
    <3>3. P[3][3] = p3 * p3 + p4 * p4 - p1 * p1 - p2 * p2
      BY <2>1, <2>2, <3>1
    <3>4. m - 2 * (q1 * q1) - 2 * (q2 * q2) = q3 * q3 + q4 * q4 - q1 * q1 - q2 * q2
      BY <2>1
    <3> QED BY <2>1, <2>2, <2>3, <3>2, <3>3, <3>4
  <2> QED BY <2>4, <2>5, <2>6, <2>7, <2>8, <2>9, <2>10, <2>11, <2>12
<1>12. P = T
  BY <1>7, <1>10, <1>11, SameMatrix
<1> QED BY <1>6, <1>12 DEF P, T, R, Phi

-----------------------------------------------------------------------------
(* scaleCovariance()                                                       *)

(* The smaller and the larger of two indices.                              *)
LEMMA Ordered ==
  ASSUME NEW c \in Int, NEW r \in Int
  PROVE  \/ Min({c, r}) = c /\ Max({c, r}) = r
         \/ Min({c, r}) = r /\ Max({c, r}) = c
<1>1. CASE c <= r
  <2>1. c \in {c, r} /\ \A y \in {c, r} : c <= y
    BY <1>1
  <2>2. \A x \in {c, r} : (\A y \in {c, r} : x <= y) => x = c
    BY <1>1
  <2>3. Min({c, r}) = c
    BY <2>1, <2>2 DEF Min
  <2>4. r \in {c, r} /\ \A y \in {c, r} : r >= y
    BY <1>1
  <2>5. \A x \in {c, r} : (\A y \in {c, r} : x >= y) => x = r
    BY <1>1
  <2>6. Max({c, r}) = r
    BY <2>4, <2>5 DEF Max
  <2> QED BY <2>3, <2>6
<1>2. CASE r <= c
  <2>1. r \in {c, r} /\ \A y \in {c, r} : r <= y
    BY <1>2
  <2>2. \A x \in {c, r} : (\A y \in {c, r} : x <= y) => x = r
    BY <1>2
  <2>3. Min({c, r}) = r
    BY <2>1, <2>2 DEF Min
  <2>4. c \in {c, r} /\ \A y \in {c, r} : c >= y
    BY <1>2
  <2>5. \A x \in {c, r} : (\A y \in {c, r} : x >= y) => x = c
    BY <1>2
  <2>6. Max({c, r}) = c
    BY <2>4, <2>5 DEF Max
  <2> QED BY <2>3, <2>6
<1> QED BY <1>1, <1>2

(* With independent errors, those of variances p, scaleCovariance() is     *)
(* A*P*transpose(A) for every matrix A.                                    *)
THEOREM ErrorsScale ==
  ASSUME NEW A \in Matrices(3, 3), NEW p \in Vectors(3)
  PROVE  LET P == [c \in 1..3 |-> [r \in 1..3 |-> IF c = r THEN p[c] ELSE 0]]
         IN ScaleCovariance(A, P) = MatrixScaled(2, Times(A, Times(P, Transpose(A))))
<1> DEFINE P == [c \in 1..3 |-> [r \in 1..3 |-> IF c = r THEN p[c] ELSE 0]]
           E(i, j) == A[1][i] * p[1] * A[1][j] + A[2][i] * p[2] * A[2][j] + A[3][i] * p[3] * A[3][j]
           At == Transpose(A)
           PAt == Times(P, At)
           APAt == Times(A, PAt)
<1>1. \A c, r \in 1..3 : A[c][r] \in Int
  <2>1. \A c \in 1..3 : A[c] \in [1..3 -> Int]
    BY DEF Matrices, Vectors
  <2> QED BY <2>1
<1>2. p[1] \in Int /\ p[2] \in Int /\ p[3] \in Int
  BY DEF Vectors
<1>3. P \in Matrices(3, 3)
  BY <1>2 DEF Matrices, Vectors
<1>4. /\ P[1][1] = p[1] /\ P[1][2] = 0 /\ P[1][3] = 0 /\ P[2][1] = 0 /\ P[2][2] = p[2] /\ P[2][3] = 0
      /\ P[3][1] = 0 /\ P[3][2] = 0 /\ P[3][3] = p[3]
  OBVIOUS
<1> HIDE DEF P
<1>5. At \in Matrices(3, 3) /\ \A c, r \in 1..3 : At[c][r] = A[r][c]
  <2>1. DOMAIN A = 1..3 /\ DOMAIN A[1] = 1..3
    BY DEF Matrices, Vectors
  <2>2. At = [r \in 1..3 |-> [c \in 1..3 |-> A[c][r]]]
    BY <2>1 DEF Transpose
  <2> HIDE DEF At
  <2> QED BY <2>2, <1>1 DEF Matrices, Vectors
<1> HIDE DEF At
<1>6. /\ PAt \in Matrices(3, 3)
      /\ \A c, r \in 1..3 : PAt[c][r] = P[1][r] * At[c][1] + P[2][r] * At[c][2] + P[3][r] * At[c][3]
  BY <1>3, <1>5, Times3
<1>7. \A c \in 1..3 : PAt[c][1] = p[1] * A[1][c] /\ PAt[c][2] = p[2] * A[2][c] /\ PAt[c][3] = p[3] * A[3][c]
  BY <1>1, <1>2, <1>4, <1>5, <1>6
<1> HIDE DEF PAt
<1>8. /\ APAt \in Matrices(3, 3)
      /\ \A c, r \in 1..3 : APAt[c][r] = A[1][r] * PAt[c][1] + A[2][r] * PAt[c][2] + A[3][r] * PAt[c][3]
  BY <1>6, Times3
<1> HIDE DEF APAt
<1>9. \A c, r \in 1..3 : APAt[c][r] = E(c, r) /\ E(c, r) = E(r, c) /\ E(c, r) \in Int
  <2> SUFFICES ASSUME NEW c \in 1..3, NEW r \in 1..3
               PROVE  APAt[c][r] = E(c, r) /\ E(c, r) = E(r, c) /\ E(c, r) \in Int
    OBVIOUS
  <2>1. APAt[c][r] = A[1][r] * (p[1] * A[1][c]) + A[2][r] * (p[2] * A[2][c]) + A[3][r] * (p[3] * A[3][c])
    BY <1>7, <1>8
  <2> DEFINE a1 == A[1][c]
             a2 == A[2][c]
             a3 == A[3][c]
             b1 == A[1][r]
             b2 == A[2][r]
             b3 == A[3][r]
             p1 == p[1]
             p2 == p[2]
             p3 == p[3]
  <2>2. /\ a1 \in Int /\ a2 \in Int /\ a3 \in Int /\ b1 \in Int /\ b2 \in Int /\ b3 \in Int
        /\ p1 \in Int /\ p2 \in Int /\ p3 \in Int
    BY <1>1, <1>2
  <2> HIDE DEF a1, a2, a3, b1, b2, b3, p1, p2, p3
  <2>3. /\ b1 * (p1 * a1) + b2 * (p2 * a2) + b3 * (p3 * a3) = a1 * p1 * b1 + a2 * p2 * b2 + a3 * p3 * b3
        /\ a1 * p1 * b1 + a2 * p2 * b2 + a3 * p3 * b3 = b1 * p1 * a1 + b2 * p2 * a2 + b3 * p3 * a3
        /\ a1 * p1 * b1 + a2 * p2 * b2 + a3 * p3 * b3 \in Int
    BY <2>2
  <2> QED BY <2>1, <2>3 DEF a1, a2, a3, b1, b2, b3, p1, p2, p3
<1> DEFINE v(r, c) == A[c][r] * P[c][c] + 2 * DotProduct([k \in (c + 1)..3 |-> A[k][r]], P[c])
           apat(r, j) == 2 * DotProduct([c \in 1..3 |-> v(r, c)], [c \in 1..3 |-> A[c][j]])
<1>10. \A r, c \in 1..3 : v(r, c) = A[c][r] * p[c]
  <2> SUFFICES ASSUME NEW r \in 1..3, NEW c \in 1..3 PROVE v(r, c) = A[c][r] * p[c]
    OBVIOUS
  <2> DEFINE S == (c + 1)..3
             u == [k \in S |-> A[k][r]]
             w == P[c]
  <2>1. S \in SUBSET (1..4) /\ u \in [S -> Int] /\ \A k \in S : u[k] \in Int /\ w[k] = 0
    BY <1>1 DEF P
  <2>2. w[c] = p[c]
    BY DEF P
  <2> HIDE DEF u, w, S
  <2>3. DotProduct(u, w) = (IF 1 \in S THEN u[1] * w[1] ELSE 0) + (IF 2 \in S THEN u[2] * w[2] ELSE 0)
                           + (IF 3 \in S THEN u[3] * w[3] ELSE 0) + (IF 4 \in S THEN u[4] * w[4] ELSE 0)
    <3>1. \A i \in S : w[i] \in Int
      BY <2>1
    <3> QED BY <3>1, <2>1, DotProducts, Zenon
  <2>4. DotProduct(u, w) = 0
    BY <2>1, <2>3
  <2>5. v(r, c) = A[c][r] * w[c] + 2 * DotProduct(u, w)
    BY DEF u, w, S
  <2>6. A[c][r] \in Int /\ p[c] \in Int
    BY <1>1, <1>2
  <2> HIDE DEF v
  <2> QED BY <2>2, <2>4, <2>5, <2>6
<1> HIDE DEF v
<1>11. \A r, j \in 1..3 : apat(r, j) = 2 * E(r, j)
  <2> SUFFICES ASSUME NEW r \in 1..3, NEW j \in 1..3 PROVE apat(r, j) = 2 * E(r, j)
    OBVIOUS
  <2> DEFINE u == [c \in 1..3 |-> v(r, c)]
             w == [c \in 1..3 |-> A[c][j]]
  <2>1. u \in Vectors(3) /\ w \in Vectors(3)
    BY <1>1, <1>2, <1>10 DEF Vectors
  <2>2. /\ u[1] = A[1][r] * p[1] /\ u[2] = A[2][r] * p[2] /\ u[3] = A[3][r] * p[3]
        /\ w[1] = A[1][j] /\ w[2] = A[2][j] /\ w[3] = A[3][j]
    BY <1>10
  <2> HIDE DEF u, w
  <2>3. DotProduct(u, w) = u[1] * w[1] + u[2] * w[2] + u[3] * w[3]
    BY <2>1, Dot3
  <2> QED BY <2>2, <2>3 DEF u, w
<1>12. ScaleCovariance(A, P) = [c \in 1..3 |-> [r \in 1..3 |-> apat(Min({c, r}), Max({c, r}))]]
  BY DEF ScaleCovariance, v
<1> HIDE DEF apat, E
<1>13. \A c, r \in 1..3 : apat(Min({c, r}), Max({c, r})) = 2 * APAt[c][r]
  BY <1>9, <1>11, Ordered
<1>14. MatrixScaled(2, APAt) = [c \in 1..3 |-> [r \in 1..3 |-> 2 * APAt[c][r]]]
  BY <1>8 DEF MatrixScaled, Scaled, Matrices, Vectors
<1>15. ScaleCovariance(A, P) = MatrixScaled(2, APAt)
  BY <1>12, <1>13, <1>14
<1> QED BY <1>15 DEF APAt, PAt, At, P

-----------------------------------------------------------------------------
(* initFusion()                                                            *)

(* A rotation by its columns, scaled by n: each of them is the cross       *)
(* product of the others, and of length n.                                 *)
Rotates(n, a, b, c, d, e, f, g, h, i) ==
  /\ n \in Int /\ n > 0
  /\ a \in Int /\ b \in Int /\ c \in Int /\ d \in Int /\ e \in Int /\ f \in Int
  /\ g \in Int /\ h \in Int /\ i \in Int
  /\ n * a = e * i - f * h /\ n * b = f * g - d * i /\ n * c = d * h - e * g
  /\ n * d = h * c - i * b /\ n * e = i * a - g * c /\ n * f = g * b - h * a
  /\ n * g = b * f - c * e /\ n * h = c * d - a * f /\ n * i = a * e - b * d
  /\ a * a + b * b + c * c = n * n

(* Its rows are as long as its columns, and orthogonal.                    *)
Orthogonal(n, a, b, c, d, e, f, g, h, i) ==
  /\ a * a + d * d + g * g = n * n /\ b * b + e * e + h * h = n * n /\ c * c + f * f + i * i = n * n
  /\ a * b + d * e + g * h = 0 /\ a * c + d * f + g * i = 0 /\ b * c + e * f + h * i = 0

(* They follow from the cross products.                                    *)
LEMMA RowsOf ==
  ASSUME NEW n, NEW a, NEW b, NEW c, NEW d, NEW e, NEW f, NEW g, NEW h, NEW i,
         Rotates(n, a, b, c, d, e, f, g, h, i)
  PROVE  Orthogonal(n, a, b, c, d, e, f, g, h, i)
<1>0. /\ n \in Int /\ n > 0
      /\ a \in Int /\ b \in Int /\ c \in Int /\ d \in Int /\ e \in Int /\ f \in Int
      /\ g \in Int /\ h \in Int /\ i \in Int
  BY DEF Rotates
<1> USE <1>0
<1>1. \A x, y \in Int : n * x = n * y => x = y
  OBVIOUS
<1>2. \A x, y, z, k, l, m \in Int :
        n * (x * k + y * l + z * m) = (n * x) * k + (n * y) * l + (n * z) * m
  OBVIOUS
<1> DEFINE det == a * (e * i - f * h) + b * (f * g - d * i) + c * (d * h - e * g)
<1>3. n * (a * a + b * b + c * c) = det
  <2>1. n * (a * a + b * b + c * c) = (n * a) * a + (n * b) * b + (n * c) * c
    BY <1>2
  <2>2. n * (a * a + b * b + c * c) = (e * i - f * h) * a + (f * g - d * i) * b + (d * h - e * g) * c
    BY <2>1, Zenon DEF Rotates
  <2> QED BY <2>2
<1>4. n * (a * a + d * d + g * g) = det
  <2>1. n * (a * a + d * d + g * g) = (n * a) * a + (n * d) * d + (n * g) * g
    BY <1>2
  <2>2. n * (a * a + d * d + g * g) = (e * i - f * h) * a + (h * c - i * b) * d + (b * f - c * e) * g
    BY <2>1, Zenon DEF Rotates
  <2> QED BY <2>2
<1>5. n * (b * b + e * e + h * h) = det
  <2>1. n * (b * b + e * e + h * h) = (n * b) * b + (n * e) * e + (n * h) * h
    BY <1>2
  <2>2. n * (b * b + e * e + h * h) = (f * g - d * i) * b + (i * a - g * c) * e + (c * d - a * f) * h
    BY <2>1, Zenon DEF Rotates
  <2> QED BY <2>2
<1>6. n * (c * c + f * f + i * i) = det
  <2>1. n * (c * c + f * f + i * i) = (n * c) * c + (n * f) * f + (n * i) * i
    BY <1>2
  <2>2. n * (c * c + f * f + i * i) = (d * h - e * g) * c + (g * b - h * a) * f + (a * e - b * d) * i
    BY <2>1, Zenon DEF Rotates
  <2> QED BY <2>2
<1>7. n * (a * b + d * e + g * h) = n * 0
  <2>1. n * (a * b + d * e + g * h) = (n * a) * b + (n * d) * e + (n * g) * h
    BY <1>2
  <2>2. n * (a * b + d * e + g * h) = (e * i - f * h) * b + (h * c - i * b) * e + (b * f - c * e) * h
    BY <2>1, Zenon DEF Rotates
  <2> QED BY <2>2
<1>8. n * (a * c + d * f + g * i) = n * 0
  <2>1. n * (a * c + d * f + g * i) = (n * a) * c + (n * d) * f + (n * g) * i
    BY <1>2
  <2>2. n * (a * c + d * f + g * i) = (e * i - f * h) * c + (h * c - i * b) * f + (b * f - c * e) * i
    BY <2>1, Zenon DEF Rotates
  <2> QED BY <2>2
<1>9. n * (b * c + e * f + h * i) = n * 0
  <2>1. n * (b * c + e * f + h * i) = (n * b) * c + (n * e) * f + (n * h) * i
    BY <1>2
  <2>2. n * (b * c + e * f + h * i) = (f * g - d * i) * c + (i * a - g * c) * f + (c * d - a * f) * i
    BY <2>1, Zenon DEF Rotates
  <2> QED BY <2>2
<1>10. a * a + b * b + c * c = n * n
  BY DEF Rotates
<1> HIDE DEF det
<1>11. /\ n * (a * a + d * d + g * g) = n * (n * n) /\ n * (b * b + e * e + h * h) = n * (n * n)
       /\ n * (c * c + f * f + i * i) = n * (n * n)
  BY <1>3, <1>4, <1>5, <1>6, <1>10, Zenon
<1>12. a * a + d * d + g * g = n * n
  BY <1>1, <1>11
<1>13. b * b + e * e + h * h = n * n
  BY <1>1, <1>11
<1>14. c * c + f * f + i * i = n * n
  BY <1>1, <1>11
<1>15. a * b + d * e + g * h = 0
  BY <1>1, <1>7
<1>16. a * c + d * f + g * i = 0
  BY <1>1, <1>8
<1>17. b * c + e * f + h * i = 0
  BY <1>1, <1>9
<1> QED BY <1>12, <1>13, <1>14, <1>15, <1>16, <1>17 DEF Orthogonal

(* The same of the transposed rotation.                                    *)
LEMMA ColumnsOf ==
  ASSUME NEW n, NEW a, NEW b, NEW c, NEW d, NEW e, NEW f, NEW g, NEW h, NEW i,
         Rotates(n, a, b, c, d, e, f, g, h, i)
  PROVE  Orthogonal(n, a, d, g, b, e, h, c, f, i)
<1>1. a * a + d * d + g * g = n * n
  BY RowsOf DEF Orthogonal
<1>2. Rotates(n, a, d, g, b, e, h, c, f, i)
  BY <1>1 DEF Rotates
<1> QED BY <1>2, RowsOf

(* The squares matrixToQuat() takes the roots of are those of the          *)
(* quaternion's elements: their products are squares, too.                 *)
LEMMA Squares ==
  ASSUME NEW n, NEW a, NEW b, NEW c, NEW d, NEW e, NEW f, NEW g, NEW h, NEW i,
         Rotates(n, a, b, c, d, e, f, g, h, i),
         NEW s1, s1 = a - e - i + n, NEW s2, s2 = -a + e - i + n, NEW s3, s3 = -a - e + i + n,
         NEW s4, s4 = a + e + i + n
  PROVE  /\ s1 * s2 = (b + d) * (b + d) /\ s1 * s3 = (c + g) * (c + g) /\ s2 * s3 = (f + h) * (f + h)
         /\ s1 * s4 = (h - f) * (h - f) /\ s2 * s4 = (c - g) * (c - g) /\ s3 * s4 = (d - b) * (d - b)
         /\ s4 * (c + g) = (h - f) * (d - b) /\ s4 * (f + h) = (c - g) * (d - b)
         /\ s1 >= 0 /\ s2 >= 0 /\ s3 >= 0 /\ s4 >= 0
<1>0. /\ n \in Int /\ n > 0
      /\ a \in Int /\ b \in Int /\ c \in Int /\ d \in Int /\ e \in Int /\ f \in Int
      /\ g \in Int /\ h \in Int /\ i \in Int
  BY DEF Rotates
<1> USE <1>0
<1>1. /\ a * a + d * d + g * g = n * n /\ b * b + e * e + h * h = n * n /\ c * c + f * f + i * i = n * n
      /\ a * b + d * e + g * h = 0 /\ a * c + d * f + g * i = 0 /\ b * c + e * f + h * i = 0
  BY RowsOf DEF Orthogonal
<1>2. /\ a * a + b * b + c * c = n * n /\ d * d + e * e + f * f = n * n /\ g * g + h * h + i * i = n * n
      /\ a * d + b * e + c * f = 0 /\ a * g + b * h + c * i = 0 /\ d * g + e * h + f * i = 0
  BY ColumnsOf DEF Orthogonal
<1>3. /\ n * a = e * i - f * h /\ n * b = f * g - d * i /\ n * c = d * h - e * g
      /\ n * d = h * c - i * b /\ n * e = i * a - g * c /\ n * f = g * b - h * a
      /\ n * g = b * f - c * e /\ n * h = c * d - a * f /\ n * i = a * e - b * d
  BY DEF Rotates
<1>4. s1 * s2 = (b + d) * (b + d)
  BY <1>1, <1>2, <1>3
<1>5. s1 * s3 = (c + g) * (c + g)
  BY <1>1, <1>2, <1>3
<1>6. s2 * s3 = (f + h) * (f + h)
  BY <1>1, <1>2, <1>3
<1>7. s1 * s4 = (h - f) * (h - f)
  BY <1>1, <1>2, <1>3
<1>8. s2 * s4 = (c - g) * (c - g)
  BY <1>1, <1>2, <1>3
<1>9. s3 * s4 = (d - b) * (d - b)
  BY <1>1, <1>2, <1>3
<1>10. s4 * (c + g) = (h - f) * (d - b)
  BY <1>1, <1>2, <1>3
<1>11. s4 * (f + h) = (c - g) * (d - b)
  BY <1>1, <1>2, <1>3
<1>12. s1 >= 0 /\ s2 >= 0 /\ s3 >= 0 /\ s4 >= 0
  <2>1. s1 \in Int /\ s2 \in Int /\ s3 \in Int /\ s4 \in Int /\ s1 + s2 + s3 + s4 > 0
    OBVIOUS
  <2>2. \A x \in Int : x * x >= 0
    OBVIOUS
  <2>3. \A x, y \in Int : x * y >= 0 => (x < 0 => y <= 0)
    OBVIOUS
  <2>4. /\ s1 * s2 >= 0 /\ s1 * s3 >= 0 /\ s2 * s3 >= 0 /\ s1 * s4 >= 0 /\ s2 * s4 >= 0 /\ s3 * s4 >= 0
    <3>1. b + d \in Int /\ c + g \in Int /\ f + h \in Int /\ h - f \in Int /\ c - g \in Int /\ d - b \in Int
      OBVIOUS
    <3> QED BY <1>4, <1>5, <1>6, <1>7, <1>8, <1>9, <2>2, <3>1
  <2> QED BY <2>1, <2>3, <2>4
<1> QED BY <1>4, <1>5, <1>6, <1>7, <1>8, <1>9, <1>10, <1>11, <1>12

(* Two orthogonal vectors x and e, of lengths l and m.                     *)
AreOrthogonal(l, m, x1, x2, x3, e1, e2, e3) ==
  /\ l \in Int /\ l > 0 /\ m \in Int /\ m > 0
  /\ x1 \in Int /\ x2 \in Int /\ x3 \in Int /\ e1 \in Int /\ e2 \in Int /\ e3 \in Int
  /\ l * l = x1 * x1 + x2 * x2 + x3 * x3
  /\ m * m = e1 * e1 + e2 * e2 + e3 * e3
  /\ e1 * x1 + e2 * x2 + e3 * x3 = 0

(* They are two columns of a rotation, whose third is their cross product. *)
LEMMA FrameRotates ==
  ASSUME NEW l, NEW m, NEW x1, NEW x2, NEW x3, NEW e1, NEW e2, NEW e3,
         AreOrthogonal(l, m, x1, x2, x3, e1, e2, e3)
  PROVE  Rotates(l * m, l * e1, l * e2, l * e3, x2 * e3 - x3 * e2, x3 * e1 - x1 * e3, x1 * e2 - x2 * e1,
                 m * x1, m * x2, m * x3)
<1>1. /\ l \in Int /\ l > 0 /\ m \in Int /\ m > 0
      /\ x1 \in Int /\ x2 \in Int /\ x3 \in Int /\ e1 \in Int /\ e2 \in Int /\ e3 \in Int
  BY DEF AreOrthogonal
<1> DEFINE X == x1 * x1 + x2 * x2 + x3 * x3
           E == e1 * e1 + e2 * e2 + e3 * e3
           O == e1 * x1 + e2 * x2 + e3 * x3
           n == l * m
           a == l * e1
           b == l * e2
           c == l * e3
           d == x2 * e3 - x3 * e2
           e == x3 * e1 - x1 * e3
           f == x1 * e2 - x2 * e1
           g == m * x1
           h == m * x2
           i == m * x3
<1>2. l * l = X /\ m * m = E /\ O = 0
  BY DEF AreOrthogonal
<1>3. \A k \in Int : k * 0 = 0 /\ k - 0 = k
  OBVIOUS
<1>4. n * a = e * i - f * h /\ n * b = f * g - d * i /\ n * c = d * h - e * g
  <2>1. /\ n * a = (m * e1) * (l * l) /\ n * b = (m * e2) * (l * l) /\ n * c = (m * e3) * (l * l)
    BY <1>1
  <2>2. /\ e * i - f * h = (m * e1) * X - (m * x1) * O
        /\ f * g - d * i = (m * e2) * X - (m * x2) * O
        /\ d * h - e * g = (m * e3) * X - (m * x3) * O
    BY <1>1
  <2>3. /\ m * e1 \in Int /\ m * e2 \in Int /\ m * e3 \in Int /\ m * x1 \in Int /\ m * x2 \in Int /\ m * x3 \in Int
        /\ X \in Int
    BY <1>1
  <2> HIDE DEF X, O, n, a, b, c, d, e, f, g, h, i
  <2>4. /\ (m * e1) * X \in Int /\ (m * e2) * X \in Int /\ (m * e3) * X \in Int
    BY <2>3
  <2> QED BY <2>1, <2>2, <2>3, <2>4, <1>2, <1>3
<1>5. n * d = h * c - i * b /\ n * e = i * a - g * c /\ n * f = g * b - h * a
  BY <1>1
<1>6. n * g = b * f - c * e /\ n * h = c * d - a * f /\ n * i = a * e - b * d
  <2>1. /\ n * g = (l * x1) * (m * m) /\ n * h = (l * x2) * (m * m) /\ n * i = (l * x3) * (m * m)
    BY <1>1
  <2>2. /\ b * f - c * e = (l * x1) * E - (l * e1) * O
        /\ c * d - a * f = (l * x2) * E - (l * e2) * O
        /\ a * e - b * d = (l * x3) * E - (l * e3) * O
    BY <1>1
  <2>3. /\ l * x1 \in Int /\ l * x2 \in Int /\ l * x3 \in Int /\ l * e1 \in Int /\ l * e2 \in Int /\ l * e3 \in Int
        /\ E \in Int
    BY <1>1
  <2> HIDE DEF E, O, n, a, b, c, d, e, f, g, h, i
  <2>4. /\ (l * x1) * E \in Int /\ (l * x2) * E \in Int /\ (l * x3) * E \in Int
    BY <2>3
  <2> QED BY <2>1, <2>2, <2>3, <2>4, <1>2, <1>3
<1>7. a * a + b * b + c * c = n * n
  <2>1. a * a + b * b + c * c = l * l * E /\ n * n = l * l * (m * m)
    BY <1>1
  <2> HIDE DEF E, n, a, b, c
  <2> QED BY <2>1, <1>2
<1>8. /\ n \in Int /\ n > 0 /\ a \in Int /\ b \in Int /\ c \in Int /\ d \in Int /\ e \in Int /\ f \in Int
      /\ g \in Int /\ h \in Int /\ i \in Int
  BY <1>1
<1> HIDE DEF n, a, b, c, d, e, f, g, h, i
<1>9. Rotates(n, a, b, c, d, e, f, g, h, i)
  BY <1>4, <1>5, <1>6, <1>7, <1>8 DEF Rotates
<1> QED BY <1>9 DEF n, a, b, c, d, e, f, g, h, i

(* A rotation by a half turn, whose fourth element is 0, leaves the other  *)
(* signs to the zeros of the code: getOrthogonal() chooses so that there   *)
(* is no product of theirs to get wrong.                                   *)
HalfTurn(v, e, l, m, b, c, d, f, g, h) ==
  /\ AreOrthogonal(l, m, v[1], v[2], v[3], e[1], e[2], e[3])
  /\ b = l * e[2] /\ c = l * e[3] /\ g = m * v[1] /\ h = m * v[2]
  /\ d = v[2] * e[3] - v[3] * e[2] /\ f = v[1] * e[2] - v[2] * e[1]
  /\ l * e[1] + (v[3] * e[1] - v[1] * e[3]) + m * v[3] + l * m = 0
  /\ h = f /\ c = g /\ d = b

(* Then the other two sums are 0 as well.                                  *)
LEMMA NoSignIsLost ==
  ASSUME NEW v \in Vectors(3), NEW b, NEW c, NEW d, NEW f, NEW g, NEW h, NEW l, NEW m,
         HalfTurn(v, GetOrthogonal(v), l, m, b, c, d, f, g, h)
  PROVE  c + g = 0 /\ f + h = 0
<1>0. /\ AreOrthogonal(l, m, v[1], v[2], v[3], GetOrthogonal(v)[1], GetOrthogonal(v)[2], GetOrthogonal(v)[3])
      /\ b = l * GetOrthogonal(v)[2] /\ c = l * GetOrthogonal(v)[3] /\ g = m * v[1] /\ h = m * v[2]
      /\ d = v[2] * GetOrthogonal(v)[3] - v[3] * GetOrthogonal(v)[2]
      /\ f = v[1] * GetOrthogonal(v)[2] - v[2] * GetOrthogonal(v)[1]
      /\ l * GetOrthogonal(v)[1] + (v[3] * GetOrthogonal(v)[1] - v[1] * GetOrthogonal(v)[3]) + m * v[3] + l * m = 0
      /\ h = f /\ c = g /\ d = b
  BY Zenon DEF HalfTurn
<1> USE <1>0
<1> DEFINE x1 == v[1]
           x2 == v[2]
           x3 == v[3]
<1>1. x1 \in Int /\ x2 \in Int /\ x3 \in Int
  BY DEF Vectors
<1>2. l \in Int /\ l > 0 /\ m \in Int /\ m > 0
  BY DEF AreOrthogonal
<1>3. \A x \in Int : x * x >= 0 /\ (x * x = 0 => x = 0)
  OBVIOUS
<1>4. \A x, y \in Int : Abs(x) <= Abs(y) => x * x <= y * y
  <2>1. \A x \in Int : Abs(x) \in Int /\ Abs(x) >= 0 /\ Abs(x) * Abs(x) = x * x
    BY DEF Abs
  <2>2. \A x, y \in Int : 0 <= x /\ x <= y => x * x <= y * y
    OBVIOUS
  <2> QED BY <2>1, <2>2
<1>5. CASE Abs(x1) <= Abs(x2) /\ Abs(x1) <= Abs(x3)
  <2>1. GetOrthogonal(v)[1] = 0 /\ GetOrthogonal(v)[2] = x3 /\ GetOrthogonal(v)[3] = -x2
    BY <1>5 DEF GetOrthogonal
  <2>2. /\ m * m = x3 * x3 + x2 * x2 /\ m * x2 = x1 * x3 /\ l * (-x2) = m * x1
    BY <1>1, <1>2, <2>1 DEF AreOrthogonal
  <2>3. x1 * x1 <= x2 * x2
    BY <1>1, <1>4, <1>5
  <2> HIDE DEF x1, x2, x3
  <2>4. (x3 * x3 + x2 * x2) * (x2 * x2) = (x1 * x1) * (x3 * x3)
    <3>1. (m * x2) * (m * x2) = (x1 * x3) * (x1 * x3)
      BY <2>2
    <3>2. (m * x2) * (m * x2) = (m * m) * (x2 * x2) /\ (x1 * x3) * (x1 * x3) = (x1 * x1) * (x3 * x3)
      BY <1>1, <1>2
    <3> QED BY <2>2, <3>1, <3>2, Zenon
  <2>5. (x1 * x1) * (x3 * x3) <= (x2 * x2) * (x3 * x3)
    <3>1. \A x, y, z \in Int : x <= y /\ z >= 0 => x * z <= y * z
      OBVIOUS
    <3>2. x1 * x1 \in Int /\ x2 * x2 \in Int /\ x3 * x3 \in Int /\ x3 * x3 >= 0
      BY <1>1, <1>3
    <3> QED BY <2>3, <3>1, <3>2
  <2>6. (x2 * x2) * (x2 * x2) <= 0
    <3>1. (x3 * x3 + x2 * x2) * (x2 * x2) = (x2 * x2) * (x3 * x3) + (x2 * x2) * (x2 * x2)
      BY <1>1
    <3>2. (x2 * x2) * (x3 * x3) \in Int /\ (x2 * x2) * (x2 * x2) \in Int /\ (x1 * x1) * (x3 * x3) \in Int
      BY <1>1
    <3> QED BY <2>4, <2>5, <3>1, <3>2
  <2>7. x2 = 0
    <3>1. x2 * x2 \in Int
      BY <1>1
    <3>2. (x2 * x2) * (x2 * x2) >= 0 /\ (x2 * x2) * (x2 * x2) \in Int
      BY <1>3, <3>1
    <3>3. x2 * x2 = 0
      BY <1>3, <2>6, <3>1, <3>2
    <3> QED BY <1>1, <1>3, <3>3
  <2>8. m * x1 = 0
    BY <1>2, <2>2, <2>7
  <2>9. c = m * x1 /\ g = m * x1 /\ f = m * x2 /\ h = m * x2
    BY DEF x1, x2
  <2> QED BY <1>2, <2>7, <2>8, <2>9
<1>6. CASE Abs(x2) <= Abs(x3) /\ ~ (Abs(x1) <= Abs(x2) /\ Abs(x1) <= Abs(x3))
  <2>1. GetOrthogonal(v)[1] = x3 /\ GetOrthogonal(v)[2] = 0 /\ GetOrthogonal(v)[3] = -x1
    BY <1>6 DEF GetOrthogonal
  <2>2. m * m = x3 * x3 + x1 * x1
    BY <1>1, <1>2, <2>1 DEF AreOrthogonal
  <2>3. l * x3 + (x3 * x3 + x1 * x1) + m * x3 + l * m = 0
    BY <1>1, <1>2, <2>1
  <2>4. x1 # 0
    BY <1>1, <1>6 DEF Abs
  <2> HIDE DEF x1, x2, x3
  <2>5. (l + m) * (x3 + m) = 0
    <3>1. l * x3 + m * m + m * x3 + l * m = 0
      BY <2>2, <2>3
    <3> QED BY <1>1, <1>2, <3>1
  <2>6. x3 = -m
    <3>1. \A x, y \in Int : x > 0 /\ x * y = 0 => y = 0
      OBVIOUS
    <3>2. x3 + m = 0
      BY <1>1, <1>2, <2>5, <3>1
    <3> QED BY <1>1, <1>2, <3>2
  <2>7. x1 * x1 = 0
    BY <1>1, <1>2, <2>2, <2>6
  <2> QED BY <1>1, <1>3, <2>4, <2>7
<1>7. CASE ~ (Abs(x2) <= Abs(x3)) /\ ~ (Abs(x1) <= Abs(x2) /\ Abs(x1) <= Abs(x3))
  <2>1. GetOrthogonal(v)[1] = x2 /\ GetOrthogonal(v)[2] = -x1 /\ GetOrthogonal(v)[3] = 0
    BY <1>7 DEF GetOrthogonal
  <2>2. m * m = x2 * x2 + x1 * x1
    BY <1>1, <1>2, <2>1 DEF AreOrthogonal
  <2>3. m * x2 = x1 * (-x1) - x2 * x2
    BY <1>1, <1>2, <2>1
  <2>4. x1 # 0
    BY <1>1, <1>7 DEF Abs
  <2> HIDE DEF x1, x2, x3
  <2>5. m * (x2 + m) = 0
    BY <1>1, <1>2, <2>2, <2>3
  <2>6. x2 = -m
    <3>1. \A x, y \in Int : x > 0 /\ x * y = 0 => y = 0
      OBVIOUS
    <3>2. x2 + m = 0
      BY <1>1, <1>2, <2>5, <3>1
    <3> QED BY <1>1, <1>2, <3>2
  <2>7. x1 * x1 = 0
    BY <1>1, <1>2, <2>2, <2>6
  <2> QED BY <1>1, <1>3, <2>4, <2>7
<1> QED BY <1>5, <1>6, <1>7

(* The root of the product of two squares, with the signs of the           *)
(* differences the code tells the signs of the elements from.              *)
LEMMA Signed ==
  ASSUME NEW d \in Int, NEW zero \in {-1, 1}
  PROVE  SignOf(d, zero) * Abs(d) = d /\ SignOf(d, zero) \in {-1, 1}
BY DEF SignOf, Abs

(* The root of a product that is a square.                                 *)
LEMMA RootOfSquare ==
  ASSUME NEW s, NEW t, NEW d \in Int, s * t = d * d
  PROVE  Isqrt(s * t) = Abs(d)
<1>1. Abs(d) \in Nat /\ Abs(d) * Abs(d) = s * t /\ s * t \in Nat
  BY DEF Abs
<1> QED BY <1>1, RootOf

ProductFits(s, k, d1, d2, z1, z2) ==
  /\ s \in Int /\ s >= 0 /\ k \in Int /\ d1 \in Int /\ d2 \in Int /\ z1 \in {-1, 1} /\ z2 \in {-1, 1}
  /\ s * k = d1 * d2 /\ (s = 0 => k = 0)

(* The signs of two differences give that of the third element.            *)
LEMMA SignsFit ==
  ASSUME NEW s, NEW k, NEW d1, NEW d2, NEW z1, NEW z2, ProductFits(s, k, d1, d2, z1, z2)
  PROVE  SignOf(d1, z1) * SignOf(d2, z2) * Abs(k) = k
<1>0. /\ s \in Int /\ s >= 0 /\ k \in Int /\ d1 \in Int /\ d2 \in Int /\ z1 \in {-1, 1} /\ z2 \in {-1, 1}
      /\ s * k = d1 * d2 /\ (s = 0 => k = 0)
  BY DEF ProductFits
<1> USE <1>0
<1>1. CASE k = 0
  BY <1>1 DEF SignOf, Abs
<1>2. CASE k > 0
  <2>1. s > 0 /\ s * k > 0
    BY <1>2
  <2>2. d1 * d2 > 0
    BY <2>1
  <2>3. (d1 > 0 /\ d2 > 0) \/ (d1 < 0 /\ d2 < 0)
    BY <2>2
  <2>4. SignOf(d1, z1) = SignOf(d2, z2) /\ SignOf(d1, z1) \in {-1, 1}
    BY <2>3 DEF SignOf
  <2> QED BY <1>2, <2>4 DEF Abs
<1>3. CASE k < 0
  <2>1. s > 0 /\ s * k < 0
    BY <1>3
  <2>2. d1 * d2 < 0
    BY <2>1
  <2>3. (d1 > 0 /\ d2 < 0) \/ (d1 < 0 /\ d2 > 0)
    BY <2>2
  <2>4. \/ SignOf(d1, z1) = 1 /\ SignOf(d2, z2) = -1
        \/ SignOf(d1, z1) = -1 /\ SignOf(d2, z2) = 1
    BY <2>3 DEF SignOf
  <2> QED BY <1>3, <2>4 DEF Abs
<1> QED BY <1>1, <1>2, <1>3

(* The columns of initRodrParams().                                        *)
IsFrame(x, e, R, l, m) ==
  /\ e \in Vectors(3) /\ Length(x) = l /\ Length(e) = m
  /\ R[1][1] = l * e[1] /\ R[1][2] = l * e[2] /\ R[1][3] = l * e[3]
  /\ R[2][1] = x[2] * e[3] - x[3] * e[2]
  /\ R[2][2] = x[3] * e[1] - x[1] * e[3]
  /\ R[2][3] = x[1] * e[2] - x[2] * e[1]
  /\ R[3][1] = m * x[1] /\ R[3][2] = m * x[2] /\ R[3][3] = m * x[3]
  /\ e[1] * x[1] + e[2] * x[2] + e[3] * x[3] = 0

(* initRodrParams() makes them of an acceleration of whole lengths.        *)
LEMMA FrameOf ==
  ASSUME NEW x \in Vectors(3), NEW l \in Nat, NEW m \in Nat, l * l = LengthSquared(x),
         m * m = LengthSquared(GetOrthogonal(x))
  PROVE  IsFrame(x, GetOrthogonal(x), InitRodrParams(x), l, m)
<1> DEFINE e == GetOrthogonal(x)
           R == InitRodrParams(x)
<1>1. x[1] \in Int /\ x[2] \in Int /\ x[3] \in Int
  BY DEF Vectors
<1>2. \A u, v, w \in Int : <<u, v, w>> \in Vectors(3)
  BY DEF Vectors
<1>3. e \in Vectors(3)
  BY <1>1, <1>2 DEF GetOrthogonal
<1>4. e[1] * x[1] + e[2] * x[2] + e[3] * x[3] = 0
  BY <1>1 DEF GetOrthogonal
<1>5. Length(x) = l
  <2>1. LengthSquared(x) \in Nat
    BY l * l \in Nat
  <2> QED BY <2>1, RootOf DEF Length
<1>6. Length(e) = m
  <2>1. LengthSquared(e) \in Nat
    BY m * m \in Nat
  <2> QED BY <2>1, RootOf DEF Length
<1>7. DOMAIN e = 1..3 /\ DOMAIN x = 1..3
  BY <1>3 DEF Vectors
<1>8. R = << Scaled(l, e), CrossProduct(x, e), Scaled(m, x) >>
  BY <1>5, <1>6 DEF InitRodrParams
<1>9. R[1] = [i \in 1..3 |-> l * e[i]] /\ R[3] = [i \in 1..3 |-> m * x[i]]
  BY <1>7, <1>8 DEF Scaled
<1>10. /\ R[2][1] = x[2] * e[3] - x[3] * e[2]
       /\ R[2][2] = x[3] * e[1] - x[1] * e[3]
       /\ R[2][3] = x[1] * e[2] - x[2] * e[1]
  BY <1>8 DEF CrossProduct
<1> HIDE DEF e, R
<1>11. IsFrame(x, e, R, l, m)
  BY <1>3, <1>4, <1>5, <1>6, <1>9, <1>10 DEF IsFrame
<1> QED BY <1>11 DEF e, R

(* What StartsAtTheAcceleration says of one acceleration, of any whole     *)
(* lengths.                                                                *)
THEOREM StartsAtAnyAcceleration ==
  ASSUME NEW x \in Vectors(3), NEW zero \in [1..3 -> {-1, 1}], NEW l \in Nat, NEW m \in Nat, l > 0, m > 0,
         l * l = LengthSquared(x), m * m = LengthSquared(GetOrthogonal(x))
  PROVE  LET one == Length(x) * Length(GetOrthogonal(x))
             q == MatrixToQuat(InitRodrParams(x), one, zero)
             products == [i \in 1..4 |-> [j \in 1..4 |-> q.sign[i] * q.sign[j] * Isqrt(q.square[i] * q.square[j])]]
         IN QuatToMatrix(products, 4 * one)[3] = Scaled(4 * Length(GetOrthogonal(x)), x)
<1> DEFINE one == Length(x) * Length(GetOrthogonal(x))
           R == InitRodrParams(x)
           q == MatrixToQuat(R, one, zero)
           products == [i \in 1..4 |-> [j \in 1..4 |-> q.sign[i] * q.sign[j] * Isqrt(q.square[i] * q.square[j])]]
           e == GetOrthogonal(x)
           a1 == R[1][1]
           b1 == R[1][2]
           c1 == R[1][3]
           d1 == R[2][1]
           e1 == R[2][2]
           f1 == R[2][3]
           g1 == R[3][1]
           h1 == R[3][2]
           i1 == R[3][3]
           s1 == a1 - e1 - i1 + l * m
           s2 == -a1 + e1 - i1 + l * m
           s3 == -a1 - e1 + i1 + l * m
           s4 == a1 + e1 + i1 + l * m
           z1 == SignOf(h1 - f1, zero[1])
           z2 == SignOf(c1 - g1, zero[2])
           z3 == SignOf(d1 - b1, zero[3])
<1>1. /\ e \in Vectors(3) /\ Length(x) = l /\ Length(e) = m
      /\ a1 = l * e[1] /\ b1 = l * e[2] /\ c1 = l * e[3]
      /\ d1 = x[2] * e[3] - x[3] * e[2]
      /\ e1 = x[3] * e[1] - x[1] * e[3]
      /\ f1 = x[1] * e[2] - x[2] * e[1]
      /\ g1 = m * x[1] /\ h1 = m * x[2] /\ i1 = m * x[3]
      /\ e[1] * x[1] + e[2] * x[2] + e[3] * x[3] = 0
  <2>1. IsFrame(x, e, R, l, m)
    BY FrameOf, Zenon
  <2> HIDE DEF R, e
  <2> QED BY <2>1, Zenon DEF IsFrame
<1>2. one = l * m
  BY <1>1
<1>3. AreOrthogonal(l, m, x[1], x[2], x[3], e[1], e[2], e[3])
  <2>1. l * l = x[1] * x[1] + x[2] * x[2] + x[3] * x[3]
    BY Dot3 DEF LengthSquared
  <2>2. m * m = e[1] * e[1] + e[2] * e[2] + e[3] * e[3]
    BY <1>1, Dot3 DEF LengthSquared
  <2>3. /\ x[1] \in Int /\ x[2] \in Int /\ x[3] \in Int
        /\ e[1] \in Int /\ e[2] \in Int /\ e[3] \in Int
    BY <1>1 DEF Vectors
  <2> HIDE DEF e
  <2> QED BY <1>1, <2>1, <2>2, <2>3 DEF AreOrthogonal
<1>4. Rotates(l * m, a1, b1, c1, d1, e1, f1, g1, h1, i1)
  <2> HIDE DEF R, e
  <2>1. Rotates(l * m, l * e[1], l * e[2], l * e[3], x[2] * e[3] - x[3] * e[2], x[3] * e[1] - x[1] * e[3],
                x[1] * e[2] - x[2] * e[1], m * x[1], m * x[2], m * x[3])
    BY <1>3, FrameRotates, Zenon
  <2> QED BY <1>1, <2>1, Zenon
<1>5. /\ a1 \in Int /\ b1 \in Int /\ c1 \in Int /\ d1 \in Int /\ e1 \in Int /\ f1 \in Int
      /\ g1 \in Int /\ h1 \in Int /\ i1 \in Int /\ l * m \in Int
  BY <1>4, Zenon DEF Rotates
<1>6. q.square = <<Clamp(s1), Clamp(s2), Clamp(s3), Clamp(s4)>> /\ q.sign = <<z1, z2, z3, 1>>
  <2> HIDE DEF R
  <2> QED BY <1>2 DEF MatrixToQuat
<1>7. \A i, j \in 1..4 : products[i][j] = q.sign[i] * q.sign[j] * Isqrt(q.square[i] * q.square[j])
  OBVIOUS
<1>8. /\ s1 * s2 = (b1 + d1) * (b1 + d1) /\ s1 * s3 = (c1 + g1) * (c1 + g1) /\ s2 * s3 = (f1 + h1) * (f1 + h1)
      /\ s1 * s4 = (h1 - f1) * (h1 - f1) /\ s2 * s4 = (c1 - g1) * (c1 - g1) /\ s3 * s4 = (d1 - b1) * (d1 - b1)
      /\ s4 * (c1 + g1) = (h1 - f1) * (d1 - b1) /\ s4 * (f1 + h1) = (c1 - g1) * (d1 - b1)
      /\ s1 >= 0 /\ s2 >= 0 /\ s3 >= 0 /\ s4 >= 0
  <2> HIDE DEF R, a1, b1, c1, d1, e1, f1, g1, h1, i1
  <2> QED BY <1>4, Squares
<1>9. s4 = 0 => c1 + g1 = 0 /\ f1 + h1 = 0
  <2> SUFFICES ASSUME s4 = 0 PROVE c1 + g1 = 0 /\ f1 + h1 = 0
    OBVIOUS
  <2>1. h1 = f1 /\ c1 = g1 /\ d1 = b1
    <3> HIDE DEF R, a1, b1, c1, d1, e1, f1, g1, h1, i1
    <3>1. /\ (h1 - f1) * (h1 - f1) = 0 /\ (c1 - g1) * (c1 - g1) = 0 /\ (d1 - b1) * (d1 - b1) = 0
      BY <1>8, <1>5
    <3>2. \A k \in Int : k * k = 0 => k = 0
      OBVIOUS
    <3>3. h1 - f1 = 0 /\ c1 - g1 = 0 /\ d1 - b1 = 0
      BY <1>5, <3>1, <3>2
    <3> QED BY <1>5, <3>3
  <2>2. l * e[1] + (x[3] * e[1] - x[1] * e[3]) + m * x[3] + l * m = 0
    BY <1>1
  <2> HIDE DEF R, a1, b1, c1, d1, e1, f1, g1, h1, i1
  <2>3. /\ b1 = l * e[2] /\ c1 = l * e[3] /\ g1 = m * x[1] /\ h1 = m * x[2]
        /\ d1 = x[2] * e[3] - x[3] * e[2] /\ f1 = x[1] * e[2] - x[2] * e[1]
    BY <1>1
  <2>4. HalfTurn(x, e, l, m, b1, c1, d1, f1, g1, h1)
    <3> HIDE DEF e
    <3> QED BY <1>3, <2>1, <2>2, <2>3, Zenon DEF HalfTurn
  <2> QED BY <2>4, NoSignIsLost, Zenon
<1>10. /\ z1 \in {-1, 1} /\ z2 \in {-1, 1} /\ z3 \in {-1, 1}
       /\ zero[1] \in {-1, 1} /\ zero[2] \in {-1, 1} /\ zero[3] \in {-1, 1}
  BY DEF SignOf
<1>11. /\ Clamp(s1) = s1 /\ Clamp(s2) = s2 /\ Clamp(s3) = s3 /\ Clamp(s4) = s4
       /\ s1 \in Int /\ s2 \in Int /\ s3 \in Int /\ s4 \in Int
  <2> HIDE DEF R, a1, b1, c1, d1, e1, f1, g1, h1, i1
  <2> QED BY <1>8, <1>5 DEF Clamp
<1> HIDE DEF R, a1, b1, c1, d1, e1, f1, g1, h1, i1, s1, s2, s3, s4, q, products, one, z1, z2, z3, e
<1>12. /\ q.square[1] = s1 /\ q.square[2] = s2 /\ q.square[3] = s3 /\ q.square[4] = s4
       /\ q.sign[1] = z1 /\ q.sign[2] = z2 /\ q.sign[3] = z3 /\ q.sign[4] = 1
  BY <1>6, <1>11
<1>13. /\ products[1][1] = z1 * z1 * Isqrt(s1 * s1) /\ products[2][2] = z2 * z2 * Isqrt(s2 * s2)
       /\ products[1][3] = z1 * z3 * Isqrt(s1 * s3) /\ products[2][3] = z2 * z3 * Isqrt(s2 * s3)
       /\ products[2][4] = z2 * 1 * Isqrt(s2 * s4) /\ products[1][4] = z1 * 1 * Isqrt(s1 * s4)
  BY <1>7, <1>12
<1>14. products[1][1] = s1 /\ products[2][2] = s2
  <2>1. Isqrt(s1 * s1) = s1 /\ Isqrt(s2 * s2) = s2
    <3>1. s1 \in Nat /\ s2 \in Nat /\ s1 * s1 \in Nat /\ s2 * s2 \in Nat
      BY <1>8, <1>11
    <3> QED BY <3>1, RootOf
  <2>2. z1 * z1 = 1 /\ z2 * z2 = 1
    BY <1>10
  <2> QED BY <1>13, <1>11, <2>1, <2>2
<1>15. products[2][4] = c1 - g1 /\ products[1][4] = h1 - f1
  <2>1. Isqrt(s2 * s4) = Abs(c1 - g1) /\ Isqrt(s1 * s4) = Abs(h1 - f1)
    BY <1>8, <1>5, RootOfSquare
  <2>2. z2 * Abs(c1 - g1) = c1 - g1 /\ z1 * Abs(h1 - f1) = h1 - f1
    BY <1>5, <1>10, Signed DEF z1, z2
  <2> QED BY <1>13, <1>10, <2>1, <2>2
<1>16. products[1][3] = c1 + g1 /\ products[2][3] = f1 + h1
  <2>1. Isqrt(s1 * s3) = Abs(c1 + g1) /\ Isqrt(s2 * s3) = Abs(f1 + h1)
    BY <1>8, <1>5, RootOfSquare
  <2>2. z1 * z3 * Abs(c1 + g1) = c1 + g1
    <3>1. s4 * (c1 + g1) = (h1 - f1) * (d1 - b1) /\ (s4 = 0 => c1 + g1 = 0) /\ s4 >= 0
      BY <1>8, <1>9
    <3>2. c1 + g1 \in Int /\ h1 - f1 \in Int /\ d1 - b1 \in Int /\ s4 \in Int
      BY <1>5, <1>11
    <3>3. ProductFits(s4, c1 + g1, h1 - f1, d1 - b1, zero[1], zero[3])
      BY <1>10, <3>1, <3>2 DEF ProductFits
    <3>4. SignOf(h1 - f1, zero[1]) * SignOf(d1 - b1, zero[3]) * Abs(c1 + g1) = c1 + g1
      BY <3>3, SignsFit
    <3> QED BY <3>4 DEF z1, z3
  <2>3. z2 * z3 * Abs(f1 + h1) = f1 + h1
    <3>1. s4 * (f1 + h1) = (c1 - g1) * (d1 - b1) /\ (s4 = 0 => f1 + h1 = 0) /\ s4 >= 0
      BY <1>8, <1>9
    <3>2. f1 + h1 \in Int /\ c1 - g1 \in Int /\ d1 - b1 \in Int /\ s4 \in Int
      BY <1>5, <1>11
    <3>3. ProductFits(s4, f1 + h1, c1 - g1, d1 - b1, zero[2], zero[3])
      BY <1>10, <3>1, <3>2 DEF ProductFits
    <3>4. SignOf(c1 - g1, zero[2]) * SignOf(d1 - b1, zero[3]) * Abs(f1 + h1) = f1 + h1
      BY <3>3, SignsFit
    <3> QED BY <3>4 DEF z2, z3
  <2> QED BY <1>13, <2>1, <2>2, <2>3
<1>17. QuatToMatrix(products, 4 * one)[3]
         = <<2 * products[1][3] - 2 * products[2][4], 2 * products[2][3] + 2 * products[1][4],
             4 * one - 2 * products[1][1] - 2 * products[2][2]>>
  BY DEF QuatToMatrix
<1>18. /\ 2 * products[1][3] - 2 * products[2][4] = 4 * g1
       /\ 2 * products[2][3] + 2 * products[1][4] = 4 * h1
       /\ 4 * one - 2 * products[1][1] - 2 * products[2][2] = 4 * i1
  BY <1>2, <1>5, <1>14, <1>15, <1>16 DEF s1, s2
<1>19. Scaled(4 * Length(e), x) = <<4 * g1, 4 * h1, 4 * i1>>
  <2>1. x[1] \in Int /\ x[2] \in Int /\ x[3] \in Int /\ DOMAIN x = 1..3
    BY DEF Vectors
  <2>2. Scaled(4 * Length(e), x) = [i \in 1..3 |-> 4 * m * x[i]]
    BY <1>1, <2>1 DEF Scaled
  <2>3. 4 * m * x[1] = 4 * g1 /\ 4 * m * x[2] = 4 * h1 /\ 4 * m * x[3] = 4 * i1
    BY <1>1, <2>1
  <2> QED BY <2>2, <2>3
<1>20. QuatToMatrix(products, 4 * one)[3] = Scaled(4 * Length(e), x)
  BY <1>17, <1>18, <1>19
<1> QED BY <1>20 DEF products, q, R, one, e

-----------------------------------------------------------------------------
(* invert()                                                                *)

(* The fraction f is n/d.                                                  *)
Is(f, n, d) ==
  /\ f[1] \in Int /\ f[2] \in Int /\ f[2] > 0
  /\ n \in Int /\ d \in Int /\ d # 0
  /\ f[1] * d = n * f[2]

(* Fraction() cancels the greatest common divisor.                         *)
LEMMA Cancelled ==
  ASSUME NEW n \in Int, NEW d \in Int, d # 0
  PROVE  \E g \in Nat, a \in Int, b \in Nat, s \in {-1, 1} :
           /\ g > 0 /\ b > 0 /\ s * n = a * g /\ s * d = b * g /\ Abs(d) = s * d /\ Fraction(n, d) = <<a, b>>
           /\ (n = 0 \/ n = d => g = Abs(d))
<1> DEFINE top == Max({Abs(n), Abs(d)})
           S == {k \in 1..top : n % k = 0 /\ Abs(d) % k = 0}
           g == Max(S)
           s == IF d < 0 THEN -1 ELSE 1
<1>1. Abs(n) \in Nat /\ Abs(d) \in Nat /\ Abs(d) > 0 /\ Abs(d) = s * d /\ s \in {-1, 1}
  BY DEF Abs
<1>2. top \in {Abs(n), Abs(d)} /\ Abs(d) <= top /\ Abs(n) <= top
  <2> DEFINE T == {Abs(n), Abs(d)}
             t == IF Abs(n) <= Abs(d) THEN Abs(d) ELSE Abs(n)
  <2>1. t \in T /\ \A y \in T : t >= y
    BY <1>1
  <2>2. top \in T /\ \A y \in T : top >= y
    <3> HIDE DEF T, t
    <3>1. top = CHOOSE x \in T : \A y \in T : x >= y
      BY Zenon DEF Max, T
    <3> HIDE DEF top
    <3> QED BY <2>1, <3>1
  <2> HIDE DEF top
  <2> QED BY <1>1, <2>2
<1> HIDE DEF top, s
<1>3. top \in Nat /\ S \in SUBSET Nat /\ \A k \in S : k <= top /\ k > 0
  BY <1>1, <1>2
<1>4. 1 \in S
  BY <1>1, <1>2, <1>3
<1>5. g \in S /\ \A k \in S : k <= g
  BY <1>3, <1>4, MaxIsGreatest
<1>6. g \in Nat /\ g > 0 /\ n % g = 0 /\ Abs(d) % g = 0
  BY <1>3, <1>5
<1>7. Fraction(n, d) = <<(s * n) \div g, Abs(d) \div g>>
  BY Zenon DEF Fraction, s, g, S, top
<1>8. n = 0 \/ n = d => g = Abs(d)
  <2> SUFFICES ASSUME n = 0 \/ n = d PROVE g = Abs(d)
    OBVIOUS
  <2>1. Abs(d) % Abs(d) = 0 /\ n % Abs(d) = 0
    BY <1>1 DEF Abs
  <2>2. Abs(d) \in S
    BY <1>1, <1>2, <1>3, <2>1
  <2>3. top = Abs(d)
    <3>1. Abs(n) <= Abs(d)
      BY <1>1 DEF Abs
    <3> QED BY <1>1, <1>2, <3>1
  <2>4. g <= Abs(d) /\ Abs(d) <= g
    BY <1>3, <1>5, <2>2, <2>3
  <2> QED BY <1>1, <1>6, <2>4
<1> HIDE DEF g
<1> DEFINE a == (s * n) \div g
           b == Abs(d) \div g
<1>9. s * n = a * g /\ a \in Int
  <2> DEFINE k == n \div g
             r == (s * n) % g
  <2>1. k \in Int /\ n = k * g
    BY <1>6
  <2>2. s * n \in Int /\ a \in Int /\ r \in Int /\ s * n = a * g + r /\ 0 <= r /\ r < g
    BY <1>1, <1>6
  <2> HIDE DEF k, a, r
  <2>3. s * k \in Int /\ (s * k) * g = a * g + r
    <3>1. s * n = (s * k) * g
      BY <1>1, <1>6, <2>1
    <3> QED BY <1>1, <2>1, <2>2, <3>1
  <2>4. (s * k - a) * g = r
    BY <1>6, <2>2, <2>3
  <2>5. \A x \in Int : 0 <= x * g /\ x * g < g => x * g = 0
    BY <1>6
  <2>6. r = 0
    BY <2>2, <2>3, <2>4, <2>5
  <2> QED BY <1>6, <2>2, <2>6
<1>10. s * d = b * g /\ b \in Int
  BY <1>1, <1>6
<1>11. b \in Nat /\ b > 0
  BY <1>1, <1>6, <1>10
<1> HIDE DEF a, b
<1>12. Fraction(n, d) = <<a, b>>
  BY <1>7 DEF a, b
<1> QED BY <1>1, <1>6, <1>8, <1>9, <1>10, <1>11, <1>12

(* What it returns is n/d.                                                 *)
LEMMA FractionIs ==
  ASSUME NEW n \in Int, NEW d \in Int, d # 0
  PROVE  Is(Fraction(n, d), n, d)
<1>1. PICK g \in Nat, a \in Int, b \in Nat, s \in {-1, 1} :
         /\ g > 0 /\ b > 0 /\ s * n = a * g /\ s * d = b * g /\ Abs(d) = s * d /\ Fraction(n, d) = <<a, b>>
         /\ (n = 0 \/ n = d => g = Abs(d))
  BY Cancelled
<1>2. a * d = n * b
  <2>1. n = s * (a * g) /\ d = s * (b * g)
    BY <1>1
  <2>2. a * (s * (b * g)) = (s * (a * g)) * b
    OBVIOUS
  <2> QED BY <2>1, <2>2
<1>3. Fraction(n, d)[1] = a /\ Fraction(n, d)[2] = b
  BY <1>1
<1> QED BY <1>1, <1>2, <1>3 DEF Is

(* Zero and one have one form each.                                        *)
LEMMA ZeroAndOne ==
  ASSUME NEW n \in Int, NEW d \in Int, d # 0
  PROVE  (n = 0 => Fraction(n, d) = <<0, 1>>) /\ (n = d => Fraction(n, d) = <<1, 1>>)
<1>1. PICK g \in Nat, a \in Int, b \in Nat, s \in {-1, 1} :
         /\ g > 0 /\ b > 0 /\ s * n = a * g /\ s * d = b * g /\ Abs(d) = s * d /\ Fraction(n, d) = <<a, b>>
         /\ (n = 0 \/ n = d => g = Abs(d))
  BY Cancelled
<1>2. \A x \in Int : x * g = g => x = 1
  BY <1>1
<1>3. \A x \in Int : x * g = 0 => x = 0
  BY <1>1
<1>4. ASSUME n = 0 \/ n = d PROVE b = 1
  BY <1>1, <1>2, <1>4
<1>5. ASSUME n = 0 PROVE a = 0
  BY <1>1, <1>3, <1>5
<1>6. ASSUME n = d PROVE a = 1
  <2>1. a * g = b * g
    BY <1>1, <1>6
  <2> QED BY <1>4, <1>6, <1>2, <2>1
<1> QED BY <1>1, <1>4, <1>5, <1>6

(* A fraction is every pair of numbers that is as large.                   *)
LEMMA SameFraction ==
  ASSUME NEW f, NEW n, NEW d, Is(f, n, d), NEW p \in Int, NEW e \in Int, e # 0, n * e = p * d
  PROVE  Is(f, p, e)
<1>1. /\ f[1] \in Int /\ f[2] \in Int /\ f[2] > 0 /\ n \in Int /\ d \in Int /\ d # 0
      /\ f[1] * d = n * f[2]
  BY DEF Is
<1> DEFINE f1 == f[1]
           f2 == f[2]
<1>2. f1 \in Int /\ f2 \in Int /\ f1 * d = n * f2
  BY <1>1
<1> HIDE DEF f1, f2
<1>3. (f1 * e) * d = (p * f2) * d
  <2>1. (f1 * e) * d = (f1 * d) * e /\ (n * f2) * e = (n * e) * f2 /\ (p * d) * f2 = (p * f2) * d
    BY <1>1, <1>2
  <2> QED BY <1>2, <2>1
<1>4. \A x, y \in Int : x * d = y * d => x = y
  BY <1>1
<1>5. f1 * e = p * f2
  BY <1>2, <1>3, <1>4
<1> QED BY <1>1, <1>5 DEF Is, f1, f2

(* A quotient, ...                                                         *)
LEMMA OverIs ==
  ASSUME NEW a, NEW n, NEW d, Is(a, n, d), NEW b, NEW p, NEW e, Is(b, p, e), p # 0
  PROVE  Is(FractionOver(a, b), n * e, d * p)
<1> DEFINE a1 == a[1]
           a2 == a[2]
           b1 == b[1]
           b2 == b[2]
<1>1. /\ a1 \in Int /\ a2 \in Int /\ a2 > 0 /\ n \in Int /\ d \in Int /\ d # 0 /\ a1 * d = n * a2
      /\ b1 \in Int /\ b2 \in Int /\ b2 > 0 /\ p \in Int /\ e \in Int /\ e # 0 /\ b1 * e = p * b2
  BY DEF Is
<1>2. FractionOver(a, b) = Fraction(a1 * b2, a2 * b1)
  BY DEF FractionOver
<1> HIDE DEF a1, a2, b1, b2
<1>3. \A x, y \in Int : x # 0 /\ y # 0 => x * y # 0
  OBVIOUS
<1>4. b1 # 0
  <2>1. p * b2 # 0
    BY <1>1, <1>3
  <2> QED BY <1>1, <2>1
<1>5. a1 * b2 \in Int /\ a2 * b1 \in Int /\ a2 * b1 # 0 /\ n * e \in Int /\ d * p \in Int /\ d * p # 0
  BY <1>1, <1>3, <1>4
<1>6. Is(Fraction(a1 * b2, a2 * b1), a1 * b2, a2 * b1)
  BY <1>5, FractionIs, Zenon
<1>7. (a1 * b2) * (d * p) = (n * e) * (a2 * b1)
  <2>1. (a1 * b2) * (d * p) = (a1 * d) * (p * b2) /\ (n * e) * (a2 * b1) = (n * a2) * (b1 * e)
    BY <1>1
  <2> QED BY <1>1, <2>1
<1> QED BY <1>2, <1>5, <1>6, <1>7, SameFraction, Zenon

(* ... and a difference of a fraction and a product of two.                *)
LEMMA MinusTimesIs ==
  ASSUME NEW a, NEW n, NEW d, Is(a, n, d), NEW b, NEW p, NEW e, Is(b, p, e), NEW t, NEW q, NEW u, Is(t, q, u)
  PROVE  Is(FractionMinusTimes(a, b, t), n * (e * u) - (p * q) * d, d * (e * u))
<1> DEFINE a1 == a[1]
           a2 == a[2]
           b1 == b[1]
           b2 == b[2]
           t1 == t[1]
           t2 == t[2]
           N == a1 * b2 * t2 - b1 * t1 * a2
           M == a2 * b2 * t2
<1>1. /\ a1 \in Int /\ a2 \in Int /\ a2 > 0 /\ n \in Int /\ d \in Int /\ d # 0 /\ a1 * d = n * a2
      /\ b1 \in Int /\ b2 \in Int /\ b2 > 0 /\ p \in Int /\ e \in Int /\ e # 0 /\ b1 * e = p * b2
      /\ t1 \in Int /\ t2 \in Int /\ t2 > 0 /\ q \in Int /\ u \in Int /\ u # 0 /\ t1 * u = q * t2
  BY DEF Is
<1>2. FractionMinusTimes(a, b, t) = Fraction(N, M)
  BY DEF FractionMinusTimes
<1> HIDE DEF a1, a2, b1, b2, t1, t2
<1>3. \A x, y \in Int : x # 0 /\ y # 0 => x * y # 0
  OBVIOUS
<1>4. /\ N \in Int /\ M \in Int /\ M # 0 /\ n * (e * u) - (p * q) * d \in Int
      /\ d * (e * u) \in Int /\ d * (e * u) # 0
  <2>1. /\ a1 * b2 \in Int /\ a1 * b2 * t2 \in Int /\ b1 * t1 \in Int /\ b1 * t1 * a2 \in Int
        /\ a2 * b2 \in Int /\ a2 * b2 * t2 \in Int /\ e * u \in Int /\ n * (e * u) \in Int
        /\ p * q \in Int /\ (p * q) * d \in Int /\ d * (e * u) \in Int
    BY <1>1
  <2>2. a2 * b2 # 0 /\ e * u # 0
    BY <1>1, <1>3
  <2>3. a2 * b2 * t2 # 0 /\ d * (e * u) # 0
    BY <1>1, <1>3, <2>1, <2>2
  <2> QED BY <2>1, <2>3
<1>5. N * (d * (e * u)) = (n * (e * u) - (p * q) * d) * M
  <2>1. N * (d * (e * u)) = (a1 * d) * (b2 * t2 * e * u) - (b1 * e) * (t1 * u) * (a2 * d)
    BY <1>1
  <2>2. (n * (e * u) - (p * q) * d) * M = (n * a2) * (b2 * t2 * e * u) - (p * b2) * (q * t2) * (a2 * d)
    BY <1>1
  <2> HIDE DEF N, M
  <2> QED BY <1>1, <2>1, <2>2
<1> HIDE DEF N, M
<1>6. Is(Fraction(N, M), N, M)
  BY <1>4, FractionIs, Zenon
<1> QED BY <1>2, <1>4, <1>5, <1>6, SameFraction, Zenon

(* A row divided by its pivot p/d, and what is left of another row, whose  *)
(* element in the column of the pivot is q/u.                              *)
LEMMA DividedByPivot ==
  ASSUME NEW a, NEW n, NEW d, Is(a, n, d), NEW b, NEW p, Is(b, p, d), p # 0
  PROVE  Is(FractionOver(a, b), n, p)
<1>1. n \in Int /\ d \in Int /\ p \in Int
  BY DEF Is
<1>2. Is(FractionOver(a, b), n * d, d * p)
  BY OverIs
<1>3. (n * d) * p = n * (d * p)
  BY <1>1
<1> QED BY <1>1, <1>2, <1>3, SameFraction

(* What is left of an element once the pivot's row is subtracted.          *)
LEMMA LeftOfRow ==
  ASSUME NEW a, NEW n, NEW u, Is(a, n, u), NEW b, NEW c, NEW p, Is(b, c, p), NEW t, NEW q, Is(t, q, u)
  PROVE  Is(FractionMinusTimes(a, b, t), n * p - c * q, u * p)
<1>1. /\ n \in Int /\ u \in Int /\ u # 0 /\ c \in Int /\ p \in Int /\ p # 0 /\ q \in Int
  BY DEF Is
<1>2. Is(FractionMinusTimes(a, b, t), n * (p * u) - (c * q) * u, u * (p * u))
  BY MinusTimesIs
<1>3. (n * (p * u) - (c * q) * u) * (u * p) = (n * p - c * q) * (u * (p * u))
  BY <1>1
<1>4. n * p - c * q \in Int /\ u * p \in Int /\ u * p # 0
  <2>1. n * p \in Int /\ c * q \in Int /\ u * p \in Int
    BY <1>1
  <2>2. \A x, y \in Int : x # 0 /\ y # 0 => x * y # 0
    OBVIOUS
  <2> QED BY <1>1, <2>1, <2>2
<1> QED BY <1>2, <1>3, <1>4, SameFraction, Zenon

Det3(t) ==
  t[1][1] * (t[2][2] * t[3][3] - t[2][3] * t[3][2]) - t[1][2] * (t[2][1] * t[3][3] - t[2][3] * t[3][1])
    + t[1][3] * (t[2][1] * t[3][2] - t[2][2] * t[3][1])

(* The rows of invert()'s two matrices are those of the integer matrices t *)
(* and v over the denominators D, ...                                      *)
RowsAre(m, t, v, D) ==
  /\ t \in Matrices(3, 3) /\ v \in Matrices(3, 3) /\ D \in Vectors(3)
  /\ \A j, k \in 1..3 : Is(m.tmp[j][k], t[j][k], D[j]) /\ Is(m.inverse[j][k], v[j][k], D[j])

(* ... the rows of v are what the rows of src have been combined with, ... *)
Combines(src, t, v) ==
  \A j, k \in 1..3 : t[j][k] = v[j][1] * src[1][k] + v[j][2] * src[2][k] + v[j][3] * src[3][k]

(* ... and the columns before the i-th are those of the identity.          *)
Reduced(t, D, i) ==
  \A c \in 1..3 : c < i => t[c][c] = D[c] /\ \A j \in 1..3 : j # c => t[j][c] = 0

(* The elements of a matrix are numbers.                                   *)
LEMMA Elements ==
  ASSUME NEW t \in Matrices(3, 3)
  PROVE  \A j, k \in 1..3 : t[j][k] \in Int
BY DEF Matrices, Vectors

(* A matrix that can be inverted has a pivot in every column.              *)
LEMMA PivotExists ==
  ASSUME NEW t \in Matrices(3, 3), NEW D, NEW i \in 1..3, Det3(t) # 0, Reduced(t, D, i)
  PROVE  \E j \in i..3 : t[j][i] # 0
<1> SUFFICES ASSUME \A j \in i..3 : t[j][i] = 0 PROVE Det3(t) = 0
  OBVIOUS
<1>1. /\ t[1][1] \in Int /\ t[1][2] \in Int /\ t[1][3] \in Int
      /\ t[2][1] \in Int /\ t[2][2] \in Int /\ t[2][3] \in Int
      /\ t[3][1] \in Int /\ t[3][2] \in Int /\ t[3][3] \in Int
  BY Elements
<1>2. ASSUME t[3][1] = 0 /\ t[3][2] = 0 /\ (t[3][3] = 0 \/ (t[2][1] = 0 /\ t[2][2] = 0)) PROVE Det3(t) = 0
  <2> DEFINE a == t[1][1]
             b == t[1][2]
             c == t[1][3]
             d == t[2][1]
             e == t[2][2]
             f == t[2][3]
             g == t[3][1]
             h == t[3][2]
             k == t[3][3]
  <2>1. /\ a \in Int /\ b \in Int /\ c \in Int /\ d \in Int /\ e \in Int /\ f \in Int /\ k \in Int
        /\ g = 0 /\ h = 0 /\ (k = 0 \/ (d = 0 /\ e = 0))
    BY <1>1, <1>2
  <2>2. Det3(t) = a * (e * k - f * h) - b * (d * k - f * g) + c * (d * h - e * g)
    BY Zenon DEF Det3
  <2> HIDE DEF a, b, c, d, e, f, g, h, k
  <2>3. e * k = 0 /\ f * h = 0 /\ d * k = 0 /\ f * g = 0 /\ d * h = 0 /\ e * g = 0
    BY <2>1
  <2>4. Det3(t) = a * (0 - 0) - b * (0 - 0) + c * (0 - 0)
    BY <2>2, <2>3, Zenon
  <2> QED BY <2>1, <2>4
<1>3. CASE i = 1
  <2>1. t[1][1] = 0 /\ t[2][1] = 0 /\ t[3][1] = 0
    BY <1>3
  <2> DEFINE b == t[1][2]
             c == t[1][3]
             e == t[2][2]
             f == t[2][3]
             h == t[3][2]
             k == t[3][3]
  <2>2. b \in Int /\ c \in Int /\ e \in Int /\ f \in Int /\ h \in Int /\ k \in Int
    BY <1>1
  <2>3. Det3(t) = 0 * (e * k - f * h) - b * (0 * k - f * 0) + c * (0 * h - e * 0)
    BY <2>1, Zenon DEF Det3
  <2> HIDE DEF b, c, e, f, h, k
  <2> QED BY <2>2, <2>3
<1>4. CASE i = 2
  <2>1. t[2][1] = 0 /\ t[3][1] = 0 /\ t[2][2] = 0 /\ t[3][2] = 0
    BY <1>4 DEF Reduced
  <2> QED BY <1>2, <2>1
<1>5. CASE i = 3
  <2>1. t[3][1] = 0 /\ t[3][2] = 0 /\ t[3][3] = 0
    BY <1>5 DEF Reduced
  <2> QED BY <1>2, <2>1
<1> QED BY <1>3, <1>4, <1>5

(* invert() finds a row with a pivot other than 0.                         *)
LEMMA PivotFound ==
  ASSUME NEW m, NEW t, NEW v, NEW D, RowsAre(m, t, v, D), NEW i \in 1..3, Det3(t) # 0, Reduced(t, D, i)
  PROVE  SwapWith(m.tmp, i) \in i..3 /\ t[SwapWith(m.tmp, i)][i] # 0
<1> DEFINE larger == {j \in (i + 1)..3 : LargerThan(m.tmp[j][i], m.tmp[i][i])}
           S == {i} \union larger
           swap == SwapWith(m.tmp, i)
<1>1. t \in Matrices(3, 3)
  BY DEF RowsAre
<1>2. swap = Max(S)
  BY DEF SwapWith
<1>3. S \in SUBSET Nat /\ S # {} /\ S \subseteq i..3 /\ \A x \in S : x <= 3
  OBVIOUS
<1>4. swap \in S /\ \A x \in S : x <= swap
  BY <1>2, <1>3, MaxIsGreatest
<1> HIDE DEF swap
<1>5. \A j \in 1..3 : /\ m.tmp[j][i][1] \in Int /\ m.tmp[j][i][2] \in Int /\ m.tmp[j][i][2] > 0
                      /\ t[j][i] \in Int /\ D[j] \in Int /\ D[j] # 0
                      /\ m.tmp[j][i][1] * D[j] = t[j][i] * m.tmp[j][i][2]
  BY DEF RowsAre, Is
<1>6. \A x, y \in Int : x * y = 0 => x = 0 \/ y = 0
  OBVIOUS
<1>7. ASSUME NEW j \in 1..3 PROVE m.tmp[j][i][1] = 0 <=> t[j][i] = 0
  <2> DEFINE x == m.tmp[j][i][1]
             y == m.tmp[j][i][2]
             z == t[j][i]
             d == D[j]
  <2>1. x \in Int /\ y \in Int /\ z \in Int /\ d \in Int /\ d # 0 /\ y # 0 /\ x * d = z * y
    BY <1>5
  <2> HIDE DEF x, y, z, d
  <2>2. x = 0 <=> z = 0
    BY <1>6, <2>1
  <2> QED BY <2>2 DEF x, z
<1>8. \A x, y \in Int : y > 0 => (Abs(x) * y > 0 <=> x # 0) /\ Abs(x) * y >= 0 /\ Abs(x) * y \in Int
  BY DEF Abs
<1>9. CASE swap # i
  <2>1. swap \in 1..3 /\ LargerThan(m.tmp[swap][i], m.tmp[i][i])
    BY <1>3, <1>4, <1>9
  <2>2. m.tmp[swap][i][1] # 0
    <3> DEFINE x1 == m.tmp[swap][i][1]
               x2 == m.tmp[swap][i][2]
               y1 == m.tmp[i][i][1]
               y2 == m.tmp[i][i][2]
    <3>1. Abs(x1) * y2 > Abs(y1) * x2
      BY <2>1 DEF LargerThan
    <3>2. x1 \in Int /\ x2 \in Int /\ x2 > 0 /\ y1 \in Int /\ y2 \in Int /\ y2 > 0
      BY <1>5, <2>1
    <3> HIDE DEF x1, x2, y1, y2
    <3>3. x1 # 0
      BY <1>8, <3>1, <3>2
    <3> QED BY <3>3 DEF x1
  <2> QED BY <1>3, <1>4, <1>7, <2>1, <2>2 DEF swap
<1>10. CASE swap = i
  <2> SUFFICES ASSUME t[i][i] = 0 PROVE FALSE
    BY <1>3, <1>4, <1>10 DEF swap
  <2>1. PICK j \in i..3 : t[j][i] # 0
    BY <1>1, PivotExists
  <2>2. j \in (i + 1)..3 /\ j \in 1..3 /\ ~(j <= i)
    BY <2>1
  <2>3. m.tmp[i][i][1] = 0 /\ m.tmp[j][i][1] # 0
    BY <1>7, <2>1, <2>2
  <2>4. LargerThan(m.tmp[j][i], m.tmp[i][i])
    <3>1. Abs(m.tmp[j][i][1]) * m.tmp[i][i][2] > 0
      BY <1>5, <1>8, <2>2, <2>3
    <3>2. Abs(m.tmp[i][i][1]) * m.tmp[j][i][2] = 0
      BY <1>5, <2>2, <2>3 DEF Abs
    <3> QED BY <3>1, <3>2 DEF LargerThan
  <2>5. j <= i
    BY <1>4, <1>10, <2>2, <2>4
  <2> QED BY <2>2, <2>5
<1> QED BY <1>9, <1>10

(* Two rows swapped: nothing is lost.                                      *)
OfThree(x) == x = [k \in 1..3 |-> x[k]]
Other(k, i, j) == IF k = j THEN i ELSE IF k = i THEN j ELSE k

(* What the swap of two rows returns.                                      *)
LEMMA SwappedRows ==
  ASSUME NEW x, OfThree(x), NEW i \in 1..3, NEW j \in 1..3
  PROVE  Swapped(x, i, j) = [k \in 1..3 |-> x[Other(k, i, j)]]
BY DEF Swapped, OfThree, Other

(* It leaves the determinant other than 0, ...                             *)
LEMMA SwappedDeterminant ==
  ASSUME NEW t \in Matrices(3, 3), NEW i \in 1..3, NEW j \in i..3, Det3(t) # 0
  PROVE  Det3(Swapped(t, i, j)) # 0
<1>1. /\ t[1][1] \in Int /\ t[1][2] \in Int /\ t[1][3] \in Int
      /\ t[2][1] \in Int /\ t[2][2] \in Int /\ t[2][3] \in Int
      /\ t[3][1] \in Int /\ t[3][2] \in Int /\ t[3][3] \in Int
  BY Elements
<1>2. OfThree(t) /\ j \in 1..3
  BY DEF Matrices, OfThree
<1> DEFINE u == Swapped(t, i, j)
<1>3. u = [k \in 1..3 |-> t[Other(k, i, j)]]
  BY <1>2, SwappedRows
<1> HIDE DEF u
<1>4. CASE i = j
  <2>1. u[1] = t[1] /\ u[2] = t[2] /\ u[3] = t[3]
    BY <1>3, <1>4 DEF Other
  <2>2. Det3(u) = Det3(t)
    BY <2>1, Zenon DEF Det3
  <2> QED BY <2>2 DEF u
<1>5. CASE i # j
  <2> DEFINE a == t[1][1]
             b == t[1][2]
             c == t[1][3]
             d == t[2][1]
             e == t[2][2]
             f == t[2][3]
             g == t[3][1]
             h == t[3][2]
             k == t[3][3]
             det == a * (e * k - f * h) - b * (d * k - f * g) + c * (d * h - e * g)
  <2>1. Det3(t) = det
    BY DEF Det3
  <2>2. /\ a \in Int /\ b \in Int /\ c \in Int /\ d \in Int /\ e \in Int /\ f \in Int
        /\ g \in Int /\ h \in Int /\ k \in Int
    BY <1>1
  <2>3. det \in Int
    <3> HIDE DEF a, b, c, d, e, f, g, h, k
    <3> QED BY <2>2
  <2>4. CASE i = 1 /\ j = 2
    <3>1. u[1] = t[2] /\ u[2] = t[1] /\ u[3] = t[3]
      BY <1>3, <2>4 DEF Other
    <3>2. Det3(u) = d * (b * k - c * h) - e * (a * k - c * g) + f * (a * h - b * g)
      BY <3>1, Zenon DEF Det3
    <3> HIDE DEF a, b, c, d, e, f, g, h, k
    <3> QED BY <2>1, <2>2, <3>2 DEF u
  <2>5. CASE i = 1 /\ j = 3
    <3>1. u[1] = t[3] /\ u[2] = t[2] /\ u[3] = t[1]
      BY <1>3, <2>5 DEF Other
    <3>2. Det3(u) = g * (e * c - f * b) - h * (d * c - f * a) + k * (d * b - e * a)
      BY <3>1, Zenon DEF Det3
    <3> HIDE DEF a, b, c, d, e, f, g, h, k
    <3> QED BY <2>1, <2>2, <3>2 DEF u
  <2>6. CASE i = 2 /\ j = 3
    <3>1. u[1] = t[1] /\ u[2] = t[3] /\ u[3] = t[2]
      BY <1>3, <2>6 DEF Other
    <3>2. Det3(u) = a * (h * f - k * e) - b * (g * f - k * d) + c * (g * e - h * d)
      BY <3>1, Zenon DEF Det3
    <3> HIDE DEF a, b, c, d, e, f, g, h, k
    <3> QED BY <2>1, <2>2, <3>2 DEF u
  <2>7. (i = 1 /\ j = 2) \/ (i = 1 /\ j = 3) \/ (i = 2 /\ j = 3)
    BY <1>5
  <2> QED BY <2>4, <2>5, <2>6, <2>7
<1> QED BY <1>4, <1>5

(* What holds before the columns from the i-th on are dealt with.          *)
Progress(m, src, t, v, D, i) ==
  /\ OfThree(m.tmp) /\ OfThree(m.inverse)
  /\ RowsAre(m, t, v, D) /\ Combines(src, t, v) /\ Det3(t) # 0 /\ Reduced(t, D, i)

BothSwapped(m, i, j) == [tmp |-> Swapped(m.tmp, i, j), inverse |-> Swapped(m.inverse, i, j)]

(* ... and all the rest.                                                   *)
LEMMA SwapKeeps ==
  ASSUME NEW m, NEW src, NEW t, NEW v, NEW D, NEW i, NEW j, i \in 1..3 /\ j \in i..3, Progress(m, src, t, v, D, i)
  PROVE  Progress(BothSwapped(m, i, j), src, Swapped(t, i, j), Swapped(v, i, j), Swapped(D, i, j), i)
<1> DEFINE o(k) == Other(k, i, j)
           tmp == Swapped(m.tmp, i, j)
           inverse == Swapped(m.inverse, i, j)
           t2 == Swapped(t, i, j)
           v2 == Swapped(v, i, j)
           D2 == Swapped(D, i, j)
           m2 == [tmp |-> tmp, inverse |-> inverse]
<1>1. /\ OfThree(m.tmp) /\ OfThree(m.inverse)
      /\ RowsAre(m, t, v, D) /\ Combines(src, t, v) /\ Det3(t) # 0 /\ Reduced(t, D, i)
  BY DEF Progress
<1>2. /\ t \in [1..3 -> Vectors(3)] /\ v \in [1..3 -> Vectors(3)] /\ D \in [1..3 -> Int] /\ t \in Matrices(3, 3)
  BY <1>1 DEF RowsAre, Matrices, Vectors
<1>3. OfThree(t) /\ OfThree(v) /\ OfThree(D) /\ j \in 1..3
  BY <1>2 DEF OfThree
<1>4. \A k \in 1..3 : o(k) \in 1..3
  BY <1>3 DEF Other
<1>5. /\ tmp = [k \in 1..3 |-> m.tmp[o(k)]] /\ inverse = [k \in 1..3 |-> m.inverse[o(k)]]
      /\ t2 = [k \in 1..3 |-> t[o(k)]] /\ v2 = [k \in 1..3 |-> v[o(k)]] /\ D2 = [k \in 1..3 |-> D[o(k)]]
  <2>1. tmp = [k \in 1..3 |-> m.tmp[o(k)]] /\ inverse = [k \in 1..3 |-> m.inverse[o(k)]]
    <3>1. tmp = [k \in 1..3 |-> m.tmp[o(k)]]
      BY <1>1, <1>3, SwappedRows
    <3>2. inverse = [k \in 1..3 |-> m.inverse[o(k)]]
      BY <1>1, <1>3, SwappedRows
    <3> QED BY <3>1, <3>2
  <2>2. t2 = [k \in 1..3 |-> t[o(k)]]
    BY <1>3, SwappedRows
  <2>3. v2 = [k \in 1..3 |-> v[o(k)]]
    BY <1>3, SwappedRows
  <2>4. D2 = [k \in 1..3 |-> D[o(k)]]
    BY <1>3, SwappedRows
  <2> QED BY <2>1, <2>2, <2>3, <2>4, Zenon
<1>6. Det3(t2) # 0
  BY <1>1, <1>2, SwappedDeterminant
<1>7. o(i) = j /\ \A c \in 1..3 : c < i => o(c) = c /\ \A k \in 1..3 : k # c => o(k) # c
  BY <1>3 DEF Other
<1> HIDE DEF tmp, inverse, t2, v2, D2, o
<1>8. m2.tmp = tmp /\ m2.inverse = inverse
  OBVIOUS
<1> HIDE DEF m2
<1>9. OfThree(m2.tmp) /\ OfThree(m2.inverse)
  BY <1>5, <1>8 DEF OfThree
<1>10. t2 \in Matrices(3, 3) /\ v2 \in Matrices(3, 3) /\ D2 \in Vectors(3)
  BY <1>2, <1>4, <1>5 DEF Matrices, Vectors
<1>11. \A k \in 1..3 : /\ m2.tmp[k] = m.tmp[o(k)] /\ m2.inverse[k] = m.inverse[o(k)]
                       /\ t2[k] = t[o(k)] /\ v2[k] = v[o(k)] /\ D2[k] = D[o(k)]
  BY <1>5, <1>8
<1>12. RowsAre(m2, t2, v2, D2)
  BY <1>1, <1>4, <1>10, <1>11 DEF RowsAre
<1>13. Combines(src, t2, v2)
  BY <1>1, <1>4, <1>11 DEF Combines
<1>14. Reduced(t2, D2, i)
  BY <1>1, <1>4, <1>7, <1>11 DEF Reduced
<1>15. Progress(m2, src, t2, v2, D2, i)
  BY <1>6, <1>9, <1>12, <1>13, <1>14 DEF Progress
<1> QED BY <1>15 DEF BothSwapped, m2, tmp, inverse, t2, v2, D2

(* What invert() makes of the rows with the pivot tmp[i][i], in fractions  *)
(* and in the integer matrices.                                            *)
Eliminated(x, tmp, i) ==
  [j \in 1..3 |->
     IF j = i THEN [k \in 1..3 |-> FractionOver(x[i][k], tmp[i][i])]
     ELSE [k \in 1..3 |-> FractionMinusTimes(x[j][k], FractionOver(x[i][k], tmp[i][i]), tmp[j][i])]]

Remaining(x, t, i) ==
  [j \in 1..3 |-> [k \in 1..3 |-> IF j = i THEN x[i][k] ELSE x[j][k] * t[i][i] - x[i][k] * t[j][i]]]

Denominators(D, t, i) == [j \in 1..3 |-> IF j = i THEN t[i][i] ELSE D[j] * t[i][i]]

(* The determinant does not become 0, ...                                  *)
LEMMA RemainingDeterminant ==
  ASSUME NEW t \in Matrices(3, 3), NEW i \in 1..3, t[i][i] # 0, Det3(t) # 0
  PROVE  Det3(Remaining(t, t, i)) # 0
<1> DEFINE a == t[1][1]
           b == t[1][2]
           c == t[1][3]
           d == t[2][1]
           e == t[2][2]
           f == t[2][3]
           g == t[3][1]
           h == t[3][2]
           k == t[3][3]
           det == a * (e * k - f * h) - b * (d * k - f * g) + c * (d * h - e * g)
           u == Remaining(t, t, i)
<1>1. Det3(t) = det /\ det # 0
  BY DEF Det3
<1>2. /\ a \in Int /\ b \in Int /\ c \in Int /\ d \in Int /\ e \in Int /\ f \in Int
      /\ g \in Int /\ h \in Int /\ k \in Int
  BY Elements
<1>3. \A r, s \in 1..3 : u[r][s] = IF r = i THEN t[i][s] ELSE t[r][s] * t[i][i] - t[i][s] * t[r][i]
  BY DEF Remaining
<1>4. det \in Int
  <2> HIDE DEF a, b, c, d, e, f, g, h, k
  <2> QED BY <1>2
<1>5. \A x, y \in Int : x # 0 /\ y # 0 => x * y # 0
  OBVIOUS
<1>6. Det3(u) = u[1][1] * (u[2][2] * u[3][3] - u[2][3] * u[3][2])
                - u[1][2] * (u[2][1] * u[3][3] - u[2][3] * u[3][1])
                + u[1][3] * (u[2][1] * u[3][2] - u[2][2] * u[3][1])
  BY Zenon DEF Det3
<1> HIDE DEF u
<1>7. CASE i = 1
  <2>1. /\ u[1][1] = a /\ u[1][2] = b /\ u[1][3] = c
        /\ u[2][1] = d * a - a * d /\ u[2][2] = e * a - b * d /\ u[2][3] = f * a - c * d
        /\ u[3][1] = g * a - a * g /\ u[3][2] = h * a - b * g /\ u[3][3] = k * a - c * g
    BY <1>3, <1>7
  <2>2. a # 0
    BY <1>7
  <2> HIDE DEF a, b, c, d, e, f, g, h, k
  <2>3. Det3(u) = a * (a * det)
    BY <1>2, <1>6, <2>1
  <2> HIDE DEF det
  <2>4. a * det \in Int /\ a * det # 0
    BY <1>1, <1>2, <1>4, <1>5, <2>2
  <2> QED BY <1>2, <1>5, <2>2, <2>3, <2>4 DEF u
<1>8. CASE i = 2
  <2>1. /\ u[1][1] = a * e - d * b /\ u[1][2] = b * e - e * b /\ u[1][3] = c * e - f * b
        /\ u[2][1] = d /\ u[2][2] = e /\ u[2][3] = f
        /\ u[3][1] = g * e - d * h /\ u[3][2] = h * e - e * h /\ u[3][3] = k * e - f * h
    BY <1>3, <1>8
  <2>2. e # 0
    BY <1>8
  <2> HIDE DEF a, b, c, d, e, f, g, h, k
  <2>3. Det3(u) = e * (e * det)
    BY <1>2, <1>6, <2>1
  <2> HIDE DEF det
  <2>4. e * det \in Int /\ e * det # 0
    BY <1>1, <1>2, <1>4, <1>5, <2>2
  <2> QED BY <1>2, <1>5, <2>2, <2>3, <2>4 DEF u
<1>9. CASE i = 3
  <2>1. /\ u[1][1] = a * k - g * c /\ u[1][2] = b * k - h * c /\ u[1][3] = c * k - k * c
        /\ u[2][1] = d * k - g * f /\ u[2][2] = e * k - h * f /\ u[2][3] = f * k - k * f
        /\ u[3][1] = g /\ u[3][2] = h /\ u[3][3] = k
    BY <1>3, <1>9
  <2>2. k # 0
    BY <1>9
  <2> HIDE DEF a, b, c, d, e, f, g, h, k
  <2>3. Det3(u) = k * (k * det)
    BY <1>2, <1>6, <2>1
  <2> HIDE DEF det
  <2>4. k * det \in Int /\ k * det # 0
    BY <1>1, <1>2, <1>4, <1>5, <2>2
  <2> QED BY <1>2, <1>5, <2>2, <2>3, <2>4 DEF u
<1> QED BY <1>7, <1>8, <1>9

(* ... the rows stay those of the integer matrices, ...                    *)
LEMMA EliminationIs ==
  ASSUME NEW m, NEW t, NEW v, NEW D, RowsAre(m, t, v, D), NEW i \in 1..3, t[i][i] # 0
  PROVE  RowsAre([tmp |-> Eliminated(m.tmp, m.tmp, i), inverse |-> Eliminated(m.inverse, m.tmp, i)],
                 Remaining(t, t, i), Remaining(v, t, i), Denominators(D, t, i))
<1> DEFINE tmp == Eliminated(m.tmp, m.tmp, i)
           inverse == Eliminated(m.inverse, m.tmp, i)
           t2 == Remaining(t, t, i)
           v2 == Remaining(v, t, i)
           D2 == Denominators(D, t, i)
           m2 == [tmp |-> tmp, inverse |-> inverse]
<1>1. /\ t \in Matrices(3, 3) /\ v \in Matrices(3, 3) /\ D \in Vectors(3)
      /\ \A j, k \in 1..3 : Is(m.tmp[j][k], t[j][k], D[j]) /\ Is(m.inverse[j][k], v[j][k], D[j])
  BY DEF RowsAre
<1>2. \A j, k \in 1..3 : t[j][k] \in Int /\ v[j][k] \in Int /\ D[j] \in Int
  BY <1>1, Elements DEF Vectors
<1>3. t2 \in Matrices(3, 3)
  BY <1>2 DEF Remaining, Matrices, Vectors
<1>4. v2 \in Matrices(3, 3)
  BY <1>2 DEF Remaining, Matrices, Vectors
<1>5. D2 \in Vectors(3)
  BY <1>2 DEF Denominators, Vectors
<1>6. ASSUME NEW x, NEW y, \A j, k \in 1..3 : Is(x[j][k], y[j][k], D[j]), NEW j \in 1..3, NEW k \in 1..3
      PROVE  Is(Eliminated(x, m.tmp, i)[j][k], Remaining(y, t, i)[j][k], D2[j])
  <2>1. Is(FractionOver(x[i][k], m.tmp[i][i]), y[i][k], t[i][i])
    <3>1. Is(x[i][k], y[i][k], D[i]) /\ Is(m.tmp[i][i], t[i][i], D[i])
      BY <1>1, <1>6
    <3> QED BY <3>1, DividedByPivot, Zenon
  <2>2. CASE j = i
    BY <2>1, <2>2 DEF Eliminated, Remaining, Denominators
  <2>3. CASE j # i
    <3>1. Is(x[j][k], y[j][k], D[j]) /\ Is(m.tmp[j][i], t[j][i], D[j])
      BY <1>1, <1>6
    <3>2. Is(FractionMinusTimes(x[j][k], FractionOver(x[i][k], m.tmp[i][i]), m.tmp[j][i]),
             y[j][k] * t[i][i] - y[i][k] * t[j][i], D[j] * t[i][i])
      BY <2>1, <3>1, LeftOfRow, Zenon
    <3> QED BY <2>3, <3>2 DEF Eliminated, Remaining, Denominators
  <2> QED BY <2>2, <2>3
<1>7. m2.tmp = tmp /\ m2.inverse = inverse
  OBVIOUS
<1>8. ASSUME NEW j \in 1..3, NEW k \in 1..3
      PROVE  Is(tmp[j][k], t2[j][k], D2[j]) /\ Is(inverse[j][k], v2[j][k], D2[j])
  <2> HIDE DEF D2
  <2>1. Is(tmp[j][k], t2[j][k], D2[j])
    BY <1>1, <1>6
  <2>2. Is(inverse[j][k], v2[j][k], D2[j])
    BY <1>1, <1>6
  <2> QED BY <2>1, <2>2
<1> HIDE DEF tmp, inverse, t2, v2, D2, m2
<1>9. RowsAre(m2, t2, v2, D2)
  BY <1>3, <1>4, <1>5, <1>7, <1>8 DEF RowsAre
<1> QED BY <1>9 DEF m2, tmp, inverse, t2, v2, D2

(* ... combined as before, ...                                             *)
LEMMA EliminationCombines ==
  ASSUME NEW src \in Matrices(3, 3), NEW t \in Matrices(3, 3), NEW v \in Matrices(3, 3), Combines(src, t, v),
         NEW i \in 1..3
  PROVE  Combines(src, Remaining(t, t, i), Remaining(v, t, i))
<1> DEFINE t2 == Remaining(t, t, i)
           v2 == Remaining(v, t, i)
<1>1. \A j, k \in 1..3 : t[j][k] \in Int /\ v[j][k] \in Int /\ src[j][k] \in Int
  BY Elements
<1>2. \A j, k \in 1..3 : t[j][k] = v[j][1] * src[1][k] + v[j][2] * src[2][k] + v[j][3] * src[3][k]
  BY DEF Combines
<1>3. ASSUME NEW j \in 1..3, NEW k \in 1..3
      PROVE  t2[j][k] = v2[j][1] * src[1][k] + v2[j][2] * src[2][k] + v2[j][3] * src[3][k]
  <2>1. CASE j = i
    <3>1. t2[j][k] = t[i][k] /\ v2[j][1] = v[i][1] /\ v2[j][2] = v[i][2] /\ v2[j][3] = v[i][3]
      BY <2>1 DEF Remaining
    <3> QED BY <1>2, <3>1
  <2>2. CASE j # i
    <3> DEFINE p == t[i][i]
               q == t[j][i]
               x1 == v[j][1]
               x2 == v[j][2]
               x3 == v[j][3]
               y1 == v[i][1]
               y2 == v[i][2]
               y3 == v[i][3]
               s1 == src[1][k]
               s2 == src[2][k]
               s3 == src[3][k]
    <3>1. /\ t2[j][k] = t[j][k] * p - t[i][k] * q /\ v2[j][1] = x1 * p - y1 * q
          /\ v2[j][2] = x2 * p - y2 * q /\ v2[j][3] = x3 * p - y3 * q
      BY <2>2 DEF Remaining
    <3>2. /\ t[j][k] = x1 * s1 + x2 * s2 + x3 * s3 /\ t[i][k] = y1 * s1 + y2 * s2 + y3 * s3
      BY <1>2
    <3>3. /\ p \in Int /\ q \in Int /\ x1 \in Int /\ x2 \in Int /\ x3 \in Int
          /\ y1 \in Int /\ y2 \in Int /\ y3 \in Int /\ s1 \in Int /\ s2 \in Int /\ s3 \in Int
      BY <1>1
    <3> HIDE DEF p, q, x1, x2, x3, y1, y2, y3, t2, v2
    <3>4. (x1 * s1 + x2 * s2 + x3 * s3) * p - (y1 * s1 + y2 * s2 + y3 * s3) * q
             = (x1 * p - y1 * q) * s1 + (x2 * p - y2 * q) * s2 + (x3 * p - y3 * q) * s3
      <4> HIDE DEF s1, s2, s3
      <4> QED BY <3>3
    <3> QED BY <3>1, <3>2, <3>4, Zenon
  <2> QED BY <2>1, <2>2
<1> HIDE DEF t2, v2
<1>4. Combines(src, t2, v2)
  BY <1>3 DEF Combines
<1> QED BY <1>4 DEF t2, v2

(* ... and one column more is that of the identity.                        *)
LEMMA EliminationReduces ==
  ASSUME NEW t \in Matrices(3, 3), NEW D \in Vectors(3), NEW i \in 1..3, Reduced(t, D, i)
  PROVE  Reduced(Remaining(t, t, i), Denominators(D, t, i), i + 1)
<1> DEFINE u == Remaining(t, t, i)
           E == Denominators(D, t, i)
<1>1. \A j, k \in 1..3 : t[j][k] \in Int /\ D[j] \in Int
  BY Elements DEF Vectors
<1>2. \A r, s \in 1..3 : u[r][s] = IF r = i THEN t[i][s] ELSE t[r][s] * t[i][i] - t[i][s] * t[r][i]
  BY DEF Remaining
<1>3. \A r \in 1..3 : E[r] = IF r = i THEN t[i][i] ELSE D[r] * t[i][i]
  BY DEF Denominators
<1> HIDE DEF u, E
<1>4. ASSUME NEW c \in 1..3, c < i + 1 PROVE u[c][c] = E[c] /\ \A j \in 1..3 : j # c => u[j][c] = 0
  <2>1. CASE c = i
    <3>1. u[c][c] = E[c]
      BY <1>2, <1>3, <2>1
    <3>2. ASSUME NEW j \in 1..3, j # c PROVE u[j][c] = 0
      <4>1. u[j][c] = t[j][i] * t[i][i] - t[i][i] * t[j][i]
        BY <1>2, <2>1, <3>2
      <4>2. \A x, y \in Int : x * y - y * x = 0
        OBVIOUS
      <4> QED BY <1>1, <4>1, <4>2
    <3> QED BY <3>1, <3>2
  <2>2. CASE c # i
    <3>1. c < i /\ t[c][c] = D[c] /\ \A j \in 1..3 : j # c => t[j][c] = 0
      BY <1>4, <2>2 DEF Reduced
    <3>2. t[i][c] = 0
      BY <2>2, <3>1
    <3>4. \A x, y, z \in Int : x * y - 0 * z = x * y /\ 0 * y - 0 * z = 0
      OBVIOUS
    <3>5. u[c][c] = E[c]
      <4>1. u[c][c] = D[c] * t[i][i] - 0 * t[c][i]
        BY <1>2, <2>2, <3>1, <3>2
      <4> QED BY <1>1, <1>3, <2>2, <3>4, <4>1
    <3>6. ASSUME NEW j \in 1..3, j # c PROVE u[j][c] = 0
      <4>1. CASE j = i
        BY <1>2, <3>2, <4>1
      <4>2. CASE j # i
        <5>1. u[j][c] = 0 * t[i][i] - 0 * t[j][i]
          BY <1>2, <3>1, <3>2, <3>6, <4>2
        <5> QED BY <1>1, <3>4, <5>1
      <4> QED BY <4>1, <4>2
    <3> QED BY <3>5, <3>6
  <2> QED BY <2>1, <2>2
<1>5. Reduced(u, E, i + 1)
  BY <1>4 DEF Reduced
<1> QED BY <1>5 DEF u, E

(* One column of invert().                                                 *)
LEMMA StepProgresses ==
  ASSUME NEW src \in Matrices(3, 3), NEW i \in 1..3, NEW m, NEW t, NEW v, NEW D, Progress(m, src, t, v, D, i)
  PROVE  \E t2, v2, D2 : Progress(InvertStep(m, i), src, t2, v2, D2, i + 1)
<1> DEFINE swap == SwapWith(m.tmp, i)
           tmp == Swapped(m.tmp, i, swap)
           inverse == Swapped(m.inverse, i, swap)
           m1 == BothSwapped(m, i, swap)
           m2 == [tmp |-> Eliminated(tmp, tmp, i), inverse |-> Eliminated(inverse, tmp, i)]
           t1 == Swapped(t, i, swap)
           v1 == Swapped(v, i, swap)
           D1 == Swapped(D, i, swap)
           t2 == Remaining(t1, t1, i)
           v2 == Remaining(v1, t1, i)
           D2 == Denominators(D1, t1, i)
<1>1. InvertStep(m, i) = m2
  BY DEF InvertStep, Eliminated
<1>2. swap \in i..3 /\ t[swap][i] # 0
  BY PivotFound DEF Progress
<1> HIDE DEF swap
<1>3. Progress(m1, src, t1, v1, D1, i) /\ t1[i] = t[swap]
  <2>1. i \in 1..3 /\ swap \in i..3 /\ swap \in 1..3
    BY <1>2
  <2>2. Progress(m1, src, t1, v1, D1, i)
    BY <2>1, SwapKeeps, Zenon
  <2>3. t1 = [k \in 1..3 |-> t[Other(k, i, swap)]]
    <3>1. OfThree(t)
      BY DEF Progress, RowsAre, Matrices, OfThree
    <3> QED BY <2>1, <3>1, SwappedRows
  <2>4. t1[i] = t[swap]
    BY <2>1, <2>3 DEF Other
  <2> QED BY <2>2, <2>4
<1>4. m1.tmp = tmp /\ m1.inverse = inverse
  BY DEF BothSwapped
<1> HIDE DEF t1, v1, D1, tmp, inverse
<1> HIDE DEF m1
<1>5. RowsAre(m1, t1, v1, D1) /\ Combines(src, t1, v1) /\ Det3(t1) # 0 /\ Reduced(t1, D1, i)
  BY <1>3 DEF Progress
<1>6. t1 \in Matrices(3, 3) /\ v1 \in Matrices(3, 3) /\ D1 \in Vectors(3)
  BY <1>5 DEF RowsAre
<1>7. t1[i][i] # 0
  BY <1>2, <1>3
<1>8. RowsAre(m2, t2, v2, D2)
  BY <1>4, <1>5, <1>7, EliminationIs
<1>9. Combines(src, t2, v2)
  BY <1>5, <1>6, EliminationCombines
<1>10. Det3(t2) # 0
  BY <1>5, <1>6, <1>7, RemainingDeterminant
<1>11. Reduced(t2, D2, i + 1)
  BY <1>5, <1>6, EliminationReduces
<1>12. OfThree(m2.tmp) /\ OfThree(m2.inverse)
  BY DEF OfThree, Eliminated
<1> HIDE DEF m2, t2, v2, D2
<1>13. Progress(m2, src, t2, v2, D2, i + 1)
  BY <1>8, <1>9, <1>10, <1>11, <1>12 DEF Progress
<1> QED BY <1>1, <1>13

(* The largest of some of three indices.                                   *)
LEMMA MaxOfThree ==
  ASSUME NEW s \in SUBSET (1..3), s # {}
  PROVE  Max(s) \in s /\ Max(s) \in 1..3 /\ \A y \in s : y <= Max(s)
<1>1. s \in SUBSET Nat /\ 3 \in Nat /\ \A x \in s : x <= 3
  OBVIOUS
<1> QED BY <1>1, MaxIsGreatest

(* The columns one after the other.                                        *)
LEMMA InvertedInThree ==
  ASSUME NEW src
  PROVE  Invert(src) = InvertStep(InvertStep(InvertStep([tmp |-> src, inverse |-> Identity], 1), 2), 3)
<1> DEFINE op(y, x) == InvertStep(y, x)
           base == [tmp |-> src, inverse |-> Identity]
           P(iter) == iter = [s \in SUBSET (1..3) |-> IF s = {} THEN base ELSE op(iter[s \ {Max(s)}], Max(s))]
           h1(s) == IF 1 \in s THEN op(base, 1) ELSE base
           h2(s) == IF 2 \in s THEN op(h1(s), 2) ELSE h1(s)
           h3(s) == IF 3 \in s THEN op(h2(s), 3) ELSE h2(s)
           g == [s \in SUBSET (1..3) |-> h3(s)]
<1>1. Invert(src) = (CHOOSE iter : P(iter))[1..3]
  <2> DEFINE seq == <<1, 2, 3>>
             Q(iter) == iter = [s \in SUBSET DOMAIN seq |->
                                  IF s = {} THEN base ELSE op(iter[s \ {Max(s)}], seq[Max(s)])]
  <2>1. DOMAIN seq = 1..3 /\ \A x \in 1..3 : seq[x] = x
    OBVIOUS
  <2>2. Invert(src) = (CHOOSE iter : Q(iter))[DOMAIN seq]
    BY Zenon DEF Invert, FoldLeft, MapThenFoldSet
  <2> HIDE DEF seq, op, base
  <2>3. ASSUME NEW iter PROVE P(iter) <=> Q(iter)
    <3> DEFINE A(s) == IF s = {} THEN base ELSE op(iter[s \ {Max(s)}], Max(s))
               B(s) == IF s = {} THEN base ELSE op(iter[s \ {Max(s)}], seq[Max(s)])
    <3>1. ASSUME NEW s \in SUBSET (1..3) PROVE A(s) = B(s)
      <4>1. s # {} => Max(s) \in 1..3
        BY MaxOfThree
      <4> QED BY <2>1, <4>1
    <3>2. P(iter) <=> iter = [s \in SUBSET (1..3) |-> A(s)]
      OBVIOUS
    <3>3. Q(iter) <=> iter = [s \in SUBSET (1..3) |-> B(s)]
      BY <2>1
    <3> HIDE DEF A, B, P, Q
    <3>4. [s \in SUBSET (1..3) |-> A(s)] = [s \in SUBSET (1..3) |-> B(s)]
      BY <3>1
    <3> QED BY <3>2, <3>3, <3>4
  <2> HIDE DEF P, Q
  <2>4. (CHOOSE iter : P(iter)) = (CHOOSE iter : Q(iter))
    BY <2>3
  <2> QED BY <2>1, <2>2, <2>4
<1> HIDE DEF op, base
<1>2. ASSUME NEW s \in SUBSET (1..3)
      PROVE  g[s] = IF s = {} THEN base ELSE op(g[s \ {Max(s)}], Max(s))
  <2>1. CASE s = {}
    BY <2>1
  <2>2. CASE s # {}
    <3> DEFINE x == Max(s)
               rest == s \ {x}
    <3>1. x \in s /\ x \in 1..3 /\ \A y \in s : y <= x
      BY <2>2, MaxOfThree
    <3> HIDE DEF x
    <3>2. rest \in SUBSET (1..3) /\ x \notin rest
      OBVIOUS
    <3>3. g[s] = h3(s) /\ g[rest] = h3(rest)
      BY <3>2
    <3>4. CASE x = 1
      <4>1. 2 \notin s /\ 3 \notin s /\ 1 \in s /\ 1 \notin rest /\ 2 \notin rest /\ 3 \notin rest
        BY <3>1, <3>4
      <4> QED BY <2>2, <3>3, <3>4, <4>1 DEF x
    <3>5. CASE x = 2
      <4>1. 3 \notin s /\ 2 \in s /\ (1 \in rest <=> 1 \in s) /\ 2 \notin rest /\ 3 \notin rest
        BY <3>1, <3>5
      <4> QED BY <2>2, <3>3, <3>5, <4>1 DEF x
    <3>6. CASE x = 3
      <4>1. 3 \in s /\ (1 \in rest <=> 1 \in s) /\ (2 \in rest <=> 2 \in s) /\ 3 \notin rest
        BY <3>1, <3>6
      <4> QED BY <2>2, <3>3, <3>6, <4>1 DEF x
    <3> QED BY <3>1, <3>4, <3>5, <3>6
  <2> QED BY <2>1, <2>2
<1>3. P(g)
  <2> DEFINE A(s) == IF s = {} THEN base ELSE op(g[s \ {Max(s)}], Max(s))
  <2>1. g = [s \in SUBSET (1..3) |-> g[s]]
    OBVIOUS
  <2>2. \A s \in SUBSET (1..3) : g[s] = A(s)
    BY <1>2
  <2>3. P(g) <=> g = [s \in SUBSET (1..3) |-> A(s)]
    OBVIOUS
  <2> HIDE DEF A, g, P
  <2> QED BY <2>1, <2>2, <2>3
<1> DEFINE f == CHOOSE iter : P(iter)
<1>4. P(f)
  <2> HIDE DEF P, g
  <2> QED BY <1>3
<1> HIDE DEF f, g
<1>5. f[1..3] = op(op(op(base, 1), 2), 3)
  <2>1. Max(1..3) = 3 /\ Max({1, 2}) = 2 /\ Max({1}) = 1
    <3>1. 1..3 \in SUBSET (1..3) /\ {1, 2} \in SUBSET (1..3) /\ {1} \in SUBSET (1..3)
      OBVIOUS
    <3>2. Max(1..3) \in 1..3 /\ 3 <= Max(1..3)
      BY <3>1, MaxOfThree
    <3>3. Max({1, 2}) \in {1, 2} /\ 2 <= Max({1, 2})
      BY <3>1, MaxOfThree
    <3>4. Max({1}) \in {1}
      BY <3>1, MaxOfThree
    <3> QED BY <3>2, <3>3, <3>4
  <2>2. \A s \in SUBSET (1..3) : f[s] = IF s = {} THEN base ELSE op(f[s \ {Max(s)}], Max(s))
    BY <1>4
  <2>3. (1..3) \ {3} = {1, 2} /\ {1, 2} \ {2} = {1} /\ {1} \ {1} = {}
    OBVIOUS
  <2>4. f[{}] = base
    BY <2>2
  <2>5. f[{1}] = op(base, 1)
    BY <2>1, <2>2, <2>3, <2>4
  <2>6. f[{1, 2}] = op(op(base, 1), 2)
    BY <2>1, <2>2, <2>3, <2>5
  <2>7. f[1..3] = op(op(op(base, 1), 2), 3)
    BY <2>1, <2>2, <2>3, <2>6
  <2> QED BY <2>7
<1>6. Invert(src) = op(op(op(base, 1), 2), 3)
  BY <1>1, <1>5 DEF f
<1> QED BY <1>6 DEF op, base

(* An element of the product, as InverseIsExact adds it up.                *)
LEMMA ResidueInThree ==
  ASSUME NEW i, NEW m, NEW c, NEW r
  PROVE  FoldLeft(LAMBDA s, k : FractionMinusTimes(s, i[k][r], <<-m[c][k][1], 1>>), <<0, 1>>, <<1, 2, 3>>)
           = FractionMinusTimes(
               FractionMinusTimes(
                 FractionMinusTimes(<<0, 1>>, i[1][r], <<-m[c][1][1], 1>>), i[2][r], <<-m[c][2][1], 1>>),
               i[3][r], <<-m[c][3][1], 1>>)
<1> DEFINE op(y, x) == FractionMinusTimes(y, i[x][r], <<-m[c][x][1], 1>>)
           base == <<0, 1>>
           P(iter) == iter = [s \in SUBSET (1..3) |-> IF s = {} THEN base ELSE op(iter[s \ {Max(s)}], Max(s))]
           h1(s) == IF 1 \in s THEN op(base, 1) ELSE base
           h2(s) == IF 2 \in s THEN op(h1(s), 2) ELSE h1(s)
           h3(s) == IF 3 \in s THEN op(h2(s), 3) ELSE h2(s)
           g == [s \in SUBSET (1..3) |-> h3(s)]
<1>1. FoldLeft(LAMBDA s, k : FractionMinusTimes(s, i[k][r], <<-m[c][k][1], 1>>), <<0, 1>>, <<1, 2, 3>>)
        = (CHOOSE iter : P(iter))[1..3]
  <2> DEFINE seq == <<1, 2, 3>>
             Q(iter) == iter = [s \in SUBSET DOMAIN seq |->
                                  IF s = {} THEN base ELSE op(iter[s \ {Max(s)}], seq[Max(s)])]
  <2>1. DOMAIN seq = 1..3 /\ \A x \in 1..3 : seq[x] = x
    OBVIOUS
  <2>2. FoldLeft(LAMBDA s, k : FractionMinusTimes(s, i[k][r], <<-m[c][k][1], 1>>), <<0, 1>>, <<1, 2, 3>>)
          = (CHOOSE iter : Q(iter))[DOMAIN seq]
    BY Zenon DEF FoldLeft, MapThenFoldSet
  <2> HIDE DEF seq, op, base
  <2>3. ASSUME NEW iter PROVE P(iter) <=> Q(iter)
    <3> DEFINE A(s) == IF s = {} THEN base ELSE op(iter[s \ {Max(s)}], Max(s))
               B(s) == IF s = {} THEN base ELSE op(iter[s \ {Max(s)}], seq[Max(s)])
    <3>1. ASSUME NEW s \in SUBSET (1..3) PROVE A(s) = B(s)
      <4>1. s # {} => Max(s) \in 1..3
        BY MaxOfThree
      <4> QED BY <2>1, <4>1
    <3>2. P(iter) <=> iter = [s \in SUBSET (1..3) |-> A(s)]
      OBVIOUS
    <3>3. Q(iter) <=> iter = [s \in SUBSET (1..3) |-> B(s)]
      BY <2>1
    <3> HIDE DEF A, B, P, Q
    <3>4. [s \in SUBSET (1..3) |-> A(s)] = [s \in SUBSET (1..3) |-> B(s)]
      BY <3>1
    <3> QED BY <3>2, <3>3, <3>4
  <2> HIDE DEF P, Q
  <2>4. (CHOOSE iter : P(iter)) = (CHOOSE iter : Q(iter))
    BY <2>3
  <2> QED BY <2>1, <2>2, <2>4
<1> HIDE DEF op, base
<1>2. ASSUME NEW s \in SUBSET (1..3)
      PROVE  g[s] = IF s = {} THEN base ELSE op(g[s \ {Max(s)}], Max(s))
  <2>1. CASE s = {}
    BY <2>1
  <2>2. CASE s # {}
    <3> DEFINE x == Max(s)
               rest == s \ {x}
    <3>1. x \in s /\ x \in 1..3 /\ \A y \in s : y <= x
      BY <2>2, MaxOfThree
    <3> HIDE DEF x
    <3>2. rest \in SUBSET (1..3) /\ x \notin rest
      OBVIOUS
    <3>3. g[s] = h3(s) /\ g[rest] = h3(rest)
      BY <3>2
    <3>4. CASE x = 1
      <4>1. 2 \notin s /\ 3 \notin s /\ 1 \in s /\ 1 \notin rest /\ 2 \notin rest /\ 3 \notin rest
        BY <3>1, <3>4
      <4> QED BY <2>2, <3>3, <3>4, <4>1 DEF x
    <3>5. CASE x = 2
      <4>1. 3 \notin s /\ 2 \in s /\ (1 \in rest <=> 1 \in s) /\ 2 \notin rest /\ 3 \notin rest
        BY <3>1, <3>5
      <4> QED BY <2>2, <3>3, <3>5, <4>1 DEF x
    <3>6. CASE x = 3
      <4>1. 3 \in s /\ (1 \in rest <=> 1 \in s) /\ (2 \in rest <=> 2 \in s) /\ 3 \notin rest
        BY <3>1, <3>6
      <4> QED BY <2>2, <3>3, <3>6, <4>1 DEF x
    <3> QED BY <3>1, <3>4, <3>5, <3>6
  <2> QED BY <2>1, <2>2
<1>3. P(g)
  <2> DEFINE A(s) == IF s = {} THEN base ELSE op(g[s \ {Max(s)}], Max(s))
  <2>1. g = [s \in SUBSET (1..3) |-> g[s]]
    OBVIOUS
  <2>2. \A s \in SUBSET (1..3) : g[s] = A(s)
    BY <1>2
  <2>3. P(g) <=> g = [s \in SUBSET (1..3) |-> A(s)]
    OBVIOUS
  <2> HIDE DEF A, g, P
  <2> QED BY <2>1, <2>2, <2>3
<1> DEFINE f == CHOOSE iter : P(iter)
<1>4. P(f)
  <2> HIDE DEF P, g
  <2> QED BY <1>3
<1> HIDE DEF f, g
<1>5. f[1..3] = op(op(op(base, 1), 2), 3)
  <2>1. Max(1..3) = 3 /\ Max({1, 2}) = 2 /\ Max({1}) = 1
    <3>1. 1..3 \in SUBSET (1..3) /\ {1, 2} \in SUBSET (1..3) /\ {1} \in SUBSET (1..3)
      OBVIOUS
    <3>2. Max(1..3) \in 1..3 /\ 3 <= Max(1..3)
      BY <3>1, MaxOfThree
    <3>3. Max({1, 2}) \in {1, 2} /\ 2 <= Max({1, 2})
      BY <3>1, MaxOfThree
    <3>4. Max({1}) \in {1}
      BY <3>1, MaxOfThree
    <3> QED BY <3>2, <3>3, <3>4
  <2>2. \A s \in SUBSET (1..3) : f[s] = IF s = {} THEN base ELSE op(f[s \ {Max(s)}], Max(s))
    BY <1>4
  <2>3. (1..3) \ {3} = {1, 2} /\ {1, 2} \ {2} = {1} /\ {1} \ {1} = {}
    OBVIOUS
  <2>4. f[{}] = base
    BY <2>2
  <2>5. f[{1}] = op(base, 1)
    BY <2>1, <2>2, <2>3, <2>4
  <2>6. f[{1, 2}] = op(op(base, 1), 2)
    BY <2>1, <2>2, <2>3, <2>5
  <2>7. f[1..3] = op(op(op(base, 1), 2), 3)
    BY <2>1, <2>2, <2>3, <2>6
  <2> QED BY <2>7
<1>6. FoldLeft(LAMBDA s, k : FractionMinusTimes(s, i[k][r], <<-m[c][k][1], 1>>), <<0, 1>>, <<1, 2, 3>>)
        = op(op(op(base, 1), 2), 3)
  BY <1>1, <1>5 DEF f
<1> QED BY <1>6 DEF op, base

(* The inverse is the adjugate over the determinant, by rows.              *)
Adjugate(s) ==
  << <<s[2][2] * s[3][3] - s[2][3] * s[3][2], s[1][3] * s[3][2] - s[1][2] * s[3][3],
       s[1][2] * s[2][3] - s[1][3] * s[2][2]>>,
     <<s[2][3] * s[3][1] - s[2][1] * s[3][3], s[1][1] * s[3][3] - s[1][3] * s[3][1],
       s[1][3] * s[2][1] - s[1][1] * s[2][3]>>,
     <<s[2][1] * s[3][2] - s[2][2] * s[3][1], s[1][2] * s[3][1] - s[1][1] * s[3][2],
       s[1][1] * s[2][2] - s[1][2] * s[2][1]>> >>

(* A row v times s is w: then v times the determinant is w times the       *)
(* adjugate.                                                               *)
LEMMA AdjugateInverts ==
  ASSUME NEW s \in Matrices(3, 3), NEW v \in Vectors(3), NEW w \in Vectors(3),
         \A k \in 1..3 : w[k] = v[1] * s[1][k] + v[2] * s[2][k] + v[3] * s[3][k]
  PROVE  \A y \in 1..3 :
           /\ Adjugate(s)[1][y] \in Int /\ Adjugate(s)[2][y] \in Int /\ Adjugate(s)[3][y] \in Int
           /\ v[y] * Det3(s) = w[1] * Adjugate(s)[1][y] + w[2] * Adjugate(s)[2][y] + w[3] * Adjugate(s)[3][y]
<1> DEFINE a == s[1][1]
           b == s[1][2]
           c == s[1][3]
           d == s[2][1]
           e == s[2][2]
           f == s[2][3]
           g == s[3][1]
           h == s[3][2]
           k == s[3][3]
           v1 == v[1]
           v2 == v[2]
           v3 == v[3]
           A == Adjugate(s)
<1>1. /\ a \in Int /\ b \in Int /\ c \in Int /\ d \in Int /\ e \in Int /\ f \in Int
      /\ g \in Int /\ h \in Int /\ k \in Int
  BY Elements
<1>2. v1 \in Int /\ v2 \in Int /\ v3 \in Int
  BY DEF Vectors
<1>3. /\ A[1][1] = e * k - f * h /\ A[1][2] = c * h - b * k /\ A[1][3] = b * f - c * e
      /\ A[2][1] = f * g - d * k /\ A[2][2] = a * k - c * g /\ A[2][3] = c * d - a * f
      /\ A[3][1] = d * h - e * g /\ A[3][2] = b * g - a * h /\ A[3][3] = a * e - b * d
  BY DEF Adjugate
<1>4. Det3(s) = a * (e * k - f * h) - b * (d * k - f * g) + c * (d * h - e * g)
  BY Zenon DEF Det3
<1>5. /\ w[1] = v1 * a + v2 * d + v3 * g /\ w[2] = v1 * b + v2 * e + v3 * h /\ w[3] = v1 * c + v2 * f + v3 * k
  OBVIOUS
<1> HIDE DEF a, b, c, d, e, f, g, h, k, v1, v2, v3, A
<1>6. /\ A[1][1] \in Int /\ A[1][2] \in Int /\ A[1][3] \in Int
      /\ A[2][1] \in Int /\ A[2][2] \in Int /\ A[2][3] \in Int
      /\ A[3][1] \in Int /\ A[3][2] \in Int /\ A[3][3] \in Int
  BY <1>1, <1>3
<1>7. v1 * Det3(s) = w[1] * A[1][1] + w[2] * A[2][1] + w[3] * A[3][1]
  BY <1>1, <1>2, <1>3, <1>4, <1>5
<1>8. v2 * Det3(s) = w[1] * A[1][2] + w[2] * A[2][2] + w[3] * A[3][2]
  BY <1>1, <1>2, <1>3, <1>4, <1>5
<1>9. v3 * Det3(s) = w[1] * A[1][3] + w[2] * A[2][3] + w[3] * A[3][3]
  BY <1>1, <1>2, <1>3, <1>4, <1>5
<1>10. \A y \in 1..3 :
         /\ A[1][y] \in Int /\ A[2][y] \in Int /\ A[3][y] \in Int
         /\ v[y] * Det3(s) = w[1] * A[1][y] + w[2] * A[2][y] + w[3] * A[3][y]
  BY <1>6, <1>7, <1>8, <1>9 DEF v1, v2, v3
<1> QED BY <1>10 DEF A

(* The elements of a matrix of integers as the fractions they are.         *)
AsFractions(s) == [c \in 1..3 |-> [r \in 1..3 |-> <<s[c][r], 1>>]]

(* What invert() returns is the adjugate over the determinant.             *)
LEMMA InverseIsAdjugate ==
  ASSUME NEW s \in Matrices(3, 3), Det3(s) # 0, NEW j \in 1..3, NEW y \in 1..3
  PROVE  Is(Invert(AsFractions(s)).inverse[j][y], Adjugate(s)[j][y], Det3(s))
<1> DEFINE m0 == [tmp |-> AsFractions(s), inverse |-> Identity]
           m1 == InvertStep(m0, 1)
           m2 == InvertStep(m1, 2)
           m3 == InvertStep(m2, 3)
           unit == [c \in 1..3 |-> [r \in 1..3 |-> IF c = r THEN 1 ELSE 0]]
           ones == [c \in 1..3 |-> 1]
<1>1. Progress(m0, s, s, unit, ones, 1)
  <2>1. OfThree(m0.tmp) /\ OfThree(m0.inverse)
    BY DEF OfThree, AsFractions, Identity
  <2>2. \A c, r \in 1..3 : s[c][r] \in Int
    BY Elements
  <2>3. RowsAre(m0, s, unit, ones)
    <3>1. unit \in Matrices(3, 3) /\ ones \in Vectors(3)
      BY DEF Matrices, Vectors
    <3>2. ASSUME NEW c \in 1..3, NEW r \in 1..3
          PROVE  Is(m0.tmp[c][r], s[c][r], ones[c]) /\ Is(m0.inverse[c][r], unit[c][r], ones[c])
      <4>1. m0.tmp[c][r] = <<s[c][r], 1>> /\ m0.inverse[c][r] = <<unit[c][r], 1>> /\ ones[c] = 1
            /\ unit[c][r] \in Int /\ s[c][r] \in Int
        BY <2>2 DEF AsFractions, Identity
      <4>2. \A n \in Int : Is(<<n, 1>>, n, 1)
        BY DEF Is
      <4> HIDE DEF m0, unit, ones
      <4> QED BY <4>1, <4>2
    <3> HIDE DEF m0, unit, ones
    <3> QED BY <3>1, <3>2 DEF RowsAre
  <2>4. Combines(s, s, unit)
    BY <2>2 DEF Combines
  <2>5. Reduced(s, ones, 1)
    BY DEF Reduced
  <2> HIDE DEF m0, unit, ones
  <2> QED BY <2>1, <2>3, <2>4, <2>5 DEF Progress
<1> HIDE DEF m0, unit, ones
<1>2. \E t, v, D : Progress(m1, s, t, v, D, 1 + 1)
  BY <1>1, StepProgresses
<1> HIDE DEF m1
<1>3. \E t, v, D : Progress(m2, s, t, v, D, 2 + 1)
  BY <1>2, StepProgresses
<1> HIDE DEF m2
<1>4. \E t, v, D : Progress(m3, s, t, v, D, 3 + 1)
  BY <1>3, StepProgresses
<1> HIDE DEF m3
<1>5. PICK t, v, D : Progress(m3, s, t, v, D, 4)
  BY <1>4
<1>6. RowsAre(m3, t, v, D) /\ Combines(s, t, v) /\ Reduced(t, D, 4)
  BY <1>5 DEF Progress
<1>7. /\ t \in Matrices(3, 3) /\ v \in Matrices(3, 3) /\ D \in Vectors(3)
      /\ Is(m3.inverse[j][y], v[j][y], D[j])
  BY <1>6 DEF RowsAre
<1>8. /\ \A k \in 1..3 : t[j][k] = v[j][1] * s[1][k] + v[j][2] * s[2][k] + v[j][3] * s[3][k]
      /\ t[j] \in Vectors(3) /\ v[j] \in Vectors(3)
  BY <1>6, <1>7 DEF Combines, Matrices
<1>9. /\ Adjugate(s)[1][y] \in Int /\ Adjugate(s)[2][y] \in Int /\ Adjugate(s)[3][y] \in Int
      /\ v[j][y] * Det3(s)
           = t[j][1] * Adjugate(s)[1][y] + t[j][2] * Adjugate(s)[2][y] + t[j][3] * Adjugate(s)[3][y]
  BY <1>8, AdjugateInverts
<1>10. \A k \in 1..3 : t[j][k] = IF k = j THEN D[j] ELSE 0
  BY <1>6 DEF Reduced
<1>11. D[j] \in Int
  BY <1>7 DEF Vectors
<1>12. \A k, l \in Int : 0 * k = 0 /\ k + 0 = k /\ 0 + k = k /\ k * l \in Int
  OBVIOUS
<1>13. v[j][y] * Det3(s) = D[j] * Adjugate(s)[j][y]
  <2>1. CASE j = 1
    <3>1. t[j][1] = D[j] /\ t[j][2] = 0 /\ t[j][3] = 0
      BY <1>10, <2>1
    <3> QED BY <1>9, <1>11, <1>12, <2>1, <3>1
  <2>2. CASE j = 2
    <3>1. t[j][1] = 0 /\ t[j][2] = D[j] /\ t[j][3] = 0
      BY <1>10, <2>2
    <3> QED BY <1>9, <1>11, <1>12, <2>2, <3>1
  <2>3. CASE j = 3
    <3>1. t[j][1] = 0 /\ t[j][2] = 0 /\ t[j][3] = D[j]
      BY <1>10, <2>3
    <3> QED BY <1>9, <1>11, <1>12, <2>3, <3>1
  <2> QED BY <2>1, <2>2, <2>3
<1>14. Det3(s) \in Int
  <2>1. \A c, r \in 1..3 : s[c][r] \in Int
    BY Elements
  <2> QED BY <2>1 DEF Det3
<1>15. Adjugate(s)[j][y] \in Int
  BY <1>9
<1>16. v[j][y] * Det3(s) = Adjugate(s)[j][y] * D[j]
  BY <1>11, <1>13, <1>15
<1>17. Is(m3.inverse[j][y], Adjugate(s)[j][y], Det3(s))
  BY <1>7, <1>14, <1>15, <1>16, SameFraction, Zenon
<1>18. Invert(AsFractions(s)) = m3
  BY InvertedInThree DEF m0, m1, m2, m3
<1> QED BY <1>17, <1>18

(* One more product, the last of which leaves 0 or 1 in lowest terms.      *)
LEMMA OneProductMore ==
  ASSUME NEW f, NEW n, NEW d, Is(f, n, d), NEW b, NEW p, Is(b, p, d), NEW x \in Int
  PROVE  /\ Is(FractionMinusTimes(f, b, <<-x, 1>>), n + p * x, d)
         /\ n + p * x = 0 => FractionMinusTimes(f, b, <<-x, 1>>) = <<0, 1>>
         /\ n + p * x = d => FractionMinusTimes(f, b, <<-x, 1>>) = <<1, 1>>
<1> DEFINE F == FractionMinusTimes(f, b, <<-x, 1>>)
           N == f[1] * b[2] * 1 - b[1] * (-x) * f[2]
           M == f[2] * b[2] * 1
           sum == n + p * x
<1>1. /\ f[1] \in Int /\ f[2] \in Int /\ f[2] > 0 /\ n \in Int /\ d \in Int /\ d # 0
      /\ b[1] \in Int /\ b[2] \in Int /\ b[2] > 0 /\ p \in Int
  BY DEF Is
<1>2. Is(<<-x, 1>>, -x, 1)
  BY DEF Is
<1>3. Is(F, n * (d * 1) - (p * (-x)) * d, d * (d * 1))
  BY <1>2, MinusTimesIs
<1>4. F = Fraction(N, M)
  BY DEF FractionMinusTimes
<1>5. N \in Int /\ M \in Int /\ M # 0
  <2>1. \A k, l \in Int : k > 0 /\ l > 0 => k * l * 1 # 0
    OBVIOUS
  <2>2. f[2] * b[2] * 1 # 0 /\ f[2] * b[2] \in Int /\ f[1] * b[2] \in Int /\ b[1] * (-x) \in Int
        /\ b[1] * (-x) * f[2] \in Int
    BY <1>1, <2>1
  <2> QED BY <2>2
<1>6. Is(F, N, M)
  BY <1>4, <1>5, FractionIs
<1>7. sum \in Int
  BY <1>1
<1>8. (n * (d * 1) - (p * (-x)) * d) * d = sum * (d * (d * 1))
  BY <1>1
<1>9. Is(F, sum, d)
  BY <1>1, <1>3, <1>7, <1>8, SameFraction, Zenon
<1> HIDE DEF F, N, M, sum
<1>10. /\ F[1] \in Int /\ F[2] \in Int /\ F[2] > 0 /\ F[1] * d = sum * F[2] /\ F[1] * M = N * F[2]
  BY <1>6, <1>9 DEF Is
<1>11. \A k, l \in Int : k * l = 0 => k = 0 \/ l = 0
  OBVIOUS
<1>12. \A k, l, o \in Int : o # 0 /\ k * o = l * o => k = l
  OBVIOUS
<1>13. ASSUME sum = 0 PROVE F = <<0, 1>>
  <2>1. F[1] * d = 0
    BY <1>10, <1>13
  <2>2. F[1] = 0
    BY <1>1, <1>10, <1>11, <2>1
  <2>3. N * F[2] = 0
    BY <1>5, <1>10, <2>2
  <2>4. N = 0
    BY <1>5, <1>10, <1>11, <2>3
  <2> QED BY <1>4, <1>5, <2>4, ZeroAndOne
<1>14. ASSUME sum = d PROVE F = <<1, 1>>
  <2>1. F[1] * d = F[2] * d
    BY <1>1, <1>10, <1>14
  <2>2. F[1] = F[2]
    BY <1>1, <1>10, <1>12, <2>1
  <2>3. M * F[2] = N * F[2]
    BY <1>5, <1>10, <2>2
  <2>4. M = N
    BY <1>5, <1>10, <1>12, <2>3
  <2> QED BY <1>4, <1>5, <2>4, ZeroAndOne
<1> QED BY <1>9, <1>13, <1>14 DEF F, sum

(* invert() inverts: every matrix that can be inverted, whatever the order *)
(* its rows are swapped in.                                                *)
THEOREM InverseOfAnyMatrix ==
  ASSUME NEW s \in Matrices(3, 3), Det3(s) # 0, NEW c \in 1..3, NEW r \in 1..3
  PROVE  LET m == AsFractions(s)
             i == Invert(m).inverse
         IN FoldLeft(LAMBDA f, k : FractionMinusTimes(f, i[k][r], <<-m[c][k][1], 1>>), <<0, 1>>, <<1, 2, 3>>)
              = Identity[c][r]
<1> DEFINE m == AsFractions(s)
           i == Invert(m).inverse
           A == Adjugate(s)
           x1 == s[c][1]
           x2 == s[c][2]
           x3 == s[c][3]
           f0 == <<0, 1>>
           f1 == FractionMinusTimes(f0, i[1][r], <<-x1, 1>>)
           f2 == FractionMinusTimes(f1, i[2][r], <<-x2, 1>>)
           f3 == FractionMinusTimes(f2, i[3][r], <<-x3, 1>>)
           det == Det3(s)
           n1 == 0 + A[1][r] * x1
           n2 == n1 + A[2][r] * x2
           n3 == n2 + A[3][r] * x3
<1>1. x1 \in Int /\ x2 \in Int /\ x3 \in Int
  BY Elements
<1>2. m[c][1][1] = x1 /\ m[c][2][1] = x2 /\ m[c][3][1] = x3
  BY DEF AsFractions
<1>3. FoldLeft(LAMBDA f, k : FractionMinusTimes(f, i[k][r], <<-m[c][k][1], 1>>), <<0, 1>>, <<1, 2, 3>>)
        = FractionMinusTimes(
            FractionMinusTimes(
              FractionMinusTimes(<<0, 1>>, i[1][r], <<-m[c][1][1], 1>>), i[2][r], <<-m[c][2][1], 1>>),
            i[3][r], <<-m[c][3][1], 1>>)
  BY ResidueInThree, Zenon
<1>4. Is(i[1][r], A[1][r], det) /\ Is(i[2][r], A[2][r], det) /\ Is(i[3][r], A[3][r], det)
  BY InverseIsAdjugate
<1> HIDE DEF m, i, x1, x2, x3, f0, f1, f2, f3, A, det, n1, n2, n3
<1>5. det \in Int /\ det # 0
  BY <1>4 DEF Is
<1>6. Is(f0, 0, det)
  BY <1>5 DEF Is, f0
<1>7. Is(f1, n1, det)
  BY <1>1, <1>4, <1>6, OneProductMore, ZenonT(40) DEF f1, n1
<1>8. Is(f2, n2, det)
  BY <1>1, <1>4, <1>7, OneProductMore, ZenonT(40) DEF f2, n2
<1>9. (n3 = 0 => f3 = <<0, 1>>) /\ (n3 = det => f3 = <<1, 1>>)
  BY <1>1, <1>4, <1>8, OneProductMore, ZenonT(40) DEF f3, n3
<1>10. n3 = IF c = r THEN det ELSE 0
  <2> DEFINE a == s[1][1]
             b == s[1][2]
             d == s[1][3]
             e == s[2][1]
             g == s[2][2]
             h == s[2][3]
             o == s[3][1]
             p == s[3][2]
             q == s[3][3]
  <2>1. /\ a \in Int /\ b \in Int /\ d \in Int /\ e \in Int /\ g \in Int /\ h \in Int
        /\ o \in Int /\ p \in Int /\ q \in Int
    BY Elements
  <2>2. det = a * (g * q - h * p) - b * (e * q - h * o) + d * (e * p - g * o)
    BY Zenon DEF Det3, det
  <2>3. /\ A[1][1] = g * q - h * p /\ A[1][2] = d * p - b * q /\ A[1][3] = b * h - d * g
        /\ A[2][1] = h * o - e * q /\ A[2][2] = a * q - d * o /\ A[2][3] = d * e - a * h
        /\ A[3][1] = e * p - g * o /\ A[3][2] = b * o - a * p /\ A[3][3] = a * g - b * e
    BY DEF Adjugate, A
  <2>4. /\ c = 1 => x1 = a /\ x2 = b /\ x3 = d
        /\ c = 2 => x1 = e /\ x2 = g /\ x3 = h
        /\ c = 3 => x1 = o /\ x2 = p /\ x3 = q
    BY DEF x1, x2, x3
  <2>5. n3 = 0 + A[1][r] * x1 + A[2][r] * x2 + A[3][r] * x3
    BY DEF n1, n2, n3
  <2> HIDE DEF a, b, d, e, g, h, o, p, q
  <2>6. CASE r = 1
    <3>1. n3 = 0 + (g * q - h * p) * x1 + (h * o - e * q) * x2 + (e * p - g * o) * x3
      BY <2>3, <2>5, <2>6
    <3> QED BY <2>1, <2>2, <2>4, <2>6, <3>1
  <2>7. CASE r = 2
    <3>1. n3 = 0 + (d * p - b * q) * x1 + (a * q - d * o) * x2 + (b * o - a * p) * x3
      BY <2>3, <2>5, <2>7
    <3> QED BY <2>1, <2>2, <2>4, <2>7, <3>1
  <2>8. CASE r = 3
    <3>1. n3 = 0 + (b * h - d * g) * x1 + (d * e - a * h) * x2 + (a * g - b * e) * x3
      BY <2>3, <2>5, <2>8
    <3> QED BY <2>1, <2>2, <2>4, <2>8, <3>1
  <2> QED BY <2>6, <2>7, <2>8
<1>11. f3 = Identity[c][r]
  BY <1>9, <1>10 DEF Identity
<1>12. FoldLeft(LAMBDA f, k : FractionMinusTimes(f, i[k][r], <<-m[c][k][1], 1>>), <<0, 1>>, <<1, 2, 3>>)
         = Identity[c][r]
  BY <1>2, <1>3, <1>11 DEF f0, f1, f2, f3
<1> QED BY <1>12 DEF m, i

-----------------------------------------------------------------------------
(* The run's property                                                      *)

(* The accelerations of the run have whole lengths, and so have their      *)
(* orthogonals: the zero or the smallest element is left out.              *)
LEMMA AccelerationsAreWhole ==
  ASSUME NEW x \in Accelerations
  PROVE  /\ x \in Vectors(3)
         /\ \E l, m \in Nat : l > 0 /\ m > 0 /\ l * l = LengthSquared(x) /\ m * m = LengthSquared(GetOrthogonal(x))
<1>1. PICK s \in [1..3 -> {-1, 1}], f \in Bijection(1..3, 1..3), v \in {<<0, 0, 1>>, <<0, 3, 4>>, <<8, 9, 12>>} :
         x = [i \in 1..3 |-> s[i] * v[f[i]]]
  BY DEF Accelerations
<1> DEFINE x1 == x[1]
           x2 == x[2]
           x3 == x[3]
           n1 == v[f[1]]
           n2 == v[f[2]]
           n3 == v[f[3]]
<1>2. /\ f[1] \in 1..3 /\ f[2] \in 1..3 /\ f[3] \in 1..3
      /\ \A i, j \in 1..3 : f[i] = f[j] => i = j
  BY DEF Bijection, Injection, IsInjective
<1>3. f[1] # f[2] /\ f[1] # f[3] /\ f[2] # f[3]
  BY <1>2
<1>4. PICK low, mid, top \in Nat :
         /\ v[1] = low /\ v[2] = mid /\ v[3] = top /\ low <= mid /\ mid < top
         /\ \/ low = 0 /\ mid = 0 /\ top = 1
            \/ low = 0 /\ mid = 3 /\ top = 4
            \/ low = 8 /\ mid = 9 /\ top = 12
  <2>1. CASE v = <<0, 0, 1>>
    BY <2>1
  <2>2. CASE v = <<0, 3, 4>>
    BY <2>2
  <2>3. CASE v = <<8, 9, 12>>
    BY <2>3
  <2> QED BY <2>1, <2>2, <2>3
<1>5. /\ n1 \in Nat /\ n2 \in Nat /\ n3 \in Nat
      /\ \/ n1 = low /\ n2 = mid /\ n3 = top
         \/ n1 = low /\ n2 = top /\ n3 = mid
         \/ n1 = mid /\ n2 = low /\ n3 = top
         \/ n1 = mid /\ n2 = top /\ n3 = low
         \/ n1 = top /\ n2 = low /\ n3 = mid
         \/ n1 = top /\ n2 = mid /\ n3 = low
  BY <1>2, <1>3, <1>4
<1>6. /\ x1 = s[1] * n1 /\ x2 = s[2] * n2 /\ x3 = s[3] * n3
      /\ s[1] \in {-1, 1} /\ s[2] \in {-1, 1} /\ s[3] \in {-1, 1}
  BY <1>1
<1>7. x \in Vectors(3)
  <2>1. \A i \in 1..3 : s[i] * v[f[i]] \in Int
    BY <1>5, <1>6
  <2> QED BY <1>1, <2>1 DEF Vectors
<1> HIDE DEF n1, n2, n3
<1>8. /\ x1 \in Int /\ x2 \in Int /\ x3 \in Int
      /\ Abs(x1) = n1 /\ Abs(x2) = n2 /\ Abs(x3) = n3
      /\ x1 * x1 = n1 * n1 /\ x2 * x2 = n2 * n2 /\ x3 * x3 = n3 * n3
  <2>1. \A k \in {-1, 1}, n \in Nat : k * n \in Int /\ Abs(k * n) = n /\ (k * n) * (k * n) = n * n
    BY DEF Abs
  <2> HIDE DEF x1, x2, x3
  <2> QED BY <1>5, <1>6, <2>1
<1>9. LengthSquared(x) = low * low + mid * mid + top * top
  <2>1. LengthSquared(x) = x1 * x1 + x2 * x2 + x3 * x3
    BY <1>7, Dot3 DEF LengthSquared
  <2> HIDE DEF x1, x2, x3
  <2> QED BY <1>5, <1>8, <2>1
<1> DEFINE e == GetOrthogonal(x)
           others == IF n1 <= n2 /\ n1 <= n3 THEN n2 * n2 + n3 * n3
                     ELSE IF n2 <= n3 THEN n1 * n1 + n3 * n3 ELSE n1 * n1 + n2 * n2
<1>10. LengthSquared(e) = others
  <2>1. \A i, j, k \in Int : <<i, j, k>> \in Vectors(3)
    BY DEF Vectors
  <2>2. e = IF n1 <= n2 /\ n1 <= n3 THEN <<0, x3, -x2>> ELSE IF n2 <= n3 THEN <<x3, 0, -x1>> ELSE <<x2, -x1, 0>>
    BY <1>8 DEF GetOrthogonal
  <2> HIDE DEF x1, x2, x3, e
  <2>3. e \in Vectors(3)
    BY <1>8, <2>1, <2>2
  <2>4. LengthSquared(e) = e[1] * e[1] + e[2] * e[2] + e[3] * e[3]
    BY <2>3, Dot3 DEF LengthSquared
  <2>5. e[1] * e[1] + e[2] * e[2] + e[3] * e[3] = others
    <3>1. CASE n1 <= n2 /\ n1 <= n3
      <4>1. e[1] = 0 /\ e[2] = x3 /\ e[3] = -x2
        BY <2>2, <3>1
      <4> QED BY <1>5, <1>8, <3>1, <4>1
    <3>2. CASE ~(n1 <= n2 /\ n1 <= n3) /\ n2 <= n3
      <4>1. e[1] = x3 /\ e[2] = 0 /\ e[3] = -x1
        BY <2>2, <3>2
      <4> QED BY <1>5, <1>8, <3>2, <4>1
    <3>3. CASE ~(n1 <= n2 /\ n1 <= n3) /\ ~(n2 <= n3)
      <4>1. e[1] = x2 /\ e[2] = -x1 /\ e[3] = 0
        BY <2>2, <3>3
      <4> QED BY <1>5, <1>8, <3>3, <4>1
    <3> QED BY <3>1, <3>2, <3>3
  <2> QED BY <2>4, <2>5
<1>11. others = mid * mid + top * top
  BY <1>4, <1>5
<1> HIDE DEF others, e
<1>12. \E l, m \in Nat : l > 0 /\ m > 0 /\ l * l = LengthSquared(x) /\ m * m = LengthSquared(e)
  <2>1. CASE low = 0 /\ mid = 0 /\ top = 1
    <3>1. 1 * 1 = LengthSquared(x) /\ 1 * 1 = LengthSquared(e)
      BY <1>9, <1>10, <1>11, <2>1
    <3>2. 1 \in Nat /\ 1 > 0 /\ 1 \in Nat /\ 1 > 0
      OBVIOUS
    <3> QED BY <3>1, <3>2, Zenon
  <2>2. CASE low = 0 /\ mid = 3 /\ top = 4
    <3>1. 5 * 5 = LengthSquared(x) /\ 5 * 5 = LengthSquared(e)
      BY <1>9, <1>10, <1>11, <2>2
    <3>2. 5 \in Nat /\ 5 > 0 /\ 5 \in Nat /\ 5 > 0
      OBVIOUS
    <3> QED BY <3>1, <3>2, Zenon
  <2>3. CASE low = 8 /\ mid = 9 /\ top = 12
    <3>1. 17 * 17 = LengthSquared(x) /\ 15 * 15 = LengthSquared(e)
      BY <1>9, <1>10, <1>11, <2>3
    <3>2. 17 \in Nat /\ 17 > 0 /\ 15 \in Nat /\ 15 > 0
      OBVIOUS
    <3> QED BY <3>1, <3>2, Zenon
  <2> QED BY <1>4, <2>1, <2>2, <2>3
<1> QED BY <1>7, <1>12 DEF e

(* The other inputs of the run are vectors of integers, ...                *)
LEMMA BasisVectors == Basis \subseteq Vectors(3)
<1>1. \A i, j, k \in Int : <<i, j, k>> \in Vectors(3)
  BY DEF Vectors
<1> QED BY <1>1 DEF Basis

(* ... the axes with whole lengths, ...                                    *)
LEMMA AxesAreWhole ==
  ASSUME NEW a \in Axes
  PROVE  a \in Vectors(3) /\ \E len \in Nat : len * len = LengthSquared(a)
<1>1. \A i, j, k \in Int : <<i, j, k>> \in Vectors(3)
  BY DEF Vectors
<1>2. a = <<0, 0, 1>> \/ a = <<1, 2, 2>> \/ a = <<-2, 3, 6>>
  BY DEF Axes
<1>3. a \in Vectors(3)
  BY <1>1, <1>2
<1>4. LengthSquared(a) = a[1] * a[1] + a[2] * a[2] + a[3] * a[3]
  BY <1>3, Dot3 DEF LengthSquared
<1>5. CASE a = <<0, 0, 1>>
  <2>1. LengthSquared(a) = 1 * 1
    BY <1>4, <1>5
  <2> QED BY <1>3, <2>1
<1>6. CASE a = <<1, 2, 2>>
  <2>1. LengthSquared(a) = 3 * 3
    BY <1>4, <1>6
  <2> QED BY <1>3, <2>1
<1>7. CASE a = <<-2, 3, 6>>
  <2>1. LengthSquared(a) = 7 * 7
    BY <1>4, <1>7
  <2> QED BY <1>3, <2>1
<1> QED BY <1>2, <1>5, <1>6, <1>7

(* ... and the matrices have integer elements.                             *)
LEMMA SymmetricMatricesAreFractions ==
  ASSUME NEW m \in SymmetricMatrices
  PROVE  \E s \in Matrices(3, 3) : m = AsFractions(s) /\ Determinant(m) = Det3(s)
<1>1. PICK d \in [1..3 -> -1..1], o \in [1..3 -> -1..1] :
         m = [c \in 1..3 |-> [r \in 1..3 |-> <<IF c = r THEN d[c] ELSE o[c + r - 2], 1>>]]
  BY DEF SymmetricMatrices
<1> DEFINE s == [c \in 1..3 |-> [r \in 1..3 |-> IF c = r THEN d[c] ELSE o[c + r - 2]]]
<1>2. s \in Matrices(3, 3)
  <2>1. \A c, r \in 1..3 : (IF c = r THEN d[c] ELSE o[c + r - 2]) \in Int
    <3> SUFFICES ASSUME NEW c \in 1..3, NEW r \in 1..3 PROVE (IF c = r THEN d[c] ELSE o[c + r - 2]) \in Int
      OBVIOUS
    <3>1. c # r => c + r - 2 \in 1..3
      OBVIOUS
    <3> QED BY <3>1
  <2> QED BY <2>1 DEF Matrices, Vectors
<1>3. \A c, r \in 1..3 : m[c][r] = <<s[c][r], 1>>
  BY <1>1
<1>4. m = AsFractions(s)
  BY <1>1 DEF AsFractions
<1> HIDE DEF s
<1>5. \A c, r \in 1..3 : m[c][r][1] = s[c][r]
  BY <1>3
<1>6. Determinant(m) = Det3(s)
  BY <1>5 DEF Determinant, Det3
<1> QED BY <1>2, <1>4, <1>6

(* ConventionsAgree: the five theorems, on the run's inputs.               *)
THEOREM ConventionsHold == ConventionsAgree
<1>1. StartsAtTheAcceleration
  <2> SUFFICES ASSUME NEW x \in Accelerations, NEW zero \in [1..3 -> {-1, 1}]
               PROVE  LET one == Length(x) * Length(GetOrthogonal(x))
                          q == MatrixToQuat(InitRodrParams(x), one, zero)
                          products == [i \in 1..4 |-> [j \in 1..4 |->
                                         q.sign[i] * q.sign[j] * Isqrt(q.square[i] * q.square[j])]]
                      IN QuatToMatrix(products, 4 * one)[3] = Scaled(4 * Length(GetOrthogonal(x)), x)
    BY Zenon DEF StartsAtTheAcceleration
  <2>1. x \in Vectors(3)
    BY AccelerationsAreWhole
  <2>2. PICK l, m \in Nat : l > 0 /\ m > 0 /\ l * l = LengthSquared(x) /\ m * m = LengthSquared(GetOrthogonal(x))
    BY AccelerationsAreWhole
  <2> QED BY <2>1, <2>2, StartsAtAnyAcceleration, Zenon
<1>2. CorrectsAlongTheError
  <2>1. Quaternions \subseteq Vectors(4)
    BY DEF Quaternions, Vectors
  <2> QED BY <2>1, BasisVectors, CorrectionsFollowTheError, Zenon DEF CorrectsAlongTheError
<1>3. PredictsAlike
  <2> SUFFICES ASSUME NEW q \in Quaternions, NEW a \in Axes, NEW angle \in HalfAngles
               PROVE  Attitude(Predict(q, a, angle[1], angle[2]))
                        = Times(PredictPhi00(a, angle[1], angle[2]), Attitude(q))
    BY Zenon DEF PredictsAlike
  <2>1. q \in Vectors(4) /\ angle[1] \in Int /\ angle[2] \in Int
    BY DEF Quaternions, Vectors, HalfAngles
  <2>2. a \in Vectors(3) /\ \E len \in Nat : len * len = LengthSquared(a)
    BY AxesAreWhole
  <2> QED BY <2>1, <2>2, PredictionsTurnAlike, Zenon
<1>4. InverseIsExact
  <2> SUFFICES ASSUME NEW m \in SymmetricMatrices, Determinant(m) # 0, NEW c \in 1..3, NEW r \in 1..3
               PROVE  LET i == Invert(m).inverse
                      IN FoldLeft(LAMBDA f, k : FractionMinusTimes(f, i[k][r], <<-m[c][k][1], 1>>),
                                  <<0, 1>>, <<1, 2, 3>>) = Identity[c][r]
    BY Zenon DEF InverseIsExact
  <2>1. PICK s \in Matrices(3, 3) : m = AsFractions(s) /\ Determinant(m) = Det3(s)
    BY SymmetricMatricesAreFractions
  <2>2. Det3(s) # 0
    BY <2>1
  <2> DEFINE Exact(n) == FoldLeft(LAMBDA f, k : FractionMinusTimes(f, Invert(n).inverse[k][r], <<-n[c][k][1], 1>>),
                                  <<0, 1>>, <<1, 2, 3>>) = Identity[c][r]
  <2>3. Exact(AsFractions(s))
    BY <2>2, InverseOfAnyMatrix, Zenon
  <2>4. Exact(m)
    <3> HIDE DEF Exact
    <3> QED BY <2>1, <2>3
  <2> QED BY <2>4
<1>5. ScalesIndependentErrors
  <2> SUFFICES ASSUME NEW p \in Basis, NEW b \in Axes
               PROVE  LET P == [c \in 1..3 |-> [r \in 1..3 |-> IF c = r THEN p[c] ELSE 0]]
                          A == CrossMatrix(b, 0)
                      IN ScaleCovariance(A, P) = MatrixScaled(2, Times(A, Times(P, Transpose(A))))
    BY Zenon DEF ScalesIndependentErrors
  <2>1. p \in Vectors(3) /\ b \in Vectors(3)
    BY BasisVectors, AxesAreWhole
  <2>2. CrossMatrix(b, 0) \in Matrices(3, 3)
    BY <2>1, CrossMatrixOf, Zenon
  <2> QED BY <2>1, <2>2, ErrorsScale, Zenon
<1> QED BY <1>1, <1>2, <1>3, <1>4, <1>5 DEF ConventionsAgree

(* FusionIsConsistent: whenever the gravity sensor is in use, the steps    *)
(* its samples are computed by fit together.                               *)
THEOREM GravityIsConsistent == Spec => []FusionIsConsistent
<1>1. FusionIsConsistent
  BY ConventionsHold DEF FusionIsConsistent
<1> QED BY <1>1, PTL
=============================================================================
