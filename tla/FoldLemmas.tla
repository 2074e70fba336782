----------------------------- MODULE FoldLemmas -----------------------------
(***************************************************************************)
(* Induction over data, for the proofs about recursive functions and sums. *)
(* First numbers and lists, then finite sets and the sums over them.       *)
(* A property of naturals or of finite sets is the set of those that have  *)
(* it: the provers cannot take it as an operator.                          *)
(***************************************************************************)
EXTENDS Integers, FiniteSetsExt, FiniteSetTheorems, WellFoundedInduction, TLAPS

\* A set of naturals that is not empty has a least element.
LEMMA LeastNatural ==
    ASSUME NEW T \in SUBSET Nat, T # {}
    PROVE  \E n \in T : \A m \in T : n <= m
  <1> DEFINE R == {ss \in Nat \X Nat : ss[1] < ss[2]}
  <1>1. IsWellFoundedOn(R, Nat)
    BY NatLessThanWellFounded DEF OpToRel
  <1>2. PICK n \in T : \A m \in T : ~(<<m, n>> \in R)
    BY <1>1, WFMin
  <1>3. \A m \in T : ~(m < n)
    BY <1>2
  <1> QED
    BY <1>3

\* Induction: a set of naturals with zero and every successor is all of them.
LEMMA SetInduction ==
    ASSUME NEW T \in SUBSET Nat, 0 \in T, \A n \in T : n + 1 \in T
    PROVE  T = Nat
  <1> SUFFICES ASSUME Nat \ T # {} PROVE FALSE
    OBVIOUS
  <1>1. PICK n \in Nat \ T : \A m \in Nat \ T : n <= m
    BY LeastNatural
  <1>2. n # 0 /\ n - 1 \in Nat
    BY <1>1
  <1>3. n - 1 \in T
    BY <1>1, <1>2
  <1>4. (n - 1) + 1 = n
    BY <1>2
  <1> QED
    BY <1>1, <1>3, <1>4

-----------------------------------------------------------------------------
(* Folds over sequences.                                                   *)

\* The greatest element of a set of indices is one of them.
LEMMA MaxIsMember ==
    ASSUME NEW n \in Nat, NEW s \in SUBSET (1 .. n), s # {}
    PROVE  Max(s) \in s /\ \A i \in s : Max(s) >= i
  <1> DEFINE T == {n - i : i \in s}
  <1>1. T \in SUBSET Nat /\ T # {}
    <2>1. \A i \in s : i \in 1 .. n /\ n - i \in Nat
      OBVIOUS
    <2> QED
      BY <2>1
  <1>2. PICK t \in T : \A u \in T : t <= u
    BY <1>1, LeastNatural
  <1>3. PICK m \in s : t = n - m
    BY <1>2
  <1>4. ASSUME NEW i \in s PROVE m >= i
    <2>1. n - m <= n - i
      BY <1>2, <1>3
    <2> QED
      BY <2>1
  <1> QED
    BY <1>3, <1>4 DEF Max

LEMMA MaxOfInterval ==
    ASSUME NEW n \in Nat, NEW s \in SUBSET (1 .. n), n \in s
    PROVE  Max(s) = n
  <1>1. Max(s) \in s /\ Max(s) >= n
    BY MaxIsMember
  <1>2. Max(s) \in 1 .. n
    BY <1>1
  <1> QED
    BY <1>1, <1>2

\* A fold over a sequence of n elements is a recursive function of the sets of its
\* indices, which takes the step of the greatest index last.
IsFold(f, n, A, base, step) ==
    /\ f \in [SUBSET (1 .. n) -> A]
    /\ \A s \in SUBSET (1 .. n) :
         f[s] = IF s = {} THEN base ELSE step[Max(s)][f[s \ {Max(s)}]]

\* Such a function exists, whatever the steps are.
LEMMA FoldFunctionExists ==
    ASSUME NEW n \in Nat, NEW A, NEW base \in A, NEW step,
           \A i \in 1 .. n : \A a \in A : step[i][a] \in A
    PROVE  \E f : IsFold(f, n, A, base, step)
  <1> DEFINE Folds(m, f) == IsFold(f, m, A, base, step)
             T == {m \in Nat : m <= n => \E f : Folds(m, f)}
  <1>1. 0 \in T
    <2> DEFINE f == [s \in SUBSET (1 .. 0) |-> base]
    <2>1. Folds(0, f)
      BY DEF IsFold
    <2> QED
      BY <2>1
  <1>2. ASSUME NEW m \in T, m + 1 <= n PROVE \E f : Folds(m + 1, f)
    <2>1. m \in Nat /\ m + 1 \in 1 .. n /\ m <= n
      BY <1>2
    <2>2. PICK f : Folds(m, f)
      BY <1>2, <2>1
    <2> DEFINE h == [s \in SUBSET (1 .. m + 1) |->
                       IF m + 1 \in s THEN step[m + 1][f[s \ {m + 1}]] ELSE f[s]]
    <2>3. \A s \in SUBSET (1 .. m + 1) :
            /\ m + 1 \in s => s \ {m + 1} \in SUBSET (1 .. m)
            /\ m + 1 \notin s => s \in SUBSET (1 .. m)
      BY <2>1
    <2>4. h \in [SUBSET (1 .. m + 1) -> A]
      BY <2>1, <2>2, <2>3 DEF IsFold
    <2>5. \A s \in SUBSET (1 .. m) : s \in SUBSET (1 .. m + 1) /\ m + 1 \notin s
      BY <2>1
    <2>6. \A s \in SUBSET (1 .. m) : h[s] = f[s]
      BY <2>5
    <2> HIDE DEF h
    <2>7. ASSUME NEW s \in SUBSET (1 .. m + 1)
          PROVE  h[s] = IF s = {} THEN base ELSE step[Max(s)][h[s \ {Max(s)}]]
      <3>1. CASE m + 1 \in s
        <4>1. Max(s) = m + 1
          BY <2>1, <3>1, MaxOfInterval
        <4>2. h[s] = step[m + 1][f[s \ {m + 1}]]
          BY <3>1 DEF h
        <4> QED
          BY <2>3, <2>6, <3>1, <4>1, <4>2
      <3>2. CASE m + 1 \notin s
        <4>1. s \in SUBSET (1 .. m) /\ s \ {Max(s)} \in SUBSET (1 .. m)
          BY <2>3, <3>2
        <4> QED
          BY <2>2, <2>6, <4>1 DEF IsFold
      <3> QED
        BY <3>1, <3>2
    <2> QED
      BY <2>4, <2>7 DEF IsFold
  <1> HIDE DEF Folds
  <1>3. \A m \in T : m + 1 \in T
    <2> TAKE m \in T
    <2>1. m + 1 <= n => \E f : Folds(m + 1, f)
      BY <1>2
    <2>2. m + 1 \in Nat
      OBVIOUS
    <2> QED
      BY <2>1, <2>2
  <1>4. T = Nat
    BY <1>1, <1>3, SetInduction
  <1>5. \E f : Folds(n, f)
    <2> HIDE DEF T
    <2>1. n \in T
      BY <1>4
    <2>2. n <= n
      OBVIOUS
    <2> QED
      BY <2>1, <2>2 DEF T
  <1> QED
    BY <1>5 DEF Folds

\* The intervals from 1 are the sets such a function goes through.
LEMMA IntervalLosesLast ==
    ASSUME NEW n \in Nat, NEW k \in 1 .. n
    PROVE  /\ 1 .. k \in SUBSET (1 .. n) /\ 1 .. k # {}
           /\ Max(1 .. k) = k /\ (1 .. k) \ {Max(1 .. k)} = 1 .. (k - 1)
  <1>1. 1 .. k \in SUBSET (1 .. n) /\ k \in 1 .. k /\ 1 .. k \in SUBSET (1 .. k)
    OBVIOUS
  <1>2. Max(1 .. k) = k
    BY <1>1, MaxOfInterval
  <1>3. (1 .. k) \ {k} = 1 .. (k - 1)
    OBVIOUS
  <1> QED
    BY <1>1, <1>2, <1>3

\* What a recursive function of the naturals up to n goes through.
GoesBy(P, n, A, base, step) ==
    /\ P \in [0 .. n -> A]
    /\ P[0] = base
    /\ \A i \in 1 .. n : P[i] = step[i][P[i - 1]]

StepsWithin(n, A, step) == \A i \in 1 .. n : \A a \in A : step[i][a] \in A

\* F takes the step of the greatest index last, wherever it has a value in A.
TakesSteps(F, n, A, base, step) ==
    /\ F[{}] = base
    /\ \A s \in SUBSET (1 .. n) :
         s # {} /\ F[s \ {Max(s)}] \in A => F[s] = step[Max(s)][F[s \ {Max(s)}]]

\* A fold goes through its values on the intervals from 1.
LEMMA FoldGoes ==
    ASSUME NEW n \in Nat, NEW A, NEW base \in A, NEW step,
           StepsWithin(n, A, step), NEW F, TakesSteps(F, n, A, base, step)
    PROVE  \E P : GoesBy(P, n, A, base, step) /\ P[n] = F[1 .. n]
  <1> DEFINE P == [k \in 0 .. n |-> F[1 .. k]]
             T == {k \in Nat : k <= n => P[k] \in A /\ (k > 0 => P[k] = step[k][P[k - 1]])}
  <1>1. P[0] = base
    <2>1. 1 .. 0 = {}
      OBVIOUS
    <2> QED
      BY <2>1 DEF TakesSteps
  <1>2. \A k \in 0 .. n : P[k] = F[1 .. k]
    OBVIOUS
  <1>3. DOMAIN P = 0 .. n /\ P = [k \in 0 .. n |-> P[k]]
    OBVIOUS
  <1> HIDE DEF P
  <1>4. 0 \in T
    BY <1>1
  <1>5. ASSUME NEW k \in T PROVE k + 1 \in T
    <2>1. k \in Nat
      OBVIOUS
    <2> SUFFICES ASSUME k + 1 <= n
                 PROVE  P[k + 1] \in A /\ P[k + 1] = step[k + 1][P[k]]
      BY <2>1
    <2>2. k + 1 \in 1 .. n /\ k \in 0 .. n /\ k + 1 \in 0 .. n /\ P[k] \in A /\ (k + 1) - 1 = k
      BY <2>1
    <2>3. /\ 1 .. (k + 1) \in SUBSET (1 .. n) /\ 1 .. (k + 1) # {}
          /\ Max(1 .. (k + 1)) = k + 1 /\ (1 .. (k + 1)) \ {Max(1 .. (k + 1))} = 1 .. k
      BY <2>2, IntervalLosesLast
    <2>4. F[1 .. (k + 1)] = step[k + 1][F[1 .. k]]
      BY <1>2, <2>2, <2>3 DEF TakesSteps
    <2> QED
      BY <1>2, <2>2, <2>4 DEF StepsWithin
  <1>6. T = Nat
    BY <1>4, <1>5, SetInduction
  <1> HIDE DEF T
  <1>7. ASSUME NEW k \in 0 .. n
        PROVE  P[k] \in A /\ (k > 0 => P[k] = step[k][P[k - 1]])
    <2>1. k \in T
      BY <1>6
    <2> QED
      BY <2>1 DEF T
  <1>8. GoesBy(P, n, A, base, step)
    <2>1. \A i \in 1 .. n : i \in 0 .. n /\ i > 0
      OBVIOUS
    <2> QED
      BY <1>1, <1>3, <1>7, <2>1 DEF GoesBy
  <1> QED
    BY <1>2, <1>8

\* A recursive function of the naturals up to n exists, whatever its steps are.
LEMMA RecursionExists ==
    ASSUME NEW n \in Nat, NEW A, NEW base \in A, NEW step,
           \A i \in 1 .. n : \A a \in A : step[i][a] \in A
    PROVE  \E P : GoesBy(P, n, A, base, step)
  <1>1. PICK f : IsFold(f, n, A, base, step)
    BY FoldFunctionExists
  <1>2. f[{}] = base /\ \A s \in SUBSET (1 .. n) : s # {} => f[s] = step[Max(s)][f[s \ {Max(s)}]]
    BY <1>1 DEF IsFold
  <1>3. TakesSteps(f, n, A, base, step) /\ StepsWithin(n, A, step)
    BY <1>2 DEF TakesSteps, StepsWithin
  <1> QED
    BY <1>3, FoldGoes

\* F starts with base, and takes a step from every value in A.
StepsUp(F, n, A, base, step) ==
    /\ F = [k \in 0 .. n |-> F[k]]
    /\ F[0] = base
    /\ \A k \in 1 .. n : F[k - 1] \in A => F[k] = step[k][F[k - 1]]

\* A function with these values is that recursion, if no step leaves A.
LEMMA RecursionGoes ==
    ASSUME NEW n \in Nat, NEW A, NEW base \in A, NEW step, StepsWithin(n, A, step),
           NEW F, StepsUp(F, n, A, base, step)
    PROVE  GoesBy(F, n, A, base, step)
  <1> DEFINE T == {k \in Nat : k <= n => F[k] \in A}
  <1>1. 0 \in T
    BY DEF StepsUp
  <1>2. ASSUME NEW k \in T PROVE k + 1 \in T
    <2>1. k \in Nat
      OBVIOUS
    <2> SUFFICES ASSUME k + 1 <= n PROVE F[k + 1] \in A
      BY <2>1
    <2>2. k + 1 \in 1 .. n /\ (k + 1) - 1 = k /\ k <= n
      BY <2>1
    <2>3. F[k] \in A
      BY <2>2
    <2> HIDE DEF T
    <2> QED
      BY <2>2, <2>3 DEF StepsUp, StepsWithin
  <1>3. T = Nat
    BY <1>1, <1>2, SetInduction
  <1>4. \A k \in 0 .. n : F[k] \in A
    <2> TAKE k \in 0 .. n
    <2> HIDE DEF T
    <2>1. k \in T /\ k <= n
      BY <1>3
    <2> QED
      BY <2>1 DEF T
  <1>5. F \in [0 .. n -> A]
    BY <1>4 DEF StepsUp
  <1>6. \A k \in 1 .. n : k - 1 \in 0 .. n
    OBVIOUS
  <1> QED
    BY <1>4, <1>5, <1>6 DEF StepsUp, GoesBy

-----------------------------------------------------------------------------
(* Sums of lists of numbers.                                               *)

\* P holds the sums of the first numbers of v.
IsSum(P, n, v) ==
    /\ v \in [1 .. n -> Int] /\ P \in [0 .. n -> Int]
    /\ P[0] = 0
    /\ \A i \in 1 .. n : P[i] = P[i - 1] + v[i]

AddUpTo(x, n, u, v, w) == \A i \in 1 .. n : x[i] = u[i] + v[i] + w[i]

\* The sums of three lists of numbers give the sums of their sums.
LEMMA SumsAdd ==
    ASSUME NEW n \in Nat, NEW P, NEW Q, NEW R, NEW S, NEW u, NEW v, NEW w, NEW x,
           IsSum(P, n, u), IsSum(Q, n, v), IsSum(R, n, w), IsSum(S, n, x), AddUpTo(x, n, u, v, w)
    PROVE  S[n] = P[n] + Q[n] + R[n]
  <1> DEFINE T == {k \in Nat : k <= n => S[k] = P[k] + Q[k] + R[k]}
  <1>1. 0 \in T
    BY DEF IsSum
  <1>2. ASSUME NEW k \in T PROVE k + 1 \in T
    <2>1. k \in Nat
      OBVIOUS
    <2> SUFFICES ASSUME k + 1 <= n PROVE S[k + 1] = P[k + 1] + Q[k + 1] + R[k + 1]
      BY <2>1
    <2>2. k + 1 \in 1 .. n /\ (k + 1) - 1 = k /\ k \in 0 .. n /\ k <= n
      BY <2>1
    <2>3. S[k] = P[k] + Q[k] + R[k]
      BY <2>2
    <2>4. /\ P[k] \in Int /\ Q[k] \in Int /\ R[k] \in Int
          /\ u[k + 1] \in Int /\ v[k + 1] \in Int /\ w[k + 1] \in Int
      BY <2>2 DEF IsSum
    <2>5. /\ P[k + 1] = P[k] + u[k + 1] /\ Q[k + 1] = Q[k] + v[k + 1]
          /\ R[k + 1] = R[k] + w[k + 1] /\ S[k + 1] = S[k] + x[k + 1]
          /\ x[k + 1] = u[k + 1] + v[k + 1] + w[k + 1]
      BY <2>2 DEF IsSum, AddUpTo
    <2> QED
      BY <2>3, <2>4, <2>5
  <1>3. T = Nat
    BY <1>1, <1>2, SetInduction
  <1> HIDE DEF T
  <1>4. n \in T
    BY <1>3
  <1> QED
    BY <1>4 DEF T

LEMMA SumsNear ==
    ASSUME NEW n \in Nat, NEW P, NEW Q, NEW u, NEW v,
           IsSum(P, n, u), IsSum(Q, n, v),
           \A i \in 1 .. n : u[i] - v[i] <= 1 /\ v[i] - u[i] <= 1
    PROVE  P[n] - Q[n] <= n /\ Q[n] - P[n] <= n
  <1> DEFINE T == {k \in Nat : k <= n => P[k] - Q[k] <= k /\ Q[k] - P[k] <= k}
  <1>1. 0 \in T
    BY DEF IsSum
  <1>2. ASSUME NEW k \in T PROVE k + 1 \in T
    <2>1. k \in Nat
      OBVIOUS
    <2> SUFFICES ASSUME k + 1 <= n
                 PROVE  P[k + 1] - Q[k + 1] <= k + 1 /\ Q[k + 1] - P[k + 1] <= k + 1
      BY <2>1
    <2>2. k + 1 \in 1 .. n /\ (k + 1) - 1 = k /\ k \in 0 .. n /\ k <= n
      BY <2>1
    <2>3. P[k] - Q[k] <= k /\ Q[k] - P[k] <= k
      BY <2>2
    <2>4. /\ P[k] \in Int /\ Q[k] \in Int /\ u[k + 1] \in Int /\ v[k + 1] \in Int
          /\ u[k + 1] - v[k + 1] <= 1 /\ v[k + 1] - u[k + 1] <= 1
      BY <2>2 DEF IsSum
    <2>5. P[k + 1] = P[k] + u[k + 1] /\ Q[k + 1] = Q[k] + v[k + 1]
      BY <2>2 DEF IsSum
    <2>6. \A p, q, a, b \in Int : p - q <= k /\ a - b <= 1 => (p + a) - (q + b) <= k + 1
      BY <2>1
    <2> QED
      BY <2>3, <2>4, <2>5, <2>6
  <1>3. T = Nat
    BY <1>1, <1>2, SetInduction
  <1> HIDE DEF T
  <1>4. n \in T
    BY <1>3
  <1> QED
    BY <1>4 DEF T

\* One step of a function of sets of indices that adds the last number.
AddLast(f, n, v) ==
    [s \in SUBSET (1 .. n) |-> IF s = {} THEN 0 ELSE f[s \ {Max(s)}] + v[Max(s)]]

LEMMA AddingLastExists ==
    ASSUME NEW n \in Nat, NEW v \in [1 .. n -> Int]
    PROVE  \E f : f = AddLast(f, n, v)
  <1> DEFINE g == [i \in 1 .. n |-> [total \in Int |-> total + v[i]]]
  <1>1. \A i \in 1 .. n : \A total \in Int : g[i][total] = total + v[i]
    OBVIOUS
  <1> HIDE DEF g
  <1>2. 0 \in Int /\ \A i \in 1 .. n : \A total \in Int : g[i][total] \in Int
    <2>1. \A i \in 1 .. n : \A total \in Int : total + v[i] \in Int
      OBVIOUS
    <2>2. 0 \in Int
      OBVIOUS
    <2> QED
      BY <1>1, <2>1, <2>2
  <1>3. PICK f : IsFold(f, n, Int, 0, g)
    BY <1>2, FoldFunctionExists
  <1>4. \A s \in SUBSET (1 .. n) : s # {} => Max(s) \in 1 .. n
    BY MaxIsMember
  <1>5. ASSUME NEW s \in SUBSET (1 .. n)
        PROVE  f[s] = IF s = {} THEN 0 ELSE f[s \ {Max(s)}] + v[Max(s)]
    <2>1. f[s \ {Max(s)}] \in Int
      BY <1>3 DEF IsFold
    <2>2. CASE s = {}
      BY <1>3, <2>2 DEF IsFold
    <2>3. CASE s # {}
      <3>1. f[s] = g[Max(s)][f[s \ {Max(s)}]] /\ Max(s) \in 1 .. n
        BY <1>3, <1>4, <2>3 DEF IsFold
      <3>2. g[Max(s)][f[s \ {Max(s)}]] = f[s \ {Max(s)}] + v[Max(s)]
        BY <1>1, <2>1, <3>1
      <3> QED
        BY <2>3, <3>1, <3>2
    <2> QED
      BY <2>2, <2>3
  <1>6. f = AddLast(f, n, v)
    BY <1>3, <1>5 DEF IsFold, AddLast
  <1> QED
    BY <1>6

\* The values of such a function are the sums of the first numbers.
LEMMA AddingLastSums ==
    ASSUME NEW n \in Nat, NEW v \in [1 .. n -> Int], NEW f, f = AddLast(f, n, v)
    PROVE  IsSum([k \in 0 .. n |-> f[1 .. k]], n, v)
  <1> DEFINE P == [k \in 0 .. n |-> f[1 .. k]]
  <1>1. \A s \in SUBSET (1 .. n) : f[s] = IF s = {} THEN 0 ELSE f[s \ {Max(s)}] + v[Max(s)]
    BY DEF AddLast
  <1>2. P[0] = 0
    <2>1. 1 .. 0 = {} /\ {} \in SUBSET (1 .. n) /\ 0 \in 0 .. n
      OBVIOUS
    <2>2. f[{}] = 0
      BY <1>1, <2>1
    <2> QED
      BY <2>1, <2>2
  <1>3. ASSUME NEW i \in 1 .. n PROVE P[i] = P[i - 1] + v[i]
    <2>1. i \in 0 .. n /\ i - 1 \in 0 .. n
      OBVIOUS
    <2>2. f[1 .. i] = f[1 .. (i - 1)] + v[i]
      BY <1>1, IntervalLosesLast
    <2> QED
      BY <2>1, <2>2
  <1>4. P \in [0 .. n -> Int]
    <2> DEFINE T == {k \in Nat : k <= n => P[k] \in Int}
    <2>1. \A k \in 0 .. n : P[k] = f[1 .. k]
      OBVIOUS
    <2>2. DOMAIN P = 0 .. n /\ P = [k \in 0 .. n |-> P[k]]
      OBVIOUS
    <2> HIDE DEF P
    <2>3. 0 \in T
      BY <1>2
    <2>4. ASSUME NEW k \in T PROVE k + 1 \in T
      <3>1. k \in Nat
        OBVIOUS
      <3>2. k + 1 <= n => k + 1 \in 1 .. n /\ (k + 1) - 1 = k /\ v[k + 1] \in Int
        BY <3>1
      <3> QED
        BY <1>3, <3>1, <3>2
    <2>5. T = Nat
      BY <2>3, <2>4, SetInduction
    <2>6. \A k \in 0 .. n : P[k] \in Int
      <3> TAKE k \in 0 .. n
      <3>1. k \in Nat /\ k <= n
        OBVIOUS
      <3> HIDE DEF T
      <3>2. k \in T
        BY <2>5, <3>1
      <3> QED
        BY <3>1, <3>2 DEF T
    <2> QED
      BY <2>2, <2>6
  <1> QED
    BY <1>2, <1>3, <1>4 DEF IsSum

LEMMA SumOfZeros ==
    ASSUME NEW n \in Nat
    PROVE  IsSum([k \in 0 .. n |-> 0], n, [i \in 1 .. n |-> 0])
  BY DEF IsSum

\* Sums of equal numbers, and of sums of two.
LEMMA SumsAddTwo ==
    ASSUME NEW n \in Nat, NEW P, NEW Q, NEW S, NEW u, NEW v, NEW x,
           IsSum(P, n, u), IsSum(Q, n, v), IsSum(S, n, x),
           \A i \in 1 .. n : x[i] = u[i] + v[i]
    PROVE  S[n] = P[n] + Q[n]
  <1> DEFINE Z == [k \in 0 .. n |-> 0]
             z == [i \in 1 .. n |-> 0]
  <1>1. /\ IsSum(Z, n, z) /\ z \in [1 .. n -> Int] /\ Z[n] = 0
        /\ \A i \in 1 .. n : z[i] = 0
    BY SumOfZeros
  <1>2. AddUpTo(x, n, u, v, z)
    BY <1>1 DEF AddUpTo, IsSum
  <1> HIDE DEF Z, z
  <1>3. S[n] = P[n] + Q[n] + Z[n]
    BY <1>1, <1>2, SumsAdd
  <1>4. P[n] \in Int /\ Q[n] \in Int
    BY DEF IsSum
  <1> QED
    BY <1>1, <1>3, <1>4

LEMMA SumsEqual ==
    ASSUME NEW n \in Nat, NEW P, NEW S, NEW u, NEW x,
           IsSum(P, n, u), IsSum(S, n, x),
           \A i \in 1 .. n : x[i] = u[i]
    PROVE  S[n] = P[n]
  <1> DEFINE Z == [k \in 0 .. n |-> 0]
             z == [i \in 1 .. n |-> 0]
  <1>1. /\ IsSum(Z, n, z) /\ z \in [1 .. n -> Int] /\ Z[n] = 0
        /\ \A i \in 1 .. n : z[i] = 0
    BY SumOfZeros
  <1>2. \A i \in 1 .. n : x[i] = u[i] + z[i]
    BY <1>1 DEF IsSum
  <1> HIDE DEF Z, z
  <1>3. S[n] = P[n] + Z[n]
    BY <1>1, <1>2, SumsAddTwo
  <1>4. P[n] \in Int
    BY DEF IsSum
  <1> QED
    BY <1>1, <1>3, <1>4

-----------------------------------------------------------------------------
(* Finite sets.                                                            *)

\* A set that is not empty has one member less without one of them.
LEMMA LosesOne ==
    ASSUME NEW s, IsFiniteSet(s), NEW n \in Nat, Cardinality(s) = n + 1
    PROVE  s # {} /\ \A x \in s : Cardinality(s \ {x}) = n
  <1>1. Cardinality({}) = 0 /\ n + 1 # 0
    BY FS_EmptySet
  <1>2. s # {}
    BY <1>1
  <1>3. ASSUME NEW x \in s PROVE Cardinality(s \ {x}) = n
    <2>1. Cardinality(s \ {x}) = Cardinality(s) - 1
      BY FS_RemoveElement
    <2> QED
      BY <2>1
  <1> QED
    BY <1>2, <1>3

\* Induction over the subsets of a finite set: the set of those that have a property.
LEMMA SubsetInduction ==
    ASSUME NEW S, IsFiniteSet(S), NEW T, {} \in T,
           \A s \in SUBSET S : \A x \in S : s \in T /\ x \notin s => s \cup {x} \in T
    PROVE  S \in T
  <1> DEFINE N == {n \in Nat : \A s \in SUBSET S : Cardinality(s) = n => s \in T}
  <1>1. \A s \in SUBSET S : IsFiniteSet(s) /\ Cardinality(s) \in Nat
    BY FS_Subset, FS_CardinalityType
  <1>2. 0 \in N
    BY <1>1, FS_EmptySet
  <1>3. ASSUME NEW n \in N PROVE n + 1 \in N
    <2>1. n \in Nat
      OBVIOUS
    <2> SUFFICES ASSUME NEW s \in SUBSET S, Cardinality(s) = n + 1 PROVE s \in T
      BY <2>1
    <2>2. s # {} /\ \A y \in s : Cardinality(s \ {y}) = n
      BY <1>1, <2>1, LosesOne
    <2>3. PICK x \in S : x \in s
      BY <2>2
    <2>4. Cardinality(s \ {x}) = n /\ s \ {x} \in SUBSET S
      BY <2>2, <2>3
    <2>5. s \ {x} \in T /\ x \notin s \ {x} /\ (s \ {x}) \cup {x} = s
      BY <2>3, <2>4
    <2> QED
      BY <2>3, <2>4, <2>5
  <1>4. N = Nat
    BY <1>2, <1>3, SetInduction
  <1>5. Cardinality(S) \in N
    BY <1>1, <1>4
  <1> QED
    BY <1>5

-----------------------------------------------------------------------------
(* Sums of functions with a finite domain.                                 *)

First(s) == CHOOSE x \in s : TRUE

AddsFirst(g, f, S) ==
    \A s \in SUBSET S : g[s] = IF s = {} THEN 0 ELSE f[First(s)] + g[s \ {First(s)}]

\* g holds the sums of f over the subsets of S.
IsSums(g, f, S) == f \in [S -> Int] /\ g \in [SUBSET S -> Int] /\ AddsFirst(g, f, S)

\* One step of a function of sets that adds some member.
SumStep(f, S, g) ==
    [s \in SUBSET S |-> IF s = {} THEN 0 ELSE f[First(s)] + g[s \ {First(s)}]]

\* There is a function with the sums of all subsets.
LEMMA SumsExist ==
    ASSUME NEW S, IsFiniteSet(S), NEW f \in [S -> Int]
    PROVE  \E g : IsSums(g, f, S)
  <1> DEFINE A == [SUBSET S -> Int]
             base == [s \in SUBSET S |-> 0]
             n == Cardinality(S)
             step == [k \in 1 .. (n + 1) |-> [g \in A |-> SumStep(f, S, g)]]
  <1>1. n \in Nat /\ n + 1 \in Nat
    BY FS_CardinalityType
  <1>2. \A s \in SUBSET S : s # {} => First(s) \in S /\ First(s) \in s /\ s \ {First(s)} \in SUBSET S
    BY DEF First
  <1>3. ASSUME NEW g \in A PROVE SumStep(f, S, g) \in A
    BY <1>2 DEF SumStep
  <1>4. base \in A
    OBVIOUS
  <1>5. \A k \in 1 .. (n + 1) : \A g \in A : step[k][g] = SumStep(f, S, g) /\ step[k][g] \in A
    BY <1>3
  <1> HIDE DEF step, n, A
  <1>6. PICK P : GoesBy(P, n + 1, A, base, step)
    BY <1>1, <1>4, <1>5, RecursionExists
  <1>7. \A k \in 0 .. n : P[k] \in A /\ P[k + 1] = SumStep(f, S, P[k])
    <2> TAKE k \in 0 .. n
    <2>1. k \in 0 .. (n + 1) /\ k + 1 \in 1 .. (n + 1) /\ (k + 1) - 1 = k
      BY <1>1
    <2> QED
      BY <1>5, <1>6, <2>1 DEF GoesBy
  <1> DEFINE T == {k \in Nat : k <= n => \A s \in SUBSET S : Cardinality(s) <= k => P[k + 1][s] = P[k][s]}
  <1>8. \A s \in SUBSET S : IsFiniteSet(s) /\ Cardinality(s) \in Nat
    BY FS_Subset, FS_CardinalityType
  <1>9. 0 \in T
    <2> SUFFICES ASSUME NEW s \in SUBSET S, Cardinality(s) <= 0 PROVE P[0 + 1][s] = P[0][s]
      OBVIOUS
    <2>1. s = {} /\ 0 \in 0 .. n
      BY <1>1, <1>8, FS_EmptySet
    <2>2. P[0 + 1] = SumStep(f, S, P[0]) /\ P[0] = base
      BY <1>6, <1>7, <2>1 DEF GoesBy
    <2> QED
      BY <2>1, <2>2 DEF SumStep
  <1>10. ASSUME NEW k \in T PROVE k + 1 \in T
    <2>1. k \in Nat
      OBVIOUS
    <2> SUFFICES ASSUME k + 1 <= n, NEW s \in SUBSET S, Cardinality(s) <= k + 1
                 PROVE  P[(k + 1) + 1][s] = P[k + 1][s]
      BY <2>1
    <2>2. k \in 0 .. n /\ k + 1 \in 0 .. n
      BY <1>1, <2>1
    <2>3. P[(k + 1) + 1] = SumStep(f, S, P[k + 1]) /\ P[k + 1] = SumStep(f, S, P[k])
      BY <1>7, <2>2
    <2>4. CASE s = {}
      BY <2>3, <2>4 DEF SumStep
    <2>5. CASE s # {}
      <3> DEFINE r == s \ {First(s)}
      <3>1. First(s) \in s /\ r \in SUBSET S
        BY <1>2, <2>5
      <3>2. Cardinality(r) <= k
        BY <1>8, <2>1, <3>1, FS_RemoveElement
      <3>3. P[k + 1][r] = P[k][r]
        BY <2>2, <3>1, <3>2
      <3> HIDE DEF r
      <3>4. /\ SumStep(f, S, P[k + 1])[s] = f[First(s)] + P[k + 1][r]
            /\ SumStep(f, S, P[k])[s] = f[First(s)] + P[k][r]
        BY <2>5 DEF SumStep, r
      <3> QED
        BY <2>3, <3>3, <3>4
    <2> QED
      BY <2>4, <2>5
  <1>11. T = Nat
    BY <1>9, <1>10, SetInduction
  <1>12. \A s \in SUBSET S : P[n + 1][s] = P[n][s]
    <2> TAKE s \in SUBSET S
    <2>1. Cardinality(s) <= n
      BY FS_Subset DEF n
    <2> HIDE DEF T
    <2>2. n \in T
      BY <1>1, <1>11
    <2> QED
      BY <1>1, <2>1, <2>2 DEF T
  <1>13. n \in 0 .. n
    BY <1>1
  <1>14. IsSums(P[n], f, S)
    <2>1. P[n] \in A /\ P[n + 1] = SumStep(f, S, P[n])
      BY <1>7, <1>13
    <2>2. \A s \in SUBSET S : P[n][s] = IF s = {} THEN 0 ELSE f[First(s)] + P[n][s \ {First(s)}]
      BY <1>12, <2>1 DEF SumStep
    <2> QED
      BY <2>1, <2>2 DEF IsSums, AddsFirst, A
  <1> QED
    BY <1>14

\* The sums over a set do not depend on what the functions are elsewhere.
LEMMA SumsAgree ==
    ASSUME NEW S, IsFiniteSet(S), NEW g, NEW f, NEW U, NEW h, NEW k,
           AddsFirst(g, f, S), AddsFirst(h, k, U), S \subseteq U,
           \A x \in S : f[x] = k[x]
    PROVE  \A s \in SUBSET S : g[s] = h[s]
  <1> DEFINE N == {n \in Nat : \A s \in SUBSET S : Cardinality(s) = n => g[s] = h[s]}
  <1>1. \A s \in SUBSET S : IsFiniteSet(s) /\ Cardinality(s) \in Nat
    BY FS_Subset, FS_CardinalityType
  <1>2. 0 \in N
    BY <1>1, FS_EmptySet DEF AddsFirst
  <1>3. ASSUME NEW n \in N PROVE n + 1 \in N
    <2>1. n \in Nat
      OBVIOUS
    <2> SUFFICES ASSUME NEW s \in SUBSET S, Cardinality(s) = n + 1 PROVE g[s] = h[s]
      BY <2>1
    <2>2. s # {} /\ \A y \in s : Cardinality(s \ {y}) = n
      BY <1>1, <2>1, LosesOne
    <2>3. First(s) \in s
      BY <2>2 DEF First
    <2>4. Cardinality(s \ {First(s)}) = n /\ s \ {First(s)} \in SUBSET S
      BY <2>2, <2>3
    <2>5. g[s \ {First(s)}] = h[s \ {First(s)}]
      BY <2>4
    <2>6. f[First(s)] = k[First(s)] /\ s \in SUBSET U
      BY <2>3
    <2>7. g[s] = f[First(s)] + g[s \ {First(s)}]
      BY <2>2 DEF AddsFirst
    <2>8. h[s] = k[First(s)] + h[s \ {First(s)}]
      BY <2>2, <2>6 DEF AddsFirst
    <2> QED
      BY <2>5, <2>6, <2>7, <2>8
  <1>4. N = Nat
    BY <1>2, <1>3, SetInduction
  <1> HIDE DEF N
  <1>5. ASSUME NEW s \in SUBSET S PROVE g[s] = h[s]
    <2>1. Cardinality(s) \in N
      BY <1>1, <1>4
    <2> QED
      BY <2>1 DEF N
  <1> QED
    BY <1>5

\* Such sums are what SumFunction() gives.
LEMMA SumIsSums ==
    ASSUME NEW S, IsFiniteSet(S), NEW f, NEW g, IsSums(g, f, S)
    PROVE  SumFunction(f) = g[S]
  <1> DEFINE Step(h) == [s \in SUBSET S |-> IF s = {} THEN 0 ELSE f[First(s)] + h[s \ {First(s)}]]
             F == CHOOSE h : h = Step(h)
  <1>1. DOMAIN f = S /\ f \in [S -> Int]
    BY DEF IsSums
  <1>2. SumFunction(f) = F[S]
    BY <1>1 DEF SumFunction, SumFunctionOnSet, FoldFunctionOnSet, MapThenFoldSet, First
  <1>3. g = Step(g)
    BY DEF IsSums, AddsFirst
  <1>4. F = Step(F)
    BY <1>3
  <1>5. AddsFirst(F, f, S)
    BY <1>4 DEF AddsFirst
  <1> HIDE DEF F, Step
  <1>6. AddsFirst(g, f, S)
    BY DEF IsSums
  <1>7. \A s \in SUBSET S : F[s] = g[s]
    <2>1. S \subseteq S /\ \A x \in S : f[x] = f[x]
      OBVIOUS
    <2> QED
      BY <1>5, <1>6, <2>1, SumsAgree
  <1> QED
    BY <1>2, <1>7

\* Any element may be added last.
LEMMA SumsRemove ==
    ASSUME NEW S, IsFiniteSet(S), NEW f, NEW g, IsSums(g, f, S),
           NEW t \in SUBSET S, NEW x \in t
    PROVE  g[t] = f[x] + g[t \ {x}]
  <1> DEFINE N == {n \in Nat : \A s \in SUBSET S : Cardinality(s) = n =>
                                  \A y \in s : g[s] = f[y] + g[s \ {y}]}
  <1>1. \A s \in SUBSET S : IsFiniteSet(s) /\ Cardinality(s) \in Nat
    BY FS_Subset, FS_CardinalityType
  <1>2. 0 \in N
    BY <1>1, FS_EmptySet
  <1>3. ASSUME NEW n \in N PROVE n + 1 \in N
    <2>1. n \in Nat
      OBVIOUS
    <2> SUFFICES ASSUME NEW s \in SUBSET S, Cardinality(s) = n + 1, NEW y \in s
                 PROVE  g[s] = f[y] + g[s \ {y}]
      BY <2>1
    <2>2. \A z \in s : Cardinality(s \ {z}) = n
      BY <1>1, <2>1, LosesOne
    <2>3. PICK c : c = First(s) /\ c \in s
      BY DEF First
    <2>4. g[s] = f[c] + g[s \ {c}]
      BY <2>3 DEF IsSums, AddsFirst
    <2>5. CASE y = c
      BY <2>4, <2>5
    <2>6. CASE y # c
      <3>1. Cardinality(s \ {c}) = n /\ Cardinality(s \ {y}) = n
        BY <2>2, <2>3
      <3>2. s \ {c} \in SUBSET S /\ s \ {y} \in SUBSET S /\ y \in s \ {c} /\ c \in s \ {y}
        BY <2>3, <2>6
      <3>3. g[s \ {c}] = f[y] + g[(s \ {c}) \ {y}]
        BY <3>1, <3>2
      <3>4. g[s \ {y}] = f[c] + g[(s \ {y}) \ {c}]
        BY <3>1, <3>2
      <3>5. (s \ {c}) \ {y} = (s \ {y}) \ {c} /\ (s \ {c}) \ {y} \in SUBSET S
        OBVIOUS
      <3>6. PICK r \in Int : r = g[(s \ {c}) \ {y}]
        BY <3>5 DEF IsSums
      <3>7. PICK a \in Int, b \in Int : a = f[c] /\ b = f[y]
        BY <2>3 DEF IsSums
      <3>8. g[s] = a + (b + r) /\ g[s \ {y}] = a + r
        BY <2>4, <3>3, <3>4, <3>5, <3>6, <3>7
      <3>9. a + (b + r) = b + (a + r)
        OBVIOUS
      <3> QED
        BY <3>7, <3>8, <3>9
    <2> QED
      BY <2>5, <2>6
  <1>4. N = Nat
    BY <1>2, <1>3, SetInduction
  <1> HIDE DEF N
  <1>5. Cardinality(t) \in N
    BY <1>1, <1>4
  <1> QED
    BY <1>5 DEF N


\* The sum of f over a part of its domain.
SumOn(f, s) == SumFunction([x \in s |-> f[x]])

\* SumFunction is that function.
LEMMA SumOnSums ==
    ASSUME NEW S, IsFiniteSet(S), NEW f, NEW g, IsSums(g, f, S), NEW s \in SUBSET S
    PROVE  SumOn(f, s) = g[s]
  <1> DEFINE k == [x \in s |-> f[x]]
  <1>1. IsFiniteSet(s) /\ k \in [s -> Int] /\ \A x \in s : k[x] = f[x]
    BY FS_Subset DEF IsSums
  <1> HIDE DEF k
  <1>2. PICK h : IsSums(h, k, s)
    BY <1>1, SumsExist
  <1>3. AddsFirst(h, k, s) /\ AddsFirst(g, f, S)
    BY <1>2 DEF IsSums
  <1>4. \A t \in SUBSET s : h[t] = g[t]
    BY <1>1, <1>3, SumsAgree
  <1>5. SumFunction(k) = h[s]
    BY <1>1, <1>2, SumIsSums
  <1> QED
    BY <1>4, <1>5 DEF SumOn, k

\* A sum is reached from nothing, one element after the other in any order.
LEMMA SumOnGrows ==
    ASSUME NEW S, IsFiniteSet(S), NEW f \in [S -> Int]
    PROVE  /\ SumFunction(f) = SumOn(f, S)
           /\ SumOn(f, {}) = 0
           /\ \A s \in SUBSET S : SumOn(f, s) \in Int
           /\ \A s \in SUBSET S : \A x \in S : x \notin s => SumOn(f, s \cup {x}) = SumOn(f, s) + f[x]
  <1>1. PICK g : IsSums(g, f, S)
    BY SumsExist
  <1>2. \A s \in SUBSET S : SumOn(f, s) = g[s] /\ g[s] \in Int
    BY <1>1, SumOnSums DEF IsSums
  <1>3. SumFunction(f) = SumOn(f, S)
    <2>1. f = [x \in S |-> f[x]]
      OBVIOUS
    <2> QED
      BY <2>1 DEF SumOn
  <1>4. g[{}] = 0
    BY <1>1 DEF IsSums, AddsFirst
  <1>5. ASSUME NEW s \in SUBSET S, NEW x \in S, x \notin s
        PROVE  SumOn(f, s \cup {x}) = SumOn(f, s) + f[x]
    <2>1. s \cup {x} \in SUBSET S /\ x \in s \cup {x} /\ (s \cup {x}) \ {x} = s
      BY <1>5
    <2>2. g[s \cup {x}] = f[x] + g[s]
      BY <1>1, <2>1, SumsRemove
    <2> QED
      BY <1>2, <2>1, <2>2
  <1> QED
    BY <1>2, <1>3, <1>4, <1>5

\* A sum of integers is an integer.
LEMMA SumTyped ==
    ASSUME NEW S, IsFiniteSet(S), NEW f \in [S -> Int]
    PROVE  SumFunction(f) \in Int
  BY SumOnGrows

\* h is f and g together.
Added(S, f, g, h) ==
    /\ f \in [S -> Int] /\ g \in [S -> Int] /\ h \in [S -> Int]
    /\ \A x \in S : h[x] = f[x] + g[x]

\* The sum of sums of two.
LEMMA SumAdds ==
    ASSUME NEW S, IsFiniteSet(S), NEW f, NEW g, NEW h, Added(S, f, g, h)
    PROVE  SumFunction(h) = SumFunction(f) + SumFunction(g)
  <1>1. /\ f \in [S -> Int] /\ g \in [S -> Int] /\ h \in [S -> Int]
        /\ \A x \in S : h[x] = f[x] + g[x]
    BY DEF Added
  <1> DEFINE T == {s \in SUBSET S : SumOn(h, s) = SumOn(f, s) + SumOn(g, s)}
  <1>2. {} \in T
    BY <1>1, SumOnGrows
  <1>3. ASSUME NEW s \in SUBSET S, NEW x \in S, s \in T, x \notin s PROVE s \cup {x} \in T
    <2>1. /\ SumOn(f, s \cup {x}) = SumOn(f, s) + f[x] /\ SumOn(g, s \cup {x}) = SumOn(g, s) + g[x]
          /\ SumOn(h, s \cup {x}) = SumOn(h, s) + h[x]
      BY <1>1, <1>3, SumOnGrows
    <2>2. SumOn(f, s) \in Int /\ SumOn(g, s) \in Int
      BY <1>1, SumOnGrows
    <2> QED
      BY <1>1, <1>3, <2>1, <2>2
  <1> HIDE DEF T
  <1>4. S \in T
    BY <1>2, <1>3, SubsetInduction
  <1> QED
    BY <1>1, <1>4, SumOnGrows DEF T

\* h is c times f.
Scaled(S, f, c, h) ==
    f \in [S -> Int] /\ c \in Int /\ h \in [S -> Int] /\ \A x \in S : h[x] = c * f[x]

\* The sum of multiples.
LEMMA SumScales ==
    ASSUME NEW S, IsFiniteSet(S), NEW f, NEW c, NEW h, Scaled(S, f, c, h)
    PROVE  SumFunction(h) = c * SumFunction(f)
  <1>1. /\ f \in [S -> Int] /\ h \in [S -> Int] /\ c \in Int
        /\ \A x \in S : h[x] = c * f[x]
    BY DEF Scaled
  <1> DEFINE T == {s \in SUBSET S : SumOn(h, s) = c * SumOn(f, s)}
  <1>2. {} \in T
    BY <1>1, SumOnGrows
  <1>3. ASSUME NEW s \in SUBSET S, NEW x \in S, s \in T, x \notin s PROVE s \cup {x} \in T
    <2>1. /\ SumOn(f, s \cup {x}) = SumOn(f, s) + f[x]
          /\ SumOn(h, s \cup {x}) = SumOn(h, s) + h[x]
      BY <1>1, <1>3, SumOnGrows
    <2>2. PICK a \in Int, b \in Int : a = SumOn(f, s) /\ b = f[x]
      BY <1>1, SumOnGrows
    <2>3. c * (a + b) = c * a + c * b
      BY <1>1
    <2> QED
      BY <1>1, <1>3, <2>1, <2>2, <2>3
  <1> HIDE DEF T
  <1>4. S \in T
    BY <1>2, <1>3, SubsetInduction
  <1> QED
    BY <1>1, <1>4, SumOnGrows DEF T

\* A sum with one term that is not zero, at most.
LEMMA SumOfOne ==
    ASSUME NEW S, IsFiniteSet(S), NEW f \in [S -> Int], NEW c, \A x \in S : x # c => f[x] = 0
    PROVE  SumFunction(f) = IF c \in S THEN f[c] ELSE 0
  <1> DEFINE T == {s \in SUBSET S : SumOn(f, s) = IF c \in s THEN f[c] ELSE 0}
  <1>1. {} \in T
    BY SumOnGrows
  <1>2. ASSUME NEW s \in SUBSET S, NEW x \in S, s \in T, x \notin s PROVE s \cup {x} \in T
    <2>1. SumOn(f, s \cup {x}) = SumOn(f, s) + f[x] /\ f[x] \in Int /\ SumOn(f, s) \in Int
      BY <1>2, SumOnGrows
    <2>2. CASE x = c
      BY <1>2, <2>1, <2>2
    <2>3. CASE x # c
      <3>1. f[x] = 0 /\ (c \in s \cup {x} <=> c \in s)
        BY <2>3
      <3> QED
        BY <1>2, <2>1, <3>1
    <2> QED
      BY <2>2, <2>3
  <1> HIDE DEF T
  <1>3. S \in T
    BY <1>1, <1>2, SubsetInduction
  <1> QED
    BY <1>3, SumOnGrows DEF T

\* A table may be added by rows or by columns.
LEMMA SumsSwap ==
    ASSUME NEW S, IsFiniteSet(S), NEW C, IsFiniteSet(C), NEW m \in [S -> [C -> Int]]
    PROVE  SumFunction([a \in S |-> SumFunction(m[a])])
              = SumFunction([b \in C |-> SumFunction([a \in S |-> m[a][b]])])
  <1> DEFINE f == [a \in S |-> SumFunction(m[a])]
             col(b) == [a \in S |-> m[a][b]]
             part(s) == [b \in C |-> SumOn(col(b), s)]
             T == {s \in SUBSET S : SumOn(f, s) = SumFunction(part(s))}
  <1>1. f \in [S -> Int]
    BY SumTyped
  <1>2. \A b \in C : col(b) \in [S -> Int] /\ \A a \in S : col(b)[a] = m[a][b]
    OBVIOUS
  <1>3. \A a \in S : f[a] = SumFunction(m[a]) /\ m[a] \in [C -> Int]
    OBVIOUS
  <1> HIDE DEF f, col
  <1>4. \A b \in C : \A s \in SUBSET S : SumOn(col(b), s) \in Int
    BY <1>2, SumOnGrows
  <1>5. \A s \in SUBSET S : part(s) \in [C -> Int] /\ \A b \in C : part(s)[b] = SumOn(col(b), s)
    BY <1>4
  <1> HIDE DEF part
  <1>6. {} \in T
    <2>1. \A b \in C : part({})[b] = 0
      BY <1>2, <1>5, SumOnGrows
    <2>2. part({}) \in [C -> Int]
      BY <1>5
    <2>3. SumFunction(part({})) = 0
      BY <2>1, <2>2, SumOfOne
    <2> QED
      BY <1>1, <2>3, SumOnGrows
  <1>7. ASSUME NEW s \in SUBSET S, NEW x \in S, s \in T, x \notin s PROVE s \cup {x} \in T
    <2>1. s \cup {x} \in SUBSET S
      OBVIOUS
    <2>2. \A b \in C : part(s \cup {x})[b] = part(s)[b] + m[x][b]
      <3> TAKE b \in C
      <3>1. PICK c \in [S -> Int] : c = col(b)
        BY <1>2
      <3>2. SumOn(c, s \cup {x}) = SumOn(c, s) + c[x]
        BY <1>7, SumOnGrows
      <3> QED
        BY <1>2, <1>5, <2>1, <3>1, <3>2
    <2>3. part(s \cup {x}) \in [C -> Int] /\ part(s) \in [C -> Int] /\ m[x] \in [C -> Int]
      BY <1>5, <2>1
    <2>4. SumFunction(part(s \cup {x})) = SumFunction(part(s)) + SumFunction(m[x])
      <3>1. PICK h \in [C -> Int], p \in [C -> Int], q \in [C -> Int] :
               h = part(s \cup {x}) /\ p = part(s) /\ q = m[x]
        BY <2>3
      <3>2. Added(C, p, q, h)
        BY <2>2, <3>1 DEF Added
      <3>3. SumFunction(h) = SumFunction(p) + SumFunction(q)
        BY <3>2, SumAdds
      <3> QED
        BY <3>1, <3>3
    <2>5. SumOn(f, s \cup {x}) = SumOn(f, s) + f[x]
      BY <1>1, <1>7, SumOnGrows
    <2> QED
      BY <1>3, <1>7, <2>1, <2>4, <2>5
  <1> HIDE DEF T
  <1>8. S \in T
    BY <1>6, <1>7, SubsetInduction
  <1>9. SumOn(f, S) = SumFunction(part(S))
    BY <1>8 DEF T
  <1>10. part(S) = [b \in C |-> SumFunction(col(b))]
    <2>1. \A b \in C : SumOn(col(b), S) = SumFunction(col(b))
      BY <1>2, SumOnGrows
    <2> QED
      BY <2>1 DEF part
  <1>11. SumFunction(f) = SumOn(f, S)
    BY <1>1, SumOnGrows
  <1>12. SumFunction(f) = SumFunction([b \in C |-> SumFunction(col(b))])
    BY <1>9, <1>10, <1>11
  <1> QED
    BY <1>12 DEF f, col

\* The terms of a sum may be named by the elements of another set.
LEMMA SumRenames ==
    ASSUME NEW S, IsFiniteSet(S), NEW C, IsFiniteSet(C), NEW f \in [S -> Int], NEW g \in [C -> Int],
           NEW name \in [S -> C], \A a, b \in S : name[a] = name[b] => a = b,
           \A c \in C : \E a \in S : name[a] = c, \A a \in S : f[a] = g[name[a]]
    PROVE  SumFunction(f) = SumFunction(g)
  <1> DEFINE named(s) == {name[a] : a \in s}
             T == {s \in SUBSET S : SumOn(f, s) = SumOn(g, named(s))}
  <1>1. {} \in T
    <2>1. named({}) = {}
      OBVIOUS
    <2> QED
      BY <2>1, SumOnGrows
  <1>2. ASSUME NEW s \in SUBSET S, NEW x \in S, s \in T, x \notin s PROVE s \cup {x} \in T
    <2>1. named(s \cup {x}) = named(s) \cup {name[x]} /\ named(s) \in SUBSET C /\ name[x] \in C
      OBVIOUS
    <2>2. name[x] \notin named(s)
      BY <1>2
    <2> HIDE DEF named
    <2>3. SumOn(g, named(s) \cup {name[x]}) = SumOn(g, named(s)) + g[name[x]]
      BY <2>1, <2>2, SumOnGrows
    <2>4. SumOn(f, s \cup {x}) = SumOn(f, s) + f[x]
      BY <1>2, SumOnGrows
    <2> QED
      BY <1>2, <2>1, <2>3, <2>4
  <1>3. named(S) = C
    OBVIOUS
  <1> HIDE DEF T, named
  <1>4. S \in T
    BY <1>1, <1>2, SubsetInduction
  <1> QED
    BY <1>3, <1>4, SumOnGrows DEF T

\* A sum over one member more.
LEMMA SumOnAdds ==
    ASSUME NEW S, IsFiniteSet(S), NEW f \in [S -> Int], NEW s \in SUBSET S, NEW x \in S, x \notin s
    PROVE  SumOn(f, s \cup {x}) = SumOn(f, s) + f[x]
  BY SumOnGrows

\* The sum of a list is reached from the first element on.
LEMMA SumUpTo ==
    ASSUME NEW n \in Nat, NEW f \in [1 .. n -> Int]
    PROVE  /\ SumOn(f, 1 .. 0) = 0
           /\ SumFunction(f) = SumOn(f, 1 .. n)
           /\ \A k \in 0 .. n : SumOn(f, 1 .. k) \in Int
           /\ \A k \in 1 .. n : SumOn(f, 1 .. k) = SumOn(f, 1 .. (k - 1)) + f[k]
  <1>1. IsFiniteSet(1 .. n)
    BY FS_Interval
  <1>2. 1 .. 0 = {} /\ \A k \in 0 .. n : 1 .. k \in SUBSET (1 .. n)
    OBVIOUS
  <1>3. ASSUME NEW k \in 1 .. n PROVE SumOn(f, 1 .. k) = SumOn(f, 1 .. (k - 1)) + f[k]
    <2>1. 1 .. k = (1 .. (k - 1)) \cup {k} /\ k \notin 1 .. (k - 1)
      OBVIOUS
    <2>2. 1 .. (k - 1) \in SUBSET (1 .. n)
      OBVIOUS
    <2>3. PICK s : s \in SUBSET (1 .. n) /\ s = 1 .. (k - 1)
      BY <2>2
    <2>4. SumOn(f, s \cup {k}) = SumOn(f, s) + f[k]
      <3>1. PICK S, x, F : S = 1 .. n /\ x = k /\ F = f
        OBVIOUS
      <3>2. F \in [S -> Int] /\ s \in SUBSET S /\ x \in S /\ IsFiniteSet(S) /\ x \notin s
        BY <1>1, <2>1, <2>3, <3>1
      <3>3. SumOn(F, s \cup {x}) = SumOn(F, s) + F[x]
        BY <3>2, SumOnAdds
      <3> QED
        BY <3>1, <3>3
    <2> QED
      BY <2>1, <2>3, <2>4
  <1> QED
    BY <1>1, <1>2, <1>3, SumOnGrows

\* The sum over one element of a list more.
LEMMA SumOfNext ==
    ASSUME NEW n \in Nat, NEW f \in [1 .. n -> Int], NEW k \in Nat, k + 1 <= n
    PROVE  /\ SumOn(f, 1 .. k) \in Int
           /\ SumOn(f, 1 .. (k + 1)) = SumOn(f, 1 .. k) + f[k + 1]
  <1>1. k \in 0 .. n /\ k + 1 \in 1 .. n /\ (k + 1) - 1 = k
    OBVIOUS
  <1>2. SumOn(f, 1 .. k) \in Int
    BY <1>1, SumUpTo
  <1>3. \A i \in 1 .. n : SumOn(f, 1 .. i) = SumOn(f, 1 .. (i - 1)) + f[i]
    BY SumUpTo
  <1>4. SumOn(f, 1 .. (k + 1)) = SumOn(f, 1 .. ((k + 1) - 1)) + f[k + 1]
    BY <1>1, <1>3
  <1> QED
    BY <1>1, <1>2, <1>4

\* The sum over one list behind another.
LEMMA SumConcat ==
    ASSUME NEW n \in Nat, NEW m \in Nat, NEW f \in [1 .. n -> Int], NEW g \in [1 .. m -> Int],
           NEW h \in [1 .. (n + m) -> Int],
           \A i \in 1 .. n : h[i] = f[i], \A i \in 1 .. m : h[n + i] = g[i]
    PROVE  SumFunction(h) = SumFunction(f) + SumFunction(g)
  <1> DEFINE T == {k \in Nat : k <= m =>
                     SumOn(h, 1 .. (n + k)) = SumFunction(f) + SumOn(g, 1 .. k)}
  <1>1. n + m \in Nat /\ SumFunction(f) \in Int
    <2>1. IsFiniteSet(1 .. n)
      BY FS_Interval
    <2> QED
      BY <2>1, SumTyped
  <1>2. 0 \in T
    <2>1. f = [i \in 1 .. n |-> h[i]]
      OBVIOUS
    <2>2. SumOn(h, 1 .. n) = SumFunction(f)
      BY <2>1 DEF SumOn
    <2>3. n + 0 = n
      OBVIOUS
    <2>4. SumOn(g, 1 .. 0) = 0
      BY SumUpTo
    <2> QED
      BY <1>1, <2>2, <2>3, <2>4
  <1>3. ASSUME NEW k \in T PROVE k + 1 \in T
    <2>1. k \in Nat
      OBVIOUS
    <2> SUFFICES ASSUME k + 1 <= m
                 PROVE  SumOn(h, 1 .. (n + (k + 1))) = SumFunction(f) + SumOn(g, 1 .. (k + 1))
      BY <2>1
    <2>2. k + 1 \in 1 .. m /\ k <= m /\ k \in 0 .. m /\ (k + 1) - 1 = k
      BY <2>1
    <2>3. n + (k + 1) \in 1 .. (n + m) /\ (n + (k + 1)) - 1 = n + k
      BY <2>1
    <2>4. SumOn(h, 1 .. (n + k)) = SumFunction(f) + SumOn(g, 1 .. k)
      BY <2>2
    <2> HIDE DEF T
    <2>5. SumOn(h, 1 .. (n + (k + 1))) = SumOn(h, 1 .. (n + k)) + h[n + (k + 1)]
      <3>1. PICK N \in Nat, K \in Nat : N = n + m /\ K = n + k
        BY <1>1, <2>1
      <3>2. h \in [1 .. N -> Int] /\ K + 1 <= N /\ K + 1 = n + (k + 1)
        BY <2>1, <2>2, <3>1
      <3>3. SumOn(h, 1 .. (K + 1)) = SumOn(h, 1 .. K) + h[K + 1]
        BY <3>2, SumOfNext
      <3> QED
        BY <3>1, <3>2, <3>3
    <2>6. SumOn(g, 1 .. (k + 1)) = SumOn(g, 1 .. k) + g[k + 1]
      BY <2>1, SumOfNext
    <2>7. h[n + (k + 1)] = g[k + 1] /\ g[k + 1] \in Int
      BY <2>2
    <2>8. SumOn(g, 1 .. k) \in Int
      BY <2>2, SumUpTo
    <2> QED
      BY <1>1, <2>4, <2>5, <2>6, <2>7, <2>8
  <1>4. T = Nat
    BY <1>2, <1>3, SetInduction
  <1> HIDE DEF T
  <1>5. m \in T /\ m <= m
    BY <1>4
  <1>6. SumOn(h, 1 .. (n + m)) = SumFunction(f) + SumOn(g, 1 .. m)
    BY <1>5 DEF T
  <1> QED
    BY <1>1, <1>6, SumUpTo

\* What is needed of every c, where w of every a is, and b[a] is what one a needs: each a
\* taken on its own, or each c.
Across(S, C, w, b, v) == [a \in S |-> w[a] * SumFunction([c \in C |-> b[a][c] * v[c]])]

Down(S, C, w, b, v) == [c \in C |-> SumFunction([a \in S |-> w[a] * b[a][c]]) * v[c]]

\* Weights, a table of numbers, and the worth of its columns.
IsTable(S, C, w, b, v) == w \in [S -> Int] /\ b \in [S -> [C -> Int]] /\ v \in [C -> Int]

\* Adding up a table row by row or column by column comes to the same.
LEMMA SumsThrough ==
    ASSUME NEW S, IsFiniteSet(S), NEW C, IsFiniteSet(C), NEW w, NEW b, NEW v,
           IsTable(S, C, w, b, v)
    PROVE  /\ Across(S, C, w, b, v) \in [S -> Int]
           /\ Down(S, C, w, b, v) \in [C -> Int]
           /\ SumFunction(Across(S, C, w, b, v)) = SumFunction(Down(S, C, w, b, v))
  <1> DEFINE row(a) == [c \in C |-> b[a][c] * v[c]]
             col(c) == [a \in S |-> w[a] * b[a][c]]
             m == [a \in S |-> [c \in C |-> (w[a] * b[a][c]) * v[c]]]
             across == [a \in S |-> w[a] * SumFunction(row(a))]
             down == [c \in C |-> SumFunction(col(c)) * v[c]]
  <1> USE DEF IsTable
  <1>1. /\ \A x, y \in Int : x * y \in Int
        /\ \A x, y, z \in Int : (x * y) * z = x * (y * z) /\ (x * y) * z = z * (x * y)
    OBVIOUS
  <1>2. \A a \in S : w[a] \in Int /\ \A c \in C : b[a][c] \in Int
    OBVIOUS
  <1>3. \A c \in C : v[c] \in Int
    OBVIOUS
  <1>4. \A a \in S : row(a) \in [C -> Int]
    BY <1>1, <1>2, <1>3
  <1>5. \A c \in C : col(c) \in [S -> Int]
    BY <1>1, <1>2
  <1>6. m \in [S -> [C -> Int]]
    BY <1>1, <1>2, <1>3
  <1>7. \A a \in S : SumFunction(row(a)) \in Int
    BY <1>4, SumTyped
  <1>8. \A c \in C : SumFunction(col(c)) \in Int
    BY <1>5, SumTyped
  <1>9. across \in [S -> Int] /\ down \in [C -> Int]
    BY <1>1, <1>2, <1>3, <1>7, <1>8
  <1>10. ASSUME NEW a \in S PROVE SumFunction(m[a]) = w[a] * SumFunction(row(a))
    <2>1. PICK r \in [C -> Int], h \in [C -> Int] : r = row(a) /\ h = m[a]
      BY <1>4, <1>6
    <2>2. \A c \in C : h[c] = (w[a] * b[a][c]) * v[c] /\ r[c] = b[a][c] * v[c]
      BY <2>1
    <2>3. Scaled(C, r, w[a], h)
      BY <1>1, <1>2, <1>3, <2>2 DEF Scaled
    <2> HIDE DEF row, m
    <2>4. SumFunction(h) = w[a] * SumFunction(r)
      BY <2>3, SumScales
    <2> QED
      BY <2>1, <2>4
  <1>11. ASSUME NEW c \in C PROVE SumFunction([a \in S |-> m[a][c]]) = SumFunction(col(c)) * v[c]
    <2>1. PICK r \in [S -> Int], h \in [S -> Int] : r = col(c) /\ h = [a \in S |-> m[a][c]]
      BY <1>5, <1>6
    <2>2. \A a \in S : h[a] = (w[a] * b[a][c]) * v[c] /\ r[a] = w[a] * b[a][c]
      BY <2>1
    <2>3. Scaled(S, r, v[c], h)
      BY <1>1, <1>2, <1>3, <2>2 DEF Scaled
    <2> HIDE DEF col, m
    <2>4. SumFunction(h) = v[c] * SumFunction(r)
      BY <2>3, SumScales
    <2>5. PICK s \in Int, t \in Int : s = SumFunction(col(c)) /\ t = v[c]
      BY <1>3, <1>8
    <2>6. t * s = s * t
      OBVIOUS
    <2> QED
      BY <2>1, <2>4, <2>5, <2>6
  <1> HIDE DEF row, col, m
  <1>12. SumFunction([a \in S |-> SumFunction(m[a])])
           = SumFunction([c \in C |-> SumFunction([a \in S |-> m[a][c]])])
    BY <1>6, SumsSwap
  <1>13. [a \in S |-> SumFunction(m[a])] = across
    BY <1>10
  <1>14. [c \in C |-> SumFunction([a \in S |-> m[a][c]])] = down
    BY <1>11
  <1>15. SumFunction(across) = SumFunction(down)
    BY <1>12, <1>13, <1>14
  <1> QED
    BY <1>9, <1>15 DEF row, col, Across, Down

=============================================================================
