-------------------------- MODULE PrimeSplitProofs --------------------------
(***************************************************************************)
(* For every number of variables and every permutation that bliss may      *)
(* report: the permutations of the split commute with negation and move a  *)
(* literal, they have the orbits of the permutation they replace, and,     *)
(* when all its cycles have one length, they generate its powers.          *)
(*                                                                         *)
(* The argument has four parts.                                            *)
(*                                                                         *)
(* Numbers.  The loop over i takes all of a prime out of the length of a   *)
(* cycle before the next i, so that every number it finds to divide what   *)
(* is left is a prime, with its exponent (FactorFacts); and no prime is    *)
(* missed (FactorFound).  A set of numbers that is closed under steps of n *)
(* and of n / q^e, for every factor q^e of n, therefore holds all numbers  *)
(* (StepsReachAll): no step greater than one divides all of them.          *)
(*                                                                         *)
(* Shifts.  A permutation that moves every literal a number of steps       *)
(* along its cycle, the number depending on the length of the cycle only,  *)
(* commutes with negation (ShiftIsLitPerm): the cycle of the negation has  *)
(* the same length.  Where a cycle is entered does not matter.             *)
(*                                                                         *)
(* Cycles.  What addPrimeSplitToVector builds out of pieces of cycles are  *)
(* such shifts (PrimeGenerator, EqualGenerator), by n / q^e and n / q^s    *)
(* steps on a cycle of n literals.                                         *)
(*                                                                         *)
(* The algorithm.  SplitInv says that the vectors of pieces and exponents  *)
(* hold what the cycles dealt with so far contribute, that all results are *)
(* shifts of these two forms, and that every prime whose turn has been has *)
(* its generator among them.                                               *)
(***************************************************************************)
EXTENDS PrimeSplit, AssignmentsProofs

-----------------------------------------------------------------------------
(* Powers, divisors and primes.                                            *)

(* a divides b. *)
Divides(a, b) == \E q \in Nat : b = a * q

(* The equations of the power function. *)
LEMMA PowFacts ==
  ASSUME NEW b \in Nat
  PROVE  /\ Pow(b, 0) = 1
         /\ \A e \in Nat : Pow(b, e) \in Nat /\ Pow(b, e + 1) = b * Pow(b, e)
<1>1. PICK H : H = [x \in Nat |-> b * x]
  OBVIOUS
<1>2. Maps(H, Nat) /\ \A x \in Nat : H[x] = b * x
  BY <1>1 DEF Maps
<1>3. PICK f : Chain(f, 1, H, Nat)
  BY <1>2, ChainExists
<1>4. \A n \in Nat : n # 0 => n - 1 \in Nat /\ (n - 1) + 1 = n
  OBVIOUS
<1>5. f = [n \in Nat |-> IF n = 0 THEN 1 ELSE b * f[n - 1]]
  <2>1. f \in [Nat -> Nat] /\ f[0] = 1 /\ \A n \in Nat : f[n + 1] = H[f[n]]
    BY <1>3 DEF Chain
  <2>2. \A n \in Nat : n # 0 => f[n] = b * f[n - 1]
    BY <1>2, <1>4, <2>1
  <2>3. QED
    BY <2>1, <2>2
<1>6. PICK w : /\ w = [n \in Nat |-> IF n = 0 THEN 1 ELSE b * w[n - 1]]
               /\ \A e : Pow(b, e) = w[e]
  BY <1>5, Zenon DEF Pow
<1>7. \A n \in Nat : w[n] = IF n = 0 THEN 1 ELSE b * w[n - 1]
  BY <1>6, Zenon
<1>8. w[0] = 1 /\ \A n \in Nat : w[n + 1] = b * w[n]
  <2>1. \A n \in Nat : n + 1 \in Nat /\ n + 1 # 0 /\ (n + 1) - 1 = n
    OBVIOUS
  <2>2. QED
    BY <1>7, <2>1
<1> DEFINE A == {n \in Nat : w[n] \in Nat}
<1>9. 0 \in A /\ \A n \in Nat : n \in A => n + 1 \in A
  BY <1>8
<1> HIDE DEF A
<1>10. \A n \in Nat : w[n] \in Nat
  BY <1>9, SetInduction DEF A
<1>11. QED
  BY <1>6, <1>8, <1>10

(* A power exceeds its exponent. *)
LEMMA PowGrows ==
  ASSUME NEW b \in Nat, b >= 2, NEW e \in Nat
  PROVE  Pow(b, e) >= e + 1
<1> DEFINE A == {n \in Nat : Pow(b, n) >= n + 1}
<1>1. 0 \in A
  BY PowFacts
<1>2. ASSUME NEW n \in Nat, n \in A PROVE n + 1 \in A
  <2>1. PICK x \in Nat : x = Pow(b, n) /\ Pow(b, n + 1) = b * x
    BY PowFacts
  <2>2. x >= n + 1
    BY <1>2, <2>1
  <2>3. b * x >= 2 * x
    OBVIOUS
  <2>4. QED
    BY <2>1, <2>2, <2>3
<1> HIDE DEF A
<1>3. e \in A
  BY <1>1, <1>2, SetInduction
<1>4. QED
  BY <1>3 DEF A

(* Exponents add up. *)
LEMMA PowAdd ==
  ASSUME NEW b \in Nat, NEW e \in Nat, NEW f \in Nat
  PROVE  Pow(b, e + f) = Pow(b, e) * Pow(b, f)
<1> DEFINE A == {n \in Nat : Pow(b, e + n) = Pow(b, e) * Pow(b, n)}
<1>1. 0 \in A
  <2>1. e + 0 = e /\ Pow(b, e) \in Nat /\ Pow(b, 0) = 1
    BY PowFacts
  <2>2. QED
    BY <2>1
<1>2. ASSUME NEW n \in Nat, n \in A PROVE n + 1 \in A
  <2>1. PICK x \in Nat, y \in Nat, z \in Nat :
           /\ x = Pow(b, e) /\ y = Pow(b, n) /\ z = Pow(b, e + n)
           /\ Pow(b, n + 1) = b * y /\ Pow(b, (e + n) + 1) = b * z
    <3>1. e + n \in Nat
      OBVIOUS
    <3>2. Pow(b, e) \in Nat /\ Pow(b, n) \in Nat /\ Pow(b, e + n) \in Nat
      BY <3>1, PowFacts
    <3>3. Pow(b, n + 1) = b * Pow(b, n) /\ Pow(b, (e + n) + 1) = b * Pow(b, e + n)
      BY <3>1, PowFacts
    <3>4. QED
      BY <3>2, <3>3
  <2>2. z = x * y /\ e + (n + 1) = (e + n) + 1
    BY <1>2, <2>1
  <2>3. b * z = x * (b * y)
    BY <2>2
  <2>4. QED
    BY <2>1, <2>2, <2>3
<1> HIDE DEF A
<1>3. f \in A
  BY <1>1, <1>2, SetInduction
<1>4. QED
  BY <1>3 DEF A

(* Divisibility as the remainder that the code computes. *)
LEMMA DividesRemainder ==
  ASSUME NEW a \in Nat, NEW b \in Nat, b >= 1
  PROVE  /\ a % b = 0 <=> Divides(b, a)
         /\ a % b \in Nat /\ a % b < b /\ a \div b \in Nat
         /\ a = b * (a \div b) + (a % b)
<1>1. /\ a % b \in Nat /\ a % b < b /\ a \div b \in Nat
      /\ a = b * (a \div b) + (a % b)
  OBVIOUS
<1>2. ASSUME NEW q \in Nat, a = b * q PROVE a % b = 0
  BY <1>2
<1>3. ASSUME a % b = 0 PROVE a = b * (a \div b)
  BY <1>1, <1>3
<1>4. a % b = 0 <=> Divides(b, a)
  BY <1>1, <1>2, <1>3 DEF Divides
<1>5. QED
  BY <1>1, <1>4

(* An exact quotient. *)
LEMMA ExactQuotient ==
  ASSUME NEW a \in Nat, NEW b \in Nat, b >= 1, NEW q \in Nat, a = b * q
  PROVE  a \div b = q
OBVIOUS

(* Divisibility is transitive, kept by multiples and by differences, and   *)
(* a divisor is no larger.                                                 *)
LEMMA DividesFacts ==
  ASSUME NEW a \in Nat, NEW b \in Nat
  PROVE  /\ Divides(a, a)
         /\ \A c \in Nat : Divides(a, b) /\ Divides(b, c) => Divides(a, c)
         /\ \A c \in Nat : Divides(a, b) => Divides(a, b * c) /\ Divides(a, c * b)
         /\ Divides(a, b) /\ b >= 1 => a >= 1 /\ a <= b
<1>1. Divides(a, a)
  <2>1. a = a * 1 /\ 1 \in Nat
    OBVIOUS
  <2>2. QED
    BY <2>1 DEF Divides
<1>2. ASSUME NEW c \in Nat, Divides(a, b), Divides(b, c) PROVE Divides(a, c)
  <2>1. PICK q \in Nat : b = a * q
    BY <1>2 DEF Divides
  <2>2. PICK r \in Nat : c = b * r
    BY <1>2 DEF Divides
  <2>3. c = a * (q * r) /\ q * r \in Nat
    BY <2>1, <2>2
  <2>4. QED
    BY <2>3 DEF Divides
<1>3. ASSUME NEW c \in Nat, Divides(a, b)
      PROVE  Divides(a, b * c) /\ Divides(a, c * b)
  <2>1. PICK q \in Nat : b = a * q
    BY <1>3 DEF Divides
  <2>2. b * c = a * (q * c) /\ c * b = a * (q * c) /\ q * c \in Nat
    BY <2>1
  <2>3. QED
    BY <2>2 DEF Divides
<1>4. ASSUME Divides(a, b), b >= 1 PROVE a >= 1 /\ a <= b
  <2>1. PICK q \in Nat : b = a * q
    BY <1>4 DEF Divides
  <2>2. q # 0 /\ a # 0
    BY <1>4, <2>1
  <2>3. a * q >= a * 1
    BY <2>2
  <2>4. QED
    BY <2>1, <2>2, <2>3
<1>5. QED
  BY <1>1, <1>2, <1>3, <1>4

(* No smaller number but 1 divides i: i is a prime number. *)
Prime(i) == i >= 2 /\ \A j \in 2 .. i - 1 : ~Divides(j, i)

(* A prime that divides a product divides one of the factors (Euclid). *)
LEMMA Euclid ==
  ASSUME NEW i \in Nat, Prime(i), NEW a \in Nat, NEW b \in Nat,
         Divides(i, a * b)
  PROVE  Divides(i, a) \/ Divides(i, b)
<1> DEFINE T == {x \in Nat : x >= 1 /\ Divides(i, x * b)}
<1>0. i >= 2
  BY DEF Prime
<1>1. i \in T
  BY <1>0, DividesFacts
<1>2. PICK m \in T : \A x \in T : m <= x
  BY <1>1, LeastElement
<1>3. m \in Nat /\ m >= 1 /\ Divides(i, m * b)
  OBVIOUS
<1>4. PICK u \in Nat : m * b = i * u
  BY <1>3 DEF Divides
<1>5. ASSUME NEW x \in Nat, Divides(i, x * b) PROVE Divides(m, x)
  <2>1. PICK v \in Nat : x * b = i * v
    BY <1>5 DEF Divides
  <2>2. PICK k \in Nat, r \in Nat : x = m * k + r /\ r < m
    BY <1>3, DividesRemainder
  <2>3. x * b = k * (m * b) + r * b
    BY <1>3, <2>2
  <2>4. r * b = i * v - i * (k * u)
    <3>1. k * (m * b) = i * (k * u)
      BY <1>4, <1>3
    <3>2. QED
      BY <2>1, <2>3, <3>1
  <2>5. r * b = i * (v - k * u) /\ v - k * u \in Int
    BY <2>4
  <2>6. Divides(i, r * b)
    <3>1. CASE v - k * u >= 0
      <4>1. v - k * u \in Nat
        BY <3>1
      <4>2. QED
        BY <2>5, <4>1 DEF Divides
    <3>2. CASE v - k * u < 0
      <4>1. PICK w \in Int : w = v - k * u /\ w < 0
        BY <3>2, <2>5
      <4>2. i * w < 0
        BY <4>1, <1>0
      <4>3. r * b >= 0
        OBVIOUS
      <4>4. QED
        BY <4>1, <4>2, <4>3, <2>5
    <3>3. QED
      BY <3>1, <3>2, <2>5
  <2>7. r = 0
    <3>1. SUFFICES ASSUME r # 0 PROVE FALSE
      OBVIOUS
    <3>2. r \in T
      BY <2>6, <3>1
    <3>3. QED
      BY <1>2, <1>3, <2>2, <3>2
  <2>8. x = m * k
    BY <2>2, <2>7, <1>3
  <2>9. QED
    BY <2>8 DEF Divides
<1>6. Divides(m, i)
  BY <1>1, <1>5
<1>7. Divides(m, a)
  BY <1>5
<1>8. m = 1 \/ m = i
  <2>1. m <= i
    BY <1>0, <1>3, <1>6, DividesFacts
  <2>2. m \in 2 .. i - 1 \/ m = 1 \/ m = i
    BY <2>1, <1>3
  <2>3. QED
    BY <1>6, <2>2 DEF Prime
<1>9. CASE m = 1
  <2>1. m * b = b
    BY <1>9
  <2>2. QED
    BY <1>3, <2>1
<1>10. CASE m = i
  BY <1>7, <1>10
<1>11. QED
  BY <1>8, <1>9, <1>10

(* A prime that divides a power divides its base. *)
LEMMA EuclidPow ==
  ASSUME NEW i \in Nat, Prime(i), NEW q \in Nat, NEW e \in Nat,
         Divides(i, Pow(q, e))
  PROVE  Divides(i, q)
<1>0. i >= 2
  BY DEF Prime
<1> DEFINE A == {n \in Nat : Divides(i, Pow(q, n)) => Divides(i, q)}
<1>1. 0 \in A
  <2>1. Pow(q, 0) = 1
    BY PowFacts
  <2>2. ~Divides(i, 1)
    BY <1>0, DividesFacts
  <2>3. QED
    BY <2>1, <2>2
<1>2. ASSUME NEW n \in Nat, n \in A PROVE n + 1 \in A
  <2>1. Pow(q, n) \in Nat /\ Pow(q, n + 1) = q * Pow(q, n)
    BY PowFacts
  <2>2. Divides(i, q * Pow(q, n)) => Divides(i, q) \/ Divides(i, Pow(q, n))
    BY <2>1, Euclid
  <2>3. QED
    BY <1>2, <2>1, <2>2
<1> HIDE DEF A
<1>3. e \in A
  BY <1>1, <1>2, SetInduction
<1>4. QED
  BY <1>3 DEF A

-----------------------------------------------------------------------------
(* The loop over i.                                                        *)

(* The inner loop takes all factors i out of the size. *)
LEMMA NbOccFacts ==
  ASSUME NEW size \in Nat, size >= 1, NEW i \in Nat, i >= 2
  PROVE  /\ NbOcc(size, i) \in Nat
         /\ \E m \in Nat : /\ m >= 1 /\ ~Divides(i, m)
                           /\ size = Pow(i, NbOcc(size, i)) * m
                           /\ size \div Pow(i, NbOcc(size, i)) = m
<1> DEFINE T == {x \in Nat : ~Divides(Pow(i, x + 1), size)}
<1>1. \A x \in Nat : Pow(i, x) \in Nat /\ Pow(i, x) >= 1 /\ Pow(i, x) >= x + 1
  BY PowFacts, PowGrows
<1>2. size \in T
  <2>1. size + 1 \in Nat
    OBVIOUS
  <2>2. Pow(i, size + 1) \in Nat /\ Pow(i, size + 1) > size
    BY <1>1, <2>1
  <2>3. QED
    BY <2>2, DividesFacts
<1>3. PICK x \in T : \A y \in T : x <= y
  BY <1>2, LeastElement
<1>4. x \in 0 .. size
  BY <1>2, <1>3
<1>5. Divides(Pow(i, x), size)
  <2>1. CASE x = 0
    <3>1. Pow(i, x) = 1 /\ size = 1 * size
      BY <2>1, PowFacts
    <3>2. QED
      BY <3>1 DEF Divides
  <2>2. CASE x # 0
    <3>1. x - 1 \in Nat /\ ~(x <= x - 1) /\ (x - 1) + 1 = x
      BY <2>2
    <3>2. x - 1 \notin T
      BY <1>3, <3>1
    <3>3. QED
      BY <3>1, <3>2
  <2>3. QED
    BY <2>1, <2>2
<1> DEFINE Counts(e) == size % Pow(i, e) = 0 /\ size % Pow(i, e + 1) # 0
<1>6. \A e \in Nat : Counts(e) <=> /\ Divides(Pow(i, e), size)
                                   /\ ~Divides(Pow(i, e + 1), size)
  <2>1. \A e \in Nat : e + 1 \in Nat
    OBVIOUS
  <2>2. QED
    BY <1>1, <2>1, DividesRemainder
<1>7. x \in 0 .. size /\ Counts(x)
  BY <1>3, <1>4, <1>5, <1>6
<1>8. NbOcc(size, i) = CHOOSE e \in 0 .. size : Counts(e)
  BY DEF NbOcc
<1>9. PICK e : e = CHOOSE d \in 0 .. size : Counts(d)
  OBVIOUS
<1>10. e \in 0 .. size /\ Counts(e)
  BY <1>7, <1>9, Zenon
<1>11. e \in Nat /\ NbOcc(size, i) = e
  BY <1>8, <1>9, <1>10
<1>12. Divides(Pow(i, e), size) /\ ~Divides(Pow(i, e + 1), size)
  BY <1>6, <1>10, <1>11
<1>13. PICK m \in Nat : size = Pow(i, e) * m
  BY <1>12 DEF Divides
<1>14. PICK u \in Nat : u = Pow(i, e) /\ u >= 1 /\ Pow(i, e + 1) = i * u
  BY <1>1, <1>11, PowFacts
<1>15. m >= 1 /\ size \div u = m
  <2>1. m # 0
    BY <1>13, <1>14
  <2>2. QED
    BY <2>1, <1>13, <1>14, ExactQuotient
<1>16. ~Divides(i, m)
  <2>1. SUFFICES ASSUME NEW k \in Nat, m = i * k PROVE FALSE
    BY DEF Divides
  <2>2. size = (i * u) * k
    BY <1>13, <1>14, <2>1
  <2>3. Divides(i * u, size)
    BY <2>2 DEF Divides
  <2>4. QED
    BY <1>12, <1>14, <2>3
<1>17. QED
  BY <1>11, <1>13, <1>14, <1>15, <1>16

(* f is what is left of n after each turn of the factorisation loop. *)
Left(f, n) ==
  /\ f \in [1 .. n -> 1 .. n]
  /\ f[1] = n
  /\ \A i \in 2 .. n : /\ NbOcc(f[i - 1], i) \in Nat
                       /\ f[i - 1] = Pow(i, NbOcc(f[i - 1], i)) * f[i]
                       /\ ~Divides(i, f[i])

(* The factorisation loop. *)
LEMMA CycleSizeFacts ==
  ASSUME NEW n \in Nat, n >= 1
  PROVE  Left(CycleSize(n), n)
<1>1. n - 1 \in Nat
  OBVIOUS
<1> DEFINE Rest(i, y) == y \div Pow(i, NbOcc(y, i))
<1>2. ASSUME NEW y \in 1 .. n, NEW i \in Nat, i >= 2
      PROVE  /\ Rest(i, y) \in 1 .. n /\ NbOcc(y, i) \in Nat
             /\ y = Pow(i, NbOcc(y, i)) * Rest(i, y) /\ ~Divides(i, Rest(i, y))
  <2>1. y \in Nat /\ y >= 1
    OBVIOUS
  <2>2. NbOcc(y, i) \in Nat
    BY <1>2, <2>1, NbOccFacts
  <2>3. PICK m \in Nat : m >= 1 /\ ~Divides(i, m) /\ y = Pow(i, NbOcc(y, i)) * m
                         /\ Rest(i, y) = m
    BY <1>2, <2>1, NbOccFacts
  <2>4. Pow(i, NbOcc(y, i)) \in Nat
    BY <1>2, <2>2, PowFacts
  <2>5. Divides(m, y)
    BY <2>3, <2>4 DEF Divides
  <2>6. m <= y
    BY <2>1, <2>3, <2>5, DividesFacts
  <2>7. QED
    BY <2>2, <2>3, <2>6
<1>3. PICK G : G = [k \in 1 .. n - 1 |-> [y \in 1 .. n |-> Rest(k + 1, y)]]
  BY Zenon
<1>4. ASSUME NEW k \in 1 .. n - 1
      PROVE  Maps(G[k], 1 .. n) /\ \A y \in 1 .. n : G[k][y] = Rest(k + 1, y)
  <2>1. G[k] = [y \in 1 .. n |-> Rest(k + 1, y)]
    BY <1>3, Zenon
  <2>2. k + 1 \in Nat /\ k + 1 >= 2
    OBVIOUS
  <2>3. \A y \in 1 .. n : Rest(k + 1, y) \in 1 .. n
    BY <1>2, <2>2
  <2> HIDE DEF Rest
  <2>4. QED
    BY <2>1, <2>3 DEF Maps
<1>5. PICK h : LoopRun(h, n, G, n - 1, 1 .. n)
  <2>1. n \in 1 .. n
    OBVIOUS
  <2>2. QED
    BY <1>1, <1>4, <2>1, LoopRunExists
<1>6. PICK f : f = [i \in 1 .. n |-> h[i - 1]]
  OBVIOUS
<1> HIDE DEF Rest
<1>7. f \in [1 .. n -> 1 .. n] /\ f[1] = n
      /\ \A i \in 2 .. n : f[i] = Rest(i, f[i - 1])
  <2>1. \A i \in 1 .. n : i - 1 \in 0 .. n - 1
    OBVIOUS
  <2>2. f \in [1 .. n -> 1 .. n] /\ f[1] = n
    BY <1>5, <1>6, <2>1 DEF LoopRun
  <2>3. ASSUME NEW i \in 2 .. n PROVE f[i] = Rest(i, f[i - 1])
    <3>1. i - 1 \in 1 .. n - 1 /\ i - 1 \in 1 .. n /\ (i - 1) + 1 = i /\ i \in 1 .. n
      OBVIOUS
    <3>2. h[i - 1] = G[i - 1][h[(i - 1) - 1]]
      BY <1>5, <3>1 DEF LoopRun
    <3>3. f[i] = h[i - 1] /\ f[i - 1] = h[(i - 1) - 1]
      BY <1>6, <3>1
    <3>4. f[i - 1] \in 1 .. n
      BY <2>2, <3>1
    <3>5. QED
      BY <1>4, <3>1, <3>2, <3>3, <3>4
  <2>4. QED
    BY <2>2, <2>3
<1>8. f = [i \in 1 .. n |-> IF i = 1 THEN n
                            ELSE LET size == f[i - 1]
                                 IN  size \div Pow(i, NbOcc(size, i))]
  <2>1. \A i \in 1 .. n : i # 1 => i \in 2 .. n
    OBVIOUS
  <2>2. \A i \in 1 .. n : f[i] = IF i = 1 THEN n ELSE Rest(i, f[i - 1])
    BY <1>7, <2>1
  <2>3. f = [i \in 1 .. n |-> IF i = 1 THEN n ELSE Rest(i, f[i - 1])]
    BY <1>7, <2>2
  <2>4. QED
    BY <2>3, Zenon DEF Rest
<1>9. PICK w : /\ w = [i \in 1 .. n |->
                         IF i = 1 THEN n
                         ELSE LET size == w[i - 1]
                              IN  size \div Pow(i, NbOcc(size, i))]
               /\ CycleSize(n) = w
  BY <1>8, Zenon DEF CycleSize
<1>10. w = [i \in 1 .. n |-> IF i = 1 THEN n ELSE Rest(i, w[i - 1])]
  BY <1>9, Zenon DEF Rest
<1>11. DOMAIN w = 1 .. n /\ w[1] = n /\ \A i \in 2 .. n : w[i] = Rest(i, w[i - 1])
  <2>1. \A i \in 1 .. n : w[i] = IF i = 1 THEN n ELSE Rest(i, w[i - 1])
    BY <1>10
  <2>2. 1 \in 1 .. n /\ \A i \in 2 .. n : i \in 1 .. n /\ i # 1
    OBVIOUS
  <2>3. QED
    BY <1>10, <2>1, <2>2
<1> DEFINE A == {k \in Nat : k + 1 <= n => w[k + 1] \in 1 .. n}
<1>12. 0 \in A
  BY <1>11
<1>13. ASSUME NEW k \in Nat, k \in A PROVE k + 1 \in A
  <2>1. SUFFICES ASSUME (k + 1) + 1 <= n PROVE w[(k + 1) + 1] \in 1 .. n
    OBVIOUS
  <2>2. (k + 1) + 1 \in 2 .. n /\ ((k + 1) + 1) - 1 = k + 1 /\ k + 1 <= n
    BY <2>1
  <2>3. w[k + 1] \in 1 .. n /\ w[(k + 1) + 1] = Rest((k + 1) + 1, w[k + 1])
    BY <1>11, <1>13, <2>2
  <2>4. QED
    BY <1>2, <2>2, <2>3
<1> HIDE DEF A
<1>14. \A i \in 1 .. n : w[i] \in 1 .. n
  <2>1. \A k \in Nat : k + 1 <= n => w[k + 1] \in 1 .. n
    BY <1>12, <1>13, SetInduction DEF A
  <2>2. \A i \in 1 .. n : i - 1 \in Nat /\ (i - 1) + 1 = i /\ i <= n
    OBVIOUS
  <2>3. QED
    BY <2>1, <2>2
<1>15. w \in [1 .. n -> 1 .. n]
  BY <1>10, <1>14
<1>16. ASSUME NEW i \in 2 .. n
       PROVE  /\ NbOcc(w[i - 1], i) \in Nat
              /\ w[i - 1] = Pow(i, NbOcc(w[i - 1], i)) * w[i]
              /\ ~Divides(i, w[i])
  <2>1. i - 1 \in 1 .. n /\ i \in Nat /\ i >= 2
    OBVIOUS
  <2>2. w[i - 1] \in 1 .. n /\ w[i] = Rest(i, w[i - 1])
    BY <1>11, <1>14, <2>1
  <2>3. QED
    BY <1>2, <2>1, <2>2
<1>17. QED
  BY <1>9, <1>11, <1>15, <1>16 DEF Left

(* What is left is a number from 1 to n. *)
LEMMA LeftRange ==
  ASSUME NEW n \in Nat, n >= 1, NEW f, Left(f, n)
  PROVE  f[1] = n /\ \A i \in 1 .. n : f[i] \in Nat /\ f[i] >= 1 /\ f[i] <= n
<1>1. f[1] = n /\ f \in [1 .. n -> 1 .. n]
  BY DEF Left
<1>2. \A x \in 1 .. n : x \in Nat /\ x >= 1 /\ x <= n
  OBVIOUS
<1>3. QED
  BY <1>1, <1>2

(* What is left divides all that was left before, so that no number the    *)
(* loop has passed divides it; at the end nothing is left.                 *)
LEMMA LeftFacts ==
  ASSUME NEW n \in Nat, n >= 1, NEW f, Left(f, n)
  PROVE  /\ \A i \in 1 .. n : \A j \in 1 .. i : Divides(f[i], f[j])
         /\ \A i \in 1 .. n : \A j \in 2 .. i : ~Divides(j, f[i])
         /\ f[n] = 1
<1>0. f[1] = n /\ \A i \in 1 .. n : f[i] \in Nat /\ f[i] >= 1 /\ f[i] <= n
  BY LeftRange
<1>1. \A i \in 2 .. n : /\ NbOcc(f[i - 1], i) \in Nat
                        /\ f[i - 1] = Pow(i, NbOcc(f[i - 1], i)) * f[i]
                        /\ ~Divides(i, f[i])
  BY DEF Left
<1> DEFINE A == {k \in Nat : k + 1 <= n =>
                    \A j \in 1 .. k + 1 : Divides(f[k + 1], f[j])}
<1>2. 0 \in A
  <2>1. \A j \in 1 .. 0 + 1 : j = 1
    OBVIOUS
  <2>2. n \in Nat /\ Divides(n, n)
    BY DividesFacts
  <2>3. QED
    BY <1>0, <2>1, <2>2
<1>3. ASSUME NEW k \in Nat, k \in A PROVE k + 1 \in A
  <2>1. SUFFICES ASSUME (k + 1) + 1 <= n, NEW j \in 1 .. (k + 1) + 1
                 PROVE  Divides(f[(k + 1) + 1], f[j])
    OBVIOUS
  <2>2. PICK i \in 2 .. n : i = (k + 1) + 1
    BY <2>1
  <2>3. i - 1 = k + 1 /\ k + 1 <= n /\ i - 1 \in 1 .. n /\ i \in 1 .. n
    BY <2>2
  <2>4. f[i] \in Nat /\ f[i - 1] \in Nat
    BY <1>0, <2>3
  <2>5. CASE j = i
    <3>1. Divides(f[i], f[i])
      BY <2>4, DividesFacts
    <3>2. QED
      BY <2>2, <2>5, <3>1
  <2>6. CASE j # i
    <3>1. j \in 1 .. k + 1 /\ j \in 1 .. n
      BY <2>1, <2>2, <2>6
    <3>2. Divides(f[i - 1], f[j]) /\ f[j] \in Nat
      BY <1>0, <1>3, <2>3, <3>1
    <3>3. PICK u : u = Pow(i, NbOcc(f[i - 1], i)) /\ f[i - 1] = u * f[i]
      BY <1>1
    <3>4. u \in Nat
      <4>1. NbOcc(f[i - 1], i) \in Nat /\ i \in Nat
        BY <1>1
      <4>2. QED
        BY <3>3, <4>1, PowFacts
    <3>5. Divides(f[i], f[i - 1])
      <4>1. f[i - 1] = f[i] * u
        BY <3>3, <3>4, <2>4
      <4>2. QED
        BY <4>1, <3>4 DEF Divides
    <3>6. Divides(f[i], f[j])
      BY <2>4, <3>2, <3>5, DividesFacts
    <3>7. QED
      BY <2>2, <3>6
  <2>7. QED
    BY <2>5, <2>6
<1> HIDE DEF A
<1>4. \A i \in 1 .. n : \A j \in 1 .. i : Divides(f[i], f[j])
  <2>1. \A k \in Nat : k + 1 <= n => \A j \in 1 .. k + 1 : Divides(f[k + 1], f[j])
    BY <1>2, <1>3, SetInduction DEF A
  <2>2. \A i \in 1 .. n : i - 1 \in Nat /\ (i - 1) + 1 = i /\ i <= n
    OBVIOUS
  <2>3. QED
    BY <2>1, <2>2
<1>5. ASSUME NEW i \in 1 .. n, NEW j \in 2 .. i PROVE ~Divides(j, f[i])
  <2>1. j \in 1 .. i /\ j \in 2 .. n /\ j \in 1 .. n
    OBVIOUS
  <2>2. f[i] \in Nat /\ f[j] \in Nat
    BY <1>0, <2>1
  <2>3. ~Divides(j, f[j]) /\ Divides(f[i], f[j])
    BY <1>1, <1>4, <2>1
  <2>4. j \in Nat
    OBVIOUS
  <2>5. QED
    BY <2>2, <2>3, <2>4, DividesFacts
<1>6. f[n] = 1
  <2>1. n \in 1 .. n
    OBVIOUS
  <2>2. f[n] \in 1 .. n /\ f[n] \in Nat
    BY <1>0, <2>1
  <2>3. Divides(f[n], f[n])
    BY <2>2, DividesFacts
  <2>4. f[n] \notin 2 .. n
    BY <1>5, <2>1, <2>3
  <2>5. QED
    BY <2>2, <2>4
<1>7. QED
  BY <1>4, <1>5, <1>6

(* i is a factor that the loop found in n, with exponent e. *)
FactorIn(i, e, n, f) ==
  /\ i \in 2 .. n /\ Prime(i) /\ e \in Nat /\ e >= 1
  /\ e = NbOcc(f[i - 1], i)
  /\ f[i - 1] = Pow(i, e) * f[i]
  /\ Divides(Pow(i, e), n)

(* Every number that the loop finds is a prime, with its exponent. *)
LEMMA FactorFacts ==
  ASSUME NEW n \in Nat, n >= 1, NEW f, f = CycleSize(n), NEW g \in Factors(n)
  PROVE  g = <<g[1], g[2]>> /\ FactorIn(g[1], g[2], n, f)
<1>1. PICK i \in 2 .. n : /\ g = <<i, NbOcc(f[i - 1], i)>>
                          /\ f[i - 1] % i = 0
  BY Zenon DEF Factors
<1>2. PICK e : e = NbOcc(f[i - 1], i)
  OBVIOUS
<1>3. /\ f \in [1 .. n -> 1 .. n] /\ f[1] = n /\ e \in Nat
      /\ f[i - 1] = Pow(i, e) * f[i] /\ ~Divides(i, f[i])
  BY <1>2, CycleSizeFacts DEF Left
<1>4. i - 1 \in 1 .. n /\ i \in 1 .. n /\ 1 \in 1 .. i - 1 /\ i \in Nat /\ i >= 2
  OBVIOUS
<1>5. f[i - 1] \in Nat /\ f[i] \in Nat
  BY <1>3, <1>4, SMTT(30)
<1>6. Divides(i, f[i - 1])
  BY <1>1, <1>4, <1>5, DividesRemainder
<1>7. e >= 1
  <2>1. SUFFICES ASSUME e = 0 PROVE FALSE
    BY <1>3
  <2>2. Pow(i, e) = 1
    BY <1>4, <2>1, PowFacts
  <2>3. f[i - 1] = f[i]
    BY <1>3, <1>5, <2>2
  <2>4. QED
    BY <1>3, <1>6, <2>3
<1>8. /\ \A j \in 2 .. i - 1 : ~Divides(j, f[i - 1])
      /\ Divides(f[i - 1], n)
  <2>1. Left(f, n)
    BY CycleSizeFacts
  <2>2. /\ \A k \in 1 .. n : \A j \in 1 .. k : Divides(f[k], f[j])
        /\ \A k \in 1 .. n : \A j \in 2 .. k : ~Divides(j, f[k])
    BY <2>1, LeftFacts
  <2>3. QED
    BY <1>3, <1>4, <2>2
<1>9. Prime(i)
  <2>1. ASSUME NEW j \in 2 .. i - 1 PROVE ~Divides(j, i)
    <3>1. j \in Nat
      OBVIOUS
    <3>2. ~Divides(j, f[i - 1])
      BY <1>8
    <3>3. QED
      BY <1>4, <1>5, <1>6, <3>1, <3>2, DividesFacts
  <2>2. QED
    BY <1>4, <2>1 DEF Prime
<1>10. Divides(Pow(i, e), n)
  <2>1. Pow(i, e) \in Nat
    BY <1>3, <1>4, PowFacts
  <2>2. Divides(Pow(i, e), f[i - 1])
    BY <1>3, <1>5 DEF Divides
  <2>3. QED
    BY <1>5, <1>8, <2>1, <2>2, DividesFacts
<1>11. g[1] = i /\ g[2] = e
  BY <1>1, <1>2
<1>12. QED
  BY <1>1, <1>2, <1>3, <1>7, <1>9, <1>10, <1>11 DEF FactorIn

(* Two prime powers of one length that are powers of one number belong to  *)
(* the same prime: the cycles cut for a prime come from one factor of the  *)
(* length of their cycle.                                                  *)
LEMMA FactorUnique ==
  ASSUME NEW n \in Nat, n >= 1, NEW g \in Factors(n), NEW h \in Factors(n),
         NEW q \in Nat, NEW d \in Nat, NEW e \in Nat,
         Pow(g[1], g[2]) = Pow(q, d), Pow(h[1], h[2]) = Pow(q, e)
  PROVE  g = h
<1>1. PICK f : f = CycleSize(n)
  OBVIOUS
<1>0. Left(f, n)
  BY <1>1, CycleSizeFacts
<1>2. /\ \A i \in 2 .. n : ~Divides(i, f[i])
      /\ \A i \in 1 .. n : \A j \in 1 .. i : Divides(f[i], f[j])
      /\ \A i \in 1 .. n : \A j \in 2 .. i : ~Divides(j, f[i])
  BY <1>0, LeftFacts DEF Left
<1>2a. \A i \in 1 .. n : f[i] \in Nat /\ f[i] >= 1
  BY <1>0, LeftRange
<1>3. ASSUME NEW i, NEW b, NEW j, NEW c, NEW s \in Nat, NEW t \in Nat,
             FactorIn(i, b, n, f), FactorIn(j, c, n, f),
             Pow(i, b) = Pow(q, s), Pow(j, c) = Pow(q, t), i < j
      PROVE  FALSE
  <2>1. i \in 2 .. n /\ j \in 2 .. n /\ i \in Nat /\ j \in Nat
        /\ Prime(i) /\ b \in Nat /\ c \in Nat /\ b >= 1 /\ c >= 1
        /\ f[j - 1] = Pow(j, c) * f[j]
    BY <1>3 DEF FactorIn
  <2>2. j - 1 \in 1 .. n /\ i \in 1 .. j - 1 /\ i \in 1 .. n /\ j \in 1 .. n
    BY <1>3, <2>1
  <2>3. f[i] \in Nat /\ f[j - 1] \in Nat /\ f[j] \in Nat /\ f[i] >= 1
    BY <1>2a, <2>2
  <2>4. Divides(Pow(j, c), f[j - 1])
    <3>1. f[j] \in Nat
      BY <2>3
    <3>2. QED
      BY <2>1, <3>1 DEF Divides
  <2>5. Pow(j, c) \in Nat /\ Pow(j, c) >= 2 /\ Pow(i, b) \in Nat
    <3>1. Pow(j, c) \in Nat /\ Pow(i, b) \in Nat
      BY <2>1, PowFacts
    <3>2. j >= 2
      BY <2>1
    <3>3. Pow(j, c) >= c + 1
      BY <2>1, <3>2, PowGrows
    <3>4. QED
      BY <2>1, <3>1, <3>3
  <2>6. Divides(Pow(q, t), f[i])
    <3>1. Divides(f[j - 1], f[i])
      BY <1>2, <2>2
    <3>2. QED
      BY <1>3, <2>3, <2>4, <2>5, <3>1, DividesFacts
  <2>7. t # 0
    BY <1>3, <2>5, PowFacts
  <2>8. PICK u \in Nat : u = t - 1 /\ t = u + 1
    BY <2>7
  <2>9. Divides(q, f[i])
    <3>1. Pow(q, u) \in Nat /\ Pow(q, t) = q * Pow(q, u)
      <4>1. Pow(q, u) \in Nat /\ Pow(q, u + 1) = q * Pow(q, u)
        BY PowFacts
      <4>2. QED
        BY <2>8, <4>1
    <3>2. Divides(q, Pow(q, t))
      BY <3>1 DEF Divides
    <3>3. QED
      BY <1>3, <2>3, <2>5, <2>6, <3>2, DividesFacts
  <2>10. Divides(i, Pow(q, s))
    <3>1. PICK v \in Nat : b = v + 1
      <4>1. b - 1 \in Nat /\ b = (b - 1) + 1
        BY <2>1
      <4>2. QED
        BY <4>1
    <3>2. Pow(i, v) \in Nat /\ Pow(i, b) = i * Pow(i, v)
      BY <2>1, <3>1, PowFacts
    <3>3. QED
      BY <1>3, <3>2 DEF Divides
  <2>11. Divides(i, q)
    BY <2>1, <2>10, EuclidPow
  <2>12. Divides(i, f[i])
    BY <2>1, <2>3, <2>9, <2>11, DividesFacts
  <2>13. QED
    BY <1>2, <2>1, <2>12
<1>4. /\ g = <<g[1], g[2]>> /\ FactorIn(g[1], g[2], n, f)
      /\ h = <<h[1], h[2]>> /\ FactorIn(h[1], h[2], n, f)
  BY <1>1, FactorFacts
<1>5. ~(g[1] < h[1]) /\ ~(h[1] < g[1])
  BY <1>3, <1>4
<1>6. g[1] = h[1]
  <2>1. g[1] \in Nat /\ h[1] \in Nat
    BY <1>4 DEF FactorIn
  <2>2. QED
    BY <1>5, <2>1
<1>7. g[2] = h[2]
  BY <1>4, <1>6 DEF FactorIn
<1>8. QED
  BY <1>4, <1>6, <1>7

(* A prime divisor of n is found, and the exponent found with it takes all *)
(* of it out of n.                                                         *)
LEMMA FactorFound ==
  ASSUME NEW n \in Nat, n >= 1, NEW r \in Nat, Prime(r), Divides(r, n)
  PROVE  \E g \in Factors(n) :
            /\ g[1] = r
            /\ ~Divides(r, n \div Pow(g[1], g[2]))
<1>1. PICK f : f = CycleSize(n)
  OBVIOUS
<1>0. Left(f, n)
  BY <1>1, CycleSizeFacts
<1>2. /\ f[1] = n
      /\ \A i \in 2 .. n : /\ NbOcc(f[i - 1], i) \in Nat
                           /\ f[i - 1] = Pow(i, NbOcc(f[i - 1], i)) * f[i]
                           /\ ~Divides(i, f[i])
  BY <1>0 DEF Left
<1>2a. \A i \in 1 .. n : f[i] \in Nat /\ f[i] >= 1
  BY <1>0, LeftRange
<1>3. r \in 2 .. n /\ r \in Nat /\ r >= 2
  BY DividesFacts DEF Prime
<1> DEFINE Cofactor(i) == \E x \in Nat : n = x * f[i] /\ ~Divides(r, x)
           A == {k \in Nat : k + 1 <= r - 1 => Cofactor(k + 1)}
<1>4. 0 \in A
  <2>1. ~Divides(r, 1)
    BY <1>3, DividesFacts
  <2>2. n = 1 * f[1]
    BY <1>2
  <2>3. QED
    BY <2>1, <2>2
<1>5. ASSUME NEW k \in Nat, k \in A PROVE k + 1 \in A
  <2>1. SUFFICES ASSUME (k + 1) + 1 <= r - 1 PROVE Cofactor((k + 1) + 1)
    OBVIOUS
  <2>2. PICK i \in 2 .. n : i = (k + 1) + 1
    BY <1>3, <2>1
  <2>3. i - 1 = k + 1 /\ k + 1 <= r - 1 /\ i - 1 \in 1 .. n /\ i \in 1 .. n /\ i < r
        /\ i \in Nat /\ i >= 1
    BY <1>3, <2>1, <2>2
  <2>4. PICK x \in Nat : n = x * f[i - 1] /\ ~Divides(r, x)
    BY <1>5, <2>3
  <2>5. PICK e \in Nat : f[i - 1] = Pow(i, e) * f[i]
    BY <1>2
  <2>6. PICK u \in Nat : u = Pow(i, e)
    BY <2>3, PowFacts
  <2>7. ~Divides(r, u)
    <3>1. ~Divides(r, i)
      BY <1>3, <2>3, DividesFacts
    <3>2. QED
      BY <2>3, <2>6, <3>1, EuclidPow
  <2>8. ~Divides(r, x * u)
    BY <2>4, <2>7, Euclid
  <2>9. n = (x * u) * f[i]
    <3>1. f[i] \in Nat
      BY <1>2a, <2>3
    <3>2. n = x * (u * f[i])
      BY <2>4, <2>5, <2>6
    <3>3. QED
      BY <3>1, <3>2
  <2>10. x * u \in Nat
    OBVIOUS
  <2>11. QED
    BY <2>2, <2>8, <2>9, <2>10
<1> HIDE DEF A
<1>6. Cofactor(r - 1)
  <2>1. \A k \in Nat : k + 1 <= r - 1 => Cofactor(k + 1)
    BY <1>4, <1>5, SetInduction DEF A
  <2>2. r - 2 \in Nat /\ (r - 2) + 1 = r - 1
    BY <1>3
  <2>3. QED
    BY <2>1, <2>2
<1>7. PICK x \in Nat : n = x * f[r - 1] /\ ~Divides(r, x)
  BY <1>6
<1>8. r - 1 \in 1 .. n /\ r \in 1 .. n
  BY <1>3
<1>9. f[r - 1] \in Nat /\ f[r - 1] >= 1 /\ f[r] \in Nat
  BY <1>2a, <1>8
<1>10. Divides(r, f[r - 1])
  BY <1>7, <1>9, Euclid
<1>11. r <= f[r - 1] /\ f[r - 1] % r = 0
  BY <1>3, <1>9, <1>10, DividesFacts, DividesRemainder
<1>12. PICK e \in Nat : e = NbOcc(f[r - 1], r) /\ f[r - 1] = Pow(r, e) * f[r]
                        /\ ~Divides(r, f[r])
  BY <1>2, <1>3
<1>13. PICK g : g = <<r, e>>
  OBVIOUS
<1>14. g \in Factors(n)
  BY <1>1, <1>3, <1>11, <1>12, <1>13 DEF Factors
<1>15. PICK u \in Nat : u = Pow(r, e) /\ u >= 1
  BY <1>3, PowFacts, PowGrows
<1>16. n = u * (x * f[r]) /\ x * f[r] \in Nat
  BY <1>7, <1>9, <1>12, <1>15
<1>17. n \div u = x * f[r]
  BY <1>15, <1>16, ExactQuotient
<1>18. ~Divides(r, x * f[r])
  BY <1>7, <1>9, <1>12, Euclid
<1>19. QED
  BY <1>13, <1>14, <1>15, <1>17, <1>18

(* Every number above 1 has a prime divisor. *)
LEMMA PrimeDivisor ==
  ASSUME NEW d \in Nat, d >= 2
  PROVE  \E r \in Nat : Prime(r) /\ Divides(r, d)
<1> DEFINE T == {x \in Nat : x >= 2 /\ Divides(x, d)}
<1>1. d \in T
  BY DividesFacts
<1>2. PICK r \in T : \A y \in T : r <= y
  BY <1>1, LeastElement
<1>3. ASSUME NEW j \in 2 .. r - 1, Divides(j, r) PROVE FALSE
  <2>1. j \in Nat /\ j >= 2 /\ r \in Nat /\ Divides(r, d) /\ ~(r <= j)
    OBVIOUS
  <2>2. Divides(j, d)
    BY <1>3, <2>1, DividesFacts
  <2>3. QED
    BY <1>2, <2>1, <2>2
<1>4. QED
  BY <1>2, <1>3 DEF Prime

(* The steps n / q, for the prime powers q that the loop finds in n, lead  *)
(* everywhere modulo n.                                                    *)
LEMMA StepsReachAll ==
  ASSUME NEW n \in Nat, n >= 1, NEW H, 0 \in H,
         \A h \in Nat : h \in H <=> h + n \in H,
         \A g \in Factors(n), h \in Nat :
            h \in H => h + (n \div Pow(g[1], g[2])) \in H
  PROVE  Nat \subseteq H
<1> DEFINE K == {k \in Nat : k >= 1 /\ \A h \in Nat : h \in H => h + k \in H}
<1>1. n \in K
  OBVIOUS
<1>2. PICK d \in K : \A k \in K : d <= k
  BY <1>1, LeastElement
<1>3. d \in Nat /\ d >= 1 /\ \A h \in Nat : h \in H => h + d \in H
  OBVIOUS
<1>4. ASSUME NEW h \in Nat, h \in H, NEW t \in Nat PROVE h + d * t \in H
  <2> DEFINE A == {k \in Nat : h + d * k \in H}
  <2>1. 0 \in A
    BY <1>3, <1>4
  <2>2. ASSUME NEW k \in Nat, k \in A PROVE k + 1 \in A
    <3>1. h + d * (k + 1) = (h + d * k) + d /\ h + d * k \in Nat
      BY <1>3
    <3>2. QED
      BY <1>3, <2>2, <3>1
  <2> HIDE DEF A
  <2>3. t \in A
    BY <2>1, <2>2, SetInduction
  <2>4. QED
    BY <2>3 DEF A
<1>5. ASSUME NEW h \in Nat, NEW t \in Nat, h + n * t \in H PROVE h \in H
  <2> DEFINE A == {k \in Nat : h + n * k \in H => h \in H}
  <2>1. 0 \in A
    OBVIOUS
  <2>2. ASSUME NEW k \in Nat, k \in A PROVE k + 1 \in A
    <3>1. h + n * (k + 1) = (h + n * k) + n /\ h + n * k \in Nat
      OBVIOUS
    <3>2. QED
      BY <2>2, <3>1
  <2> HIDE DEF A
  <2>3. t \in A
    BY <2>1, <2>2, SetInduction
  <2>4. QED
    BY <1>5, <2>3 DEF A
<1>6. ASSUME NEW a \in K PROVE Divides(d, a)
  <2>1. PICK s \in Nat, r \in Nat : a = d * s + r /\ r < d
    <3>1. a \in Nat
      OBVIOUS
    <3>2. QED
      BY <1>3, <3>1, DividesRemainder
  <2>2. r = 0
    <3>1. SUFFICES ASSUME r >= 1 PROVE FALSE
      OBVIOUS
    <3>2. ASSUME NEW h \in Nat, h \in H PROVE h + r \in H
      <4>1. h + a \in H /\ h + a \in Nat
        BY <3>2
      <4>2. s * (n - 1) \in Nat /\ d * s \in Nat
        BY <1>3
      <4>3. (h + a) + d * (s * (n - 1)) \in H
        BY <1>4, <4>1, <4>2
      <4>4. (h + a) + d * (s * (n - 1)) = (h + r) + n * (d * s)
        <5>1. d * (s * (n - 1)) = n * (d * s) - d * s
          BY <1>3
        <5>2. QED
          BY <2>1, <5>1, <4>2
      <4>5. PICK x \in Nat, y \in Nat : x = h + r /\ y = d * s
        BY <4>2
      <4>6. x + n * y \in H
        BY <4>3, <4>4, <4>5
      <4>7. x \in H
        BY <1>5, <4>5, <4>6
      <4>8. QED
        BY <4>5, <4>7
    <3>3. r \in K
      BY <3>1, <3>2
    <3>4. d <= r
      BY <1>2, <3>3
    <3>5. QED
      BY <1>3, <2>1, <3>4
  <2>3. a = d * s
    BY <1>3, <2>1, <2>2
  <2>4. QED
    BY <2>3 DEF Divides
<1>7. ASSUME NEW g \in Factors(n)
      PROVE  Divides(d, n \div Pow(g[1], g[2]))
  <2>1. PICK f : f = CycleSize(n)
    OBVIOUS
  <2>2. FactorIn(g[1], g[2], n, f)
    BY <2>1, FactorFacts
  <2>3. PICK u \in Nat : u = Pow(g[1], g[2]) /\ Divides(u, n) /\ u >= 1
    <3>1. g[1] \in Nat /\ g[1] >= 2 /\ g[2] \in Nat /\ Divides(Pow(g[1], g[2]), n)
      BY <2>2 DEF FactorIn
    <3>2. Pow(g[1], g[2]) \in Nat
      BY <3>1, PowFacts
    <3>3. QED
      BY <3>1, <3>2, DividesFacts
  <2>4. PICK m \in Nat : n = u * m
    BY <2>3 DEF Divides
  <2>5. n \div u = m
    BY <2>3, <2>4, ExactQuotient
  <2>6. m >= 1
    BY <2>3, <2>4
  <2>7. m \in K
    BY <2>3, <2>5, <2>6
  <2>8. QED
    BY <1>6, <2>3, <2>5, <2>7
<1>8. Divides(d, n)
  BY <1>1, <1>6
<1>9. d = 1
  <2>1. SUFFICES ASSUME d >= 2 PROVE FALSE
    BY <1>3
  <2>2. PICK r \in Nat : Prime(r) /\ Divides(r, d)
    BY <1>3, <2>1, PrimeDivisor
  <2>3. Divides(r, n)
    BY <1>3, <1>8, <2>2, DividesFacts
  <2>4. PICK g \in Factors(n) : ~Divides(r, n \div Pow(g[1], g[2]))
    BY <2>2, <2>3, FactorFound
  <2>5. PICK m : m = n \div Pow(g[1], g[2]) /\ Divides(d, m)
    BY <1>7
  <2>6. m \in Nat
    BY <1>3, <2>5 DEF Divides
  <2>7. QED
    BY <1>3, <2>2, <2>4, <2>5, <2>6, DividesFacts
<1>10. \A h \in Nat : h \in H => h + 1 \in H
  BY <1>3, <1>9
<1>11. QED
  BY <1>10, SetInduction

-----------------------------------------------------------------------------
(* Walks along a cycle and shifts.                                         *)

(* The walk from the negation is the negation of the walk. *)
LEMMA WalkNeg ==
  ASSUME NEW p \in LitPerms, NEW l \in Lits, NEW n \in Nat
  PROVE  Walk(p, Neg(l))[n] = Neg(Walk(p, l)[n])
<1>1. PICK w : w = Walk(p, l)
  OBVIOUS
<1>2. w \in [Nat -> Lits] /\ w[0] = l /\ \A k \in Nat : w[k + 1] = p[w[k]]
  BY <1>1, WalkFacts DEF Chain
<1>3. Neg(l) \in Lits
  BY LitFacts
<1>4. PICK v : v = Walk(p, Neg(l))
  OBVIOUS
<1>5. v \in [Nat -> Lits] /\ v[0] = Neg(l) /\ \A k \in Nat : v[k + 1] = p[v[k]]
  BY <1>3, <1>4, WalkFacts DEF Chain
<1>6. \A x \in Lits : p[Neg(x)] = Neg(p[x])
  BY DEF LitPerms
<1> DEFINE A == {k \in Nat : v[k] = Neg(w[k])}
<1>7. 0 \in A
  BY <1>2, <1>5
<1>8. ASSUME NEW k \in Nat, k \in A PROVE k + 1 \in A
  <2>1. w[k] \in Lits
    BY <1>2
  <2>2. QED
    BY <1>2, <1>5, <1>6, <1>8, <2>1
<1> HIDE DEF A
<1>9. n \in A
  BY <1>7, <1>8, SetInduction
<1>10. QED
  BY <1>1, <1>4, <1>9 DEF A

(* Walks of one length from different literals end in different literals. *)
LEMMA WalkInjective ==
  ASSUME NEW p \in LitPerms, NEW l \in Lits, NEW m \in Lits, NEW n \in Nat,
         Walk(p, l)[n] = Walk(p, m)[n]
  PROVE  l = m
<1>1. PICK w, v : w = Walk(p, l) /\ v = Walk(p, m)
  OBVIOUS
<1>2. w \in [Nat -> Lits] /\ w[0] = l /\ \A k \in Nat : w[k + 1] = p[w[k]]
  BY <1>1, WalkFacts, ZenonT(30) DEF Chain
<1>3. v \in [Nat -> Lits] /\ v[0] = m /\ \A k \in Nat : v[k + 1] = p[v[k]]
  BY <1>1, WalkFacts, ZenonT(30) DEF Chain
<1>4. \A x, y \in Lits : p[x] = p[y] => x = y
  BY DEF LitPerms
<1> DEFINE A == {k \in Nat : w[k] = v[k] => l = m}
<1>5. 0 \in A
  BY <1>2, <1>3
<1>6. ASSUME NEW k \in Nat, k \in A PROVE k + 1 \in A
  <2>1. w[k] \in Lits /\ v[k] \in Lits
    BY <1>2, <1>3
  <2>2. QED
    BY <1>2, <1>3, <1>4, <1>6, <2>1
<1> HIDE DEF A
<1>7. n \in A
  BY <1>5, <1>6, SetInduction
<1>8. QED
  BY <1>1, <1>7 DEF A

(* Literals that return to themselves at the same times have cycles of the *)
(* same length.                                                            *)
LEMMA SameReturns ==
  ASSUME NEW p \in LitPerms, NEW l \in Lits, NEW m \in Lits,
         \A k \in Nat : Walk(p, l)[k] = l <=> Walk(p, m)[k] = m
  PROVE  CycleLength(p, l) = CycleLength(p, m)
<1>1. PICK a, b, N : /\ a = CycleLength(p, l) /\ b = CycleLength(p, m)
                     /\ N = Cardinality(Lits)
  OBVIOUS
<1>2. N \in Nat
  BY <1>1, LitsFinite
<1>3. a \in 1 .. N /\ Walk(p, l)[a] = l /\ \A k \in 1 .. a - 1 : Walk(p, l)[k] # l
  BY <1>1, CycleCloses
<1>4. b \in 1 .. N /\ Walk(p, m)[b] = m /\ \A k \in 1 .. b - 1 : Walk(p, m)[k] # m
  BY <1>1, CycleCloses
<1>5. a \in Nat /\ b \in Nat /\ a >= 1 /\ b >= 1
  BY <1>2, <1>3, <1>4
<1>6. ~(a < b)
  <2>1. a < b => a \in 1 .. b - 1
    BY <1>5
  <2>2. QED
    BY <1>3, <1>4, <1>5, <2>1
<1>7. ~(b < a)
  <2>1. b < a => b \in 1 .. a - 1
    BY <1>5
  <2>2. QED
    BY <1>3, <1>4, <1>5, <2>1
<1>8. QED
  BY <1>1, <1>5, <1>6, <1>7

(* The literals of a cycle agree on its length, and so do negations.       *)
LEMMA CycleLengthKept ==
  ASSUME NEW p \in LitPerms, NEW l \in Lits
  PROVE  /\ \A a \in Nat : CycleLength(p, Walk(p, l)[a]) = CycleLength(p, l)
         /\ CycleLength(p, Neg(l)) = CycleLength(p, l)
<1>1. ASSUME NEW a \in Nat
      PROVE  CycleLength(p, Walk(p, l)[a]) = CycleLength(p, l)
  <2>1. PICK m \in Lits : m = Walk(p, l)[a]
    BY WalkAdd
  <2>2. ASSUME NEW k \in Nat PROVE Walk(p, m)[k] = m <=> Walk(p, l)[k] = l
    <3>1. Walk(p, m)[k] = Walk(p, l)[a + k]
      BY <2>1, WalkAdd
    <3>2. ASSUME Walk(p, l)[k] = l PROVE Walk(p, m)[k] = m
      <4>1. Walk(p, Walk(p, l)[k])[a] = Walk(p, l)[k + a]
        BY WalkAdd
      <4>2. k + a = a + k
        OBVIOUS
      <4>3. QED
        BY <2>1, <3>1, <3>2, <4>1, <4>2
    <3>3. ASSUME Walk(p, m)[k] = m PROVE Walk(p, l)[k] = l
      <4>1. Walk(p, l)[a] = Walk(p, l)[a + k] /\ a + k \in Nat /\ a <= a + k
            /\ (a + k) - a = k
        BY <2>1, <3>1, <3>3
      <4>2. Walk(p, l)[(a + k) - a] = l
        BY <4>1, WalkCancel
      <4>3. QED
        BY <4>1, <4>2
    <3>4. QED
      BY <3>2, <3>3
  <2>3. QED
    BY <2>1, <2>2, SameReturns
<1>2. CycleLength(p, Neg(l)) = CycleLength(p, l)
  <2>1. Neg(l) \in Lits /\ l \in Nat
    BY LitFacts
  <2>2. ASSUME NEW k \in Nat
        PROVE  Walk(p, Neg(l))[k] = Neg(l) <=> Walk(p, l)[k] = l
    <3>1. Walk(p, Neg(l))[k] = Neg(Walk(p, l)[k]) /\ Walk(p, l)[k] \in Lits
      BY WalkNeg, WalkAdd
    <3>2. Walk(p, l)[k] \in Nat
      BY <3>1, LitFacts
    <3>3. Neg(Neg(l)) = l /\ Neg(Neg(Walk(p, l)[k])) = Walk(p, l)[k]
      BY <2>1, <3>2, NegFacts
    <3>4. QED
      BY <3>1, <3>3
  <2>3. QED
    BY <2>1, <2>2, SameReturns
<1>3. QED
  BY <1>1, <1>2

(* Every literal of the cycle of l moves n steps along its own cycle, as   *)
(* many as the length of that cycle tells.                                 *)
ShiftBy(p, jumps) == [l \in Lits |-> Walk(p, l)[jumps[CycleLength(p, l)]]]

(* A shift commutes with negation, whatever the number of steps for each   *)
(* length.                                                                 *)
LEMMA ShiftIsLitPerm ==
  ASSUME NEW p \in LitPerms, NEW g \in [Lengths -> Nat]
  PROVE  ShiftBy(p, g) \in LitPerms
<1>1. PICK s : s = ShiftBy(p, g)
  OBVIOUS
<1>2. \A l \in Lits : s[l] = Walk(p, l)[g[CycleLength(p, l)]]
  BY <1>1 DEF ShiftBy
<1>3. \A l \in Lits : g[CycleLength(p, l)] \in Nat
  BY CycleCloses DEF Lengths
<1>4. s \in [Lits -> Lits]
  <2>1. \A l \in Lits : Walk(p, l)[g[CycleLength(p, l)]] \in Lits
    BY <1>3, WalkAdd
  <2>2. QED
    BY <1>1, <2>1 DEF ShiftBy
<1>5. ASSUME NEW l \in Lits, NEW m \in Lits, s[l] = s[m] PROVE l = m
  <2>1. CycleLength(p, s[l]) = CycleLength(p, l)
    BY <1>2, <1>3, CycleLengthKept
  <2>2. CycleLength(p, s[m]) = CycleLength(p, m)
    BY <1>2, <1>3, CycleLengthKept
  <2>3. PICK n \in Nat : n = g[CycleLength(p, l)] /\ n = g[CycleLength(p, m)]
    BY <1>3, <1>5, <2>1, <2>2
  <2>4. Walk(p, l)[n] = Walk(p, m)[n]
    BY <1>2, <1>5, <2>3
  <2>5. QED
    BY <2>4, WalkInjective
<1>6. ASSUME NEW l \in Lits PROVE s[Neg(l)] = Neg(s[l])
  <2>1. Neg(l) \in Lits /\ CycleLength(p, Neg(l)) = CycleLength(p, l)
    BY LitFacts, CycleLengthKept
  <2>2. PICK n \in Nat : n = g[CycleLength(p, l)]
    BY <1>3
  <2>3. s[Neg(l)] = Walk(p, Neg(l))[n] /\ s[l] = Walk(p, l)[n]
    BY <1>2, <2>1, <2>2
  <2>4. QED
    BY <2>3, WalkNeg
<1>7. QED
  BY <1>1, <1>4, <1>5, <1>6 DEF LitPerms

(* It moves the literals of every cycle for which the number of steps is   *)
(* not zero and less than the length.                                      *)
LEMMA ShiftMoves ==
  ASSUME NEW p \in LitPerms, NEW g, NEW l \in Lits,
         g[CycleLength(p, l)] \in 1 .. CycleLength(p, l) - 1
  PROVE  ShiftBy(p, g)[l] # l
BY CycleCloses DEF ShiftBy

-----------------------------------------------------------------------------
(* Cycles as lists, and the pieces they are cut to.                        *)

(* c lists n literals; each is followed, and the last one by the first, by *)
(* the literal that is d steps of p further.                               *)
Loop(c, n, p, d) ==
  /\ n >= 1 /\ c \in [1 .. n -> Lits]
  /\ \A k \in 1 .. n - 1 : c[k + 1] = Walk(p, c[k])[d]
  /\ c[1] = Walk(p, c[n])[d]

(* getCycle lists a loop of single steps. *)
LEMMA GetCycleLoop ==
  ASSUME NEW p \in LitPerms, NEW l \in Lits
  PROVE  /\ Loop(GetCycle(p, l), CycleLength(p, l), p, 1)
         /\ Len(GetCycle(p, l)) = CycleLength(p, l)
         /\ \A k \in 1 .. CycleLength(p, l) :
              GetCycle(p, l)[k] = Walk(p, l)[k - 1]
<1>1. PICK n \in Nat : n = CycleLength(p, l) /\ n >= 1 /\ Walk(p, l)[n] = l
  BY CycleCloses, LitsFinite
<1>2. PICK w : w = Walk(p, l) /\ w \in [Nat -> Lits] /\ w[0] = l
               /\ \A k \in Nat : w[k + 1] = p[w[k]]
  BY WalkFacts DEF Chain
<1>3. PICK c : c = GetCycle(p, l)
  OBVIOUS
<1>4. c = [k \in 1 .. n |-> w[k - 1]]
  BY <1>1, <1>2, <1>3 DEF GetCycle
<1>5. \A k \in 1 .. n : k - 1 \in Nat /\ (k - 1) + 1 = k
  OBVIOUS
<1>6. c \in [1 .. n -> Lits] /\ Len(c) = n
  BY <1>2, <1>4, <1>5
<1>7. \A x \in Lits : Walk(p, x)[1] = p[x]
  <2>1. \A x \in Lits : Walk(p, x)[0 + 1] = p[Walk(p, x)[0]] /\ Walk(p, x)[0] = x
    BY WalkFacts DEF Chain
  <2>2. 0 + 1 = 1
    OBVIOUS
  <2>3. QED
    BY <2>1, <2>2
<1>8. \A k \in 1 .. n - 1 : c[k + 1] = p[c[k]]
  <2>1. \A k \in 1 .. n - 1 : /\ k \in 1 .. n /\ k + 1 \in 1 .. n
                              /\ (k + 1) - 1 = (k - 1) + 1 /\ k - 1 \in Nat
    OBVIOUS
  <2>2. QED
    BY <1>2, <1>4, <2>1
<1>9. c[1] = p[c[n]]
  <2>1. 1 \in 1 .. n /\ n \in 1 .. n /\ 1 - 1 = 0 /\ n - 1 \in Nat /\ (n - 1) + 1 = n
    BY <1>1
  <2>2. c[1] = w[0] /\ c[n] = w[n - 1] /\ w[n] = p[w[n - 1]]
    BY <1>2, <1>4, <2>1
  <2>3. QED
    BY <1>1, <1>2, <2>2
<1>10. \A k \in 1 .. n : c[k] \in Lits
  BY <1>6
<1>11. Loop(c, n, p, 1)
  <2>1. \A k \in 1 .. n - 1 : c[k + 1] = Walk(p, c[k])[1]
    <3>1. \A k \in 1 .. n - 1 : k \in 1 .. n
      OBVIOUS
    <3>2. QED
      BY <1>7, <1>8, <1>10, <3>1
  <2>2. c[1] = Walk(p, c[n])[1]
    <3>1. n \in 1 .. n
      BY <1>1
    <3>2. QED
      BY <1>7, <1>9, <1>10, <3>1
  <2>3. QED
    BY <1>1, <1>6, <2>1, <2>2 DEF Loop
<1>12. QED
  BY <1>1, <1>2, <1>3, <1>4, <1>6, <1>11

(* n is the product of t and m. *)
IsProduct(n, t, m) == n = t * m

(* The literal a places further in a loop. *)
LEMMA LoopAhead ==
  ASSUME NEW p \in LitPerms, NEW n \in Nat, NEW d \in Nat, NEW c, Loop(c, n, p, d),
         NEW k \in 1 .. n, NEW a \in Nat, NEW i \in 1 .. n, i = k + a,
         NEW s, IsProduct(s, d, a)
  PROVE  c[i] = Walk(p, c[k])[s]
<1>1. \A m \in 1 .. n : c[m] \in Lits
  BY DEF Loop
<1>2. PICK x \in Lits : x = c[k]
  BY <1>1
<1> DEFINE A == {b \in Nat : k + b <= n => c[k + b] = Walk(p, x)[d * b]}
<1>3. 0 \in A
  <2>1. k + 0 = k /\ d * 0 = 0
    OBVIOUS
  <2>2. Walk(p, x)[0] = x
    BY WalkFacts DEF Chain
  <2>3. QED
    BY <1>2, <2>1, <2>2
<1>4. ASSUME NEW b \in Nat, b \in A PROVE b + 1 \in A
  <2>1. SUFFICES ASSUME k + (b + 1) <= n
                 PROVE  c[k + (b + 1)] = Walk(p, x)[d * (b + 1)]
    OBVIOUS
  <2>2. k + b \in 1 .. n - 1 /\ k + b <= n /\ (k + b) + 1 = k + (b + 1)
    BY <2>1
  <2>3. d * b \in Nat /\ d * b + d = d * (b + 1)
    OBVIOUS
  <2>4. c[(k + b) + 1] = Walk(p, c[k + b])[d]
    BY <2>2 DEF Loop
  <2>5. c[k + b] = Walk(p, x)[d * b]
    BY <1>4, <2>2
  <2>6. Walk(p, Walk(p, x)[d * b])[d] = Walk(p, x)[d * b + d]
    BY <2>3, WalkAdd
  <2>7. QED
    BY <2>2, <2>3, <2>4, <2>5, <2>6
<1> HIDE DEF A
<1>5. a \in A
  BY <1>3, <1>4, SetInduction
<1>6. k + a <= n /\ s = d * a
  BY DEF IsProduct
<1>7. QED
  BY <1>2, <1>5, <1>6 DEF A

(* e takes every t-th element of c, from the j-th on. *)
IsPiece(e, c, m, t, j) == e = [k \in 1 .. m |-> c[j + t * (k - 1)]]

(* Cut returns one piece for each starting point. *)
LEMMA CutPieces ==
  ASSUME NEW c, NEW m, NEW t, t = Len(c) \div m
  PROVE  /\ \A e \in Cut(c, m) : \E j \in 1 .. t : IsPiece(e, c, m, t, j)
         /\ \A j \in 1 .. t : \E e \in Cut(c, m) : IsPiece(e, c, m, t, j)
<1>1. Cut(c, m) = {[k \in 1 .. m |-> c[j + t * (k - 1)]] : j \in 1 .. t}
  BY DEF Cut
<1>2. QED
  BY <1>1, Zenon DEF IsPiece

(* A number is its own remainder by a larger one. *)
LEMMA SmallRemainder ==
  ASSUME NEW a \in Nat, NEW b \in Nat, a < b
  PROVE  a % b = a
<1>1. /\ b > 0 /\ a \div b \in Nat /\ a % b \in Nat
      /\ a = b * (a \div b) + (a % b)
  BY DividesRemainder
<1>2. a \div b < 1
  <2>1. SUFFICES ASSUME a \div b >= 1 PROVE FALSE
    BY <1>1
  <2>2. b * (a \div b) >= b * 1
    BY <1>1, <2>1
  <2>3. QED
    BY <1>1, <2>2
<1>3. a \div b = 0
  BY <1>1, <1>2
<1>4. QED
  BY <1>1, <1>3

(* Cutting a loop: every piece is a loop of longer steps, and the pieces   *)
(* hold every literal of it.                                               *)
LEMMA CutLoops ==
  ASSUME NEW p \in LitPerms, NEW t \in Nat, NEW m \in Nat, NEW d \in Nat,
         t >= 1, m >= 1, NEW n \in Nat, IsProduct(n, t, m),
         NEW s \in Nat, IsProduct(s, d, t), NEW c, Loop(c, n, p, d)
  PROVE  /\ \A e \in Cut(c, m) :
              /\ Loop(e, m, p, s)
              /\ \A k \in 1 .. m : \E i \in 1 .. n : e[k] = c[i]
         /\ \A i \in 1 .. n : \E e \in Cut(c, m) : InSeq(c[i], e)
<1>1. n = t * m /\ n >= t
  <2>1. t * m >= t * 1
    OBVIOUS
  <2>2. QED
    BY <2>1 DEF IsProduct
<1>2. Loop(c, n, p, d) /\ c \in [1 .. n -> Lits]
  BY <1>1 DEF Loop
<1>3. Len(c) = n /\ Len(c) \div m = t
  <2>1. Len(c) = n
    BY <1>2
  <2>2. n = m * t
    BY <1>1
  <2>3. QED
    BY <2>1, <2>2, ExactQuotient
<1>4. /\ \A e \in Cut(c, m) : \E j \in 1 .. t : IsPiece(e, c, m, t, j)
      /\ \A j \in 1 .. t : \E e \in Cut(c, m) : IsPiece(e, c, m, t, j)
  <2>1. t = Len(c) \div m
    BY <1>3
  <2>2. QED
    BY <2>1, CutPieces
<1>5. ASSUME NEW j \in 1 .. t, NEW k \in 1 .. m
      PROVE  j + t * (k - 1) \in 1 .. n
  <2>1. PICK a \in Nat : a = k - 1 /\ a <= m - 1
    OBVIOUS
  <2>2. t * a <= t * (m - 1) /\ t * (m - 1) = n - t /\ t * a \in Nat
    BY <1>1, <2>1
  <2>3. QED
    BY <1>1, <2>1, <2>2
<1>6. ASSUME NEW j \in 1 .. t, NEW e, IsPiece(e, c, m, t, j)
      PROVE  /\ Loop(e, m, p, s)
             /\ \A k \in 1 .. m : \E i \in 1 .. n : e[k] = c[i]
             /\ Len(e) = m
  <2>1. \A k \in 1 .. m : e[k] = c[j + t * (k - 1)]
    BY <1>6 DEF IsPiece
  <2>2. e \in [1 .. m -> Lits] /\ \A k \in 1 .. m : \E i \in 1 .. n : e[k] = c[i]
    BY <1>2, <1>5, <1>6 DEF IsPiece
  <2>3. ASSUME NEW k \in 1 .. m - 1 PROVE e[k + 1] = Walk(p, e[k])[s]
    <3>1. k \in 1 .. m /\ k + 1 \in 1 .. m
      OBVIOUS
    <3>2. PICK x : x = j + t * (k - 1)
      OBVIOUS
    <3>3. x \in 1 .. n
      BY <1>5, <3>1, <3>2
    <3>4. x + t = j + t * ((k + 1) - 1)
      BY <3>2
    <3>5. j + t * ((k + 1) - 1) \in 1 .. n
      BY <1>5, <3>1
    <3>6. x + t <= n
      BY <3>4, <3>5
    <3>7. c[x + t] = Walk(p, c[x])[s]
      BY <1>2, <3>3, <3>4, <3>5, LoopAhead
    <3>8. e[k] = c[x] /\ e[k + 1] = c[x + t]
      BY <2>1, <3>1, <3>2, <3>4
    <3>9. QED
      BY <3>7, <3>8
  <2>4. e[1] = Walk(p, e[m])[s]
    <3>1. 1 \in 1 .. m /\ m \in 1 .. m /\ t * (1 - 1) = 0
      OBVIOUS
    <3>2. PICK x : x = j + t * (m - 1)
      OBVIOUS
    <3>3. x \in 1 .. n
      BY <1>5, <3>1, <3>2
    <3>4. x + (t - j) = n /\ t - j \in Nat /\ j - 1 \in Nat
      BY <1>1, <3>2
    <3>5. PICK u \in Nat, v \in Nat : u = t - j /\ v = j - 1
      BY <3>4
    <3>6. PICK a \in Nat, b \in Nat : IsProduct(a, d, u) /\ IsProduct(b, d, v)
      <4>1. d * u \in Nat /\ d * v \in Nat
        OBVIOUS
      <4>2. QED
        BY <4>1 DEF IsProduct
    <3>7. n \in 1 .. n /\ n = x + u /\ 1 \in 1 .. n /\ j \in 1 .. n /\ j = 1 + v
      <4>1. n >= 1 /\ n >= j
        BY <1>1
      <4>2. QED
        BY <3>4, <3>5, <4>1
    <3>8. /\ c[n] = Walk(p, c[x])[a]
          /\ c[1] = Walk(p, c[n])[d]
          /\ c[j] = Walk(p, c[1])[b]
      <4>1. c[n] = Walk(p, c[x])[a]
        <5>1. PICK i \in 1 .. n : i = n
          BY <3>7
        <5>2. i = x + u
          BY <3>7, <5>1
        <5>3. c[i] = Walk(p, c[x])[a]
          BY <1>2, <3>3, <3>6, <5>2, LoopAhead, SMTT(30)
        <5>4. QED
          BY <5>1, <5>3
      <4>2. c[1] = Walk(p, c[n])[d]
        BY <1>2 DEF Loop
      <4>3. c[j] = Walk(p, c[1])[b]
        BY <1>2, <3>6, <3>7, LoopAhead, SMTT(30)
      <4>4. QED
        BY <4>1, <4>2, <4>3
    <3>9. PICK y \in Lits : y = c[x]
      BY <1>2, <3>3
    <3>10. c[1] = Walk(p, y)[a + d]
      <4>1. Walk(p, Walk(p, y)[a])[d] = Walk(p, y)[a + d]
        BY WalkAdd
      <4>2. QED
        BY <3>8, <3>9, <4>1
    <3>11. c[j] = Walk(p, y)[(a + d) + b]
      <4>1. PICK z \in Nat : z = a + d
        OBVIOUS
      <4>2. Walk(p, Walk(p, y)[z])[b] = Walk(p, y)[z + b]
        BY WalkAdd
      <4>3. QED
        BY <3>8, <3>10, <4>1, <4>2
    <3>12. (a + d) + b = s
      <4>1. (d * (t - j) + d) + d * (j - 1) = d * t
        OBVIOUS
      <4>2. s = d * t /\ a = d * u /\ b = d * v
        BY <3>6 DEF IsProduct
      <4>3. QED
        BY <3>5, <4>1, <4>2
    <3>13. e[1] = c[j] /\ e[m] = c[x]
      <4>1. j + 0 = j
        OBVIOUS
      <4>2. QED
        BY <2>1, <3>1, <3>2, <4>1
    <3>14. QED
      BY <3>9, <3>11, <3>12, <3>13
  <2>5. QED
    BY <2>2, <2>3, <2>4 DEF Loop
<1>7. ASSUME NEW i \in 1 .. n PROVE \E e \in Cut(c, m) : InSeq(c[i], e)
  <2>1. PICK q \in Nat, r \in Nat : i - 1 = t * q + r /\ r < t
    <3>1. i - 1 \in Nat
      OBVIOUS
    <3>2. QED
      BY <3>1, DividesRemainder
  <2>2. PICK j \in 1 .. t : j = r + 1
    BY <2>1
  <2>3. q < m
    <3>1. SUFFICES ASSUME q >= m PROVE FALSE
      BY <2>1
    <3>2. t * q >= t * m
      BY <3>1
    <3>3. QED
      BY <1>1, <2>1, <3>2
  <2>4. PICK k \in 1 .. m : k = q + 1
    BY <2>3
  <2>5. i = j + t * (k - 1)
    BY <2>1, <2>2, <2>4
  <2>6. PICK e \in Cut(c, m) : IsPiece(e, c, m, t, j)
    BY <1>4
  <2>7. e[k] = c[i] /\ Len(e) = m
    BY <1>6, <2>5, <2>6 DEF IsPiece
  <2>8. InSeq(c[i], e)
    BY <2>7 DEF InSeq
  <2>9. QED
    BY <2>8
<1>8. QED
  BY <1>1, <1>4, <1>6, <1>7, SMTT(30)

(* Cycles that agree with s, and hold every literal that s moves, are the  *)
(* cycles of s.                                                            *)
LEMMA FromCyclesIs ==
  ASSUME NEW s \in [Lits -> Lits], NEW cs,
         \A c \in cs : \E n \in Nat :
            /\ n >= 1 /\ c \in [1 .. n -> Lits]
            /\ \A k \in 1 .. n - 1 : c[k + 1] = s[c[k]]
            /\ c[1] = s[c[n]],
         \A x \in Lits : s[x] # x => \E c \in cs : InSeq(x, c)
  PROVE  FromCycles(cs) = s
<1>1. PICK f : f = FromCycles(cs)
  OBVIOUS
<1> DEFINE After(l) == LET c == CHOOSE d \in cs : InSeq(l, d)
                           k == CHOOSE j \in 1 .. Len(c) : c[j] = l
                       IN  c[(k % Len(c)) + 1]
           Value(l) == IF \E c \in cs : InSeq(l, c) THEN After(l) ELSE l
<1>2. f = [l \in Lits |-> Value(l)]
  BY <1>1, Zenon DEF FromCycles
<1>3. ASSUME NEW l \in Lits PROVE f[l] = s[l]
  <2>1. CASE ~ \E c \in cs : InSeq(l, c)
    <3>1. f[l] = l
      BY <1>2, <2>1, Zenon
    <3>2. QED
      BY <2>1, <3>1
  <2>2. CASE \E c \in cs : InSeq(l, c)
    <3>1. PICK c : c = CHOOSE d \in cs : InSeq(l, d)
      OBVIOUS
    <3>2. c \in cs /\ InSeq(l, c)
      BY <2>2, <3>1, Zenon
    <3>3. PICK k : k = CHOOSE j \in 1 .. Len(c) : c[j] = l
      OBVIOUS
    <3>4. \E j \in 1 .. Len(c) : c[j] = l
      BY <3>2 DEF InSeq
    <3>5. k \in 1 .. Len(c) /\ c[k] = l
      BY <3>3, <3>4, Zenon
    <3>6. f[l] = c[(k % Len(c)) + 1]
      BY <1>2, <2>2, <3>1, <3>3, Zenon
    <3>7. PICK n \in Nat : /\ n >= 1 /\ c \in [1 .. n -> Lits]
                           /\ \A i \in 1 .. n - 1 : c[i + 1] = s[c[i]]
                           /\ c[1] = s[c[n]]
      BY <3>2
    <3>8. Len(c) = n
      BY <3>7
    <3>9. CASE k = n
      <4>1. n % n = 0 /\ 0 + 1 = 1
        BY <3>7
      <4>2. QED
        BY <3>5, <3>6, <3>7, <3>8, <3>9, <4>1
    <3>10. CASE k # n
      <4>1. k \in 1 .. n - 1
        BY <3>5, <3>8, <3>10
      <4>2. k % n = k
        <5>1. k \in Nat /\ k < n
          BY <4>1
        <5>2. QED
          BY <5>1, SmallRemainder
      <4>3. QED
        BY <3>5, <3>6, <3>7, <3>8, <4>1, <4>2
    <3>11. QED
      BY <3>9, <3>10
  <2>3. QED
    BY <2>1, <2>2
<1> HIDE DEF Value
<1>4. QED
  BY <1>1, <1>2, <1>3

(* The length is a number from 1 on; it is 1 for a literal that stays.     *)
LEMMA CycleLengthFacts ==
  ASSUME NEW p \in LitPerms, NEW l \in Lits
  PROVE  /\ CycleLength(p, l) \in Lengths
         /\ CycleLength(p, l) \in Nat /\ CycleLength(p, l) >= 1
         /\ CycleLength(p, l) = 1 <=> p[l] = l
<1>1. PICK n : n = CycleLength(p, l) /\ n \in Lengths
  BY CycleCloses DEF Lengths
<1>2. n \in Nat /\ n >= 1
  BY <1>1, LitsFinite DEF Lengths
<1>3. Walk(p, l)[n] = l /\ \A k \in 1 .. n - 1 : Walk(p, l)[k] # l
  BY <1>1, CycleCloses
<1>4. Walk(p, l)[1] = p[l]
  <2>1. Walk(p, l)[0] = l /\ Walk(p, l)[0 + 1] = p[Walk(p, l)[0]]
    BY WalkFacts DEF Chain
  <2>2. 0 + 1 = 1
    OBVIOUS
  <2>3. QED
    BY <2>1, <2>2
<1>5. n # 1 => 1 \in 1 .. n - 1
  BY <1>2
<1>6. QED
  BY <1>1, <1>2, <1>3, <1>4, <1>5

(* Every literal is on the cycle of a representative, unless it is fixed.  *)
LEMMA ReprOf ==
  ASSUME NEW p \in LitPerms, NEW x \in Lits, p[x] # x
  PROVE  \E r \in CycleReprs(p) :
            /\ CycleLength(p, r) = CycleLength(p, x)
            /\ \E i \in 1 .. CycleLength(p, r) : GetCycle(p, r)[i] = x
<1>1. PICK n : n = CycleLength(p, x) /\ n \in Nat /\ n >= 1 /\ n # 1
  BY CycleLengthFacts
<1> DEFINE T == {Walk(p, x)[k] : k \in Nat}
<1>2. T \subseteq Lits
  BY WalkAdd
<1>3. T \subseteq Nat /\ T # {}
  <2>1. Walk(p, x)[0] \in T
    OBVIOUS
  <2>2. QED
    BY <1>2, <2>1, LitFacts
<1>4. PICK r \in T : \A y \in T : r <= y
  BY <1>3, LeastElement
<1>5. PICK a \in Nat : r = Walk(p, x)[a]
  OBVIOUS
<1>6. r \in Lits
  BY <1>2
<1>7. CycleLength(p, r) = n
  BY <1>1, <1>5, CycleLengthKept
<1>8. \A b \in Nat : Walk(p, r)[b] = Walk(p, x)[a + b]
  BY <1>5, WalkAdd
<1>9. \A k \in 1 .. n : GetCycle(p, r)[k] = Walk(p, r)[k - 1]
  BY <1>6, <1>7, GetCycleLoop
<1>10. r \in CycleReprs(p)
  <2>1. p[r] # r
    BY <1>1, <1>6, <1>7, CycleLengthFacts
  <2>2. r \in Domain(p)
    BY <1>6, <2>1 DEF Domain, LitPerms
  <2>3. ASSUME NEW k \in 1 .. n PROVE r <= GetCycle(p, r)[k]
    <3>1. PICK b \in Nat : b = k - 1
      OBVIOUS
    <3>2. a + b \in Nat
      OBVIOUS
    <3>3. GetCycle(p, r)[k] = Walk(p, x)[a + b]
      BY <1>8, <1>9, <3>1
    <3>4. GetCycle(p, r)[k] \in T
      BY <3>2, <3>3
    <3>5. QED
      BY <1>4, <3>4
  <2>4. QED
    BY <1>7, <2>2, <2>3 DEF CycleReprs
<1>11. \E i \in 1 .. n : GetCycle(p, r)[i] = x
  <2>1. PICK b \in Nat : b = n * a - a
    <3>1. n * a - a = (n - 1) * a /\ n - 1 \in Nat
      BY <1>1
    <3>2. (n - 1) * a \in Nat
      BY <3>1
    <3>3. QED
      BY <3>1, <3>2
  <2>2. Walk(p, r)[b] = x
    <3>1. a + b = 0 + n * a
      BY <1>1, <2>1
    <3>2. Walk(p, x)[0 + n * a] = Walk(p, x)[0]
      BY <1>1, WalkPeriod
    <3>3. Walk(p, x)[0] = x
      BY WalkFacts DEF Chain
    <3>4. QED
      BY <1>8, <3>1, <3>2, <3>3
  <2>3. PICK t \in Nat, m \in Nat : b = n * t + m /\ m < n
    BY <1>1, DividesRemainder
  <2>4. Walk(p, r)[m] = x
    <3>1. m + n * t = b
      BY <1>1, <2>3
    <3>2. Walk(p, r)[m + n * t] = Walk(p, r)[m]
      BY <1>6, <1>7, WalkPeriod
    <3>3. QED
      BY <2>2, <3>1, <3>2
  <2>5. PICK i \in 1 .. n : i = m + 1 /\ i - 1 = m
    BY <2>3, <1>1
  <2>6. QED
    BY <1>9, <2>4, <2>5
<1>12. QED
  BY <1>1, <1>7, <1>10, <1>11

-----------------------------------------------------------------------------
(* The lengths to which a cycle of n literals is cut. *)
CutLengths(n) == {Pow(f[1], f[2]) : f \in Factors(n)}

(* Those that are powers of q with an exponent of P; at most one.          *)
CutFor(n, q, P) == CutLengths(n) \cap {Pow(q, e) : e \in P}

(* The pieces of length n of all cycles that are cut to that length.       *)
CutsOf(p, n) ==
  UNION {Cut(GetCycle(p, r), n) :
           r \in {x \in CycleReprs(p) : n \in CutLengths(CycleLength(p, x))}}

(* The steps along a cycle of n literals in the generator of the prime q,  *)
(* whose exponents are P.                                                  *)
PrimeJumps(q, P) ==
  [n \in Lengths |-> IF CutFor(n, q, P) = {} THEN 0
                     ELSE n \div (CHOOSE m \in CutFor(n, q, P) : TRUE)]

(* The same for the generator whose cycles all have length q^s. *)
EqualJumps(q, P, s) ==
  [n \in Lengths |-> IF CutFor(n, q, P) = {} THEN 0 ELSE n \div Pow(q, s)]

(* A length to which a cycle is cut divides the length of the cycle. *)
LEMMA CutLengthFacts ==
  ASSUME NEW n \in Nat, n >= 1, NEW m \in CutLengths(n)
  PROVE  /\ m \in Nat /\ m >= 2 /\ m <= n
         /\ n \div m \in Nat /\ n \div m >= 1 /\ n \div m < n
         /\ n = (n \div m) * m
<1>1. PICK g \in Factors(n) : m = Pow(g[1], g[2])
  BY DEF CutLengths
<1>2. PICK f : f = CycleSize(n)
  OBVIOUS
<1>3. FactorIn(g[1], g[2], n, f)
  BY <1>2, FactorFacts
<1>4. PICK i \in Nat, e \in Nat : /\ i = g[1] /\ e = g[2] /\ i >= 2 /\ e >= 1
                                  /\ Divides(m, n) /\ m = Pow(i, e)
  BY <1>1, <1>3 DEF FactorIn
<1>5. m \in Nat /\ m >= e + 1
  BY <1>4, PowFacts, PowGrows
<1>6. m >= 2 /\ m <= n
  BY <1>4, <1>5, DividesFacts
<1>7. PICK k \in Nat : n = m * k
  BY <1>4 DEF Divides
<1>8. n \div m = k
  BY <1>5, <1>6, <1>7, ExactQuotient
<1>9. k >= 1 /\ k < n
  <2>1. k # 0
    BY <1>5, <1>7
  <2>2. m * k >= 2 * k
    BY <1>5, <1>6
  <2>3. QED
    BY <1>7, <2>1, <2>2
<1>10. QED
  BY <1>5, <1>6, <1>7, <1>8, <1>9

(* A cycle is cut to at most one length for a prime. *)
LEMMA CutForUnique ==
  ASSUME NEW n \in Nat, n >= 1, NEW q \in Nat, NEW P \in SUBSET Nat,
         NEW a \in CutFor(n, q, P), NEW b \in CutFor(n, q, P)
  PROVE  a = b
<1>1. PICK g \in Factors(n), d \in P : a = Pow(g[1], g[2]) /\ a = Pow(q, d)
  BY DEF CutFor, CutLengths
<1>2. PICK h \in Factors(n), e \in P : b = Pow(h[1], h[2]) /\ b = Pow(q, e)
  BY DEF CutFor, CutLengths
<1>3. d \in Nat /\ e \in Nat
  OBVIOUS
<1>4. Pow(g[1], g[2]) = Pow(q, d) /\ Pow(h[1], h[2]) = Pow(q, e)
  BY <1>1, <1>2
<1>5. g = h
  BY <1>3, <1>4, FactorUnique
<1>6. QED
  BY <1>1, <1>2, <1>5

(* The jumps of the generator of a prime, case by case. *)
LEMMA PrimeJumpsAre ==
  ASSUME NEW n \in Lengths, NEW q \in Nat, NEW P \in SUBSET Nat
  PROVE  /\ CutFor(n, q, P) = {} => PrimeJumps(q, P)[n] = 0
         /\ \A m \in CutFor(n, q, P) : PrimeJumps(q, P)[n] = n \div m
<1>1. n \in Nat /\ n >= 1
  BY LitsFinite DEF Lengths
<1>2. PrimeJumps(q, P)[n] = IF CutFor(n, q, P) = {} THEN 0
                            ELSE n \div (CHOOSE m \in CutFor(n, q, P) : TRUE)
  BY DEF PrimeJumps
<1>3. ASSUME NEW m \in CutFor(n, q, P) PROVE PrimeJumps(q, P)[n] = n \div m
  <2>1. PICK k : k = CHOOSE x \in CutFor(n, q, P) : TRUE
    OBVIOUS
  <2>2. k \in CutFor(n, q, P)
    BY <2>1, Zenon
  <2>3. k = m
    BY <1>1, <2>2, CutForUnique
  <2>4. QED
    BY <1>2, <2>1, <2>3
<1>4. QED
  BY <1>2, <1>3

(* A piece of a cycle of n literals that is cut to length m. *)
LEMMA PieceFacts ==
  ASSUME NEW p \in LitPerms, NEW r \in CycleReprs(p),
         NEW n, n = CycleLength(p, r), NEW m \in CutLengths(n),
         NEW c \in Cut(GetCycle(p, r), m)
  PROVE  /\ Loop(c, m, p, n \div m)
         /\ \A k \in 1 .. m : c[k] \in Lits /\ CycleLength(p, c[k]) = n
<1>1. r \in Lits
  BY DEF CycleReprs, Domain, LitPerms
<1>2. n \in Nat /\ n >= 1
  BY <1>1, CycleLengthFacts
<1>3. PICK t \in Nat : /\ t = n \div m /\ t >= 1 /\ IsProduct(n, t, m)
                       /\ m \in Nat /\ m >= 1
  BY <1>2, CutLengthFacts DEF IsProduct
<1>4. PICK d \in Nat : d = 1
  OBVIOUS
<1>5. PICK s : s = GetCycle(p, r)
  OBVIOUS
<1>6. Loop(s, n, p, d) /\ \A k \in 1 .. n : s[k] = Walk(p, r)[k - 1]
  BY <1>1, <1>4, <1>5, GetCycleLoop
<1>7. IsProduct(t, d, t)
  BY <1>4 DEF IsProduct
<1>8. Loop(c, m, p, t) /\ \A k \in 1 .. m : \E i \in 1 .. n : c[k] = s[i]
  <2>1. c \in Cut(s, m)
    BY <1>5
  <2>2. /\ d \in Nat /\ t \in Nat /\ m \in Nat /\ n \in Nat /\ t >= 1 /\ m >= 1
        /\ IsProduct(n, t, m) /\ IsProduct(t, d, t) /\ Loop(s, n, p, d)
    BY <1>2, <1>3, <1>4, <1>6, <1>7
  <2>3. \A e \in Cut(s, m) :
           /\ Loop(e, m, p, t)
           /\ \A k \in 1 .. m : \E i \in 1 .. n : e[k] = s[i]
    BY <2>2, CutLoops
  <2>4. QED
    BY <2>1, <2>3
<1>9. \A i \in 1 .. n : s[i] \in Lits /\ CycleLength(p, s[i]) = n
  <2>1. \A i \in 1 .. n : i - 1 \in Nat
    OBVIOUS
  <2>2. ASSUME NEW i \in 1 .. n
        PROVE  s[i] \in Lits /\ CycleLength(p, s[i]) = CycleLength(p, r)
    <3>1. PICK k \in Nat : k = i - 1
      BY <2>1
    <3>2. s[i] = Walk(p, r)[k]
      BY <1>6, <3>1
    <3>3. Walk(p, r)[k] \in Lits /\ CycleLength(p, Walk(p, r)[k]) = CycleLength(p, r)
      BY <1>1, WalkAdd, CycleLengthKept
    <3>4. QED
      BY <3>2, <3>3
  <2>3. QED
    BY <2>2
<1>10. QED
  BY <1>3, <1>8, <1>9

(* Every literal of a cycle is in one of its pieces. *)
LEMMA PieceOf ==
  ASSUME NEW p \in LitPerms, NEW x \in Lits, NEW n, n = CycleLength(p, x),
         NEW m \in CutLengths(n)
  PROVE  \E r \in CycleReprs(p) :
            /\ CycleLength(p, r) = n
            /\ \E c \in Cut(GetCycle(p, r), m) : InSeq(x, c)
<1>1. n \in Nat /\ n >= 1
  BY CycleLengthFacts
<1>2. PICK t \in Nat : /\ t = n \div m /\ t >= 1 /\ IsProduct(n, t, m)
                       /\ m \in Nat /\ m >= 1 /\ n >= 2
  BY <1>1, CutLengthFacts DEF IsProduct
<1>3. p[x] # x
  BY <1>2, CycleLengthFacts
<1>4. PICK r \in CycleReprs(p) :
         /\ CycleLength(p, r) = n
         /\ \E i \in 1 .. CycleLength(p, r) : GetCycle(p, r)[i] = x
  BY <1>3, ReprOf
<1>5. r \in Lits
  BY DEF CycleReprs, Domain, LitPerms
<1>6. PICK s, d : s = GetCycle(p, r) /\ d = 1 /\ d \in Nat
  OBVIOUS
<1>7. Loop(s, n, p, d)
  BY <1>4, <1>5, <1>6, GetCycleLoop
<1>8. PICK i \in 1 .. n : s[i] = x
  BY <1>2, <1>4, <1>6
<1>9. \E c \in Cut(s, m) : InSeq(s[i], c)
  <2>1. IsProduct(t, d, t)
    BY <1>6 DEF IsProduct
  <2>2. QED
    BY <1>1, <1>2, <1>6, <1>7, <2>1, CutLoops
<1>10. QED
  BY <1>4, <1>6, <1>8, <1>9

(* A list of cycles whose elements move as s moves them, in the form that  *)
(* FromCyclesIs asks for.                                                  *)
Follows(c, m, s) ==
  /\ m \in Nat /\ m >= 1 /\ c \in [1 .. m -> Lits]
  /\ \A k \in 1 .. m - 1 : c[k + 1] = s[c[k]]
  /\ c[1] = s[c[m]]

(* A loop over literals whose cycles have length n follows a shift that    *)
(* takes as many steps on such cycles.                                     *)
LEMMA LoopFollows ==
  ASSUME NEW p, NEW g, NEW n, NEW m \in Nat, NEW c,
         Loop(c, m, p, g[n]), \A k \in 1 .. m : CycleLength(p, c[k]) = n
  PROVE  Follows(c, m, ShiftBy(p, g))
<1>1. PICK s : s = ShiftBy(p, g)
  OBVIOUS
<1>2. m >= 1 /\ c \in [1 .. m -> Lits]
  BY DEF Loop
<1>3. \A k \in 1 .. m : s[c[k]] = Walk(p, c[k])[g[n]]
  BY <1>1, <1>2 DEF ShiftBy
<1>4. \A k \in 1 .. m - 1 : c[k + 1] = s[c[k]]
  <2>1. \A k \in 1 .. m - 1 : k \in 1 .. m
    OBVIOUS
  <2>2. QED
    BY <1>3, <2>1 DEF Loop
<1>5. c[1] = s[c[m]]
  <2>1. m \in 1 .. m
    BY <1>2
  <2>2. QED
    BY <1>3, <2>1 DEF Loop
<1>6. QED
  BY <1>1, <1>2, <1>4, <1>5 DEF Follows

(* Both kinds of jumps are numbers. *)
LEMMA JumpsTyped ==
  ASSUME NEW q \in Nat, q >= 2, NEW P \in SUBSET Nat, NEW s \in Nat
  PROVE  /\ PrimeJumps(q, P) \in [Lengths -> Nat]
         /\ EqualJumps(q, P, s) \in [Lengths -> Nat]
<1>1. \A n \in Lengths : n \in Nat /\ n >= 1
  BY LitsFinite DEF Lengths
<1>2. \A n \in Lengths : PrimeJumps(q, P)[n] \in Nat
  <2>1. SUFFICES ASSUME NEW n \in Lengths PROVE PrimeJumps(q, P)[n] \in Nat
    OBVIOUS
  <2>2. CASE CutFor(n, q, P) = {}
    BY <2>2, PrimeJumpsAre
  <2>3. CASE CutFor(n, q, P) # {}
    <3>1. PICK m \in CutFor(n, q, P) : TRUE
      BY <2>3
    <3>2. m \in CutLengths(n)
      BY DEF CutFor
    <3>3. n \div m \in Nat
      BY <1>1, <3>2, CutLengthFacts
    <3>4. PrimeJumps(q, P)[n] = n \div m
      BY PrimeJumpsAre
    <3>5. QED
      BY <3>3, <3>4
  <2>4. QED
    BY <2>2, <2>3
<1>3. PICK u \in Nat : u = Pow(q, s) /\ u >= 1
  BY PowFacts, PowGrows
<1>4. \A n \in Lengths : n \div u \in Nat
  BY <1>1, <1>3, DividesRemainder
<1>5. PrimeJumps(q, P) = [n \in Lengths |-> PrimeJumps(q, P)[n]]
  BY DEF PrimeJumps
<1>6. EqualJumps(q, P, s) \in [Lengths -> Nat]
  BY <1>3, <1>4 DEF EqualJumps
<1>7. QED
  BY <1>2, <1>5, <1>6

(* All pieces that the code collects for the prime q. *)
PiecesFor(p, q, P) == UNION {CutsOf(p, Pow(q, e)) : e \in P}

(* What is known of one of them. *)
LEMMA PieceForFacts ==
  ASSUME NEW p \in LitPerms, NEW q \in Nat, NEW P \in SUBSET Nat,
         NEW c \in PiecesFor(p, q, P)
  PROVE  \E n \in Lengths, e \in P :
            /\ Pow(q, e) \in CutFor(n, q, P)
            /\ Loop(c, Pow(q, e), p, n \div Pow(q, e))
            /\ \A k \in 1 .. Pow(q, e) : CycleLength(p, c[k]) = n
<1>1. PICK e \in P : c \in CutsOf(p, Pow(q, e))
  BY DEF PiecesFor
<1>2. PICK m : m = Pow(q, e)
  OBVIOUS
<1>3. PICK r \in CycleReprs(p) : /\ m \in CutLengths(CycleLength(p, r))
                                 /\ c \in Cut(GetCycle(p, r), m)
  BY <1>1, <1>2 DEF CutsOf
<1>4. PICK n : n = CycleLength(p, r)
  OBVIOUS
<1>5. n \in Lengths
  <2>1. r \in Lits
    BY DEF CycleReprs, Domain, LitPerms
  <2>2. QED
    BY <1>4, <2>1, CycleLengthFacts
<1>6. m \in CutFor(n, q, P)
  BY <1>2, <1>3, <1>4 DEF CutFor
<1>7. Loop(c, m, p, n \div m) /\ \A k \in 1 .. m : CycleLength(p, c[k]) = n
  BY <1>3, <1>4, PieceFacts
<1>8. QED
  BY <1>2, <1>5, <1>6, <1>7

(* And they cover the cycles that have a length for q. *)
LEMMA PieceForCover ==
  ASSUME NEW p \in LitPerms, NEW q \in Nat, NEW P \in SUBSET Nat,
         NEW x \in Lits, CutFor(CycleLength(p, x), q, P) # {}
  PROVE  \E c \in PiecesFor(p, q, P) : InSeq(x, c)
<1>1. PICK n : n = CycleLength(p, x)
  OBVIOUS
<1>2. PICK m \in CutLengths(n), e \in P : m = Pow(q, e)
  BY <1>1 DEF CutFor
<1>3. PICK r \in CycleReprs(p) :
         /\ CycleLength(p, r) = n
         /\ \E c \in Cut(GetCycle(p, r), m) : InSeq(x, c)
  BY <1>1, PieceOf
<1>4. PICK c \in Cut(GetCycle(p, r), m) : InSeq(x, c)
  BY <1>3
<1>5. c \in CutsOf(p, m)
  BY <1>3 DEF CutsOf
<1>6. c \in PiecesFor(p, q, P)
  BY <1>2, <1>5 DEF PiecesFor
<1>7. QED
  BY <1>4, <1>6

(* The generator of a prime is a shift: by n / q^e on the cycles of n      *)
(* literals, when q^e is what the loop has found for q in n.               *)
LEMMA PrimeGenerator ==
  ASSUME NEW p \in LitPerms, NEW q \in Nat, q >= 2, NEW P \in SUBSET Nat
  PROVE  FromCycles(PiecesFor(p, q, P)) = ShiftBy(p, PrimeJumps(q, P))
<1>1. PICK g : g = PrimeJumps(q, P)
  OBVIOUS
<1>2. PICK s : s = ShiftBy(p, g)
  OBVIOUS
<1>3. g \in [Lengths -> Nat] /\ s \in [Lits -> Lits]
  <2>1. 0 \in Nat
    OBVIOUS
  <2>2. g \in [Lengths -> Nat]
    BY <1>1, <2>1, JumpsTyped
  <2>3. QED
    BY <1>2, <2>2, ShiftIsLitPerm DEF LitPerms
<1>4. ASSUME NEW c \in PiecesFor(p, q, P) PROVE \E m \in Nat : Follows(c, m, s)
  <2>1. PICK n \in Lengths, e \in P :
            /\ Pow(q, e) \in CutFor(n, q, P)
            /\ Loop(c, Pow(q, e), p, n \div Pow(q, e))
            /\ \A k \in 1 .. Pow(q, e) : CycleLength(p, c[k]) = n
    BY PieceForFacts
  <2>2. PICK m \in Nat : m = Pow(q, e)
    BY PowFacts
  <2>3. g[n] = n \div m
    BY <1>1, <2>1, <2>2, PrimeJumpsAre
  <2>4. Loop(c, m, p, g[n]) /\ \A k \in 1 .. m : CycleLength(p, c[k]) = n
    BY <2>1, <2>2, <2>3
  <2>5. Follows(c, m, s)
    BY <1>2, <2>4, LoopFollows
  <2>6. QED
    BY <2>5
<1>5. ASSUME NEW x \in Lits, s[x] # x
      PROVE  \E c \in PiecesFor(p, q, P) : InSeq(x, c)
  <2>1. PICK n \in Lengths : n = CycleLength(p, x)
    BY CycleLengthFacts
  <2>2. s[x] = Walk(p, x)[g[n]]
    BY <1>2, <2>1 DEF ShiftBy
  <2>3. Walk(p, x)[0] = x
    BY WalkFacts DEF Chain
  <2>4. g[n] # 0
    BY <1>5, <2>2, <2>3
  <2>5. CutFor(n, q, P) # {}
    BY <1>1, <2>4, PrimeJumpsAre
  <2>6. QED
    BY <2>1, <2>5, PieceForCover
<1>6. PICK cs : cs = PiecesFor(p, q, P)
  OBVIOUS
<1>7. FromCycles(cs) = s
  BY <1>3, <1>4, <1>5, <1>6, FromCyclesIs DEF Follows
<1>8. QED
  BY <1>1, <1>2, <1>6, <1>7

(* Exponents can be taken apart. *)
LEMMA PowSplit ==
  ASSUME NEW q \in Nat, q >= 2, NEW e \in Nat, NEW s \in Nat, s <= e
  PROVE  \E t \in Nat : /\ t >= 1 /\ Pow(q, e) = t * Pow(q, s)
                        /\ IsProduct(Pow(q, e), t, Pow(q, s))
<1>1. PICK d \in Nat : d = e - s /\ d + s = e
  OBVIOUS
<1>2. Pow(q, d + s) = Pow(q, d) * Pow(q, s)
  BY PowAdd
<1>3. Pow(q, d) \in Nat /\ Pow(q, d) >= 1
  BY PowFacts, PowGrows
<1>4. QED
  BY <1>1, <1>2, <1>3 DEF IsProduct

(* The generators with cycles of equal length are shifts too: by n / q^s   *)
(* on the cycles whose literals the generator of the prime moves.          *)
LEMMA EqualGenerator ==
  ASSUME NEW p \in LitPerms, NEW q \in Nat, q >= 2, NEW P \in SUBSET Nat,
         NEW s \in Nat, \A e \in P : s <= e
  PROVE  FromCycles(UNION {Cut(c, Pow(q, s)) : c \in PiecesFor(p, q, P)})
           = ShiftBy(p, EqualJumps(q, P, s))
<1> DEFINE cs == UNION {Cut(c, Pow(q, s)) : c \in PiecesFor(p, q, P)}
<1>1. PICK g : g = EqualJumps(q, P, s)
  OBVIOUS
<1>2. PICK f : f = ShiftBy(p, g)
  OBVIOUS
<1>3. g \in [Lengths -> Nat] /\ f \in [Lits -> Lits]
  <2>1. g \in [Lengths -> Nat]
    BY <1>1, JumpsTyped
  <2>2. QED
    BY <1>2, <2>1, ShiftIsLitPerm DEF LitPerms
<1>4. PICK m \in Nat : m = Pow(q, s) /\ m >= 1
  BY PowFacts, PowGrows
<1>5. ASSUME NEW c \in PiecesFor(p, q, P)
      PROVE  /\ \A b \in Cut(c, m) : Follows(b, m, f)
             /\ \A x \in Lits : InSeq(x, c) => \E b \in Cut(c, m) : InSeq(x, b)
  <2>1. PICK n \in Lengths, e \in P :
            /\ Pow(q, e) \in CutFor(n, q, P)
            /\ Loop(c, Pow(q, e), p, n \div Pow(q, e))
            /\ \A k \in 1 .. Pow(q, e) : CycleLength(p, c[k]) = n
    BY PieceForFacts
  <2>2. PICK k \in Nat : k = Pow(q, e)
    BY PowFacts
  <2>3. PICK t \in Nat : t >= 1 /\ k = t * m /\ IsProduct(k, t, m)
    BY <1>4, <2>2, PowSplit
  <2>4. n \in Nat /\ n >= 1
    BY LitsFinite DEF Lengths
  <2>5. PICK d \in Nat : d = n \div k /\ n = d * k
    <3>1. k \in CutLengths(n)
      BY <2>1, <2>2 DEF CutFor
    <3>2. QED
      BY <2>4, <3>1, CutLengthFacts
  <2>6. PICK j \in Nat : j = d * t /\ IsProduct(j, d, t)
    <3>1. d * t \in Nat
      OBVIOUS
    <3>2. QED
      BY <3>1 DEF IsProduct
  <2>7. g[n] = j
    <3>1. g[n] = n \div m
      BY <1>1, <1>4, <2>1 DEF EqualJumps
    <3>2. n = m * j
      <4>1. d * (t * m) = m * (d * t)
        OBVIOUS
      <4>2. QED
        BY <2>3, <2>5, <2>6, <4>1
    <3>3. n \div m = j
      BY <1>4, <2>4, <3>2, ExactQuotient
    <3>4. QED
      BY <3>1, <3>3
  <2>8. Loop(c, k, p, d) /\ \A i \in 1 .. k : CycleLength(p, c[i]) = n
    BY <2>1, <2>2, <2>5
  <2>9. /\ \A b \in Cut(c, m) : /\ Loop(b, m, p, j)
                                /\ \A i \in 1 .. m : \E h \in 1 .. k : b[i] = c[h]
        /\ \A i \in 1 .. k : \E b \in Cut(c, m) : InSeq(c[i], b)
    <3>1. /\ t \in Nat /\ m \in Nat /\ d \in Nat /\ k \in Nat /\ j \in Nat
          /\ t >= 1 /\ m >= 1
          /\ IsProduct(k, t, m) /\ IsProduct(j, d, t) /\ Loop(c, k, p, d)
      BY <1>4, <2>3, <2>6, <2>8
    <3>2. QED
      BY <3>1, CutLoops
  <2>10. ASSUME NEW b \in Cut(c, m) PROVE Follows(b, m, f)
    <3>1. Loop(b, m, p, g[n]) /\ \A i \in 1 .. m : CycleLength(p, b[i]) = n
      BY <2>7, <2>8, <2>9
    <3>2. QED
      BY <1>2, <3>1, LoopFollows
  <2>11. ASSUME NEW x \in Lits, InSeq(x, c)
         PROVE  \E b \in Cut(c, m) : InSeq(x, b)
    <3>1. Len(c) = k
      BY <2>8 DEF Loop
    <3>2. PICK i \in 1 .. k : c[i] = x
      BY <2>11, <3>1 DEF InSeq
    <3>3. QED
      BY <2>9, <3>2
  <2>12. QED
    BY <2>10, <2>11
<1>6. ASSUME NEW b \in cs PROVE \E h \in Nat : Follows(b, h, f)
  BY <1>4, <1>5
<1>7. ASSUME NEW x \in Lits, f[x] # x PROVE \E b \in cs : InSeq(x, b)
  <2>1. PICK n \in Lengths : n = CycleLength(p, x)
    BY CycleLengthFacts
  <2>2. f[x] = Walk(p, x)[g[n]]
    BY <1>2, <2>1 DEF ShiftBy
  <2>3. Walk(p, x)[0] = x
    BY WalkFacts DEF Chain
  <2>4. g[n] # 0
    BY <1>7, <2>2, <2>3
  <2>5. CutFor(n, q, P) # {}
    BY <1>1, <2>4 DEF EqualJumps
  <2>6. PICK c \in PiecesFor(p, q, P) : InSeq(x, c)
    BY <2>1, <2>5, PieceForCover
  <2>7. QED
    BY <1>4, <1>5, <2>6
<1> HIDE DEF cs
<1>8. FromCycles(cs) = f
  BY <1>3, <1>6, <1>7, FromCyclesIs DEF Follows
<1>9. QED
  BY <1>1, <1>2, <1>8 DEF cs

-----------------------------------------------------------------------------
(* The state of the algorithm.                                             *)

(* What the loop over the cycles has found so far: the factors, the        *)
(* exponents for each prime, the primes, and the pieces of each length.    *)
Seen == UNION {Factors(CycleLength(perm, r)) : r \in CycleReprs(perm) \ todo}

SeenFor(q) == {f[2] : f \in {g \in Seen : g[1] = q}}

SeenPrimes == {f[1] : f \in Seen}

CutSoFar(n) ==
  UNION {Cut(GetCycle(perm, r), n) :
           r \in {x \in CycleReprs(perm) \ todo :
                    n \in CutLengths(CycleLength(perm, x))}}

(* A counter of the loop for equal cycles: at most every exponent of q. *)
BelowAll(q, s) == s \in Nat /\ s >= 1 /\ \A e \in SeenFor(q) : s <= e

(* The generators as shifts of perm. *)
PrimeShift(q) == ShiftBy(perm, PrimeJumps(q, SeenFor(q)))
EqualShift(q, s) == ShiftBy(perm, EqualJumps(q, SeenFor(q), s))

(* The inductive invariant. *)
SplitInv ==
  /\ perm \in Pool /\ todo \subseteq CycleReprs(perm)
  /\ lengthToCycles = [n \in Lengths |-> CutSoFar(n)]
  /\ primeToPowers = [q \in Lengths |-> SeenFor(q)]
  /\ primes \subseteq SeenPrimes
  /\ todo # {} => primes = SeenPrimes /\ prime = 0 /\ newPerms = <<>>
  /\ prime = 0 => smallestPow = 0
  /\ prime # 0 => prime \in SeenPrimes /\ BelowAll(prime, smallestPow)
  /\ newPerms \in Seq(LitPerms)
  /\ \A p \in Results : \E q \in SeenPrimes :
        \/ p = PrimeShift(q)
        \/ \E s \in Nat : BelowAll(q, s) /\ p = EqualShift(q, s)
  /\ \A q \in SeenPrimes \ primes : PrimeShift(q) \in Results

(* The least element of a set of numbers. *)
LEMMA SmallestFacts ==
  ASSUME NEW S, S \subseteq Nat, S # {}
  PROVE  SmallestOf(S) \in S /\ \A y \in S : SmallestOf(S) <= y
<1>1. PICK x : x = CHOOSE y \in S : \A z \in S : y <= z
  OBVIOUS
<1>2. \E y \in S : \A z \in S : y <= z
  BY LeastElement
<1>3. x \in S /\ \A z \in S : x <= z
  BY <1>1, <1>2, Zenon
<1>4. QED
  BY <1>1, <1>3 DEF SmallestOf

(* A factor of the length of a cycle: a prime and the exponent of the      *)
(* largest of its powers that divides the length.                          *)
LEMMA FactorTypes ==
  ASSUME NEW n \in Lengths, NEW g \in Factors(n)
  PROVE  /\ g = <<g[1], g[2]>>
         /\ g[1] \in Nat /\ g[1] >= 2 /\ g[1] \in Lengths
         /\ g[2] \in Nat /\ g[2] >= 1 /\ g[2] \in Lengths
         /\ Pow(g[1], g[2]) \in Lengths
<1>1. PICK N \in Nat : N = Cardinality(Lits)
  BY LitsFinite
<1>2. n \in Nat /\ n >= 1 /\ n <= N
  BY <1>1 DEF Lengths
<1>3. PICK f : f = CycleSize(n)
  OBVIOUS
<1>4. g = <<g[1], g[2]>> /\ FactorIn(g[1], g[2], n, f)
  BY <1>2, <1>3, FactorFacts
<1>5. PICK i, e : i = g[1] /\ e = g[2]
  OBVIOUS
<1>6. i \in Nat /\ i >= 2 /\ i <= N /\ e \in Nat /\ e >= 1
  <2>1. i \in 2 .. n /\ e \in Nat /\ e >= 1
    BY <1>4, <1>5, Zenon DEF FactorIn
  <2>2. QED
    BY <1>2, <2>1
<1>7. PICK m : m = Pow(i, e)
  OBVIOUS
<1>8. m \in CutLengths(n)
  BY <1>5, <1>7 DEF CutLengths
<1>9. m \in Nat /\ m >= 2 /\ m <= n
  BY <1>2, <1>8, CutLengthFacts
<1>10. m >= e + 1
  BY <1>6, <1>7, PowGrows
<1>11. i \in 1 .. N /\ e \in 1 .. N /\ m \in 1 .. N
  BY <1>2, <1>6, <1>9, <1>10
<1>12. QED
  BY <1>1, <1>4, <1>5, <1>6, <1>7, <1>11 DEF Lengths

(* A representative is a literal, and its cycle has a length. *)
LEMMA ReprFacts ==
  ASSUME NEW p \in LitPerms, NEW r \in CycleReprs(p)
  PROVE  r \in Lits /\ r \in Nat /\ CycleLength(p, r) \in Lengths
<1>1. r \in Lits
  BY DEF CycleReprs, Domain, LitPerms
<1>2. QED
  BY <1>1, CycleLengthFacts, LitFacts

(* The factors seen so far. *)
LEMMA SeenFacts ==
  ASSUME perm \in LitPerms
  PROVE  /\ \A g \in Seen : /\ g = <<g[1], g[2]>>
                            /\ g[1] \in Nat /\ g[1] >= 2 /\ g[1] \in Lengths
                            /\ g[2] \in Nat /\ g[2] >= 1 /\ g[2] \in Lengths
                            /\ Pow(g[1], g[2]) \in Lengths
         /\ \A q \in SeenPrimes : /\ q \in Nat /\ q >= 2 /\ q \in Lengths
                                  /\ SeenFor(q) # {}
         /\ \A q : SeenFor(q) \subseteq Nat /\ SeenFor(q) \subseteq Lengths
         /\ \A q : \A e \in SeenFor(q) :
               e \in Nat /\ e >= 1 /\ Pow(q, e) \in Lengths
<1>1. ASSUME NEW g \in Seen
      PROVE  /\ g = <<g[1], g[2]>>
             /\ g[1] \in Nat /\ g[1] >= 2 /\ g[1] \in Lengths
             /\ g[2] \in Nat /\ g[2] >= 1 /\ g[2] \in Lengths
             /\ Pow(g[1], g[2]) \in Lengths
  <2>1. PICK r \in CycleReprs(perm) : g \in Factors(CycleLength(perm, r))
    BY DEF Seen
  <2>2. CycleLength(perm, r) \in Lengths
    BY ReprFacts
  <2>3. QED
    BY <2>1, <2>2, FactorTypes
<1>2. ASSUME NEW q \in SeenPrimes
      PROVE  q \in Nat /\ q >= 2 /\ q \in Lengths /\ SeenFor(q) # {}
  <2>1. PICK g \in Seen : g[1] = q
    BY DEF SeenPrimes
  <2>2. g[2] \in SeenFor(q)
    BY <2>1 DEF SeenFor
  <2>3. QED
    BY <1>1, <2>1, <2>2
<1>3. ASSUME NEW q, NEW e \in SeenFor(q)
      PROVE  e \in Nat /\ e >= 1 /\ e \in Lengths /\ Pow(q, e) \in Lengths
  <2>1. PICK g \in Seen : g[1] = q /\ g[2] = e
    BY DEF SeenFor
  <2>2. QED
    BY <1>1, <2>1
<1>4. QED
  BY <1>1, <1>2, <1>3

(* The jumps of the generators are numbers. *)
LEMMA ShiftsArePerms ==
  ASSUME perm \in LitPerms, NEW q \in SeenPrimes
  PROVE  /\ PrimeShift(q) \in LitPerms
         /\ \A s \in Nat : EqualShift(q, s) \in LitPerms
<1>1. PICK P \in SUBSET Nat : P = SeenFor(q)
  BY SeenFacts
<1>2. q \in Nat /\ q >= 2
  BY SeenFacts
<1>3. \A s \in Nat : /\ PrimeJumps(q, P) \in [Lengths -> Nat]
                     /\ EqualJumps(q, P, s) \in [Lengths -> Nat]
  BY <1>2, JumpsTyped
<1>4. 0 \in Nat
  OBVIOUS
<1>5. QED
  BY <1>1, <1>3, <1>4, ShiftIsLitPerm DEF PrimeShift, EqualShift

(* Before the first cycle is cut, nothing has been seen. *)
LEMMA SplitInit == Init => SplitInv
<1> SUFFICES ASSUME Init PROVE SplitInv
  OBVIOUS
<1>1. CycleReprs(perm) \ todo = {}
  BY DEF Init
<1>2. Seen = {} /\ SeenPrimes = {} /\ \A q : SeenFor(q) = {}
  BY <1>1 DEF Seen, SeenPrimes, SeenFor
<1>3. \A n : CutSoFar(n) = {}
  BY <1>1 DEF CutSoFar
<1>4. newPerms \in Seq(LitPerms) /\ Results = {}
  BY DEF Init, Results
<1>5. /\ lengthToCycles = [n \in Lengths |-> CutSoFar(n)]
      /\ primeToPowers = [q \in Lengths |-> SeenFor(q)]
  BY <1>2, <1>3 DEF Init
<1>6. QED
  BY <1>2, <1>4, <1>5 DEF Init, SplitInv

(* The cycle that is cut adds its factors and its pieces. *)
LEMMA SplitCycleStep == SplitInv /\ SplitCycle => SplitInv'
<1> SUFFICES ASSUME SplitInv, SplitCycle PROVE SplitInv'
  OBVIOUS
<1>1. perm \in LitPerms
  BY PoolAssumption DEF SplitInv
<1>2. /\ perm' = perm /\ prime' = prime /\ smallestPow' = smallestPow
      /\ newPerms' = newPerms
  BY DEF SplitCycle
<1>3. PICK l : l = SmallestOf(todo)
  OBVIOUS
<1>4. l \in todo /\ l \in CycleReprs(perm) /\ l \in Lits
  <2>1. todo \subseteq Nat /\ todo # {}
    BY <1>1, ReprFacts DEF SplitInv, SplitCycle
  <2>2. l \in todo
    BY <1>3, <2>1, SmallestFacts
  <2>3. QED
    BY <1>1, <2>2, ReprFacts DEF SplitInv
<1>5. PICK cycle, F : cycle = GetCycle(perm, l) /\ F = Factors(Len(cycle))
  OBVIOUS
<1>6. F = Factors(CycleLength(perm, l))
  BY <1>1, <1>4, <1>5, GetCycleLoop
<1>7. /\ todo' = todo \ {l}
      /\ primeToPowers' = [q \in Lengths |->
            primeToPowers[q] \cup {f[2] : f \in {g \in F : g[1] = q}}]
      /\ lengthToCycles' = [n \in Lengths |->
            lengthToCycles[n] \cup
              UNION {Cut(cycle, n) : f \in {g \in F : Pow(g[1], g[2]) = n}}]
      /\ primes' = primes \cup {f[1] : f \in F}
  BY <1>3, <1>5 DEF SplitCycle
<1>8. CycleReprs(perm') \ todo' = (CycleReprs(perm) \ todo) \cup {l}
  BY <1>2, <1>4, <1>7
<1>9. Seen' = Seen \cup F
  BY <1>2, <1>6, <1>8 DEF Seen
<1>10. SeenPrimes' = SeenPrimes \cup {f[1] : f \in F}
  BY <1>9 DEF SeenPrimes
<1>11. \A q : SeenFor(q)' = SeenFor(q) \cup {f[2] : f \in {g \in F : g[1] = q}}
  <2>1. \A q : SeenFor(q)' = {f[2] : f \in {g \in Seen' : g[1] = q}}
    BY DEF SeenFor
  <2>2. QED
    BY <1>9, <2>1 DEF SeenFor
<1>12. ASSUME NEW n
       PROVE  CutSoFar(n)' = CutSoFar(n) \cup
                UNION {Cut(cycle, n) : f \in {g \in F : Pow(g[1], g[2]) = n}}
  <2>1. n \in CutLengths(CycleLength(perm, l)) <=> \E g \in F : Pow(g[1], g[2]) = n
    BY <1>6 DEF CutLengths
  <2>2. CutSoFar(n)' = UNION {Cut(GetCycle(perm, r), n) :
           r \in {x \in (CycleReprs(perm) \ todo) \cup {l} :
                    n \in CutLengths(CycleLength(perm, x))}}
    BY <1>2, <1>8 DEF CutSoFar
  <2>3. QED
    BY <1>5, <2>1, <2>2 DEF CutSoFar
<1>13. /\ lengthToCycles' = [n \in Lengths |-> CutSoFar(n)']
       /\ primeToPowers' = [q \in Lengths |-> SeenFor(q)']
  <2>1. /\ lengthToCycles = [n \in Lengths |-> CutSoFar(n)]
        /\ primeToPowers = [q \in Lengths |-> SeenFor(q)]
    BY DEF SplitInv
  <2>2. \A n \in Lengths : lengthToCycles'[n] = CutSoFar(n)'
    BY <1>7, <1>12, <2>1
  <2>3. \A n \in Lengths : primeToPowers'[n] = SeenFor(n)'
    BY <1>7, <1>11, <2>1
  <2>4. QED
    BY <1>7, <2>2, <2>3
<1>14. primes' = SeenPrimes' /\ prime' = 0 /\ newPerms' = <<>> /\ smallestPow' = 0
  BY <1>2, <1>7, <1>10 DEF SplitInv, SplitCycle
<1>15. Results' = {}
  BY <1>14 DEF Results
<1>16. newPerms' \in Seq(LitPerms)
  BY <1>14
<1>17. perm' \in Pool /\ todo' \subseteq CycleReprs(perm')
  BY <1>2, <1>7 DEF SplitInv
<1>18. QED
  BY <1>13, <1>14, <1>15, <1>16, <1>17 DEF SplitInv

(* When all cycles are cut, the pieces of length n are those of all        *)
(* cycles.                                                                 *)
LEMMA AllCut ==
  ASSUME SplitInv, todo = {}, NEW q \in SeenPrimes
  PROVE  UNION {lengthToCycles[Pow(q, e)] : e \in primeToPowers[q]}
           = PiecesFor(perm, q, SeenFor(q))
<1>1. perm \in LitPerms
  BY PoolAssumption DEF SplitInv
<1>2. q \in Lengths /\ \A e \in SeenFor(q) : Pow(q, e) \in Lengths
  BY <1>1, SeenFacts
<1>3. primeToPowers[q] = SeenFor(q)
  BY <1>2 DEF SplitInv
<1>4. \A n \in Lengths : lengthToCycles[n] = CutsOf(perm, n)
  BY DEF SplitInv, CutSoFar, CutsOf
<1>5. \A e \in SeenFor(q) : lengthToCycles[Pow(q, e)] = CutsOf(perm, Pow(q, e))
  BY <1>2, <1>4
<1>6. QED
  BY <1>3, <1>5 DEF PiecesFor

(* A permutation appended to the result is the one new element of it. *)
LEMMA ResultAppended ==
  ASSUME NEW p \in LitPerms, newPerms \in Seq(LitPerms),
         newPerms' = Append(newPerms, p)
  PROVE  Results' = Results \cup {p} /\ newPerms' \in Seq(LitPerms)
<1>1. Len(newPerms) \in Nat /\ Len(newPerms') = Len(newPerms) + 1
  OBVIOUS
<1>2. 1 .. Len(newPerms') = (1 .. Len(newPerms)) \cup {Len(newPerms) + 1}
  BY <1>1
<1>3. /\ \A k \in 1 .. Len(newPerms) : newPerms'[k] = newPerms[k]
      /\ newPerms'[Len(newPerms) + 1] = p
  BY <1>1
<1>4. Results' = Results \cup {p}
  BY <1>2, <1>3 DEF Results
<1>5. QED
  BY <1>4

(* What has been seen does not change while the generators are built. *)
LEMMA SeenKept ==
  ASSUME UNCHANGED <<perm, todo>>
  PROVE  /\ Seen' = Seen /\ SeenPrimes' = SeenPrimes
         /\ \A q : SeenFor(q)' = SeenFor(q)
         /\ \A n : CutSoFar(n)' = CutSoFar(n)
         /\ \A q : PrimeShift(q)' = PrimeShift(q)
         /\ \A q, s : EqualShift(q, s)' = EqualShift(q, s)
         /\ \A q, s : BelowAll(q, s)' <=> BelowAll(q, s)
<1>1. Seen' = Seen /\ SeenPrimes' = SeenPrimes
  BY DEF Seen, SeenPrimes
<1>2. \A q : SeenFor(q)' = SeenFor(q)
  BY <1>1 DEF SeenFor
<1>3. \A n : CutSoFar(n)' = CutSoFar(n)
  BY DEF CutSoFar
<1>4. /\ \A q : PrimeShift(q)' = PrimeShift(q)
      /\ \A q, s : EqualShift(q, s)' = EqualShift(q, s)
      /\ \A q, s : BelowAll(q, s)' <=> BelowAll(q, s)
  BY <1>2 DEF PrimeShift, EqualShift, BelowAll
<1>5. QED
  BY <1>1, <1>2, <1>3, <1>4

(* The generator of a prime is its shift. *)
LEMMA GenPermStep == SplitInv /\ GenPerm => SplitInv'
<1> SUFFICES ASSUME SplitInv, GenPerm PROVE SplitInv'
  OBVIOUS
<1>1. perm \in LitPerms
  BY PoolAssumption DEF SplitInv
<1>2. /\ todo = {} /\ prime = 0 /\ primes # {} /\ perm' = perm /\ todo' = todo
      /\ lengthToCycles' = lengthToCycles /\ primeToPowers' = primeToPowers
  BY DEF GenPerm
<1>3. PICK q : q = SmallestOf(primes)
  OBVIOUS
<1>4. q \in primes /\ q \in SeenPrimes
  <2>1. primes \subseteq Nat
    BY <1>1, SeenFacts DEF SplitInv
  <2>2. q \in primes
    BY <1>2, <1>3, <2>1, SmallestFacts
  <2>3. QED
    BY <2>2 DEF SplitInv
<1>5. q \in Nat /\ q >= 2 /\ q \in Lengths /\ SeenFor(q) # {} /\ SeenFor(q) \subseteq Nat
  BY <1>1, <1>4, SeenFacts
<1>6. PICK cycles : cycles = UNION {lengthToCycles[Pow(q, e)] : e \in primeToPowers[q]}
  OBVIOUS
<1>7. /\ prime' = q /\ primes' = primes \ {q}
      /\ smallestPow' = SmallestOf(primeToPowers[q])
      /\ newPerms' = Append(newPerms, FromCycles(cycles))
  BY <1>3, <1>6 DEF GenPerm
<1>8. FromCycles(cycles) = PrimeShift(q)
  <2>1. cycles = PiecesFor(perm, q, SeenFor(q))
    BY <1>2, <1>4, <1>6, AllCut
  <2>2. QED
    BY <1>1, <1>5, <2>1, PrimeGenerator DEF PrimeShift
<1>9. PrimeShift(q) \in LitPerms
  BY <1>1, <1>4, ShiftsArePerms
<1>10. Results' = Results \cup {PrimeShift(q)} /\ newPerms' \in Seq(LitPerms)
  BY <1>7, <1>8, <1>9, ResultAppended DEF SplitInv
<1>11. BelowAll(q, smallestPow')
  <2>1. primeToPowers[q] = SeenFor(q)
    BY <1>5 DEF SplitInv
  <2>2. /\ smallestPow' \in SeenFor(q)
        /\ \A e \in SeenFor(q) : smallestPow' <= e
    BY <1>5, <1>7, <2>1, SmallestFacts
  <2>3. smallestPow' \in Nat /\ smallestPow' >= 1
    BY <1>1, <2>2, SeenFacts
  <2>4. QED
    BY <2>2, <2>3 DEF BelowAll
<1>12. /\ Seen' = Seen /\ SeenPrimes' = SeenPrimes
       /\ \A n : SeenFor(n)' = SeenFor(n)
       /\ \A n : CutSoFar(n)' = CutSoFar(n)
       /\ \A n : PrimeShift(n)' = PrimeShift(n)
       /\ \A n, s : EqualShift(n, s)' = EqualShift(n, s)
       /\ \A n, s : BelowAll(n, s)' <=> BelowAll(n, s)
  BY <1>2, SeenKept
<1>13. BelowAll(prime, smallestPow)'
  <2>1. BelowAll(prime, smallestPow)' <=> /\ smallestPow' \in Nat /\ smallestPow' >= 1
                                          /\ \A e \in SeenFor(q) : smallestPow' <= e
    BY <1>7, <1>12 DEF BelowAll
  <2>2. QED
    BY <1>11, <2>1 DEF BelowAll
<1>14. \A p \in Results' : \E n \in SeenPrimes :
          \/ p = PrimeShift(n)
          \/ \E s \in Nat : BelowAll(n, s) /\ p = EqualShift(n, s)
  BY <1>4, <1>10 DEF SplitInv
<1>15. \A n \in SeenPrimes \ primes' : PrimeShift(n) \in Results'
  BY <1>7, <1>10 DEF SplitInv
<1>16. /\ lengthToCycles' = [n \in Lengths |-> CutSoFar(n)']
       /\ primeToPowers' = [n \in Lengths |-> SeenFor(n)']
  BY <1>2, <1>12 DEF SplitInv
<1>17. /\ perm' \in Pool /\ todo' \subseteq CycleReprs(perm') /\ todo' = {}
       /\ primes' \subseteq SeenPrimes' /\ prime' # 0 /\ prime' \in SeenPrimes'
  BY <1>2, <1>4, <1>5, <1>7, <1>12 DEF SplitInv
<1>18. /\ \A p \in Results' : \E n \in SeenPrimes' :
          \/ p = PrimeShift(n)'
          \/ \E s \in Nat : BelowAll(n, s)' /\ p = EqualShift(n, s)'
       /\ \A n \in SeenPrimes' \ primes' : PrimeShift(n)' \in Results'
  BY <1>12, <1>14, <1>15
<1>19. QED
  BY <1>10, <1>13, <1>16, <1>17, <1>18 DEF SplitInv

(* A generator with equal cycles is a shift as well. *)
LEMMA EqualCycleGenStep == SplitInv /\ EqualCycleGen => SplitInv'
<1> SUFFICES ASSUME SplitInv, EqualCycleGen PROVE SplitInv'
  OBVIOUS
<1>1. perm \in LitPerms
  BY PoolAssumption DEF SplitInv
<1>2. /\ smallestPow >= 1 /\ perm' = perm /\ todo' = todo /\ primes' = primes
      /\ lengthToCycles' = lengthToCycles /\ primeToPowers' = primeToPowers
      /\ smallestPow' = smallestPow - 1
      /\ prime' = IF smallestPow = 1 THEN 0 ELSE prime
  BY DEF EqualCycleGen
<1>3. PICK q, s : q = prime /\ s = smallestPow
  OBVIOUS
<1>4. prime # 0 /\ todo = {} /\ q \in SeenPrimes /\ BelowAll(q, s)
  BY <1>2, <1>3 DEF SplitInv
<1>5. q \in Nat /\ q >= 2 /\ SeenFor(q) \subseteq Nat
  BY <1>1, <1>4, SeenFacts
<1>6. s \in Nat /\ s >= 1 /\ \A e \in SeenFor(q) : s <= e
  BY <1>4 DEF BelowAll
<1>7. PICK cycles, equal :
         /\ cycles = UNION {lengthToCycles[Pow(q, e)] : e \in primeToPowers[q]}
         /\ equal = UNION {Cut(c, Pow(q, s)) : c \in cycles}
  OBVIOUS
<1>8. \/ newPerms' = newPerms
      \/ newPerms' = Append(newPerms, FromCycles(equal))
  BY <1>3, <1>7 DEF EqualCycleGen
<1>9. FromCycles(equal) = EqualShift(q, s)
  <2>1. cycles = PiecesFor(perm, q, SeenFor(q))
    BY <1>4, <1>7, AllCut
  <2>2. QED
    BY <1>1, <1>5, <1>6, <1>7, <2>1, EqualGenerator DEF EqualShift
<1>10. newPerms \in Seq(LitPerms) /\ EqualShift(q, s) \in LitPerms
  BY <1>1, <1>4, <1>6, ShiftsArePerms DEF SplitInv
<1>11. /\ newPerms' \in Seq(LitPerms)
       /\ Results' = Results \/ Results' = Results \cup {EqualShift(q, s)}
  BY <1>8, <1>9, <1>10, ResultAppended DEF Results
<1>12. /\ Seen' = Seen /\ SeenPrimes' = SeenPrimes
       /\ \A n : SeenFor(n)' = SeenFor(n)
       /\ \A n : CutSoFar(n)' = CutSoFar(n)
       /\ \A n : PrimeShift(n)' = PrimeShift(n)
       /\ \A n, k : EqualShift(n, k)' = EqualShift(n, k)
       /\ \A n, k : BelowAll(n, k)' <=> BelowAll(n, k)
  BY <1>2, SeenKept
<1>13. /\ prime' = 0 => smallestPow' = 0
       /\ prime' # 0 => prime' \in SeenPrimes' /\ BelowAll(prime, smallestPow)'
  <2>1. CASE s = 1
    BY <1>2, <1>3, <2>1
  <2>2. CASE s # 1
    <3>1. prime' = q /\ smallestPow' = s - 1 /\ s - 1 \in Nat /\ s - 1 >= 1
      BY <1>2, <1>3, <1>6, <2>2
    <3>2. \A e \in SeenFor(q) : s - 1 <= e
      BY <1>5, <1>6
    <3>3. BelowAll(prime, smallestPow)' <=> /\ smallestPow' \in Nat /\ smallestPow' >= 1
                                            /\ \A e \in SeenFor(q) : smallestPow' <= e
      BY <1>12, <3>1 DEF BelowAll
    <3>4. QED
      BY <1>3, <1>4, <1>12, <3>1, <3>2, <3>3
  <2>3. QED
    BY <2>1, <2>2
<1>14. \A p \in Results' : \E n \in SeenPrimes :
          \/ p = PrimeShift(n)
          \/ \E k \in Nat : BelowAll(n, k) /\ p = EqualShift(n, k)
  <2>1. \A p \in Results : \E n \in SeenPrimes :
          \/ p = PrimeShift(n)
          \/ \E k \in Nat : BelowAll(n, k) /\ p = EqualShift(n, k)
    BY DEF SplitInv
  <2>2. QED
    BY <1>4, <1>6, <1>11, <2>1
<1>15. \A n \in SeenPrimes \ primes' : PrimeShift(n) \in Results'
  <2>1. \A n \in SeenPrimes \ primes : PrimeShift(n) \in Results
    BY DEF SplitInv
  <2>2. QED
    BY <1>2, <1>11, <2>1
<1>16. /\ lengthToCycles' = [n \in Lengths |-> CutSoFar(n)']
       /\ primeToPowers' = [n \in Lengths |-> SeenFor(n)']
  BY <1>2, <1>12 DEF SplitInv
<1>17. /\ perm' \in Pool /\ todo' \subseteq CycleReprs(perm') /\ todo' = {}
       /\ primes' \subseteq SeenPrimes'
  BY <1>2, <1>4, <1>12 DEF SplitInv
<1>18. /\ \A p \in Results' : \E n \in SeenPrimes' :
          \/ p = PrimeShift(n)'
          \/ \E k \in Nat : BelowAll(n, k)' /\ p = EqualShift(n, k)'
       /\ \A n \in SeenPrimes' \ primes' : PrimeShift(n)' \in Results'
  BY <1>12, <1>14, <1>15
<1>19. QED
  BY <1>11, <1>13, <1>16, <1>17, <1>18 DEF SplitInv

(* The invariant holds in every state. *)
THEOREM SplitInvariant == Spec => []SplitInv
<1>1. SplitInv /\ UNCHANGED vars => SplitInv'
  <2> SUFFICES ASSUME SplitInv, UNCHANGED vars PROVE SplitInv'
    OBVIOUS
  <2>1. /\ perm' = perm /\ todo' = todo /\ lengthToCycles' = lengthToCycles
        /\ primeToPowers' = primeToPowers /\ primes' = primes /\ prime' = prime
        /\ smallestPow' = smallestPow /\ newPerms' = newPerms
    BY DEF vars
  <2>2. Results' = Results
    BY <2>1 DEF Results
  <2>3. /\ Seen' = Seen /\ SeenPrimes' = SeenPrimes
        /\ \A n : SeenFor(n)' = SeenFor(n)
        /\ \A n : CutSoFar(n)' = CutSoFar(n)
        /\ \A n : PrimeShift(n)' = PrimeShift(n)
        /\ \A n, k : EqualShift(n, k)' = EqualShift(n, k)
        /\ \A n, k : BelowAll(n, k)' <=> BelowAll(n, k)
    BY <2>1, SeenKept
  <2>4. /\ \A p \in Results' : \E n \in SeenPrimes' :
           \/ p = PrimeShift(n)'
           \/ \E k \in Nat : BelowAll(n, k)' /\ p = EqualShift(n, k)'
        /\ \A n \in SeenPrimes' \ primes' : PrimeShift(n)' \in Results'
    BY <2>1, <2>2, <2>3 DEF SplitInv
  <2>5. BelowAll(prime, smallestPow)' <=> BelowAll(prime, smallestPow)
    BY <2>1, <2>3 DEF BelowAll
  <2>6. /\ lengthToCycles' = [n \in Lengths |-> CutSoFar(n)']
        /\ primeToPowers' = [n \in Lengths |-> SeenFor(n)']
    BY <2>1, <2>3 DEF SplitInv
  <2>7. QED
    BY <2>1, <2>3, <2>4, <2>5, <2>6 DEF SplitInv
<1>2. SplitInv /\ [Next]_vars => SplitInv'
  BY <1>1, SplitCycleStep, GenPermStep, EqualCycleGenStep DEF Next
<1>3. QED
  BY <1>2, SplitInit, PTL DEF Spec

(* A prime that has been seen was seen for some cycle, which is then cut   *)
(* for that prime.                                                         *)
LEMMA SeenOnCycle ==
  ASSUME perm \in LitPerms, NEW q \in SeenPrimes
  PROVE  \E r \in Lits : /\ CycleLength(perm, r) \in Lengths
                         /\ CutFor(CycleLength(perm, r), q, SeenFor(q)) # {}
<1>1. PICK g \in Seen : g[1] = q
  BY DEF SeenPrimes
<1>2. PICK r \in CycleReprs(perm) \ todo : g \in Factors(CycleLength(perm, r))
  BY DEF Seen
<1>3. r \in Lits /\ CycleLength(perm, r) \in Lengths
  BY <1>2, ReprFacts
<1>4. g[2] \in SeenFor(q)
  BY <1>1 DEF SeenFor
<1>5. Pow(q, g[2]) \in CutFor(CycleLength(perm, r), q, SeenFor(q))
  BY <1>1, <1>2, <1>4 DEF CutFor, CutLengths
<1>6. QED
  BY <1>3, <1>5

(* The jumps along a cycle that is cut go to another literal of it.        *)
LEMMA JumpsMove ==
  ASSUME NEW n \in Lengths, NEW q \in Nat, q >= 2, NEW P \in SUBSET Nat,
         CutFor(n, q, P) # {}
  PROVE  /\ PrimeJumps(q, P)[n] \in 1 .. n - 1
         /\ \A s \in Nat : s >= 1 /\ (\A e \in P : s <= e)
               => EqualJumps(q, P, s)[n] \in 1 .. n - 1
<1>1. n \in Nat /\ n >= 1
  BY LitsFinite DEF Lengths
<1>2. PICK m \in CutFor(n, q, P) : TRUE
  OBVIOUS
<1>3. PICK e \in P : m = Pow(q, e)
  BY DEF CutFor
<1>4. m \in CutLengths(n)
  BY DEF CutFor
<1>5. PICK d \in Nat : /\ d = n \div m /\ d >= 1 /\ d < n /\ n = d * m
                       /\ m \in Nat /\ m >= 2
  BY <1>1, <1>4, CutLengthFacts
<1>6. PrimeJumps(q, P)[n] = d
  BY <1>5, PrimeJumpsAre
<1>7. ASSUME NEW s \in Nat, s >= 1, \A x \in P : s <= x
      PROVE  EqualJumps(q, P, s)[n] \in 1 .. n - 1
  <2>1. PICK u \in Nat : u = Pow(q, s) /\ u >= 2
    <3>1. Pow(q, s) \in Nat /\ Pow(q, s) >= s + 1
      BY PowFacts, PowGrows
    <3>2. QED
      BY <1>7, <3>1
  <2>2. PICK t \in Nat : t >= 1 /\ m = t * u
    BY <1>3, <1>7, <2>1, PowSplit
  <2>3. PICK j \in Nat : j = d * t /\ j >= 1
    <3>1. d * t \in Nat /\ d * t >= 1
      BY <1>5, <2>2
    <3>2. QED
      BY <3>1
  <2>4. n = u * j
    <3>1. d * (t * u) = u * (d * t)
      BY <2>1
    <3>2. QED
      BY <1>5, <2>2, <2>3, <3>1
  <2>5. n \div u = j
    BY <1>1, <2>1, <2>4, ExactQuotient
  <2>6. j < n
    <3>1. u * j >= 2 * j
      BY <2>1, <2>3
    <3>2. QED
      BY <2>3, <2>4, <3>1
  <2>7. EqualJumps(q, P, s)[n] = j
    BY <2>1, <2>5 DEF EqualJumps
  <2>8. QED
    BY <1>1, <2>3, <2>6, <2>7
<1>8. QED
  BY <1>1, <1>5, <1>6, <1>7

(* Every permutation of the result is a shift that moves a literal. *)
LEMMA SplitInvMoves == SplitInv => SplitCommutesWithNegation
<1> SUFFICES ASSUME SplitInv, NEW p \in Results
             PROVE  p \in LitPerms \ {IdPerm}
  BY DEF SplitCommutesWithNegation
<1>1. perm \in LitPerms
  BY PoolAssumption DEF SplitInv
<1>2. PICK q \in SeenPrimes :
         \/ p = PrimeShift(q)
         \/ \E s \in Nat : BelowAll(q, s) /\ p = EqualShift(q, s)
  BY DEF SplitInv
<1>3. p \in LitPerms
  BY <1>1, <1>2, ShiftsArePerms
<1>4. PICK r \in Lits, n \in Lengths, P \in SUBSET Nat :
          /\ n = CycleLength(perm, r) /\ P = SeenFor(q) /\ CutFor(n, q, P) # {}
  BY <1>1, SeenOnCycle, SeenFacts
<1>5. q \in Nat /\ q >= 2
  BY <1>1, SeenFacts
<1>6. p[r] # r
  <2>1. CASE p = PrimeShift(q)
    BY <1>1, <1>4, <1>5, <2>1, JumpsMove, ShiftMoves DEF PrimeShift
  <2>2. CASE \E s \in Nat : BelowAll(q, s) /\ p = EqualShift(q, s)
    <3>1. PICK s \in Nat : BelowAll(q, s) /\ p = EqualShift(q, s)
      BY <2>2
    <3>2. EqualJumps(q, P, s)[n] \in 1 .. n - 1
      BY <1>4, <1>5, <3>1, JumpsMove DEF BelowAll
    <3>3. QED
      BY <1>1, <1>4, <3>1, <3>2, ShiftMoves DEF EqualShift
  <2>3. QED
    BY <1>2, <2>1, <2>2
<1>7. IdPerm[r] = r
  BY DEF IdPerm
<1>8. QED
  BY <1>3, <1>6, <1>7

(* The pieces, the exponents and the results have their types. *)
LEMMA SplitInvTyped == SplitInv => TypeOK
<1> SUFFICES ASSUME SplitInv PROVE TypeOK
  OBVIOUS
<1>1. perm \in LitPerms
  BY PoolAssumption DEF SplitInv
<1>2. todo \subseteq Lits
  BY <1>1, ReprFacts DEF SplitInv
<1>3. ASSUME NEW n \in Lengths, NEW c \in lengthToCycles[n]
      PROVE  c \in [1 .. n -> Lits]
  <2>1. c \in CutSoFar(n)
    BY <1>3 DEF SplitInv
  <2>2. PICK r \in CycleReprs(perm) : /\ n \in CutLengths(CycleLength(perm, r))
                                      /\ c \in Cut(GetCycle(perm, r), n)
    BY <2>1 DEF CutSoFar
  <2>3. Loop(c, n, perm, CycleLength(perm, r) \div n)
    BY <1>1, <2>2, PieceFacts
  <2>4. QED
    BY <2>3 DEF Loop
<1>4. \A q \in Lengths : primeToPowers[q] \subseteq 1 .. Cardinality(Lits)
  BY <1>1, SeenFacts DEF SplitInv, Lengths
<1>5. primes \subseteq Lengths /\ prime \in Lengths \cup {0}
  BY <1>1, SeenFacts DEF SplitInv
<1>6. smallestPow \in Nat
  BY DEF SplitInv, BelowAll
<1>7. \A p \in Results : p \in [Lits -> Lits]
  BY SplitInvMoves DEF SplitCommutesWithNegation, LitPerms
<1>8. QED
  BY <1>2, <1>3, <1>4, <1>5, <1>6, <1>7 DEF TypeOK, SplitInv

(* The types of the state. *)
THEOREM SplitTypes == Spec => []TypeOK
BY SplitInvariant, SplitInvTyped, PTL

(* Every permutation of the result commutes with negation and moves a      *)
(* literal.                                                                *)
THEOREM SplitsAreSymmetries == Spec => []SplitCommutesWithNegation
BY SplitInvariant, SplitInvMoves, PTL

-----------------------------------------------------------------------------
(* Orbits.                                                                 *)

(* What a walk visits. *)
Visited(p, l) == {Walk(p, l)[k] : k \in Nat}

(* It is the orbit of the permutation. *)
LEMMA OrbitIsWalk ==
  ASSUME NEW p \in LitPerms, NEW l \in Lits
  PROVE  OrbitOf({p}, l) = Visited(p, l)
<1>1. PICK w : w = Walk(p, l)
  OBVIOUS
<1>2. w \in [Nat -> Lits] /\ w[0] = l /\ \A k \in Nat : w[k + 1] = p[w[k]]
  BY <1>1, WalkFacts DEF Chain
<1>3. PICK B : B = OrbitOf({p}, l)
  OBVIOUS
<1>4. /\ l \in B /\ B \subseteq Lits /\ \A m \in B : p[m] \in B
      /\ \A E \in SUBSET Lits : l \in E /\ (\A m \in E : p[m] \in E) => B \subseteq E
  <2>1. PICK S \in SUBSET LitPerms : S = {p}
    OBVIOUS
  <2>2. /\ l \in OrbitOf(S, l) /\ OrbitOf(S, l) \subseteq Lits
        /\ \A r \in S, m \in OrbitOf(S, l) : r[m] \in OrbitOf(S, l)
        /\ \A E \in SUBSET Lits :
             l \in E /\ (\A r \in S, m \in E : r[m] \in E)
               => OrbitOf(S, l) \subseteq E
    BY OrbitFacts
  <2>3. OrbitOf(S, l) = B /\ p \in S /\ \A r \in S : r = p
    BY <1>3, <2>1
  <2>4. QED
    BY <2>2, <2>3
<1> DEFINE A == {k \in Nat : w[k] \in B}
<1>5. 0 \in A
  BY <1>2, <1>4
<1>6. ASSUME NEW k \in Nat, k \in A PROVE k + 1 \in A
  BY <1>2, <1>4, <1>6
<1>7. Nat \subseteq A
  <2> HIDE DEF A
  <2>1. QED
    BY <1>5, <1>6, SetInduction
<1>8. PICK E \in SUBSET Lits : E = {w[k] : k \in Nat}
  BY <1>2
<1>9. l \in E /\ \A m \in E : p[m] \in E
  <2>1. l \in E
    BY <1>2, <1>8
  <2>2. ASSUME NEW k \in Nat PROVE p[w[k]] \in E
    <3>1. p[w[k]] = w[k + 1] /\ k + 1 \in Nat
      BY <1>2
    <3>2. QED
      BY <1>8, <3>1
  <2>3. QED
    BY <1>8, <2>1, <2>2
<1>10. B \subseteq E /\ E \subseteq B
  BY <1>4, <1>7, <1>8, <1>9
<1>11. QED
  BY <1>1, <1>3, <1>8, <1>10 DEF Visited

(* What a shift does along a walk: it goes some steps ahead. *)
LEMMA ShiftAhead ==
  ASSUME NEW p \in LitPerms, NEW g \in [Lengths -> Nat], NEW l \in Lits, NEW h \in Nat,
         NEW n, n = CycleLength(p, l)
  PROVE  /\ n \in Lengths /\ g[n] \in Nat /\ h + g[n] \in Nat
         /\ ShiftBy(p, g)[Walk(p, l)[h]] = Walk(p, l)[h + g[n]]
<1>1. PICK x \in Lits : x = Walk(p, l)[h]
  BY WalkAdd
<1>2. CycleLength(p, x) = n
  BY <1>1, CycleLengthKept
<1>3. ShiftBy(p, g)[x] = Walk(p, x)[g[n]]
  BY <1>2 DEF ShiftBy
<1>4. n \in Lengths /\ g[n] \in Nat
  BY CycleLengthFacts
<1>5. Walk(p, x)[g[n]] = Walk(p, l)[h + g[n]]
  BY <1>1, <1>4, WalkAdd
<1>6. QED
  BY <1>1, <1>3, <1>4, <1>5

(* All results are shifts of perm. *)
LEMMA ResultsAreShifts ==
  ASSUME SplitInv, NEW p \in Results
  PROVE  \E g \in [Lengths -> Nat] : p = ShiftBy(perm, g)
<1>1. perm \in LitPerms
  BY PoolAssumption DEF SplitInv
<1>2. PICK q \in SeenPrimes :
         \/ p = PrimeShift(q)
         \/ \E s \in Nat : BelowAll(q, s) /\ p = EqualShift(q, s)
  BY DEF SplitInv
<1>3. PICK P \in SUBSET Nat : P = SeenFor(q)
  BY <1>1, SeenFacts
<1>4. q \in Nat /\ q >= 2
  BY <1>1, SeenFacts
<1>5. 0 \in Nat /\ \A s \in Nat : /\ PrimeJumps(q, P) \in [Lengths -> Nat]
                                  /\ EqualJumps(q, P, s) \in [Lengths -> Nat]
  BY <1>4, JumpsTyped
<1>6. QED
  BY <1>2, <1>3, <1>5 DEF PrimeShift, EqualShift

(* At the end, every factor of the length of a cycle has been seen, and    *)
(* its prime has a generator, which goes n / q^e ahead on the cycles of n  *)
(* literals.                                                               *)
LEMMA PrimeShiftDone ==
  ASSUME SplitInv, Done, NEW l \in Lits, NEW n, n = CycleLength(perm, l),
         NEW g \in Factors(n)
  PROVE  /\ g[1] \in SeenPrimes /\ PrimeShift(g[1]) \in Results
         /\ \A h \in Nat : PrimeShift(g[1])[Walk(perm, l)[h]]
               = Walk(perm, l)[h + (n \div Pow(g[1], g[2]))]
<1>1. perm \in LitPerms
  BY PoolAssumption DEF SplitInv
<1>2. n \in Lengths /\ n \in Nat /\ n >= 1 /\ (n = 1 <=> perm[l] = l)
  BY <1>1, CycleLengthFacts
<1>3. PICK q, e, m : q = g[1] /\ e = g[2] /\ m = Pow(q, e)
  OBVIOUS
<1>4. q \in Nat /\ q >= 2 /\ e \in Nat
  BY <1>2, <1>3, FactorTypes
<1>5. m \in CutLengths(n)
  BY <1>3 DEF CutLengths
<1>6. n # 1
  BY <1>2, <1>5, CutLengthFacts
<1>7. PICK r \in CycleReprs(perm) : CycleLength(perm, r) = n
  BY <1>1, <1>2, <1>6, ReprOf
<1>8. g \in Seen
  BY <1>7 DEF Seen, Done
<1>9. q \in SeenPrimes /\ e \in SeenFor(q)
  BY <1>3, <1>8 DEF SeenPrimes, SeenFor
<1>10. PrimeShift(q) \in Results
  BY <1>9 DEF Done, SplitInv
<1>11. PICK P \in SUBSET Nat : P = SeenFor(q)
  BY <1>1, SeenFacts
<1>12. m \in CutFor(n, q, P)
  BY <1>3, <1>5, <1>9, <1>11 DEF CutFor
<1>13. PICK j : j = PrimeJumps(q, P)
  OBVIOUS
<1>14. j[n] = n \div m
  BY <1>2, <1>4, <1>12, <1>13, PrimeJumpsAre
<1>15. j \in [Lengths -> Nat]
  <2>1. 0 \in Nat
    OBVIOUS
  <2>2. QED
    BY <1>4, <1>13, <2>1, JumpsTyped
<1>16. PrimeShift(q) = ShiftBy(perm, j)
  BY <1>11, <1>13 DEF PrimeShift
<1>17. \A h \in Nat : PrimeShift(q)[Walk(perm, l)[h]] = Walk(perm, l)[h + j[n]]
  BY <1>1, <1>15, <1>16, ShiftAhead
<1>18. QED
  BY <1>3, <1>9, <1>10, <1>14, <1>17

(* The orbits of the result are those of the permutation that is split. *)
LEMMA SplitInvOrbits == SplitInv => OrbitsKept
<1> SUFFICES ASSUME SplitInv, Done
             PROVE  \A l \in Lits : OrbitOf(Results, l) = OrbitOf({perm}, l)
  BY DEF OrbitsKept, OrbitPartition
<1>1. perm \in LitPerms /\ Results \in SUBSET LitPerms
  BY PoolAssumption, SplitInvMoves DEF SplitInv, SplitCommutesWithNegation
<1>2. SUFFICES ASSUME NEW l \in Lits PROVE OrbitOf(Results, l) = OrbitOf({perm}, l)
  OBVIOUS
<1>3. PICK w, n : w = Walk(perm, l) /\ n = CycleLength(perm, l)
  OBVIOUS
<1>4. w[0] = l
  BY <1>1, <1>3, WalkFacts DEF Chain
<1>5. PICK E \in SUBSET Lits : /\ E = OrbitOf({perm}, l)
                               /\ \A k \in Nat : w[k] \in E
                               /\ \A x \in E : \E k \in Nat : x = w[k]
  <2>1. PICK E : E = Visited(perm, l)
    OBVIOUS
  <2>2. E = OrbitOf({perm}, l)
    BY <1>1, <2>1, OrbitIsWalk
  <2>3. \A k \in Nat : w[k] \in Lits
    BY <1>1, <1>3, WalkAdd
  <2>4. (\A k \in Nat : w[k] \in E) /\ \A x \in E : \E k \in Nat : x = w[k]
    BY <1>3, <2>1 DEF Visited
  <2>5. E \subseteq Lits
    BY <2>3, <2>4
  <2>6. QED
    BY <2>2, <2>4, <2>5
<1>6. PICK A : A = OrbitOf(Results, l)
  OBVIOUS
<1>7. /\ l \in A /\ \A p \in Results, m \in A : p[m] \in A
      /\ l \in E /\ (\A p \in Results, m \in E : p[m] \in E) => A \subseteq E
  BY <1>1, <1>6, OrbitFacts
<1>8. A \subseteq E
  <2>1. ASSUME NEW p \in Results, NEW h \in Nat PROVE p[w[h]] \in E
    <3>1. PICK g \in [Lengths -> Nat] : p = ShiftBy(perm, g)
      BY <2>1, ResultsAreShifts
    <3>2. h + g[n] \in Nat /\ p[w[h]] = w[h + g[n]]
      BY <1>1, <1>3, <3>1, ShiftAhead
    <3>3. QED
      BY <1>5, <3>2
  <2>2. l \in E
    BY <1>4, <1>5
  <2>3. \A p \in Results, m \in E : p[m] \in E
    BY <1>5, <2>1
  <2>4. QED
    BY <1>7, <2>2, <2>3
<1>9. E \subseteq A
  <2> DEFINE H == {h \in Nat : w[h] \in A}
  <2>1. n \in Nat /\ n >= 1
    BY <1>1, <1>3, CycleLengthFacts
  <2>2. 0 \in H
    BY <1>4, <1>7
  <2>3. ASSUME NEW h \in Nat PROVE h \in H <=> h + n \in H
    <3>1. n * 1 = n /\ 1 \in Nat
      BY <2>1
    <3>2. w[h + n * 1] = w[h]
      BY <1>1, <1>3, WalkPeriod
    <3>3. QED
      BY <2>1, <3>1, <3>2
  <2>4. ASSUME NEW g \in Factors(n), NEW h \in Nat, h \in H
        PROVE  h + (n \div Pow(g[1], g[2])) \in H
    <3>1. PICK d : d = n \div Pow(g[1], g[2])
      OBVIOUS
    <3>2. Pow(g[1], g[2]) \in CutLengths(n)
      BY DEF CutLengths
    <3>3. d \in Nat
      BY <2>1, <3>1, <3>2, CutLengthFacts
    <3>4. PrimeShift(g[1]) \in Results /\ PrimeShift(g[1])[w[h]] = w[h + d]
      BY <1>3, <3>1, PrimeShiftDone
    <3>5. w[h + d] \in A
      BY <1>7, <2>4, <3>4
    <3>6. QED
      BY <3>1, <3>3, <3>5
  <2> HIDE DEF H
  <2>5. Nat \subseteq H
    BY <2>1, <2>2, <2>3, <2>4, StepsReachAll
  <2>6. QED
    BY <1>5, <2>5 DEF H
<1>10. QED
  BY <1>5, <1>6, <1>8, <1>9

(* No symmetric pair of literals is lost. *)
THEOREM SplitKeepsOrbits == Spec => []OrbitsKept
BY SplitInvariant, SplitInvOrbits, PTL

-----------------------------------------------------------------------------
(* Powers and products.                                                    *)

(* The number of steps of which the order of a permutation is one. *)
LEMMA Bound ==
  \E N \in Nat : N = 2 ^ Cardinality(Lits) /\ N >= 1 /\ N >= Cardinality(Lits)
<1>1. PICK S : S = SUBSET Lits
  OBVIOUS
<1>2. IsFiniteSet(S) /\ Cardinality(S) = 2 ^ Cardinality(Lits)
  BY <1>1, LitsFinite, FS_SUBSET
<1>3. Cardinality(S) \in Nat
  BY <1>2, FS_CardinalityType
<1>4. Cardinality(S) # 0
  <2>1. {} \in S
    BY <1>1
  <2>2. QED
    BY <1>2, <2>1, FS_EmptySet
<1>5. Cardinality(S) >= Cardinality(Lits)
  <2>1. PICK f : f = [l \in Lits |-> {l}]
    OBVIOUS
  <2>2. f \in Injection(Lits, S)
    <3>1. f \in [Lits -> S]
      BY <1>1, <2>1
    <3>2. \A a, b \in Lits : f[a] = f[b] => a = b
      BY <2>1
    <3>3. QED
      BY <3>1, <3>2 DEF Injection, IsInjective
  <2>3. QED
    BY <1>2, <2>2, FS_Injection
<1>6. QED
  BY <1>2, <1>3, <1>4, <1>5

(* Powers returns all powers, when one of the first 2^|Lits| is the        *)
(* identity.                                                               *)
LEMMA PowersAre ==
  ASSUME NEW p \in LitPerms, NEW L \in Nat, L >= 1,
         L = 1 \/ L <= Cardinality(Lits), Times(p, L) = IdPerm
  PROVE  /\ \A k \in Nat : Times(p, k) \in Powers(p)
         /\ \A x \in Powers(p) : \E k \in Nat : x = Times(p, k)
         /\ IsFiniteSet(Powers(p))
<1>1. /\ Times(p, 0) = IdPerm
      /\ \A n \in Nat : Times(p, n + 1) = Product(Times(p, n), p)
  BY TimesFacts
<1>2. PICK f : f = [n \in Nat |-> Times(p, n)]
  OBVIOUS
<1>3. \A n \in Nat : n # 0 => n - 1 \in Nat /\ (n - 1) + 1 = n
  OBVIOUS
<1>4. f = [n \in Nat |-> IF n = 0 THEN IdPerm ELSE Product(f[n - 1], p)]
  <2>1. \A n \in Nat : f[n] = IF n = 0 THEN IdPerm ELSE Product(f[n - 1], p)
    BY <1>1, <1>2, <1>3
  <2>2. QED
    BY <1>2, <2>1
<1> DEFINE Order(w, n) == w[n] = IdPerm /\ \A k \in 1 .. n - 1 : w[k] # IdPerm
<1>5. PICK w, o :
         /\ w = [n \in Nat |-> IF n = 0 THEN IdPerm ELSE Product(w[n - 1], p)]
         /\ o = CHOOSE n \in 1 .. 2 ^ Cardinality(Lits) : Order(w, n)
         /\ Powers(p) = {w[n] : n \in 0 .. o - 1}
  BY <1>4, Zenon DEF Powers
<1> HIDE DEF Order
<1>6. \A n \in Nat : w[n] = Times(p, n)
  <2> DEFINE A == {n \in Nat : w[n] = Times(p, n)}
  <2>1. \A n \in Nat : w[n] = IF n = 0 THEN IdPerm ELSE Product(w[n - 1], p)
    BY <1>5, Zenon
  <2>2. 0 \in A
    BY <1>1, <2>1
  <2>3. ASSUME NEW n \in Nat, n \in A PROVE n + 1 \in A
    <3>1. n + 1 \in Nat /\ n + 1 # 0 /\ (n + 1) - 1 = n
      OBVIOUS
    <3>2. QED
      BY <1>1, <2>1, <2>3, <3>1
  <2> HIDE DEF A
  <2>4. QED
    BY <2>2, <2>3, SetInduction DEF A
<1>7. o \in Nat /\ o >= 1 /\ w[o] = IdPerm
  <2>1. PICK N \in Nat : /\ N = 2 ^ Cardinality(Lits) /\ N >= 1
                         /\ N >= Cardinality(Lits)
    BY Bound
  <2>2. L <= N
    BY <2>1, LitsFinite
  <2> DEFINE T == {n \in Nat : n >= 1 /\ w[n] = IdPerm}
  <2>3. L \in T
    BY <1>6
  <2>4. PICK n \in T : \A m \in T : n <= m
    BY <2>3, LeastElement
  <2>5. n <= L /\ n \in 1 .. N
    BY <2>2, <2>3, <2>4
  <2>6. Order(w, n)
    BY <2>4 DEF Order
  <2>7. o = CHOOSE m \in 1 .. N : Order(w, m)
    BY <1>5, <2>1
  <2>8. o \in 1 .. N /\ Order(w, o)
    BY <2>5, <2>6, <2>7, Zenon
  <2>9. QED
    BY <2>8 DEF Order
<1>8. \A l \in Lits : Walk(p, l)[o] = l
  <2>1. PICK x : x = Times(p, o) /\ x = IdPerm
    BY <1>6, <1>7
  <2>2. \A l \in Lits : x[l] = Walk(p, l)[o]
    <3>1. x = [l \in Lits |-> Walk(p, l)[o]]
      BY <2>1 DEF Times
    <3>2. QED
      BY <3>1
  <2>3. \A l \in Lits : x[l] = l
    BY <2>1 DEF IdPerm
  <2>4. QED
    BY <2>2, <2>3
<1>9. ASSUME NEW k \in Nat, NEW t \in Nat, NEW m \in Nat, k = o * t + m
      PROVE  Times(p, k) = Times(p, m)
  <2>1. SUFFICES ASSUME NEW l \in Lits PROVE Walk(p, l)[k] = Walk(p, l)[m]
    BY DEF Times
  <2> DEFINE A == {i \in Nat : Walk(p, l)[o * i] = l}
  <2>2. 0 \in A
    <3>1. o * 0 = 0
      BY <1>7
    <3>2. QED
      BY <3>1, WalkFacts DEF Chain
  <2>3. ASSUME NEW i \in Nat, i \in A PROVE i + 1 \in A
    <3>1. o * (i + 1) = o * i + o /\ o * i \in Nat
      BY <1>7
    <3>2. Walk(p, Walk(p, l)[o * i])[o] = Walk(p, l)[o * i + o]
      BY <1>7, <3>1, WalkAdd
    <3>3. QED
      BY <1>8, <2>3, <3>1, <3>2
  <2> HIDE DEF A
  <2>4. Walk(p, l)[o * t] = l
    BY <2>2, <2>3, SetInduction DEF A
  <2>5. PICK x \in Nat : x = o * t
    BY <1>7
  <2>6. Walk(p, Walk(p, l)[x])[m] = Walk(p, l)[x + m]
    BY WalkAdd
  <2>7. QED
    BY <1>9, <2>4, <2>5, <2>6
<1>10. ASSUME NEW k \in Nat PROVE Times(p, k) \in Powers(p)
  <2>1. PICK t \in Nat, m \in Nat : k = o * t + m /\ m < o
    BY <1>7, DividesRemainder
  <2>2. m \in 0 .. o - 1
    BY <1>7, <2>1
  <2>3. Times(p, k) = w[m]
    BY <1>6, <1>9, <2>1
  <2>4. QED
    BY <1>5, <2>2, <2>3
<1>11. ASSUME NEW x \in Powers(p) PROVE \E k \in Nat : x = Times(p, k)
  <2>1. PICK n \in 0 .. o - 1 : x = w[n]
    BY <1>5
  <2>2. QED
    BY <1>6, <1>7, <2>1
<1>12. IsFiniteSet(Powers(p))
  <2>1. PICK D : D = 0 .. o - 1
    OBVIOUS
  <2>2. IsFiniteSet(D)
    BY <1>7, <2>1, FS_Interval
  <2>3. PICK h : h = [n \in D |-> w[n]]
    OBVIOUS
  <2>4. h \in Surjection(D, Powers(p))
    <3>1. h \in [D -> Powers(p)] /\ \A x \in Powers(p) : \E n \in D : h[n] = x
      BY <1>5, <2>1, <2>3
    <3>2. QED
      BY <3>1 DEF Surjection
  <2>5. QED
    BY <2>2, <2>4, FS_Surjection
<1>13. QED
  BY <1>10, <1>11, <1>12

(* All cycles of p that move a literal have length L; when there is none,  *)
(* L is 1.                                                                 *)
Uniform(p, L) ==
  /\ L \in Nat /\ L >= 1 /\ (L = 1 \/ L <= Cardinality(Lits))
  /\ \A l \in Lits : p[l] = l \/ CycleLength(p, l) = L
  /\ L = 1 \/ \E l \in Lits : CycleLength(p, l) = L

(* EqualCycles gives such a length. *)
LEMMA UniformLength ==
  ASSUME perm \in LitPerms, EqualCycles
  PROVE  \E L : Uniform(perm, L)
<1>1. Domain(perm) \subseteq Lits /\ \A l \in Lits : l \in Domain(perm) <=> perm[l] # l
  BY DEF Domain, LitPerms
<1>2. CASE Domain(perm) = {}
  <2>1. Uniform(perm, 1)
    BY <1>1, <1>2 DEF Uniform
  <2>2. QED
    BY <2>1
<1>3. CASE Domain(perm) # {}
  <2>1. PICK m \in Domain(perm) : m \in Lits
    BY <1>1, <1>3
  <2>2. PICK L : L = CycleLength(perm, m)
    OBVIOUS
  <2>3. L \in Nat /\ L >= 1 /\ L <= Cardinality(Lits)
    BY <2>1, <2>2, CycleLengthFacts, LitsFinite DEF Lengths
  <2>4. \A l \in Domain(perm) : CycleLength(perm, l) = L
    BY <2>1, <2>2 DEF EqualCycles
  <2>5. Uniform(perm, L)
    BY <1>1, <2>1, <2>2, <2>3, <2>4 DEF Uniform
  <2>6. QED
    BY <2>5
<1>4. QED
  BY <1>2, <1>3

(* A literal that stays is where every walk from it stands. *)
LEMMA FixedWalk ==
  ASSUME NEW p \in LitPerms, NEW l \in Lits, p[l] = l, NEW k \in Nat
  PROVE  Walk(p, l)[k] = l
<1>1. CycleLength(p, l) = 1
  BY CycleLengthFacts
<1>2. PICK a \in Nat : a = 0
  OBVIOUS
<1>3. Walk(p, l)[a + 1 * k] = Walk(p, l)[a]
  BY <1>1, WalkPeriod
<1>4. a + 1 * k = k
  BY <1>2
<1>5. QED
  BY <1>2, <1>3, <1>4, WalkFacts DEF Chain

(* Then a shift is a power, and powers repeat after L. *)
LEMMA UniformShift ==
  ASSUME NEW p \in LitPerms, NEW L, Uniform(p, L), NEW g \in [Lengths -> Nat]
  PROVE  \E k \in Nat : /\ ShiftBy(p, g) = Times(p, k)
                        /\ L \in Lengths => k = g[L]
<1>1. PICK k \in Nat : L \in Lengths => k = g[L]
  <2>1. 0 \in Nat
    OBVIOUS
  <2>2. CASE L \in Lengths
    BY <2>2
  <2>3. CASE L \notin Lengths
    BY <2>1, <2>3
  <2>4. QED
    BY <2>2, <2>3
<1>2. ASSUME NEW l \in Lits
      PROVE  Walk(p, l)[g[CycleLength(p, l)]] = Walk(p, l)[k]
  <2>1. PICK n \in Lengths : n = CycleLength(p, l)
    BY CycleLengthFacts
  <2>2. g[n] \in Nat
    OBVIOUS
  <2>3. CASE p[l] = l
    BY <2>1, <2>2, <2>3, FixedWalk
  <2>4. CASE n = L
    BY <1>1, <2>1, <2>4
  <2>5. QED
    BY <2>1, <2>3, <2>4 DEF Uniform
<1>3. ShiftBy(p, g) = Times(p, k)
  BY <1>2, Zenon DEF ShiftBy, Times
<1>4. QED
  BY <1>1, <1>3

(* L steps lead back to where they start. *)
LEMMA UniformPeriod ==
  ASSUME NEW p \in LitPerms, NEW L, Uniform(p, L), NEW h \in Nat
  PROVE  Times(p, h + L) = Times(p, h)
<1>1. L \in Nat /\ L * 1 = L
  BY DEF Uniform
<1>2. ASSUME NEW l \in Lits PROVE Walk(p, l)[h + L] = Walk(p, l)[h]
  <2>1. CASE p[l] = l
    BY <1>1, <2>1, FixedWalk
  <2>2. CASE CycleLength(p, l) = L
    <3>1. Walk(p, l)[h + L * 1] = Walk(p, l)[h]
      BY <2>2, WalkPeriod
    <3>2. QED
      BY <1>1, <3>1
  <2>3. QED
    BY <2>1, <2>2 DEF Uniform
<1>3. QED
  BY <1>2, Zenon DEF Times

(* Powers are multiplied by adding their exponents. *)
LEMMA TimesAdd ==
  ASSUME NEW p \in LitPerms, NEW h \in Nat, NEW k \in Nat
  PROVE  Product(Times(p, h), Times(p, k)) = Times(p, h + k)
<1>1. ASSUME NEW l \in Lits
      PROVE  Times(p, k)[Times(p, h)[l]] = Walk(p, l)[h + k]
  <2>1. PICK m \in Lits : m = Walk(p, l)[h]
    BY WalkAdd
  <2>2. Times(p, h)[l] = m /\ Times(p, k)[m] = Walk(p, m)[k]
    BY <2>1 DEF Times
  <2>3. Walk(p, m)[k] = Walk(p, l)[h + k]
    BY <2>1, WalkAdd
  <2>4. QED
    BY <2>2, <2>3
<1>2. QED
  BY <1>1, Zenon DEF Product, Times

(* When all cycles have the same length, the split generates the powers of *)
(* the permutation and nothing else.                                       *)
LEMMA SplitInvExact == SplitInv => UniformSplitExact
<1> SUFFICES ASSUME SplitInv, EqualCycles
             PROVE  /\ Results \subseteq Powers(perm)
                    /\ Done => Powers(perm)
                         \subseteq Products(Results, Cardinality(Powers(perm)))
  BY DEF UniformSplitExact
<1>1. perm \in LitPerms
  BY PoolAssumption DEF SplitInv
<1>2. PICK L : Uniform(perm, L)
  BY <1>1, UniformLength
<1>3. L \in Nat /\ L >= 1 /\ (L = 1 \/ L <= Cardinality(Lits))
  BY <1>2 DEF Uniform
<1>4. Times(perm, 0) = IdPerm
  BY <1>1, TimesFacts
<1>5. Times(perm, L) = IdPerm
  <2>1. 0 \in Nat /\ 0 + L = L
    BY <1>3
  <2>2. Times(perm, 0 + L) = Times(perm, 0)
    BY <1>1, <1>2, <2>1, UniformPeriod
  <2>3. QED
    BY <1>4, <2>1, <2>2
<1>6. PICK W : W = Powers(perm)
  OBVIOUS
<1>7. /\ \A k \in Nat : Times(perm, k) \in W
      /\ \A x \in W : \E k \in Nat : x = Times(perm, k)
      /\ IsFiniteSet(W)
  BY <1>1, <1>3, <1>5, <1>6, PowersAre
<1>8. ASSUME NEW p \in Results PROVE \E k \in Nat : p = Times(perm, k)
  <2>1. PICK g \in [Lengths -> Nat] : p = ShiftBy(perm, g)
    BY ResultsAreShifts
  <2>2. QED
    BY <1>1, <1>2, <2>1, UniformShift
<1>9. Results \subseteq W
  BY <1>7, <1>8
<1>10. ASSUME Done PROVE W \subseteq Products(Results, Cardinality(W))
  <2>1. IdPerm \in W
    <3>1. 0 \in Nat
      OBVIOUS
    <3>2. QED
      BY <1>4, <1>7, <3>1
  <2>2. ClosedUnder(W, Results)
    <3>1. SUFFICES ASSUME NEW x \in W, NEW p \in Results PROVE Product(x, p) \in W
      BY DEF ClosedUnder
    <3>2. PICK h \in Nat, k \in Nat : x = Times(perm, h) /\ p = Times(perm, k)
      BY <1>7, <1>8
    <3>3. Product(x, p) = Times(perm, h + k) /\ h + k \in Nat
      BY <1>1, <3>2, TimesAdd
    <3>4. QED
      BY <1>7, <3>3
  <2>3. PICK n \in Nat : n = Cardinality(W)
    BY <1>7, FS_CardinalityType
  <2>4. PICK R : R = Products(Results, n)
    OBVIOUS
  <2>5. IdPerm \in R /\ ClosedUnder(R, Results)
    <3>1. n >= Cardinality(W)
      BY <2>3
    <3>2. QED
      BY <1>7, <2>1, <2>2, <2>4, <3>1, ProductsClosed
  <2> DEFINE H == {h \in Nat : Times(perm, h) \in R}
  <2>6. 0 \in H
    BY <1>4, <2>5
  <2>7. ASSUME NEW h \in Nat PROVE h \in H <=> h + L \in H
    <3>1. Times(perm, h + L) = Times(perm, h) /\ h + L \in Nat
      BY <1>1, <1>2, <1>3, UniformPeriod
    <3>2. QED
      BY <3>1
  <2>8. ASSUME NEW f \in Factors(L), NEW h \in Nat, h \in H
        PROVE  h + (L \div Pow(f[1], f[2])) \in H
    <3>1. PICK d : d = L \div Pow(f[1], f[2])
      OBVIOUS
    <3>2. Pow(f[1], f[2]) \in CutLengths(L)
      BY DEF CutLengths
    <3>3. d \in Nat /\ L # 1
      BY <1>3, <3>1, <3>2, CutLengthFacts
    <3>4. PICK m \in Lits : CycleLength(perm, m) = L
      BY <1>2, <3>3 DEF Uniform
    <3>5. PICK p : p = PrimeShift(f[1])
      OBVIOUS
    <3>6. /\ p \in Results
          /\ \A l \in Lits : CycleLength(perm, l) = L =>
                \A i \in Nat : p[Walk(perm, l)[i]] = Walk(perm, l)[i + d]
      BY <1>10, <3>1, <3>4, <3>5, PrimeShiftDone
    <3>7. PICK k \in Nat : p = Times(perm, k)
      BY <1>8, <3>6
    <3>8. Times(perm, k) = Times(perm, d)
      <4>1. ASSUME NEW l \in Lits PROVE Walk(perm, l)[k] = Walk(perm, l)[d]
        <5>1. CASE perm[l] = l
          BY <1>1, <3>3, <5>1, FixedWalk
        <5>2. CASE CycleLength(perm, l) = L
          <6>1. PICK i \in Nat : i = 0
            OBVIOUS
          <6>2. p[Walk(perm, l)[i]] = Walk(perm, l)[i + d] /\ i + d = d
            BY <3>3, <3>6, <5>2, <6>1
          <6>3. Walk(perm, l)[i] = l
            BY <1>1, <6>1, WalkFacts DEF Chain
          <6>4. p[l] = Walk(perm, l)[k]
            BY <3>7 DEF Times
          <6>5. QED
            BY <6>2, <6>3, <6>4
        <5>3. QED
          BY <1>2, <5>1, <5>2 DEF Uniform
      <4>2. QED
        BY <4>1, Zenon DEF Times
    <3>9. Product(Times(perm, h), p) \in R
      BY <2>5, <2>8, <3>6 DEF ClosedUnder
    <3>10. Product(Times(perm, h), Times(perm, d)) = Times(perm, h + d)
      BY <1>1, <3>3, TimesAdd
    <3>11. Times(perm, h + d) \in R /\ h + d \in Nat
      BY <3>3, <3>7, <3>8, <3>9, <3>10
    <3>12. QED
      BY <3>1, <3>11
  <2> HIDE DEF H
  <2>9. Nat \subseteq H
    BY <1>3, <2>6, <2>7, <2>8, StepsReachAll
  <2>10. W \subseteq R
    BY <1>7, <2>9 DEF H
  <2>11. QED
    BY <2>3, <2>4, <2>10
<1>11. QED
  BY <1>6, <1>9, <1>10

(* The split of a permutation whose cycles have one length generates its   *)
(* group.                                                                  *)
THEOREM SplitExactWhenUniform == Spec => []UniformSplitExact
BY SplitInvariant, SplitInvExact, PTL
=============================================================================
